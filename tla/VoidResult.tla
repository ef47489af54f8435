------------------------------ MODULE VoidResult ------------------------------
(***************************************************************************)
(* result<void, E>: an optional error, OK without one; and the chains that *)
(* lead from it to a result<T, E> and back.                                *)
(***************************************************************************)
EXTENDS Result

CONSTANTS
    Optionals,  \* objects of type result<void, E>
    Targets     \* bound: the objects of type result<T, E> they are chained with

ASSUME TargetAssumption == Targets \subseteq Slots

VARIABLES
    optional,       \* each object: does it exist, error_ and the value in it
    meantVoid,      \* history: the result that was last put into each object
    emptied         \* history: objects in which the construction of an error has thrown

voidVars == <<optional, meantVoid, emptied>>

(* A result without a value of its own.                                    *)
Done == Ok("moved")

VoidFresh == {Done} \union {Err(v) : v \in Values}

VoidEither == VoidFresh \union {Err("moved")}

VoidInit ==
    /\ optional = [o \in Optionals |-> [exists |-> FALSE, error |-> FALSE, value |-> "moved"]]
    /\ meantVoid = [o \in Optionals |-> Done]
    /\ emptied = {}

VoidTypeOK ==
    /\ optional \in [Optionals -> [exists : BOOLEAN, error : BOOLEAN, value : Values \union {"moved"}]]
    /\ meantVoid \in [Optionals -> VoidEither]
    /\ emptied \subseteq Optionals

Stands(o) == optional[o].exists

VoidContent(o) == [error |-> optional[o].error, value |-> optional[o].value]

(* What is left in from: an optional that was moved from still has its      *)
(* error, moved.                                                            *)
Spent(x, rvalue) == IF rvalue /\ x.error THEN Err("moved") ELSE x

(* o becomes what F makes of from.                                          *)
Takes(o, from, rvalue, F(_)) ==
    /\ optional' = [optional EXCEPT
          ![from].value = Spent(VoidContent(from), rvalue).value,
          ![o] = [exists |-> TRUE, error |-> F(VoidContent(from)).error, value |-> F(VoidContent(from)).value]]
    /\ meantVoid' = [meantVoid EXCEPT ![from] = Spent(@, rvalue), ![o] = F(meantVoid[from])]
    /\ UNCHANGED <<emptied, resultVars>>

Puts(o, x) ==
    /\ optional' = [optional EXCEPT ![o] = [exists |-> TRUE, error |-> x.error, value |-> x.value]]
    /\ meantVoid' = [meantVoid EXCEPT ![o] = x]
    /\ UNCHANGED emptied

Sound(o) == Stands(o) /\ o \notin emptied

(***************************************************************************)
(* The operations.                                                         *)
(***************************************************************************)

MakeVoid(o) ==
    /\ ~Stands(o)
    /\ \E x \in VoidFresh : Puts(o, x)
    /\ UNCHANGED resultVars

(* Copies and moves, into a new object or an existing one. *)
CopyVoid(o, from, rvalue) ==
    /\ o # from /\ Sound(from) /\ o \notin emptied
    /\ Takes(o, from, rvalue, LAMBDA x : x)

(* emplace, set_ok. *)
EmplaceVoid(o) ==
    /\ Sound(o)
    /\ \E x \in VoidFresh : Puts(o, x)
    /\ UNCHANGED resultVars

(* emplace of an error destroys the old one first; if the construction     *)
(* then throws there is none, and the result is OK.                        *)
ThrowInEmplace(o) ==
    /\ Sound(o)
    /\ optional' = [optional EXCEPT ![o].error = FALSE, ![o].value = "moved"]
    /\ emptied' = emptied \union {o}
    /\ UNCHANGED <<meantVoid, resultVars>>

DestroyVoid(o) ==
    /\ Stands(o)
    /\ optional' = [optional EXCEPT ![o] = [exists |-> FALSE, error |-> FALSE, value |-> "moved"]]
    /\ emptied' = emptied \ {o}
    /\ UNCHANGED <<meantVoid, resultVars>>

(* and_then and map_err, to another result<void, E>; e is what the given   *)
(* function makes.                                                         *)
ChainVoid(o, from, rvalue) ==
    /\ ~Stands(o) /\ Sound(from)
    /\ \E e \in VoidFresh :
          \/ Takes(o, from, rvalue, LAMBDA x : AndThen(x, e))
          \/ Takes(o, from, rvalue, LAMBDA x : MapErr(x, e))

(* and_then of a result<T, E>, to a result<void, E>. *)
EnterVoid(o, r, rvalue) ==
    /\ ~Stands(o) /\ Lives(r) /\ r \notin torn
    /\ Effect(TakenFrom(Storages, r, rvalue))
    /\ meant' = IF rvalue THEN [meant EXCEPT ![r].value = "moved"] ELSE meant
    /\ \E e \in VoidFresh :
          LET gives == AndThen(Content(Storages, r), e)
          IN /\ optional' = [optional EXCEPT ![o] =
                                [exists |-> TRUE, error |-> gives.error, value |-> gives.value]]
             /\ meantVoid' = [meantVoid EXCEPT ![o] = AndThen(meant[r], e)]
    /\ UNCHANGED <<emptied, torn>>

LeavesAs(r, from, F(_)) ==
    /\ Effect(Constructed(Storages, r, F(VoidContent(from))))
    /\ meant' = [meant EXCEPT ![r] = F(meantVoid[from])]

(* and_then and map make a result<T, E>; what err and err_or return is put *)
(* into one.  err of a result without an error throws.                     *)
LeaveVoid(r, from, rvalue) ==
    /\ ~Lives(r) /\ Sound(from)
    /\ \E e \in Fresh :
          \/ LeavesAs(r, from, LAMBDA x : AndThen(x, e))
          \/ LeavesAs(r, from, LAMBDA x : Map(x, e))
          \/ LeavesAs(r, from, LAMBDA x : OrElse(x, Err(e.value)))
    /\ optional' = [optional EXCEPT ![from].value = Spent(VoidContent(from), rvalue).value]
    /\ meantVoid' = [meantVoid EXCEPT ![from] = Spent(@, rvalue)]
    /\ UNCHANGED <<emptied, torn>>

VoidNext ==
    \/ \E o \in Optionals : MakeVoid(o) \/ EmplaceVoid(o) \/ ThrowInEmplace(o) \/ DestroyVoid(o)
    \/ \E o, from \in Optionals, rvalue \in BOOLEAN : CopyVoid(o, from, rvalue) \/ ChainVoid(o, from, rvalue)
    \/ \E o \in Optionals, r \in Targets, rvalue \in BOOLEAN : EnterVoid(o, r, rvalue) \/ LeaveVoid(r, o, rvalue)
    \/ UNCHANGED voidVars /\ \E r \in Targets : DestroyResult(r)

(* Results of both kinds, in any order. *)
ResultsSpec ==
    /\ ResultInit /\ VoidInit
    /\ [][VoidNext \/ (ResultNext /\ UNCHANGED voidVars)]_<<resultVars, voidVars>>

(***************************************************************************)
(* Properties.                                                             *)
(***************************************************************************)

(* However results of both kinds are copied, moved, switched between value *)
(* and error and chained into one another, each holds what was last put    *)
(* into it, its flag tells the type of the object in its storage, and that *)
(* object is constructed once and destroyed once: unless a constructor     *)
(* throws after destroy, which tears a result<T, E> and turns a            *)
(* result<void, E> with an error into OK.                                  *)
ResultsHold ==
    /\ HoldsWhatItMeans
    /\ \A o \in Optionals : Sound(o) => VoidContent(o) = meantVoid[o]
===============================================================================
