-------------------------------- MODULE Result --------------------------------
(***************************************************************************)
(* result<T, E>: one block of storage for a value or an error, and a flag  *)
(* that says which.  result<void, E> keeps an optional error instead.      *)
(***************************************************************************)
EXTENDS Naturals

CONSTANTS
    Slots,      \* objects of type result<T, E>
    Values      \* the values of T, and those of E

VARIABLES
    result,     \* each object: does it exist, error_, what storage_ holds
    meant,      \* history: the result that was last put into each object
    torn,       \* history: objects whose constructor has thrown
    misused     \* history: objects whose storage_ was taken for what it is not

resultVars == <<result, meant, torn, misused>>

(* A result as its user sees it. *)
Fresh == [error : BOOLEAN, value : Values]

Either == [error : BOOLEAN, value : Values \union {"moved"}]

Ok(v)  == [error |-> FALSE, value |-> v]
Err(v) == [error |-> TRUE, value |-> v]

(* storage_: the type that lives in it ("T", "E" or "none") and its value. *)
Storage == [type : {"T", "E", "none"}, value : Values \union {"moved"}]

TypeOf(error) == IF error THEN "E" ELSE "T"

ResultInit ==
    /\ result = [r \in Slots |-> [exists |-> FALSE, error |-> FALSE,
                                  storage |-> [type |-> "none", value |-> "moved"]]]
    /\ meant = [r \in Slots |-> Ok("moved")]
    /\ torn = {} /\ misused = {}

ResultTypeOK ==
    /\ result \in [Slots -> [exists : BOOLEAN, error : BOOLEAN, storage : Storage]]
    /\ meant \in [Slots -> Either]
    /\ torn \subseteq Slots /\ misused \subseteq Slots

(***************************************************************************)
(* Steps, on a record of the objects and of the misuse.                    *)
(***************************************************************************)

Storages == [result |-> result, misused |-> misused]

(* construct.  An object that still lives in the storage is lost. *)
Constructed(s, r, e) ==
    [s EXCEPT !.misused = @ \union {x \in {r} : s.result[r].storage.type # "none"},
              !.result[r] = [exists |-> TRUE, error |-> e.error,
                             storage |-> [type |-> TypeOf(e.error), value |-> e.value]]]

(* destroy. *)
DestroyedStorage(s, r) ==
    [s EXCEPT !.misused = @ \union {x \in {r} : s.result[r].storage.type # TypeOf(s.result[r].error)},
              !.result[r].storage = [type |-> "none", value |-> "moved"]]

(* assign_value. *)
AssignedValue(s, r, e) ==
    [s EXCEPT !.misused = @ \union {x \in {r} : s.result[r].storage.type # TypeOf(e.error)},
              !.result[r].storage.value = e.value, !.result[r].error = e.error]

(* Mutant: the object that is replaced is not destroyed. *)
AssignedOver(s, r, e) ==
    IF s.result[r].error = e.error THEN AssignedValue(s, r, e)
    ELSE Constructed(s, r, e)

(* assign. *)
AssignedTo(s, r, e) ==
    IF s.result[r].error = e.error THEN AssignedValue(s, r, e)
    ELSE Constructed(DestroyedStorage(s, r), r, e)

(* emplace_assign. *)
Emplaced(s, r, e) == Constructed(DestroyedStorage(s, r), r, e)

(* get_ok_impl, get_err_impl: what is read, and how reading by an rvalue   *)
(* leaves it.                                                              *)
Content(s, r) == [error |-> s.result[r].error, value |-> s.result[r].storage.value]

TakenFrom(s, r, rvalue) ==
    [s EXCEPT !.misused = @ \union {x \in {r} : s.result[r].storage.type # TypeOf(s.result[r].error)},
              !.result[r].storage.value = IF rvalue THEN "moved" ELSE @]

(***************************************************************************)
(* The operations.  Those that copy a T or an E may throw: the storage is  *)
(* then left as it is at that point.                                       *)
(***************************************************************************)

Lives(r) == result[r].exists

Effect(s) == result' = s.result /\ misused' = s.misused

(* The object r means e, and if it was moved the object from means nothing. *)
Means(r, e, from, rvalue) ==
    meant' = IF rvalue /\ from # r
               THEN [meant EXCEPT ![r] = e, ![from].value = "moved"] ELSE [meant EXCEPT ![r] = e]

MakeResult(r) ==
    /\ ~Lives(r)
    /\ \E e \in Fresh : Effect(Constructed(Storages, r, e)) /\ meant' = [meant EXCEPT ![r] = e]
    /\ UNCHANGED torn

(* The constructor of a copy that throws leaves no object behind. *)
CopyResult(r, from, rvalue) ==
    /\ ~Lives(r) /\ Lives(from) /\ from \notin torn
    /\ Effect(Constructed(TakenFrom(Storages, from, rvalue), r, Content(Storages, from)))
    /\ Means(r, meant[from], from, rvalue)
    /\ UNCHANGED torn

(* A move of a result onto itself moves what it holds onto itself; what is *)
(* left then is up to T and E.                                             *)
AssignResult(r, from, rvalue) ==
    /\ Lives(r) /\ Lives(from) /\ {r, from} \intersect torn = {} /\ (rvalue => r # from)
    /\ Effect(AssignedTo(TakenFrom(Storages, from, rvalue), r, Content(Storages, from)))
    /\ Means(r, meant[from], from, rvalue)
    /\ UNCHANGED torn

AssignValue(r) ==
    /\ Lives(r) /\ r \notin torn
    /\ \E e \in Fresh : /\ \/ Effect(AssignedTo(Storages, r, e))
                            \/ Effect(Emplaced(Storages, r, e))
                         /\ meant' = [meant EXCEPT ![r] = e]
    /\ UNCHANGED torn

(* The copy or the arguments of emplace throw, after destroy. *)
ThrowAfterDestroy(r) ==
    /\ Lives(r) /\ r \notin torn
    /\ Effect(DestroyedStorage(Storages, r))
    /\ torn' = torn \union {r}
    /\ UNCHANGED meant

DestroyResult(r) ==
    /\ Lives(r)
    /\ Effect([DestroyedStorage(Storages, r) EXCEPT !.result[r].exists = FALSE])
    /\ UNCHANGED <<meant, torn>>

(***************************************************************************)
(* Chains: e is what the given function makes of a value, or a default.    *)
(***************************************************************************)

AndThen(x, e) == IF x.error THEN x ELSE e

Map(x, e) == IF x.error THEN x ELSE Ok(e.value)

MapErr(x, e) == IF x.error THEN Err(e.value) ELSE x

(* ok_or and err_or, the value of which makes another result. *)
OrElse(x, e) == IF x.error = e.error THEN x ELSE e

(* What a chain returns, put into r.  On an rvalue, what is used of the    *)
(* first result is moved.                                                  *)
Chained(r, from, rvalue, Op(_, _), e) ==
    /\ Effect(Constructed(TakenFrom(Storages, from, rvalue), r, Op(Content(Storages, from), e)))
    /\ Means(r, Op(meant[from], e), from, rvalue)

Chain(r, from, rvalue) ==
    /\ ~Lives(r) /\ Lives(from) /\ from \notin torn
    /\ \E e \in Fresh :
          \/ Chained(r, from, rvalue, AndThen, e)
          \/ Chained(r, from, rvalue, Map, e)
          \/ Chained(r, from, rvalue, MapErr, e)
          \/ Chained(r, from, rvalue, OrElse, e)
    /\ UNCHANGED torn

(* ok() and err() put into r what they return; what is not there throws    *)
(* bad_result_access.                                                      *)
Access(r, from, rvalue) ==
    /\ ~Lives(r) /\ Lives(from) /\ from \notin torn
    /\ \E error \in BOOLEAN :
          /\ result[from].error = error
          /\ Effect(Constructed(TakenFrom(Storages, from, rvalue), r,
                                [error |-> error, value |-> result[from].storage.value]))
    /\ Means(r, meant[from], from, rvalue)
    /\ UNCHANGED torn

ResultNext ==
    \/ \E r \in Slots : MakeResult(r) \/ AssignValue(r) \/ ThrowAfterDestroy(r) \/ DestroyResult(r)
    \/ \E r, from \in Slots, rvalue \in BOOLEAN :
          CopyResult(r, from, rvalue) \/ AssignResult(r, from, rvalue)
             \/ Chain(r, from, rvalue) \/ Access(r, from, rvalue)

(***************************************************************************)
(* Properties.                                                             *)
(***************************************************************************)

(* However results are copied, moved, switched between value and error and *)
(* chained, each holds what was last put into it, its flag tells the type  *)
(* of the object in its storage, and that object is constructed once and   *)
(* destroyed once: unless a constructor throws after destroy, which leaves *)
(* an object that will be destroyed a second time.                         *)
HoldsWhatItMeans ==
    /\ misused \subseteq torn
    /\ \A r \in Slots \ torn : Lives(r) =>
          /\ result[r].storage.type = TypeOf(result[r].error)
          /\ Content(Storages, r) = meant[r]
==============================================================================
