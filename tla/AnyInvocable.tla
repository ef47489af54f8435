----------------------------- MODULE AnyInvocable -----------------------------
(***************************************************************************)
(* any_invocable: the type-erased, move-only holder of a callback.  What   *)
(* it holds is kept in the holder itself or on the heap; the manager knows *)
(* how to move and to dispose of it, the invoker how to call it.           *)
(***************************************************************************)
EXTENDS Integers, FiniteSets

CONSTANTS
    Holders,    \* objects of type any_invocable
    Temporary,  \* the unnamed holder of a conversion or a swap
    Functions,  \* callable objects
    Boxes,      \* holders of another signature that are themselves held, on the heap
    Nothing     \* the content of a holder without one

ASSUME InvocableAssumption ==
    /\ Temporary \in Holders /\ Nothing \notin Functions \union Boxes \union Holders
    /\ Functions \intersect Boxes = {} /\ Holders \intersect (Functions \union Boxes) = {}

VARIABLES
    kind,       \* how each callable is stored: see Managers
    holder,     \* each holder and box: whether it exists, its manager_, invoker_ and state_
    instances,  \* history: how often each callable was constructed, less how often destroyed
    used,       \* history: callables that were constructed
    deadCalls   \* history: callables called that do not exist

invocableVars == <<kind, holder, instances, used, deadCalls>>

Callables == Functions \union Boxes

(* The managers by the storage they are for; "bits": local and trivially   *)
(* copyable, "local": local otherwise, "remote": on the heap.              *)
Managers == {"empty", "bits", "local", "remote"}

(* "spent": the invoker left by a call through an rvalue.                  *)
Invokers == {"null", "call", "spent"}

Vacant(exists) == [exists |-> exists, manager |-> "empty", invoker |-> "null", state |-> Nothing]

InvocableInit ==
    /\ kind \in [Callables -> Managers \ {"empty"}] /\ \A b \in Boxes : kind[b] = "remote"
    /\ holder = [h \in Holders \union Boxes |-> Vacant(FALSE)]
    /\ instances = [t \in Callables |-> 0]
    /\ used = {} /\ deadCalls = {}

InvocableTypeOK ==
    /\ kind \in [Callables -> Managers \ {"empty"}]
    /\ holder \in [Holders \union Boxes ->
          [exists : BOOLEAN, manager : Managers, invoker : Invokers, state : Callables \union {Nothing}]]
    /\ instances \in [Callables -> Int]
    /\ used \subseteq Callables /\ deadCalls \subseteq Callables

(***************************************************************************)
(* The steps of an operation, on a record of the holders and the history.  *)
(***************************************************************************)

Objects == [holder |-> holder, instances |-> instances, used |-> used]

Becomes(s) == holder' = s.holder /\ instances' = s.instances /\ used' = s.used /\ UNCHANGED kind

(* function_to_call::dispose.  A box is a holder: its destructor disposes  *)
(* of what is in it, and this is never a box again.                        *)
DisposedOf(s, h) ==
    CASE s.holder[h].manager \in {"empty", "bits"} -> s
      [] OTHER -> [s EXCEPT !.instances[s.holder[h].state] = @ - 1]

Disposed(s, h) ==
    LET t     == s.holder[h].state
        inner == IF t \in Boxes /\ s.holder[h].manager = "remote"
                   THEN [DisposedOf(s, t) EXCEPT !.holder[t] = Vacant(FALSE)] ELSE s
    IN DisposedOf(inner, h)

(* clear. *)
Cleared(s, h) == [Disposed(s, h) EXCEPT !.holder[h] = Vacant(TRUE)]

(* Mutant: the holder that was moved from keeps its manager. *)
RelocatedKeepingManager(s, from, to) ==
    [s EXCEPT !.holder[to] = [s.holder[from] EXCEPT !.exists = TRUE],
              !.holder[from].invoker = "null"]

(* relocate_from_to, manager_ and invoker_: moving a local object makes    *)
(* another one of it and destroys the first, which cancels out.            *)
Relocated(s, from, to) ==
    [s EXCEPT !.holder[to] = [s.holder[from] EXCEPT !.exists = TRUE],
              !.holder[from] = Vacant(TRUE)]

(* operator=(any_invocable&&), also from the holder itself. *)
Moved(s, from, to) == Relocated(Cleared(s, to), from, to)

Destroyed(s, h) == [Disposed(s, h) EXCEPT !.holder[h] = Vacant(FALSE)]

(* initialize_storage. *)
Stored(s, h, t) ==
    [s EXCEPT !.holder[h] = [exists |-> TRUE, manager |-> kind[t], invoker |-> "call", state |-> t],
              !.instances[t] = @ + 1, !.used = @ \union {t}]

(* initialize.  A null pointer to a function leaves the holder empty; a    *)
(* holder of a compatible signature is moved from, an incompatible one is  *)
(* moved to the heap as a whole, unless it is empty.                       *)
FromCallable(s, h, t) == Stored(s, h, t)

FromNull(s, h) == [s EXCEPT !.holder[h] = Vacant(TRUE)]

FromCompatible(s, h, f) == Relocated(s, f, h)

FromIncompatible(s, h, f, box) ==
    IF s.holder[f].invoker = "null" THEN FromNull(s, h)
    ELSE Stored(Relocated(s, f, box), h, box)

(***************************************************************************)
(* The operations.                                                         *)
(***************************************************************************)

Exists(h) == holder[h].exists

Unused(t) == t \notin used

Variables == Holders \ {Temporary}

(* A holder that is constructed for h: h itself, or the temporary that an  *)
(* assignment of something else than a holder moves to h.                  *)
Into(h) == IF Exists(h) THEN Temporary ELSE h

Assigned(s, h) == IF Exists(h) THEN Destroyed(Moved(s, Temporary, h), Temporary) ELSE s

Construct(h) ==
    /\ \/ \E t \in Functions : Unused(t) /\ Becomes(Assigned(FromCallable(Objects, Into(h), t), h))
       \/ ~Exists(h) /\ Becomes(FromNull(Objects, h))
       \/ Exists(h) /\ Becomes(Cleared(Objects, h))
    /\ UNCHANGED deadCalls

Convert(h, f) ==
    /\ Exists(f) /\ f # h
    /\ \/ Becomes(Assigned(FromCompatible(Objects, Into(h), f), h))
       \/ \E box \in Boxes : /\ Unused(box) /\ holder[f].state \notin Boxes
                             /\ Becomes(Assigned(FromIncompatible(Objects, Into(h), f, box), h))
    /\ UNCHANGED deadCalls

MoveAssign(h, f) ==
    /\ Exists(h) /\ Exists(f)
    /\ Becomes(Moved(Objects, f, h))
    /\ UNCHANGED deadCalls

(* std::swap: a move construction and two move assignments. *)
Swap(h, f) ==
    /\ Exists(h) /\ Exists(f)
    /\ LET first == Relocated(Objects, h, Temporary)
       IN Becomes(Destroyed(Moved(Moved(first, f, h), Temporary, f), Temporary))
    /\ UNCHANGED deadCalls

Destroy(h) ==
    /\ Exists(h)
    /\ Becomes(Destroyed(Objects, h))
    /\ UNCHANGED deadCalls

(* operator().  A call of a holder that is empty, or that was called as an *)
(* rvalue before, ends in an assertion; a call of a box calls what is in it. *)
Call(h, rvalue) ==
    /\ Exists(h) /\ holder[h].invoker = "call"
    /\ LET t == holder[h].state
           called == {t} \union (IF t \in Boxes /\ holder[t].invoker = "call" THEN {holder[t].state} ELSE {})
       IN deadCalls' = deadCalls \union {u \in called : u = Nothing \/ instances[u] <= 0}
    /\ holder' = IF rvalue THEN [holder EXCEPT ![h].invoker = "spent"] ELSE holder
    /\ UNCHANGED <<kind, instances, used>>

InvocableNext ==
    \/ \E h \in Variables : Construct(h) \/ Destroy(h) \/ \E rvalue \in BOOLEAN : Call(h, rvalue)
    \/ \E h, f \in Variables : Convert(h, f) \/ MoveAssign(h, f) \/ Swap(h, f)

InvocableSpec == InvocableInit /\ [][InvocableNext]_invocableVars

(***************************************************************************)
(* Properties.                                                             *)
(***************************************************************************)

Owners(t) == {h \in Holders \union Boxes :
                 Exists(h) /\ holder[h].manager # "empty" /\ holder[h].state = t}

(* Whatever is moved, swapped, converted, cleared and destroyed, a callable *)
(* has exactly one owner while it exists and none afterwards, is destroyed *)
(* as often as it was constructed, and is not called when it is gone.      *)
OneOwner ==
    /\ \A t \in Callables :
          /\ Cardinality(Owners(t)) <= 1
          /\ kind[t] # "bits" => instances[t] = Cardinality(Owners(t))
    /\ deadCalls = {}
    /\ ~Exists(Temporary)
==============================================================================
