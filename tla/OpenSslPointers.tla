---------------------------- MODULE OpenSslPointers ----------------------------
(***************************************************************************)
(* The owners of OpenSSL's objects.  A unique pointer frees what it holds; *)
(* a scoped pointer (certificates and keys) may share it, and counts its   *)
(* references with the count that OpenSSL keeps in the object.             *)
(***************************************************************************)
EXTENDS Integers, FiniteSets

CONSTANTS
    Pointers,   \* smart pointers, temporaries included
    Scoped,     \* those that share: openssl_scoped_ptr
    Natives,    \* objects of OpenSSL
    Null,       \* nullptr
    MaxLibrary  \* bound: references OpenSSL holds on one object

ASSUME PointerAssumption ==
    /\ IsFiniteSet(Pointers) /\ Scoped \subseteq Pointers
    /\ Null \notin Natives /\ MaxLibrary \in Nat

VARIABLES
    pointer,    \* each smart pointer: does it exist, and native_
    count,      \* each object: OpenSSL's count of references; 0 is freed
    library,    \* each object: the references that contexts and sessions of OpenSSL hold
    allocated,       \* history: objects that were allocated
    chained     \* history: certificates added to the chain of a context

pointerVars == <<pointer, count, library, allocated, chained>>

PointerInit ==
    /\ pointer = [p \in Pointers |-> [exists |-> FALSE, native |-> Null]]
    /\ count = [n \in Natives |-> 0] /\ library = [n \in Natives |-> 0]
    /\ allocated = {} /\ chained = {}

PointerTypeOK ==
    /\ pointer \in [Pointers -> [exists : BOOLEAN, native : Natives \union {Null}]]
    /\ count \in [Natives -> Int] /\ library \in [Natives -> 0..MaxLibrary]
    /\ allocated \subseteq Natives /\ chained \subseteq Natives

(***************************************************************************)
(* Steps, on a record of the pointers and the counts.                      *)
(***************************************************************************)

Counted == [pointer |-> pointer, count |-> count]

Holds(p) == pointer[p].native

(* IncrementFunction, and FreeFunction. *)
Incremented(s, n) == IF n = Null THEN s ELSE [s EXCEPT !.count[n] = @ + 1]
Freed(s, n)       == IF n = Null THEN s ELSE [s EXCEPT !.count[n] = @ - 1]

Constructs(s, p, n) == [s EXCEPT !.pointer[p] = [exists |-> TRUE, native |-> n]]

(* operator= of openssl_base_ptr. *)
MoveAssigned(s, p, q) ==
    [s EXCEPT !.pointer[p].native = s.pointer[q].native,
              !.pointer[q].native = s.pointer[p].native]

(* Mutant: the old object is overwritten, and the new one not counted. *)
CopyAssignedUncounted(s, p, q) == [s EXCEPT !.pointer[p].native = s.pointer[q].native]

(* operator= of openssl_scoped_ptr. *)
CopyAssigned(s, p, q) ==
    LET old == s.pointer[p].native
        new == s.pointer[q].native
    IN IF old = new THEN s
       ELSE Incremented([Freed(s, old) EXCEPT !.pointer[p].native = new], new)

Becoming(s) == pointer' = s.pointer /\ count' = s.count

(***************************************************************************)
(* The operations of the pointers.                                         *)
(***************************************************************************)

Alive(p) == pointer[p].exists

(* in_place, or wrap_unique of what OpenSSL has just made; null if it      *)
(* could not.                                                              *)
Allocate(p) ==
    /\ ~Alive(p)
    /\ \E n \in (Natives \ allocated) \union {Null} :
          /\ Becoming(Incremented(Constructs(Counted, p, n), n))
          /\ allocated' = allocated \union ({n} \ {Null})
    /\ UNCHANGED <<library, chained>>

(* unique_native_file::open, bio::open, on the pointer that was just made. *)
Open(p) ==
    /\ Alive(p) /\ p \notin Scoped /\ Holds(p) = Null
    /\ \E n \in Natives \ allocated : /\ Becoming(Incremented(Constructs(Counted, p, n), n))
                                 /\ allocated' = allocated \union {n}
    /\ UNCHANGED <<library, chained>>

(* The reference constructor, and wrap_unique of a reference that OpenSSL  *)
(* counted for its caller.                                                 *)
Reference(p, n) ==
    /\ ~Alive(p) /\ p \in Scoped /\ library[n] > 0
    /\ Becoming(Incremented(Constructs(Counted, p, n), n))
    /\ UNCHANGED <<library, allocated, chained>>

CopyPointer(p, q) ==
    /\ ~Alive(p) /\ Alive(q) /\ {p, q} \subseteq Scoped
    /\ Becoming(CopyAssigned(Constructs(Counted, p, Null), p, q))
    /\ UNCHANGED <<library, allocated, chained>>

CopyAssignPointer(p, q) ==
    /\ Alive(p) /\ Alive(q) /\ {p, q} \subseteq Scoped
    /\ Becoming(CopyAssigned(Counted, p, q))
    /\ UNCHANGED <<library, allocated, chained>>

(* Also the bio that takes the handle out of a unique_native_file. *)
MovePointer(p, q) ==
    /\ ~Alive(p) /\ Alive(q) /\ (p \in Scoped <=> q \in Scoped)
    /\ Becoming(MoveAssigned(Constructs(Counted, p, Null), p, q))
    /\ UNCHANGED <<library, allocated, chained>>

MoveAssignPointer(p, q) ==
    /\ Alive(p) /\ Alive(q) /\ (p \in Scoped <=> q \in Scoped)
    /\ Becoming(MoveAssigned(Counted, p, q))
    /\ UNCHANGED <<library, allocated, chained>>

DestroyPointer(p) ==
    /\ Alive(p)
    /\ Becoming([Freed(Counted, Holds(p)) EXCEPT !.pointer[p] = [exists |-> FALSE, native |-> Null]])
    /\ UNCHANGED <<library, allocated, chained>>

(***************************************************************************)
(* Where OpenSSL takes references.                                         *)
(***************************************************************************)

(* establish_tls_async: the context takes over the reference to dhpkey,    *)
(* and increment makes another one for the store.                          *)
SetDhKey(p) ==
    /\ Alive(p) /\ p \in Scoped /\ Holds(p) # Null /\ library[Holds(p)] < MaxLibrary
    /\ Becoming(Incremented(Counted, Holds(p)))
    /\ library' = [library EXCEPT ![Holds(p)] = @ + 1]
    /\ UNCHANGED <<allocated, chained>>

(* establish_tls_async: the context takes over the reference to each       *)
(* certificate of the server's chain, of which the server connection keeps *)
(* its own.                                                                *)
AddToChain(p) ==
    /\ Alive(p) /\ p \in Scoped /\ Holds(p) # Null
    /\ count[Holds(p)] > 0 /\ library[Holds(p)] < MaxLibrary
    /\ library' = [library EXCEPT ![Holds(p)] = @ + 1]
    /\ chained' = chained \union {Holds(p)}
    /\ UNCHANGED <<pointer, count, allocated>>

(* A session reads a certificate of the peer. *)
LibraryReads(n) ==
    /\ n \notin allocated /\ MaxLibrary > 0
    /\ count' = [count EXCEPT ![n] = 1] /\ library' = [library EXCEPT ![n] = 1]
    /\ allocated' = allocated \union {n}
    /\ UNCHANGED <<pointer, chained>>

(* A context or a session is freed. *)
LibraryFrees(n) ==
    /\ library[n] > 0
    /\ count' = [count EXCEPT ![n] = @ - 1] /\ library' = [library EXCEPT ![n] = @ - 1]
    /\ UNCHANGED <<pointer, allocated, chained>>

PointerNext ==
    \/ \E p \in Pointers : Allocate(p) \/ Open(p) \/ DestroyPointer(p) \/ SetDhKey(p) \/ AddToChain(p)
    \/ \E p \in Pointers, n \in Natives : Reference(p, n)
    \/ \E p, q \in Pointers :
          CopyPointer(p, q) \/ CopyAssignPointer(p, q) \/ MovePointer(p, q) \/ MoveAssignPointer(p, q)
    \/ \E n \in Natives : LibraryReads(n) \/ LibraryFrees(n)

PointerSpec == PointerInit /\ [][PointerNext]_pointerVars

(***************************************************************************)
(* Properties.                                                             *)
(***************************************************************************)

OwnersOf(n) == {p \in Pointers : pointer[p].native = n}

(* However pointers are copied, moved, assigned and destroyed while        *)
(* OpenSSL takes and drops references, the count of an object is the       *)
(* number of its owners: it is freed when the last one goes, never before  *)
(* and never twice.  The exception are the certificates of a chain that    *)
(* establish_tls_async hands to a context without counting.                *)
ReferencesCounted ==
    \A n \in Natives \ chained : count[n] = Cardinality(OwnersOf(n)) + library[n]
===============================================================================
