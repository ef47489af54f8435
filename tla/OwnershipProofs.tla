---------------------------- MODULE OwnershipProofs ----------------------------
(***************************************************************************)
(* The types that own something.  The count of every object of OpenSSL is  *)
(* the number of its smart pointers, a result is read as what it was       *)
(* assigned, and a callback has one holder: for any number of objects.     *)
(***************************************************************************)
EXTENDS OpenSslPointers, VoidResult, AnyInvocable, FiniteSetTheorems, TLAPS

(***************************************************************************)
(* Pointers.                                                               *)
(***************************************************************************)

(* A pointer that does not exist holds nothing, and nothing refers to an   *)
(* object that was not allocated.                                          *)
Vacancies ==
    /\ \A p \in Pointers : ~pointer[p].exists => pointer[p].native = Null
    /\ \A n \in Natives \ allocated :
          /\ n \notin chained /\ library[n] = 0 /\ count[n] = 0
          /\ \A p \in Pointers : pointer[p].native # n

PointerInv == PointerTypeOK /\ Vacancies /\ ReferencesCounted

Holding(f, n) == {p \in Pointers : f[p].native = n}

PointerRecords == [exists : BOOLEAN, native : Natives \union {Null}]

(* One pointer that takes n in place of what it held: n has one owner      *)
(* more, the old object one less.                                          *)
LEMMA OneChanges ==
    ASSUME IsFiniteSet(Pointers),
           NEW f \in [Pointers -> PointerRecords], NEW g \in [Pointers -> PointerRecords],
           NEW p \in Pointers, NEW n,
           \A x \in Pointers \ {p} : g[x].native = f[x].native
    PROVE  /\ Cardinality(Holding(f, n)) \in Nat /\ Cardinality(Holding(g, n)) \in Nat
           /\ Cardinality(Holding(g, n)) =
                 Cardinality(Holding(f, n))
                 + (IF g[p].native = n THEN 1 ELSE 0) - (IF f[p].native = n THEN 1 ELSE 0)
<1> DEFINE Rest == {x \in Pointers \ {p} : f[x].native = n}
<1>1. IsFiniteSet(Rest)
  BY FS_Subset
<1>2. Cardinality(Rest) \in Nat
  BY <1>1, FS_CardinalityType
<1>3. p \notin Rest
  OBVIOUS
<1>4. Cardinality(Rest \union {p}) = Cardinality(Rest) + 1
  BY <1>1, <1>3, FS_AddElement
<1>5. Holding(f, n) = IF f[p].native = n THEN Rest \union {p} ELSE Rest
  BY DEF Holding
<1>6. Holding(g, n) = IF g[p].native = n THEN Rest \union {p} ELSE Rest
  BY DEF Holding
<1> QED
  BY <1>2, <1>4, <1>5, <1>6

(* Two pointers that exchange what they hold leave every object as many    *)
(* owners.                                                                 *)
LEMMA ExchangeKeepsOwners ==
    ASSUME IsFiniteSet(Pointers),
           NEW f \in [Pointers -> PointerRecords], NEW g \in [Pointers -> PointerRecords],
           NEW p \in Pointers, NEW q \in Pointers, NEW n,
           g[p].native = f[q].native, g[q].native = f[p].native,
           \A x \in Pointers \ {p, q} : g[x].native = f[x].native
    PROVE  Cardinality(Holding(g, n)) = Cardinality(Holding(f, n))
<1> DEFINE h == [f EXCEPT ![p] = [exists |-> TRUE, native |-> f[q].native]]
<1>1. h \in [Pointers -> PointerRecords] /\ h[p].native = f[q].native
      /\ \A x \in Pointers \ {p} : h[x] = f[x]
  BY DEF PointerRecords
<1>2. \A x \in Pointers \ {q} : g[x].native = h[x].native
  BY <1>1
<1> HIDE DEF h
<1>3. Cardinality(Holding(h, n)) = Cardinality(Holding(f, n))
         + (IF h[p].native = n THEN 1 ELSE 0) - (IF f[p].native = n THEN 1 ELSE 0)
  BY <1>1, OneChanges
<1>4. Cardinality(Holding(g, n)) = Cardinality(Holding(h, n))
         + (IF g[q].native = n THEN 1 ELSE 0) - (IF h[q].native = n THEN 1 ELSE 0)
  BY <1>1, <1>2, OneChanges
<1>5. Cardinality(Holding(f, n)) \in Nat
  BY OneChanges
<1>6. CASE p = q
  BY <1>1, <1>3, <1>4, <1>5, <1>6
<1>7. CASE p # q
  <2>1. h[q].native = f[q].native
    BY <1>1, <1>7
  <2> QED
    BY <1>1, <1>3, <1>4, <1>5, <2>1
<1> QED
  BY <1>6, <1>7

-------------------------------------------------------------------------------

(* The steps of the pointers, as they change the pointers and the counts.  *)
LEMMA ConstructStep ==
    ASSUME NEW p, NEW n, Becoming(Incremented(Constructs(Counted, p, n), n))
    PROVE  /\ pointer' = [pointer EXCEPT ![p] = [exists |-> TRUE, native |-> n]]
           /\ count' = IF n = Null THEN count ELSE [count EXCEPT ![n] = @ + 1]
BY DEF Becoming, Incremented, Constructs, Counted

LEMMA MoveStep ==
    ASSUME NEW s, NEW p, NEW q, Becoming(MoveAssigned(s, p, q))
    PROVE  /\ pointer' = [s.pointer EXCEPT ![p].native = s.pointer[q].native,
                                           ![q].native = s.pointer[p].native]
           /\ count' = s.count
BY DEF Becoming, MoveAssigned

LEMMA DestroyStep ==
    ASSUME NEW p, Becoming([Freed(Counted, Holds(p)) EXCEPT
                               !.pointer[p] = [exists |-> FALSE, native |-> Null]])
    PROVE  /\ pointer' = [pointer EXCEPT ![p] = [exists |-> FALSE, native |-> Null]]
           /\ count' = IF Holds(p) = Null THEN count ELSE [count EXCEPT ![Holds(p)] = @ - 1]
BY DEF Becoming, Freed, Counted

(* A pointer that points at n.                                             *)
Repointed(f, p, n) == [f EXCEPT ![p].native = n]

(* The counts when a pointer leaves old for new.                           *)
Recounted(c, old, new) ==
    LET freed == IF old = Null THEN c ELSE [c EXCEPT ![old] = @ - 1]
    IN  IF new = Null THEN freed ELSE [freed EXCEPT ![new] = @ + 1]

(* operator= of openssl_scoped_ptr, where the two hold different objects.  *)
LEMMA CopyStep ==
    ASSUME NEW s, NEW p, NEW q, s.pointer[p].native # s.pointer[q].native,
           Becoming(CopyAssigned(s, p, q))
    PROVE  /\ pointer' = Repointed(s.pointer, p, s.pointer[q].native)
           /\ count' = Recounted(s.count, s.pointer[p].native, s.pointer[q].native)
BY DEF Becoming, CopyAssigned, Freed, Incremented, Repointed, Recounted

(* Two pointers that exchange what they hold.                              *)
Exchange(f, p, q) == [f EXCEPT ![p].native = f[q].native, ![q].native = f[p].native]

(* Each has what the other held, and no third pointer changes.             *)
LEMMA Exchanged ==
    ASSUME NEW f \in [Pointers -> PointerRecords], NEW p \in Pointers, NEW q \in Pointers, p # q,
           NEW g, g = Exchange(f, p, q)
    PROVE  /\ g \in [Pointers -> PointerRecords]
           /\ g[p].native = f[q].native /\ g[q].native = f[p].native
           /\ g[p].exists = f[p].exists /\ g[q].exists = f[q].exists
           /\ \A x \in Pointers \ {p, q} : g[x] = f[x]
<1>1. PICK k \in PointerRecords : k = f[p]
  OBVIOUS
<1>2. PICK l \in PointerRecords : l = f[q]
  OBVIOUS
<1>3. /\ [k EXCEPT !.native = l.native] \in PointerRecords
      /\ [l EXCEPT !.native = k.native] \in PointerRecords
      /\ [k EXCEPT !.native = l.native].native = l.native
      /\ [k EXCEPT !.native = l.native].exists = k.exists
      /\ [l EXCEPT !.native = k.native].native = k.native
      /\ [l EXCEPT !.native = k.native].exists = l.exists
  BY DEF PointerRecords
<1>4. g = [f EXCEPT ![p] = [k EXCEPT !.native = l.native], ![q] = [l EXCEPT !.native = k.native]]
  BY <1>1, <1>2 DEF Exchange
<1> DEFINE kk == [k EXCEPT !.native = l.native]
           ll == [l EXCEPT !.native = k.native]
<1>5. g = [f EXCEPT ![p] = kk, ![q] = ll]
  BY <1>4
<1>6. /\ kk \in PointerRecords /\ ll \in PointerRecords
      /\ kk.native = l.native /\ kk.exists = k.exists /\ ll.native = k.native /\ ll.exists = l.exists
  BY <1>3
<1> HIDE DEF kk, ll
<1>7. /\ g \in [Pointers -> PointerRecords] /\ g[p] = kk /\ g[q] = ll
      /\ \A x \in Pointers \ {p, q} : g[x] = f[x]
  BY <1>5, <1>6
<1> QED BY <1>1, <1>2, <1>6, <1>7

(* Where one pointer changes and the counts of the library change, the     *)
(* counts stay right if each follows by as much.                           *)
LEMMA CountsFollow ==
    ASSUME PointerAssumption, PointerInv, NEW p \in Pointers,
           pointer' \in [Pointers -> PointerRecords],
           \A x \in Pointers \ {p} : pointer'[x].native = pointer[x].native,
           library' \in [Natives -> Int], chained \subseteq chained',
           \A m \in Natives \ chained' :
              count'[m] = count[m] + (IF pointer'[p].native = m THEN 1 ELSE 0)
                                   - (IF pointer[p].native = m THEN 1 ELSE 0)
                                   + (library'[m] - library[m])
    PROVE  ReferencesCounted'
<1> SUFFICES ASSUME NEW m \in Natives \ chained'
             PROVE  count'[m] = Cardinality(OwnersOf(m)') + library'[m]
  BY DEF ReferencesCounted
<1>1. pointer \in [Pointers -> PointerRecords] /\ library[m] \in Int /\ library'[m] \in Int
  BY DEF PointerInv, PointerTypeOK, PointerRecords
<1>2. Cardinality(Holding(pointer, m)) \in Nat
      /\ Cardinality(Holding(pointer', m)) = Cardinality(Holding(pointer, m))
            + (IF pointer'[p].native = m THEN 1 ELSE 0) - (IF pointer[p].native = m THEN 1 ELSE 0)
  BY <1>1, OneChanges DEF PointerAssumption
<1>3. OwnersOf(m) = Holding(pointer, m) /\ OwnersOf(m)' = Holding(pointer', m)
  BY DEF OwnersOf, Holding
<1>4. count[m] = Cardinality(Holding(pointer, m)) + library[m]
  BY <1>3 DEF PointerInv, ReferencesCounted
<1> QED
  BY <1>1, <1>2, <1>3, <1>4

(* One pointer that takes n in place of what it held, and both are         *)
(* counted.                                                                *)
LEMMA CountedStepKeeps ==
    ASSUME PointerAssumption, PointerInv,
           NEW p \in Pointers, NEW n \in Natives \union {Null},
           pointer' \in [Pointers -> PointerRecords], pointer'[p].native = n,
           pointer'[p].exists \/ n = Null,
           \A x \in Pointers \ {p} : pointer'[x] = pointer[x],
           count' \in [Natives -> Int],
           \A m \in Natives :
              count'[m] = count[m] + (IF n = m THEN 1 ELSE 0)
                                   - (IF pointer[p].native = m THEN 1 ELSE 0),
           UNCHANGED <<library, chained>>,
           allocated' = allocated \union ({n} \ {Null})
    PROVE  PointerInv'
<1>1. PointerTypeOK'
  BY DEF PointerInv, PointerTypeOK, PointerRecords
<1>2. Vacancies'
  <2>1. \A x \in Pointers : ~pointer'[x].exists => pointer'[x].native = Null
    BY DEF PointerInv, PointerTypeOK, Vacancies
  <2>2. ASSUME NEW m \in Natives \ allocated'
        PROVE  /\ m \notin chained' /\ library'[m] = 0 /\ count'[m] = 0
               /\ \A x \in Pointers : pointer'[x].native # m
    <3>1. m \notin allocated /\ m # n
      BY <2>2 DEF PointerAssumption
    <3>2. m \notin chained /\ library[m] = 0 /\ count[m] = 0 /\ \A x \in Pointers : pointer[x].native # m
      BY <2>2, <3>1 DEF PointerInv, Vacancies
    <3>3. count'[m] = 0
      BY <2>2, <3>1, <3>2 DEF PointerInv, PointerTypeOK
    <3>4. m \notin chained' /\ library'[m] = 0
      BY <3>2
    <3>5. \A x \in Pointers : pointer'[x].native # m
      BY <3>1, <3>2
    <3> QED
      BY <3>3, <3>4, <3>5
  <2> QED
    BY <2>1, <2>2 DEF Vacancies
<1>3. ReferencesCounted'
  <2>1. pointer' \in [Pointers -> PointerRecords]
    BY <1>1 DEF PointerTypeOK, PointerRecords
  <2>2. /\ \A x \in Pointers \ {p} : pointer'[x].native = pointer[x].native
        /\ pointer'[p].native = n
    BY DEF PointerInv, PointerTypeOK
  <2>3. library' \in [Natives -> Int] /\ library' = library /\ chained' = chained
    BY DEF PointerInv, PointerTypeOK
  <2>4. \A m \in Natives : count[m] \in Int /\ library[m] \in Int
    BY DEF PointerInv, PointerTypeOK
  <2> QED
    BY <2>1, <2>2, <2>3, <2>4, CountsFollow
<1> QED
  BY <1>1, <1>2, <1>3 DEF PointerInv

(* The construction of a pointer with an object that it counts.            *)
LEMMA ConstructKeeps ==
    ASSUME PointerAssumption, PointerInv, NEW p \in Pointers, NEW n \in Natives \union {Null},
           pointer[p].native = Null,
           Becoming(Incremented(Constructs(Counted, p, n), n)),
           UNCHANGED <<library, chained>>,
           allocated' = allocated \union ({n} \ {Null})
    PROVE  PointerInv'
<1>1. /\ pointer' = [pointer EXCEPT ![p] = [exists |-> TRUE, native |-> n]]
      /\ count' = IF n = Null THEN count ELSE [count EXCEPT ![n] = @ + 1]
  BY ConstructStep
<1>2. count' \in [Natives -> Int]
  BY <1>1 DEF PointerInv, PointerTypeOK
<1>3. ASSUME NEW m \in Natives
      PROVE  count'[m] = count[m] + (IF n = m THEN 1 ELSE 0)
                                  - (IF pointer[p].native = m THEN 1 ELSE 0)
  BY <1>1 DEF PointerInv, PointerTypeOK, PointerAssumption
<1>4. /\ pointer' \in [Pointers -> PointerRecords] /\ pointer'[p].native = n /\ pointer'[p].exists
      /\ \A x \in Pointers \ {p} : pointer'[x] = pointer[x]
  BY <1>1 DEF PointerInv, PointerTypeOK, PointerRecords
<1> QED
  BY <1>2, <1>3, <1>4, CountedStepKeeps

(* A copy from q into p, which may hold something.                         *)
LEMMA CopyKeeps ==
    ASSUME PointerAssumption, PointerInv, NEW p \in Pointers, NEW q \in Pointers,
           pointer[p].native # pointer[q].native,
           NEW s, s.count = count, s.pointer \in [Pointers -> PointerRecords],
           s.pointer[p].exists, s.pointer[p].native = pointer[p].native,
           \A x \in Pointers \ {p} : s.pointer[x] = pointer[x],
           Becoming(CopyAssigned(s, p, q)),
           UNCHANGED <<library, allocated, chained>>
    PROVE  PointerInv'
<1> DEFINE old == pointer[p].native
           new == pointer[q].native
           freed == IF old = Null THEN count ELSE [count EXCEPT ![old] = @ - 1]
<1>0. s.pointer[q].native = new /\ s.pointer[p].native = old /\ old # new
  OBVIOUS
<1>1. /\ pointer' = [s.pointer EXCEPT ![p].native = new]
      /\ count' = IF new = Null THEN freed ELSE [freed EXCEPT ![new] = @ + 1]
  <2>1. /\ pointer' = Repointed(s.pointer, p, s.pointer[q].native)
        /\ count' = Recounted(s.count, s.pointer[p].native, s.pointer[q].native)
    BY <1>0, CopyStep
  <2>2. pointer' = Repointed(s.pointer, p, new) /\ count' = Recounted(count, old, new)
    BY <1>0, <2>1, Zenon
  <2> QED BY <2>2, Zenon DEF Repointed, Recounted
<1>2. old \in Natives \union {Null} /\ new \in Natives \union {Null} /\ old # new
      /\ count \in [Natives -> Int] /\ Null \notin Natives
  BY DEF PointerInv, PointerTypeOK, PointerAssumption
<1>3. allocated' = allocated \union ({new} \ {Null})
  BY <1>2 DEF PointerInv, Vacancies
<1> HIDE DEF old, new
<1>4. freed \in [Natives -> Int]
      /\ \A m \in Natives : freed[m] = count[m] - (IF old = m THEN 1 ELSE 0)
  BY <1>2
<1> HIDE DEF freed
<1>5. count' \in [Natives -> Int]
      /\ \A m \in Natives : count'[m] = freed[m] + (IF new = m THEN 1 ELSE 0)
  BY <1>1, <1>2, <1>4
<1>6. \A m \in Natives :
         count'[m] = count[m] + (IF new = m THEN 1 ELSE 0) - (IF old = m THEN 1 ELSE 0)
  BY <1>2, <1>4, <1>5
<1>7. /\ pointer' \in [Pointers -> PointerRecords] /\ pointer'[p].native = new /\ pointer'[p].exists
      /\ \A x \in Pointers \ {p} : pointer'[x] = pointer[x]
  BY <1>1, <1>2 DEF PointerRecords
<1>8. UNCHANGED <<library, chained>>
  OBVIOUS
<1> QED
  BY <1>2, <1>3, <1>5, <1>6, <1>7, <1>8, CountedStepKeeps DEF old

(* Two pointers that exchange what they hold.                              *)
LEMMA ExchangeKeeps ==
    ASSUME PointerAssumption, PointerInv, NEW p \in Pointers, NEW q \in Pointers,
           pointer' \in [Pointers -> PointerRecords],
           pointer'[p].native = pointer[q].native, pointer'[q].native = pointer[p].native,
           \A x \in Pointers \ {p, q} : pointer'[x] = pointer[x],
           pointer'[p].exists, pointer'[q].exists,
           UNCHANGED <<count, library, allocated, chained>>
    PROVE  PointerInv'
<1>1. PointerTypeOK'
  BY DEF PointerInv, PointerTypeOK, PointerRecords
<1>2. Vacancies'
  BY DEF PointerInv, PointerTypeOK, Vacancies
<1>3. ReferencesCounted'
  <2>1. pointer \in [Pointers -> PointerRecords]
    BY DEF PointerInv, PointerTypeOK, PointerRecords
  <2>2. ASSUME NEW n \in Natives
        PROVE  Cardinality(OwnersOf(n)') = Cardinality(OwnersOf(n))
    <3>1. OwnersOf(n) = Holding(pointer, n) /\ OwnersOf(n)' = Holding(pointer', n)
      BY DEF OwnersOf, Holding
    <3> QED
      BY <2>1, <3>1, ExchangeKeepsOwners DEF PointerAssumption
  <2> QED
    BY <2>2 DEF PointerInv, ReferencesCounted
<1> QED
  BY <1>1, <1>2, <1>3 DEF PointerInv

(* OpenSSL takes or drops references, and counts them.                     *)
LEMMA LibraryKeeps ==
    ASSUME PointerAssumption, PointerInv, PointerTypeOK', Vacancies',
           UNCHANGED pointer, chained \subseteq chained',
           \A m \in Natives \ chained' : count'[m] - library'[m] = count[m] - library[m]
    PROVE  PointerInv'
<1>1. ASSUME NEW m \in Natives \ chained'
      PROVE  count'[m] = Cardinality(OwnersOf(m)') + library'[m]
  <2>1. OwnersOf(m)' = OwnersOf(m)
    BY DEF OwnersOf
  <2>2. Cardinality(OwnersOf(m)) \in Nat
    <3>1. OwnersOf(m) \subseteq Pointers
      BY DEF OwnersOf
    <3> QED
      BY <3>1, FS_Subset, FS_CardinalityType DEF PointerAssumption
  <2>3. count[m] = Cardinality(OwnersOf(m)) + library[m]
    BY <1>1 DEF PointerInv, ReferencesCounted
  <2>4. count[m] \in Int /\ library[m] \in Int /\ count'[m] \in Int /\ library'[m] \in Int
    BY DEF PointerInv, PointerTypeOK
  <2> QED
    BY <1>1, <2>1, <2>2, <2>3, <2>4
<1> QED
  BY <1>1 DEF PointerInv, ReferencesCounted

-------------------------------------------------------------------------------

(* Whatever pointers there are, and whatever OpenSSL does: the counts are  *)
(* right, and nothing refers to an object that was not allocated.          *)
THEOREM PointerInvariant ==
    ASSUME PointerAssumption PROVE PointerSpec => []PointerInv
<1>1. PointerInit => PointerInv
  <2> SUFFICES ASSUME PointerInit PROVE PointerInv
    OBVIOUS
  <2>1. PointerTypeOK /\ Vacancies
    BY DEF PointerInit, PointerTypeOK, Vacancies, PointerAssumption
  <2>2. ASSUME NEW n \in Natives PROVE Cardinality(OwnersOf(n)) = 0
    <3>1. OwnersOf(n) = {}
      BY DEF OwnersOf, PointerInit, PointerAssumption
    <3> QED
      BY <3>1, FS_EmptySet
  <2> QED
    BY <2>1, <2>2 DEF PointerInv, ReferencesCounted, PointerInit
<1>2. PointerInv /\ [PointerNext]_pointerVars => PointerInv'
  <2> SUFFICES ASSUME PointerInv, [PointerNext]_pointerVars PROVE PointerInv'
    OBVIOUS
  <2> USE PointerAssumption
  <2>1. /\ pointer \in [Pointers -> PointerRecords] /\ count \in [Natives -> Int]
        /\ library \in [Natives -> 0..MaxLibrary] /\ MaxLibrary \in Nat
    BY DEF PointerInv, PointerTypeOK, PointerRecords, PointerAssumption
  <2>2. \A p \in Pointers : ~Alive(p) => pointer[p].native = Null
    BY DEF PointerInv, Vacancies, Alive
  <2>3. \A n \in Natives : library[n] > 0 => n \in allocated
    BY DEF PointerInv, Vacancies
  <2>4. \A p \in Pointers : Holds(p) # Null => Holds(p) \in allocated /\ Holds(p) \in Natives
    BY <2>1 DEF PointerInv, Vacancies, Holds, PointerRecords
  <2>5. ASSUME NEW p \in Pointers, Allocate(p) PROVE PointerInv'
    BY <2>2, <2>5, ConstructKeeps DEF Allocate
  <2>6. ASSUME NEW p \in Pointers, Open(p) PROVE PointerInv'
    <3> PICK n \in Natives \ allocated :
              Becoming(Incremented(Constructs(Counted, p, n), n)) /\ allocated' = allocated \union {n}
      BY <2>6 DEF Open
    <3>1. pointer[p].native = Null /\ {n} = {n} \ {Null} /\ UNCHANGED <<library, chained>>
      BY <2>6 DEF Open, Holds, PointerAssumption
    <3> QED
      BY <3>1, ConstructKeeps
  <2>7. ASSUME NEW p \in Pointers, NEW n \in Natives, Reference(p, n) PROVE PointerInv'
    <3>1. allocated' = allocated \union ({n} \ {Null})
      BY <2>3, <2>7 DEF Reference
    <3> QED
      BY <2>2, <2>7, <3>1, ConstructKeeps DEF Reference
  <2>8. ASSUME NEW p \in Pointers, NEW q \in Pointers, CopyPointer(p, q) PROVE PointerInv'
    <3> DEFINE s == Constructs(Counted, p, Null)
    <3>1. p # q /\ pointer[p].native = Null /\ Becoming(CopyAssigned(s, p, q))
          /\ UNCHANGED <<library, allocated, chained>>
      BY <2>2, <2>8 DEF CopyPointer
    <3>2. s.count = count /\ s.pointer = [pointer EXCEPT ![p] = [exists |-> TRUE, native |-> Null]]
      BY DEF Constructs, Counted
    <3>3. CASE pointer[q].native = Null
      <4>1. Becoming(s)
        BY <2>1, <3>1, <3>2, <3>3 DEF CopyAssigned
      <4>2. Becoming(Incremented(Constructs(Counted, p, Null), Null))
        BY <4>1 DEF Incremented
      <4> QED
        BY <3>1, <4>2, ConstructKeeps
    <3>4. CASE pointer[q].native # Null
      <4>1. /\ s.pointer \in [Pointers -> PointerRecords]
            /\ s.pointer[p].exists /\ s.pointer[p].native = Null
            /\ \A x \in Pointers \ {p} : s.pointer[x] = pointer[x]
        BY <2>1, <3>2 DEF PointerRecords
      <4> HIDE DEF s
      <4> QED
        BY <3>1, <3>2, <3>4, <4>1, CopyKeeps
    <3> QED
      BY <3>3, <3>4
  <2>9. ASSUME NEW p \in Pointers, NEW q \in Pointers, CopyAssignPointer(p, q) PROVE PointerInv'
    <3>1. Alive(p) /\ Becoming(CopyAssigned(Counted, p, q)) /\ UNCHANGED <<library, allocated, chained>>
      BY <2>9 DEF CopyAssignPointer
    <3>2. Counted.count = count /\ Counted.pointer = pointer
      BY DEF Counted
    <3>3. CASE pointer[p].native = pointer[q].native
      <4>1. UNCHANGED pointerVars
        BY <3>1, <3>2, <3>3 DEF CopyAssigned, Becoming, pointerVars
      <4> QED
        BY <4>1 DEF PointerInv, PointerTypeOK, Vacancies, ReferencesCounted, OwnersOf, pointerVars
    <3>4. CASE pointer[p].native # pointer[q].native
      <4>1. pointer[p].exists
        BY <3>1 DEF Alive
      <4> QED
        BY <2>1, <3>1, <3>2, <3>4, <4>1, CopyKeeps
    <3> QED
      BY <3>3, <3>4
  <2>10. ASSUME NEW p \in Pointers, NEW q \in Pointers, MovePointer(p, q) PROVE PointerInv'
    <3> DEFINE s == Constructs(Counted, p, Null)
    <3>1. p # q /\ pointer[p].native = Null /\ Alive(q) /\ Becoming(MoveAssigned(s, p, q))
          /\ UNCHANGED <<library, allocated, chained>>
      BY <2>2, <2>10 DEF MovePointer
    <3>2. s.count = count /\ s.pointer = [pointer EXCEPT ![p] = [exists |-> TRUE, native |-> Null]]
      BY DEF Constructs, Counted
    <3> HIDE DEF s
    <3>3. pointer' = [s.pointer EXCEPT ![p].native = s.pointer[q].native,
                                       ![q].native = s.pointer[p].native]
          /\ count' = count
      BY <3>1, <3>2, MoveStep
    <3>5. /\ s.pointer \in [Pointers -> PointerRecords]
          /\ s.pointer[p].exists /\ s.pointer[p].native = Null
          /\ \A x \in Pointers \ {p} : s.pointer[x] = pointer[x]
      BY <2>1, <3>2 DEF PointerRecords
    <3>4. /\ pointer' \in [Pointers -> PointerRecords]
          /\ pointer'[p].native = pointer[q].native /\ pointer'[q].native = pointer[p].native
          /\ pointer'[p].exists /\ pointer'[q].exists
          /\ \A x \in Pointers \ {p, q} : pointer'[x] = pointer[x]
      <4>1. PICK f \in [Pointers -> PointerRecords] : f = s.pointer
        BY <3>5
      <4>2. pointer' = [f EXCEPT ![p].native = f[q].native, ![q].native = f[p].native]
        BY <3>3, <4>1, Zenon
      <4>3. pointer' = Exchange(f, p, q) /\ p # q
        BY <3>1, <4>2, Zenon DEF Exchange
      <4>4. /\ pointer' \in [Pointers -> PointerRecords]
            /\ pointer'[p].native = f[q].native /\ pointer'[q].native = f[p].native
            /\ pointer'[p].exists = f[p].exists /\ pointer'[q].exists = f[q].exists
            /\ \A x \in Pointers \ {p, q} : pointer'[x] = f[x]
        BY <4>3, Exchanged
      <4>5. /\ f[p].exists /\ f[p].native = Null /\ pointer[p].native = Null
            /\ \A x \in Pointers \ {p} : f[x] = pointer[x]
        BY <3>1, <3>5, <4>1
      <4>6. f[q] = pointer[q] /\ pointer[q].exists
        BY <3>1, <4>5 DEF Alive
      <4> QED BY <4>4, <4>5, <4>6
    <3> QED
      BY <3>1, <3>3, <3>4, ExchangeKeeps
  <2>11. ASSUME NEW p \in Pointers, NEW q \in Pointers, MoveAssignPointer(p, q) PROVE PointerInv'
    <3>1. Alive(p) /\ Alive(q) /\ Becoming(MoveAssigned(Counted, p, q))
          /\ UNCHANGED <<library, allocated, chained>>
      BY <2>11 DEF MoveAssignPointer
    <3>2. Counted.count = count /\ Counted.pointer = pointer
      BY DEF Counted
    <3>5. pointer' = [Counted.pointer EXCEPT ![p].native = Counted.pointer[q].native,
                                             ![q].native = Counted.pointer[p].native]
          /\ count' = Counted.count
      BY <3>1, MoveStep
    <3>3. pointer' = [pointer EXCEPT ![p].native = pointer[q].native,
                                     ![q].native = pointer[p].native]
          /\ count' = count
      BY <3>2, <3>5
    <3>4. /\ pointer' \in [Pointers -> PointerRecords]
          /\ pointer'[p].native = pointer[q].native /\ pointer'[q].native = pointer[p].native
          /\ pointer'[p].exists /\ pointer'[q].exists
          /\ \A x \in Pointers \ {p, q} : pointer'[x] = pointer[x]
      BY <2>1, <3>1, <3>3 DEF PointerRecords, Alive
    <3> QED
      BY <3>1, <3>3, <3>4, ExchangeKeeps
  <2>12. ASSUME NEW p \in Pointers, DestroyPointer(p) PROVE PointerInv'
    <3>1. /\ pointer' = [pointer EXCEPT ![p] = [exists |-> FALSE, native |-> Null]]
          /\ count' = IF Holds(p) = Null THEN count ELSE [count EXCEPT ![Holds(p)] = @ - 1]
          /\ UNCHANGED <<library, allocated, chained>>
      BY <2>12, DestroyStep DEF DestroyPointer
    <3>2. count' \in [Natives -> Int]
          /\ \A m \in Natives : count'[m] = count[m] + (IF Null = m THEN 1 ELSE 0)
                                   - (IF pointer[p].native = m THEN 1 ELSE 0)
      BY <2>1, <3>1 DEF Holds, PointerRecords, PointerAssumption
    <3>3. allocated' = allocated \union ({Null} \ {Null})
      BY <3>1
    <3>4. /\ pointer' \in [Pointers -> PointerRecords] /\ pointer'[p].native = Null
          /\ \A x \in Pointers \ {p} : pointer'[x] = pointer[x]
      BY <2>1, <3>1 DEF PointerRecords
    <3> QED
      BY <3>1, <3>2, <3>3, <3>4, CountedStepKeeps, ZenonT(60)
  <2>13. ASSUME NEW p \in Pointers, SetDhKey(p) PROVE PointerInv'
    <3>1. Holds(p) \in Natives /\ Holds(p) \in allocated /\ library[Holds(p)] < MaxLibrary
      BY <2>4, <2>13 DEF SetDhKey
    <3>2. /\ UNCHANGED <<pointer, allocated, chained>>
          /\ count' = [count EXCEPT ![Holds(p)] = @ + 1]
          /\ library' = [library EXCEPT ![Holds(p)] = @ + 1]
      BY <2>13 DEF SetDhKey, Becoming, Incremented, Counted
    <3>3. PointerTypeOK' /\ Vacancies'
      BY <2>1, <3>1, <3>2 DEF PointerInv, PointerTypeOK, Vacancies
    <3>4. \A m \in Natives : count'[m] - library'[m] = count[m] - library[m]
      BY <2>1, <3>1, <3>2
    <3> QED
      BY <3>2, <3>3, <3>4, LibraryKeeps
  <2>14. ASSUME NEW p \in Pointers, AddToChain(p) PROVE PointerInv'
    <3>1. Holds(p) \in Natives /\ Holds(p) \in allocated /\ library[Holds(p)] < MaxLibrary
      BY <2>4, <2>14 DEF AddToChain
    <3>2. /\ UNCHANGED <<pointer, count, allocated>> /\ chained' = chained \union {Holds(p)}
          /\ library' = [library EXCEPT ![Holds(p)] = @ + 1]
      BY <2>14 DEF AddToChain
    <3>3. PointerTypeOK' /\ Vacancies'
      BY <2>1, <3>1, <3>2 DEF PointerInv, PointerTypeOK, Vacancies
    <3>4. \A m \in Natives \ chained' : count'[m] - library'[m] = count[m] - library[m]
      BY <2>1, <3>1, <3>2
    <3> QED
      BY <3>2, <3>3, <3>4, LibraryKeeps
  <2>15. ASSUME NEW n \in Natives, LibraryReads(n) PROVE PointerInv'
    <3>1. count[n] = 0 /\ library[n] = 0
      BY <2>15 DEF LibraryReads, PointerInv, Vacancies
    <3>2. PointerTypeOK' /\ Vacancies'
      BY <2>1, <2>15 DEF LibraryReads, PointerInv, PointerTypeOK, Vacancies
    <3>3. \A m \in Natives : count'[m] - library'[m] = count[m] - library[m]
      BY <2>1, <2>15, <3>1 DEF LibraryReads
    <3> QED
      BY <2>15, <3>2, <3>3, LibraryKeeps DEF LibraryReads
  <2>16. ASSUME NEW n \in Natives, LibraryFrees(n) PROVE PointerInv'
    <3>1. n \in allocated
      BY <2>3, <2>16 DEF LibraryFrees
    <3>2. PointerTypeOK' /\ Vacancies'
      BY <2>1, <2>16, <3>1 DEF LibraryFrees, PointerInv, PointerTypeOK, Vacancies
    <3>3. \A m \in Natives : count'[m] - library'[m] = count[m] - library[m]
      BY <2>1, <2>16 DEF LibraryFrees
    <3> QED
      BY <2>16, <3>2, <3>3, LibraryKeeps DEF LibraryFrees
  <2>17. CASE UNCHANGED pointerVars
    BY <2>17 DEF PointerInv, PointerTypeOK, Vacancies, ReferencesCounted, OwnersOf, pointerVars
  <2> QED
    BY <2>5, <2>6, <2>7, <2>8, <2>9, <2>10, <2>11, <2>12, <2>13, <2>14, <2>15, <2>16, <2>17
       DEF PointerNext
<1> QED
  BY <1>1, <1>2, PTL DEF PointerSpec

(* However pointers are copied, moved and destroyed while OpenSSL takes    *)
(* and drops references, the count of every object but the certificates of *)
(* a chain is the number of its owners.                                    *)
THEOREM CountsAreOwners ==
    ASSUME PointerAssumption PROVE PointerSpec => []ReferencesCounted
<1>1. PointerInv => ReferencesCounted
  BY DEF PointerInv
<1> QED
  BY <1>1, PointerInvariant, PTL

(***************************************************************************)
(* Results.  The storage of an object that does not exist is empty, and    *)
(* that of any other holds the type its flag says, unless it is torn.      *)
(***************************************************************************)

ResultRecord == [exists : BOOLEAN, error : BOOLEAN, storage : Storage]

Storing == [result : [Slots -> ResultRecord], misused : SUBSET Slots]

(* An object with what it was meant to hold. *)
Fits(k, e) == k.storage.type = TypeOf(k.error) /\ k.error = e.error /\ k.storage.value = e.value

(* What is torn (t) may hold anything; all the rest fits what it means (m). *)
StoresKept(s, m, t) ==
    /\ s \in Storing /\ m \in [Slots -> Either] /\ t \subseteq Slots
    /\ s.misused \subseteq t
    /\ \A r \in Slots : ~s.result[r].exists => s.result[r].storage.type = "none"
    /\ \A r \in Slots \ t : s.result[r].exists => Fits(s.result[r], m[r])

(* Only what r means changes. *)
MeansNow(m, r, e, m2) ==
    m2 \in [Slots -> Either] /\ m2[r] = e /\ \A q \in Slots \ {r} : m2[q] = m[q]

(* One object takes another state, k. *)
LEMMA OneSlotChanges ==
    ASSUME NEW s, NEW m, NEW t, StoresKept(s, m, t), NEW r \in Slots, NEW k \in ResultRecord,
           NEW e, NEW m2, MeansNow(m, r, e, m2),
           NEW t2 \in SUBSET Slots, t \subseteq t2, t2 \subseteq t \union {r},
           NEW u \in SUBSET (s.misused \union {r}), r \in t2 \/ u \subseteq s.misused,
           NEW s2, s2 = [result |-> [s.result EXCEPT ![r] = k], misused |-> u],
           ~k.exists => k.storage.type = "none",
           r \in t2 \/ ~k.exists \/ Fits(k, e)
    PROVE  StoresKept(s2, m2, t2)
<1>1. /\ s2.result \in [Slots -> ResultRecord] /\ s2.result[r] = k
      /\ \A q \in Slots \ {r} : s2.result[q] = s.result[q]
  BY DEF StoresKept, Storing
<1>2. s2.misused \subseteq t2 /\ s2 \in Storing
  BY <1>1 DEF StoresKept, Storing
<1>3. \A q \in Slots : ~s2.result[q].exists => s2.result[q].storage.type = "none"
  BY <1>1 DEF StoresKept
<1>4. \A q \in Slots \ t2 : s2.result[q].exists => Fits(s2.result[q], m2[q])
  BY <1>1 DEF StoresKept, MeansNow
<1> QED BY <1>1, <1>2, <1>3, <1>4 DEF StoresKept, MeansNow

(* construct, into storage without an object. *)
LEMMA ConstructedKeeps ==
    ASSUME NEW s, NEW m, NEW t, StoresKept(s, m, t), NEW r \in Slots, s.result[r].storage.type = "none",
           NEW e \in Either, NEW m2, MeansNow(m, r, e, m2)
    PROVE  StoresKept(Constructed(s, r, e), m2, t)
<1> DEFINE k  == [exists |-> TRUE, error |-> e.error, storage |-> [type |-> TypeOf(e.error), value |-> e.value]]
           s2 == Constructed(s, r, e)
<1>1. k \in ResultRecord /\ Fits(k, e)
  BY DEF ResultRecord, Storage, Either, TypeOf, Fits
<1>2. s2 = [result |-> [s.result EXCEPT ![r] = k], misused |-> s.misused]
  <2> HIDE DEF k
  <2>1. s \in Storing
    BY DEF StoresKept
  <2>2. s2 = [s EXCEPT !.misused = s.misused, !.result[r] = k]
    BY DEF Constructed, k
  <2> QED BY <2>1, <2>2 DEF Storing
<1>3. t \in SUBSET Slots
  BY DEF StoresKept
<1>4. k.exists
  OBVIOUS
<1> HIDE DEF k, s2
<1>5. StoresKept(s2, m2, t)
  BY <1>1, <1>2, <1>3, <1>4, OneSlotChanges
<1> QED BY <1>5 DEF s2

LEMMA StorageChanges ==
    ASSUME NEW x \in ResultRecord, NEW v
    PROVE  [x EXCEPT !.storage.value = v] =
              [exists |-> x.exists, error |-> x.error, storage |-> [type |-> x.storage.type, value |-> v]]
<1>1. x.storage \in Storage
  BY DEF ResultRecord
<1>2. [x.storage EXCEPT !.value = v] = [type |-> x.storage.type, value |-> v]
  BY <1>1 DEF Storage
<1>3. \A y : [x EXCEPT !.storage = y] = [exists |-> x.exists, error |-> x.error, storage |-> y]
  BY DEF ResultRecord
<1>4. [x EXCEPT !.storage.value = v] = [x EXCEPT !.storage = [x.storage EXCEPT !.value = v]]
  BY DEF ResultRecord
<1> QED BY <1>2, <1>3, <1>4

LeftOf(e, rvalue) == IF rvalue THEN [e EXCEPT !.value = "moved"] ELSE e

SameFlags(s, s2) ==
    \A q \in Slots : /\ s2.result[q].exists = s.result[q].exists
                     /\ s2.result[q].error = s.result[q].error
                     /\ s2.result[q].storage.type = s.result[q].storage.type

(* What is read from an object, and what is left of it. *)
LEMMA TakenKeeps ==
    ASSUME NEW s, NEW m, NEW t, StoresKept(s, m, t), NEW r \in Slots \ t, s.result[r].exists,
           NEW rvalue \in BOOLEAN,
           NEW e, e = LeftOf(m[r], rvalue), NEW m2, MeansNow(m, r, e, m2)
    PROVE  /\ StoresKept(TakenFrom(s, r, rvalue), m2, t) /\ Content(s, r) = m[r] /\ m[r] \in Either
           /\ SameFlags(s, TakenFrom(s, r, rvalue))
<1> DEFINE v  == IF rvalue THEN "moved" ELSE s.result[r].storage.value
           k  == [exists |-> s.result[r].exists, error |-> s.result[r].error,
                  storage |-> [type |-> s.result[r].storage.type, value |-> v]]
           s2 == TakenFrom(s, r, rvalue)
<1>1. s \in Storing /\ Fits(s.result[r], m[r]) /\ m[r] \in Either /\ t \in SUBSET Slots
  BY DEF StoresKept
<1>2. s.result[r] \in ResultRecord /\ s.result[r].storage \in Storage
  BY <1>1 DEF ResultRecord, Storing
<1>3. k \in ResultRecord /\ k.exists /\ Fits(k, e)
  BY <1>1, <1>2 DEF ResultRecord, Storage, Either, Fits, LeftOf
<1>4. s2 = [result |-> [s.result EXCEPT ![r] = k], misused |-> s.misused]
  <2>1. [s.result[r] EXCEPT !.storage.value = v] = k
    <3> HIDE DEF v
    <3> QED BY <1>1, <1>2, StorageChanges DEF Fits
  <2>2. s2 = [s EXCEPT !.misused = s.misused, !.result[r].storage.value = v]
    BY <1>1 DEF TakenFrom, Fits
  <2> HIDE DEF v, k, s2
  <2> QED BY <1>1, <2>1, <2>2 DEF Storing
<1>5. SameFlags(s, s2)
  <2>1. k.exists = s.result[r].exists /\ k.error = s.result[r].error
        /\ k.storage.type = s.result[r].storage.type
    BY <1>1, <1>2 DEF ResultRecord
  <2> HIDE DEF k, s2
  <2> QED BY <1>1, <1>4, <2>1 DEF Storing, SameFlags
<1>6. Content(s, r) = m[r]
  BY <1>1 DEF Content, Fits, Either
<1> HIDE DEF k, s2
<1>7. StoresKept(s2, m2, t)
  <2>1. s.misused \in SUBSET (s.misused \union {r}) /\ (~k.exists => k.storage.type = "none")
    BY <1>3
  <2> QED BY <1>1, <1>3, <1>4, <2>1, OneSlotChanges
<1> QED BY <1>1, <1>5, <1>6, <1>7 DEF s2

(* destroy, before something else is put into the storage. *)
Emptied(k) == [exists |-> k.exists, error |-> k.error, storage |-> [type |-> "none", value |-> "moved"]]

LEMMA DestroyedFields ==
    ASSUME NEW s, NEW m, NEW t, StoresKept(s, m, t), NEW r \in Slots
    PROVE  /\ s.result[r] \in ResultRecord /\ Emptied(s.result[r]) \in ResultRecord
           /\ \E u \in SUBSET (s.misused \union {r}) :
                 /\ DestroyedStorage(s, r) = [result |-> [s.result EXCEPT ![r] = Emptied(s.result[r])],
                                              misused |-> u]
                 /\ r \notin t /\ s.result[r].exists => u = s.misused
<1> DEFINE k == Emptied(s.result[r])
           u == s.misused \union {x \in {r} : s.result[r].storage.type # TypeOf(s.result[r].error)}
<1>1. s \in Storing /\ (r \notin t /\ s.result[r].exists => Fits(s.result[r], m[r]))
  BY DEF StoresKept
<1>2. s.result[r] \in ResultRecord
  BY <1>1 DEF Storing
<1>3. k \in ResultRecord
  BY <1>2 DEF ResultRecord, Storage, Emptied
<1>4. u \in SUBSET (s.misused \union {r}) /\ (r \notin t /\ s.result[r].exists => u = s.misused)
  BY <1>1 DEF Fits
<1>5. DestroyedStorage(s, r) = [result |-> [s.result EXCEPT ![r] = k], misused |-> u]
  <2>1. [s.result[r] EXCEPT !.storage = [type |-> "none", value |-> "moved"]] = k
    BY <1>2 DEF ResultRecord, Emptied
  <2>2. DestroyedStorage(s, r) =
           [s EXCEPT !.misused = u, !.result[r].storage = [type |-> "none", value |-> "moved"]]
    BY DEF DestroyedStorage
  <2> HIDE DEF k, u
  <2> QED BY <1>1, <2>1, <2>2 DEF Storing
<1> HIDE DEF u
<1> QED BY <1>2, <1>3, <1>4, <1>5

(* assign and emplace_assign: both leave the new value or error behind. *)
LEMMA AssignedKeeps ==
    ASSUME NEW s, NEW m, NEW t, StoresKept(s, m, t), NEW r \in Slots \ t, s.result[r].exists,
           NEW e \in Either, NEW m2, MeansNow(m, r, e, m2)
    PROVE  StoresKept(AssignedTo(s, r, e), m2, t) /\ StoresKept(Emplaced(s, r, e), m2, t)
<1> DEFINE k  == [exists |-> TRUE, error |-> e.error, storage |-> [type |-> TypeOf(e.error), value |-> e.value]]
           d  == DestroyedStorage(s, r)
           s2 == Emplaced(s, r, e)
           s3 == AssignedValue(s, r, e)
<1>1. s \in Storing /\ Fits(s.result[r], m[r]) /\ t \in SUBSET Slots /\ s.result[r] \in ResultRecord
  BY DEF StoresKept, Storing
<1>2. k \in ResultRecord /\ k.exists /\ Fits(k, e)
  BY DEF ResultRecord, Storage, Either, TypeOf, Fits
<1>3. s2 = [result |-> [s.result EXCEPT ![r] = k], misused |-> s.misused]
  <2>1. d = [result |-> [s.result EXCEPT ![r] = Emptied(s.result[r])], misused |-> s.misused]
    BY DestroyedFields
  <2>2. d.result[r].storage.type = "none"
    <3> HIDE DEF d
    <3> QED BY <1>1, <2>1 DEF Emptied, Storing
  <2>3. s2 = [d EXCEPT !.misused = d.misused, !.result[r] = k]
    <3>1. s2 = Constructed(d, r, e)
      BY DEF Emplaced
    <3> HIDE DEF d, s2
    <3> QED BY <2>2, <3>1 DEF Constructed
  <2> HIDE DEF d, k, s2
  <2> QED BY <1>1, <2>1, <2>3 DEF Storing
<1>4. ASSUME s.result[r].error = e.error
      PROVE  s3 = [result |-> [s.result EXCEPT ![r] = k], misused |-> s.misused]
  <2>1. s3 = [s EXCEPT !.misused = s.misused, !.result[r].storage.value = e.value, !.result[r].error = e.error]
    BY <1>1, <1>4 DEF AssignedValue, Fits
  <2>2. [[s.result[r] EXCEPT !.storage.value = e.value] EXCEPT !.error = e.error] = k
    <3> DEFINE x == [exists |-> s.result[r].exists, error |-> s.result[r].error,
                     storage |-> [type |-> s.result[r].storage.type, value |-> e.value]]
    <3>1. [s.result[r] EXCEPT !.storage.value = e.value] = x
      BY <1>1, StorageChanges
    <3>2. [x EXCEPT !.error = e.error] = k
      <4>1. s.result[r].exists = TRUE /\ x.error = e.error
        BY <1>1, <1>4 DEF ResultRecord
      <4>2. s.result[r].storage.type = TypeOf(e.error)
        BY <1>1, <1>4 DEF Fits
      <4> QED BY <1>4, <4>1, <4>2
    <3> QED BY <3>1, <3>2
  <2> HIDE DEF k, s3
  <2> QED BY <1>1, <2>1, <2>2 DEF Storing
<1> HIDE DEF k, s2, s3
<1>5. StoresKept(s2, m2, t)
  BY <1>1, <1>2, <1>3, OneSlotChanges
<1>6. ASSUME s.result[r].error = e.error PROVE StoresKept(s3, m2, t)
  BY <1>1, <1>2, <1>4, <1>6, OneSlotChanges
<1> QED BY <1>5, <1>6 DEF s2, s3, AssignedTo, Emplaced

(* exists_, of an object alone and of one among the others. *)
LEMMA ExistsChanges ==
    ASSUME NEW x \in ResultRecord, NEW y
    PROVE  [x EXCEPT !.exists = y] = [exists |-> y, error |-> x.error, storage |-> x.storage]
BY DEF ResultRecord

LEMMA OfTheResult ==
    ASSUME NEW d, d \in Storing, NEW r \in Slots, NEW k, [d.result[r] EXCEPT !.exists = FALSE] = k
    PROVE  [d EXCEPT !.result[r].exists = FALSE] = [result |-> [d.result EXCEPT ![r] = k], misused |-> d.misused]
<1>1. [d EXCEPT !.result[r].exists = FALSE] = [d EXCEPT !.result = [d.result EXCEPT ![r] = k]]
  BY DEF Storing
<1>2. \A f : [d EXCEPT !.result = f] = [result |-> f, misused |-> d.misused]
  BY DEF Storing
<1> QED BY <1>1, <1>2

(* The constructor of the new object throws. *)
LEMMA ThrowKeeps ==
    ASSUME NEW s, NEW m, NEW t, StoresKept(s, m, t), NEW r \in Slots \ t, s.result[r].exists
    PROVE  StoresKept(DestroyedStorage(s, r), m, t \union {r})
<1> DEFINE k == Emptied(s.result[r])
<1>1. k \in ResultRecord /\ t \union {r} \in SUBSET Slots /\ MeansNow(m, r, m[r], m)
      /\ k.storage.type = "none"
  BY DestroyedFields DEF StoresKept, MeansNow, Emptied
<1>2. DestroyedStorage(s, r) = [result |-> [s.result EXCEPT ![r] = k], misused |-> s.misused]
  BY DestroyedFields
<1> HIDE DEF k
<1>3. s.misused \in SUBSET (s.misused \union {r})
  OBVIOUS
<1> QED BY <1>1, <1>2, <1>3, OneSlotChanges

(* The destructor; an object that was torn is destroyed a second time. *)
LEMMA DestructorKeeps ==
    ASSUME NEW s, NEW m, NEW t, StoresKept(s, m, t), NEW r \in Slots, s.result[r].exists
    PROVE  StoresKept([DestroyedStorage(s, r) EXCEPT !.result[r].exists = FALSE], m, t)
<1> DEFINE j == Emptied(s.result[r])
           k == [exists |-> FALSE, error |-> j.error, storage |-> j.storage]
           d == [DestroyedStorage(s, r) EXCEPT !.result[r].exists = FALSE]
<1>1. /\ j \in ResultRecord /\ t \in SUBSET Slots /\ MeansNow(m, r, m[r], m) /\ s \in Storing
      /\ j.storage.type = "none"
  BY DestroyedFields DEF StoresKept, MeansNow, Emptied
<1>2. PICK u \in SUBSET (s.misused \union {r}) :
         /\ DestroyedStorage(s, r) = [result |-> [s.result EXCEPT ![r] = j], misused |-> u]
         /\ r \notin t => u = s.misused
  BY DestroyedFields
<1> HIDE DEF j
<1>3. k \in ResultRecord /\ [j EXCEPT !.exists = FALSE] = k
  <2>1. j.error \in BOOLEAN /\ j.storage \in Storage
    BY <1>1 DEF ResultRecord
  <2>2. [j EXCEPT !.exists = FALSE] = k
    BY <1>1, ExistsChanges, Zenon
  <2>3. k \in ResultRecord
    BY <2>1 DEF ResultRecord
  <2> QED BY <1>1, <2>2, <2>3
<1>4. k.storage.type = "none" /\ ~k.exists
  BY <1>1
<1> HIDE DEF k
<1>5. d = [result |-> [s.result EXCEPT ![r] = k], misused |-> u]
  <2> DEFINE g == DestroyedStorage(s, r)
  <2>1. g.result = [s.result EXCEPT ![r] = j] /\ g.misused = u
    BY <1>2
  <2>2. u \subseteq Slots
    BY <1>1 DEF Storing
  <2>3. g \in Storing
    BY <1>1, <1>2, <2>2 DEF Storing
  <2> HIDE DEF g
  <2>4. g.result[r] = j /\ [g.result EXCEPT ![r] = k] = [s.result EXCEPT ![r] = k]
    BY <1>1, <2>1 DEF Storing
  <2>5. [g EXCEPT !.result[r].exists = FALSE] = [result |-> [g.result EXCEPT ![r] = k], misused |-> g.misused]
    BY <1>3, <2>3, <2>4, OfTheResult
  <2> QED BY <2>1, <2>4, <2>5 DEF g
<1> HIDE DEF d
<1>6. StoresKept(d, m, t)
  BY <1>1, <1>2, <1>3, <1>4, <1>5, OneSlotChanges
<1> QED BY <1>6 DEF d

(* The chains make a result of what they are given. *)
LEMMA ChainsMakeResults ==
    \A x \in Either, e \in Either :
       /\ AndThen(x, e) \in Either /\ Map(x, e) \in Either /\ MapErr(x, e) \in Either /\ OrElse(x, e) \in Either
       /\ Ok(e.value) \in Either /\ Err(e.value) \in Either
BY DEF AndThen, Map, MapErr, OrElse, Either, Ok, Err

(* Something is taken from one object, and another is made of it. *)
LEMMA TakenAndMade ==
    ASSUME StoresKept(Storages, meant, torn), NEW r \in Slots, NEW from \in Slots, ~Lives(r), Lives(from),
           from \notin torn, NEW rvalue \in BOOLEAN, NEW e \in Either,
           Effect(Constructed(TakenFrom(Storages, from, rvalue), r, e)), Means(r, e, from, rvalue),
           UNCHANGED torn
    PROVE  StoresKept(Storages, meant, torn)'
<1> DEFINE a  == TakenFrom(Storages, from, rvalue)
           f  == LeftOf(meant[from], rvalue)
           m1 == [meant EXCEPT ![from] = f]
           b  == Constructed(a, r, e)
<1>1. /\ r # from /\ Storages.result[from].exists /\ meant \in [Slots -> Either]
      /\ Storages.result[r].storage.type = "none"
  BY DEF Lives, Storages, StoresKept
<1>2. meant[from] \in Either /\ f \in Either
  BY <1>1 DEF Either, LeftOf
<1> HIDE DEF f
<1>3. MeansNow(meant, from, f, m1)
  BY <1>1, <1>2 DEF MeansNow
<1>4. StoresKept(a, m1, torn) /\ a.result[r].storage.type = "none"
  <2>1. f = LeftOf(meant[from], rvalue)
    BY DEF f
  <2> HIDE DEF m1
  <2>2. from \in Slots \ torn
    OBVIOUS
  <2>3. /\ StoresKept(TakenFrom(Storages, from, rvalue), m1, torn)
        /\ TakenFrom(Storages, from, rvalue).result[r].storage.type = Storages.result[r].storage.type
    <3>1. StoresKept(TakenFrom(Storages, from, rvalue), m1, torn)
      BY <1>1, <1>3, <2>1, <2>2, TakenKeeps
    <3>2. SameFlags(Storages, TakenFrom(Storages, from, rvalue))
      BY <1>1, <1>3, <2>1, <2>2, TakenKeeps
    <3> QED BY <3>1, <3>2 DEF SameFlags
  <2> QED BY <1>1, <2>3
<1>5. MeansNow(m1, r, e, meant')
  <2>1. m1 \in [Slots -> Either]
    BY <1>1, <1>2
  <2>2. meant' = [m1 EXCEPT ![r] = e]
    <3>1. CASE rvalue
      BY <1>1, <3>1 DEF Means, f, LeftOf
    <3>2. CASE ~rvalue
      BY <1>1, <3>2 DEF Means, f, LeftOf
    <3> QED BY <3>1, <3>2
  <2> HIDE DEF m1
  <2> QED BY <2>1, <2>2 DEF MeansNow
<1> HIDE DEF a, m1
<1>6. StoresKept(b, meant', torn)
  BY <1>4, <1>5, ConstructedKeeps
<1>7. Storages' = [result |-> b.result, misused |-> b.misused] /\ torn' = torn
  BY DEF Effect, Storages, a
<1>8. b = [result |-> b.result, misused |-> b.misused]
  BY <1>6 DEF StoresKept, Storing
<1> QED BY <1>6, <1>7, <1>8

(* What an object that can be read holds. *)
LEMMA Readable ==
    ASSUME StoresKept(Storages, meant, torn), NEW r \in Slots, Lives(r), r \notin torn
    PROVE  /\ Content(Storages, r) = meant[r] /\ meant[r] \in Either
           /\ meant[r].error = result[r].error /\ meant[r].value = result[r].storage.value
<1>1. Fits(Storages.result[r], meant[r]) /\ meant[r] \in Either /\ Storages.result[r] \in ResultRecord
      /\ Storages.result = result
  BY DEF StoresKept, Lives, Storages, Storing
<1>2. meant[r].error = result[r].error /\ meant[r].value = result[r].storage.value
  BY <1>1 DEF Fits
<1>3. Content(Storages, r) = meant[r]
  BY <1>1, <1>2 DEF Content, Either
<1> QED BY <1>1, <1>2, <1>3

LEMMA MeantNow ==
    ASSUME NEW m, m \in [Slots -> Either], NEW r \in Slots, NEW e \in Either
    PROVE  MeansNow(m, r, e, [m EXCEPT ![r] = e])
BY DEF MeansNow

LEMMA Fields ==
    ASSUME NEW s, Effect(s), NEW m, NEW t, StoresKept(s, m, t), meant' = m, torn' = t
    PROVE  StoresKept(Storages, meant, torn)'
<1>1. s = [result |-> s.result, misused |-> s.misused]
  BY DEF StoresKept, Storing
<1>2. Storages' = s
  BY <1>1 DEF Effect, Storages
<1> QED BY <1>2

LEMMA AssignResultKeeps ==
    ASSUME StoresKept(Storages, meant, torn), NEW r \in Slots, NEW from \in Slots, NEW rvalue \in BOOLEAN,
           AssignResult(r, from, rvalue)
    PROVE  StoresKept(Storages, meant, torn)'
<1> DEFINE a  == TakenFrom(Storages, from, rvalue)
           f  == LeftOf(meant[from], rvalue)
           m1 == [meant EXCEPT ![from] = f]
           e  == meant[from]
           b  == AssignedTo(a, r, e)
<1>1. /\ Lives(r) /\ Lives(from) /\ r \notin torn /\ from \notin torn /\ (rvalue => r # from)
      /\ Effect(AssignedTo(a, r, Content(Storages, from))) /\ torn' = torn
      /\ Means(r, meant[from], from, rvalue)
  BY DEF AssignResult
<1>2. e \in Either /\ f \in Either /\ Content(Storages, from) = e
  BY <1>1, Readable DEF Either, LeftOf
<1>3. meant \in [Slots -> Either] /\ Storages.result[from].exists /\ Storages.result[r].exists
  BY <1>1 DEF StoresKept, Lives, Storages
<1> HIDE DEF f
<1>4. MeansNow(meant, from, f, m1) /\ m1 \in [Slots -> Either]
  BY <1>2, <1>3, MeantNow
<1>5. meant' = [m1 EXCEPT ![r] = e]
  <2>1. CASE rvalue
    BY <1>1, <1>3, <2>1 DEF Means, f, LeftOf
  <2>2. CASE ~rvalue
    BY <1>1, <1>3, <2>2 DEF Means, f, LeftOf
  <2> QED BY <2>1, <2>2
<1> HIDE DEF m1
<1>6. StoresKept(a, m1, torn) /\ a.result[r].exists = Storages.result[r].exists
  <2>1. f = LeftOf(meant[from], rvalue)
    BY DEF f
  <2>2. from \in Slots \ torn
    BY <1>1
  <2>3. /\ StoresKept(TakenFrom(Storages, from, rvalue), m1, torn)
        /\ TakenFrom(Storages, from, rvalue).result[r].exists = Storages.result[r].exists
    <3>1. StoresKept(TakenFrom(Storages, from, rvalue), m1, torn)
      BY <1>3, <1>4, <2>1, <2>2, TakenKeeps
    <3>2. SameFlags(Storages, TakenFrom(Storages, from, rvalue))
      BY <1>3, <1>4, <2>1, <2>2, TakenKeeps
    <3> QED BY <3>1, <3>2 DEF SameFlags
  <2> QED BY <2>3
<1>7. MeansNow(m1, r, e, meant')
  BY <1>2, <1>4, <1>5, MeantNow
<1> HIDE DEF a, e
<1>8. StoresKept(b, meant', torn)
  <2>1. r \in Slots \ torn
    BY <1>1
  <2> QED BY <1>2, <1>3, <1>6, <1>7, <2>1, AssignedKeeps
<1>9. Effect(b)
  BY <1>1, <1>2 DEF e
<1> HIDE DEF b
<1> QED BY <1>1, <1>8, <1>9, Fields

(* Every step of a result<T, E>. *)
LEMMA ResultStep ==
    ASSUME StoresKept(Storages, meant, torn), ResultNext
    PROVE  StoresKept(Storages, meant, torn)'
<1>1. meant \in [Slots -> Either] /\ Storages.result = result /\ torn \subseteq Slots
  BY DEF StoresKept, Storages
<1>2. Fresh \subseteq Either
  BY DEF Fresh, Either
<1>3. ASSUME NEW r \in Slots, MakeResult(r) PROVE StoresKept(Storages, meant, torn)'
  <2>1. PICK e \in Fresh : Effect(Constructed(Storages, r, e)) /\ meant' = [meant EXCEPT ![r] = e]
    BY <1>3 DEF MakeResult
  <2>2. Storages.result[r].storage.type = "none" /\ torn' = torn
    BY <1>1, <1>3 DEF MakeResult, Lives, StoresKept
  <2>3. e \in Either /\ MeansNow(meant, r, e, [meant EXCEPT ![r] = e])
    BY <1>1, <1>2, MeantNow
  <2>4. StoresKept(Constructed(Storages, r, e), [meant EXCEPT ![r] = e], torn)
    BY <2>2, <2>3, ConstructedKeeps
  <2> QED BY <2>1, <2>2, <2>4, Fields
<1>4. ASSUME NEW r \in Slots, AssignValue(r) PROVE StoresKept(Storages, meant, torn)'
  <2>1. PICK e \in Fresh : /\ Effect(AssignedTo(Storages, r, e)) \/ Effect(Emplaced(Storages, r, e))
                           /\ meant' = [meant EXCEPT ![r] = e]
    BY <1>4 DEF AssignValue
  <2>2. r \in Slots \ torn /\ Storages.result[r].exists /\ torn' = torn
    BY <1>1, <1>4 DEF AssignValue, Lives
  <2>3. e \in Either /\ MeansNow(meant, r, e, [meant EXCEPT ![r] = e])
    BY <1>1, <1>2, MeantNow
  <2>4. /\ StoresKept(AssignedTo(Storages, r, e), [meant EXCEPT ![r] = e], torn)
        /\ StoresKept(Emplaced(Storages, r, e), [meant EXCEPT ![r] = e], torn)
    BY <2>2, <2>3, AssignedKeeps
  <2> QED BY <2>1, <2>2, <2>4, Fields
<1>5. ASSUME NEW r \in Slots, ThrowAfterDestroy(r) PROVE StoresKept(Storages, meant, torn)'
  <2>1. /\ r \in Slots \ torn /\ Storages.result[r].exists /\ torn' = torn \union {r} /\ meant' = meant
        /\ Effect(DestroyedStorage(Storages, r))
    BY <1>1, <1>5 DEF ThrowAfterDestroy, Lives
  <2> QED BY <2>1, ThrowKeeps, Fields
<1>6. ASSUME NEW r \in Slots, DestroyResult(r) PROVE StoresKept(Storages, meant, torn)'
  <2>1. /\ Storages.result[r].exists /\ torn' = torn /\ meant' = meant
        /\ Effect([DestroyedStorage(Storages, r) EXCEPT !.result[r].exists = FALSE])
    BY <1>1, <1>6 DEF DestroyResult, Lives
  <2> QED BY <2>1, DestructorKeeps, Fields
<1>7. ASSUME NEW r \in Slots, NEW from \in Slots, NEW rvalue \in BOOLEAN, CopyResult(r, from, rvalue)
      PROVE  StoresKept(Storages, meant, torn)'
  <2>1. /\ ~Lives(r) /\ Lives(from) /\ from \notin torn /\ UNCHANGED torn
        /\ Effect(Constructed(TakenFrom(Storages, from, rvalue), r, Content(Storages, from)))
        /\ Means(r, meant[from], from, rvalue)
    BY <1>7 DEF CopyResult
  <2>2. Content(Storages, from) = meant[from] /\ meant[from] \in Either
    BY <2>1, Readable
  <2> QED BY <2>1, <2>2, TakenAndMade
<1>8. ASSUME NEW r \in Slots, NEW from \in Slots, NEW rvalue \in BOOLEAN, Chain(r, from, rvalue)
      PROVE  StoresKept(Storages, meant, torn)'
  <2>1. ~Lives(r) /\ Lives(from) /\ from \notin torn /\ UNCHANGED torn
    BY <1>8 DEF Chain
  <2>2. Content(Storages, from) = meant[from] /\ meant[from] \in Either
    BY <2>1, Readable
  <2>3. PICK e \in Either :
           /\ Effect(Constructed(TakenFrom(Storages, from, rvalue), r, e))
           /\ Means(r, e, from, rvalue)
    <3>1. PICK x \in Fresh : \/ Chained(r, from, rvalue, AndThen, x) \/ Chained(r, from, rvalue, Map, x)
                             \/ Chained(r, from, rvalue, MapErr, x) \/ Chained(r, from, rvalue, OrElse, x)
      BY <1>8 DEF Chain
    <3>2. /\ AndThen(meant[from], x) \in Either /\ Map(meant[from], x) \in Either
          /\ MapErr(meant[from], x) \in Either /\ OrElse(meant[from], x) \in Either
      BY <1>2, <2>2, ChainsMakeResults
    <3> QED BY <2>2, <3>1, <3>2 DEF Chained
  <2> QED BY <2>1, <2>3, TakenAndMade
<1>9. ASSUME NEW r \in Slots, NEW from \in Slots, NEW rvalue \in BOOLEAN, Access(r, from, rvalue)
      PROVE  StoresKept(Storages, meant, torn)'
  <2>1. /\ ~Lives(r) /\ Lives(from) /\ from \notin torn /\ UNCHANGED torn
        /\ Effect(Constructed(TakenFrom(Storages, from, rvalue), r,
                              [error |-> result[from].error, value |-> result[from].storage.value]))
        /\ Means(r, meant[from], from, rvalue)
    BY <1>9 DEF Access
  <2>2. /\ meant[from] \in Either
        /\ [error |-> result[from].error, value |-> result[from].storage.value] = meant[from]
    BY <2>1, Readable DEF Either
  <2> QED BY <2>1, <2>2, TakenAndMade
<1>10. ASSUME NEW r \in Slots, NEW from \in Slots, NEW rvalue \in BOOLEAN, AssignResult(r, from, rvalue)
       PROVE  StoresKept(Storages, meant, torn)'
  BY <1>10, AssignResultKeeps
<1> QED BY <1>3, <1>4, <1>5, <1>6, <1>7, <1>8, <1>9, <1>10 DEF ResultNext

(***************************************************************************)
(* Optional errors.                                                        *)
(***************************************************************************)

(* Every sound optional has the content that was last put into it. *)
VoidKept == VoidTypeOK /\ \A o \in Optionals : Sound(o) => VoidContent(o) = meantVoid[o]

(* The inductive invariant of results of both kinds. *)
ResultsInv == StoresKept(Storages, meant, torn) /\ VoidKept

Option(e) == [exists |-> TRUE, error |-> e.error, value |-> e.value]

LEMMA VoidResultsTyped ==
    /\ \A x \in VoidEither : /\ x \in Either /\ Option(x) \in [exists : BOOLEAN, error : BOOLEAN,
                                                              value : Values \union {"moved"}]
                             /\ Option(x).exists /\ Option(x).error = x.error /\ Option(x).value = x.value
    /\ \A x \in VoidEither, e \in VoidFresh :
          AndThen(x, e) \in VoidEither /\ MapErr(x, e) \in VoidEither
    /\ \A x \in Either, e \in VoidFresh : AndThen(x, e) \in VoidEither
    /\ VoidFresh \subseteq VoidEither
<1>1. Done \in VoidEither /\ VoidFresh \subseteq VoidEither
  BY DEF VoidEither, VoidFresh
<1>2. \A v \in Values \union {"moved"} : Err(v) \in VoidEither
  BY DEF VoidEither, VoidFresh
<1>3. \A x \in VoidEither : x = Ok("moved") \/ \E v \in Values \union {"moved"} : x = Err(v)
  BY DEF VoidEither, VoidFresh, Done
<1>4. \A x \in VoidEither : x \in Either
  <2>1. Ok("moved") \in Either /\ \A v \in Values \union {"moved"} : Err(v) \in Either
    BY DEF Either, Ok, Err
  <2> QED BY <1>3, <2>1
<1>5. \A x \in Either : x.error => x \in VoidEither
  <2> SUFFICES ASSUME NEW x \in Either, x.error PROVE x \in VoidEither
    OBVIOUS
  <2>1. x = Err(x.value) /\ x.value \in Values \union {"moved"}
    BY DEF Either, Err
  <2> QED BY <1>2, <2>1
<1>6. \A x \in Either, e \in VoidFresh : AndThen(x, e) \in VoidEither
  BY <1>1, <1>5 DEF AndThen
<1>7. \A x \in VoidEither, e \in VoidFresh : MapErr(x, e) \in VoidEither
  <2> SUFFICES ASSUME NEW x \in VoidEither, NEW e \in VoidFresh PROVE MapErr(x, e) \in VoidEither
    OBVIOUS
  <2>1. e.value \in Values \union {"moved"}
    BY <1>1, <1>4 DEF Either
  <2> QED BY <1>2, <2>1 DEF MapErr
<1>8. \A x \in VoidEither : /\ Option(x) \in [exists : BOOLEAN, error : BOOLEAN, value : Values \union {"moved"}]
                            /\ Option(x).exists /\ Option(x).error = x.error /\ Option(x).value = x.value
  BY <1>4 DEF Option, Either
<1> QED BY <1>1, <1>4, <1>6, <1>7, <1>8

LEMMA SpentTyped ==
    ASSUME NEW x \in VoidEither, NEW rvalue \in BOOLEAN
    PROVE  Spent(x, rvalue) \in VoidEither /\ Spent(x, rvalue).error = x.error
<1>1. Err("moved") \in VoidEither /\ Err("moved").error = TRUE /\ x.error \in BOOLEAN
  BY VoidResultsTyped DEF VoidEither, Err, Either
<1> QED BY <1>1 DEF Spent

(* An object takes e, and nothing else happens. *)
LEMMA PutsKeeps ==
    ASSUME VoidKept, NEW o \in Optionals, NEW e \in VoidEither,
           optional' = [optional EXCEPT ![o] = Option(e)], meantVoid' = [meantVoid EXCEPT ![o] = e],
           UNCHANGED emptied
    PROVE  VoidKept'
<1>1. Option(e) \in [exists : BOOLEAN, error : BOOLEAN, value : Values \union {"moved"}]
      /\ Option(e).exists /\ Option(e).error = e.error /\ Option(e).value = e.value /\ e \in Either
  BY VoidResultsTyped
<1>2. VoidTypeOK'
  BY <1>1 DEF VoidKept, VoidTypeOK
<1>3. ASSUME NEW q \in Optionals, Sound(q)' PROVE (VoidContent(q) = meantVoid[q])'
  <2>1. CASE q = o
    <3>1. optional'[q].error = e.error /\ optional'[q].value = e.value /\ meantVoid'[q] = e
      BY <1>1, <2>1 DEF VoidKept, VoidTypeOK
    <3>2. e = [error |-> e.error, value |-> e.value]
      BY <1>1 DEF Either
    <3> QED BY <3>1, <3>2 DEF VoidContent
  <2>2. CASE q # o
    BY <1>3, <2>2 DEF VoidKept, VoidTypeOK, Sound, Stands, VoidContent
  <2> QED BY <2>1, <2>2
<1> QED BY <1>2, <1>3 DEF VoidKept

Consistent(opts, means) ==
    /\ opts \in [Optionals -> [exists : BOOLEAN, error : BOOLEAN, value : Values \union {"moved"}]]
    /\ means \in [Optionals -> VoidEither]
    /\ \A q \in Optionals : opts[q].exists /\ q \notin emptied =>
          [error |-> opts[q].error, value |-> opts[q].value] = means[q]

(* What is taken from an object leaves it as Spent says. *)
LEMMA SpentKeeps ==
    ASSUME VoidKept, NEW from \in Optionals, Sound(from), NEW rvalue \in BOOLEAN,
           NEW opts, opts = [optional EXCEPT ![from].value = Spent(VoidContent(from), rvalue).value],
           NEW means, means = [meantVoid EXCEPT ![from] = Spent(@, rvalue)]
    PROVE  Consistent(opts, means)
<1> DEFINE x == VoidContent(from)
           y == Spent(x, rvalue)
<1>1. /\ x = meantVoid[from] /\ x \in VoidEither /\ x.error = optional[from].error
      /\ optional \in [Optionals -> [exists : BOOLEAN, error : BOOLEAN, value : Values \union {"moved"}]]
      /\ meantVoid \in [Optionals -> VoidEither]
  BY DEF VoidKept, VoidTypeOK, VoidContent
<1>2. y \in VoidEither /\ y \in Either /\ y.error = x.error
  <2> HIDE DEF x
  <2>1. y \in VoidEither /\ y.error = x.error
    BY <1>1, SpentTyped
  <2> QED BY <2>1, VoidResultsTyped
<1>3. y.value \in Values \union {"moved"} /\ y = [error |-> y.error, value |-> y.value]
  BY <1>2 DEF Either
<1>4. opts = [optional EXCEPT ![from].value = y.value] /\ means = [meantVoid EXCEPT ![from] = y]
  BY <1>1
<1> HIDE DEF x, y
<1>5. /\ opts \in [Optionals -> [exists : BOOLEAN, error : BOOLEAN, value : Values \union {"moved"}]]
      /\ opts[from].value = y.value /\ opts[from].error = optional[from].error
      /\ opts[from].exists = optional[from].exists
      /\ \A q \in Optionals \ {from} : opts[q] = optional[q]
  BY <1>1, <1>3, <1>4
<1>6. /\ means \in [Optionals -> VoidEither] /\ means[from] = y
      /\ \A q \in Optionals \ {from} : means[q] = meantVoid[q]
  BY <1>1, <1>2, <1>4
<1>7. ASSUME NEW q \in Optionals, opts[q].exists /\ q \notin emptied
      PROVE  [error |-> opts[q].error, value |-> opts[q].value] = means[q]
  <2>1. CASE q = from
    BY <1>1, <1>2, <1>3, <1>5, <1>6, <2>1
  <2>2. CASE q # from
    BY <1>5, <1>6, <1>7, <2>2 DEF VoidKept, Sound, Stands, VoidContent
  <2> QED BY <2>1, <2>2
<1> QED BY <1>5, <1>6, <1>7 DEF Consistent

(* The same, and another object takes e. *)
LEMMA TakesKeeps ==
    ASSUME VoidKept, NEW o \in Optionals, NEW from \in Optionals, o # from, Sound(from),
           NEW rvalue \in BOOLEAN, NEW e \in VoidEither, UNCHANGED emptied,
           optional' = [optional EXCEPT ![from].value = Spent(VoidContent(from), rvalue).value,
                                        ![o] = Option(e)],
           meantVoid' = [meantVoid EXCEPT ![from] = Spent(@, rvalue), ![o] = e]
    PROVE  VoidKept'
<1> DEFINE opts  == [optional EXCEPT ![from].value = Spent(VoidContent(from), rvalue).value]
           means == [meantVoid EXCEPT ![from] = Spent(@, rvalue)]
<1>1. Consistent(opts, means)
  BY SpentKeeps
<1>2. optional' = [opts EXCEPT ![o] = Option(e)] /\ meantVoid' = [means EXCEPT ![o] = e]
  BY DEF VoidKept, VoidTypeOK
<1>3. Option(e) \in [exists : BOOLEAN, error : BOOLEAN, value : Values \union {"moved"}]
      /\ Option(e).exists /\ Option(e).error = e.error /\ Option(e).value = e.value /\ e \in Either
  BY VoidResultsTyped
<1>4. emptied' \subseteq Optionals
  BY DEF VoidKept, VoidTypeOK
<1> HIDE DEF opts, means
<1>5. VoidTypeOK'
  BY <1>1, <1>2, <1>3, <1>4 DEF VoidTypeOK, Consistent
<1>6. ASSUME NEW q \in Optionals, Sound(q)' PROVE (VoidContent(q) = meantVoid[q])'
  <2>1. CASE q = o
    <3>1. optional'[q].error = e.error /\ optional'[q].value = e.value /\ meantVoid'[q] = e
      BY <1>1, <1>2, <1>3, <2>1 DEF Consistent
    <3>2. e = [error |-> e.error, value |-> e.value]
      BY <1>3 DEF Either
    <3> QED BY <3>1, <3>2 DEF VoidContent
  <2>2. CASE q # o
    BY <1>1, <1>2, <1>6, <2>2 DEF Sound, Stands, VoidContent, Consistent
  <2> QED BY <2>1, <2>2
<1> QED BY <1>5, <1>6 DEF VoidKept

LEMMA SameResults ==
    ASSUME StoresKept(Storages, meant, torn), UNCHANGED resultVars
    PROVE  StoresKept(Storages, meant, torn)'
<1>1. Storages' = Storages /\ meant' = meant /\ torn' = torn
  BY DEF resultVars, Storages
<1> QED BY <1>1

LEMMA MakeVoidKeeps ==
    ASSUME ResultsInv, NEW o \in Optionals, MakeVoid(o) \/ EmplaceVoid(o)
    PROVE  ResultsInv'
<1>1. PICK x \in VoidFresh : Puts(o, x) /\ UNCHANGED resultVars
  BY DEF MakeVoid, EmplaceVoid
<1>2. optional' = [optional EXCEPT ![o] = Option(x)] /\ meantVoid' = [meantVoid EXCEPT ![o] = x]
      /\ UNCHANGED emptied /\ x \in VoidEither
  BY <1>1, VoidResultsTyped DEF Puts, Option
<1> QED BY <1>1, <1>2, PutsKeeps, SameResults DEF ResultsInv

LEMMA ThrowInEmplaceKeeps ==
    ASSUME ResultsInv, NEW o \in Optionals, ThrowInEmplace(o)
    PROVE  ResultsInv'
<1>1. /\ optional' = [optional EXCEPT ![o].error = FALSE, ![o].value = "moved"]
      /\ emptied' = emptied \union {o} /\ meantVoid' = meantVoid /\ UNCHANGED resultVars
  BY DEF ThrowInEmplace
<1>2. VoidTypeOK
  BY DEF ResultsInv, VoidKept
<1>3. /\ optional' \in [Optionals -> [exists : BOOLEAN, error : BOOLEAN, value : Values \union {"moved"}]]
      /\ \A q \in Optionals \ {o} : optional'[q] = optional[q]
  BY <1>1, <1>2 DEF VoidTypeOK
<1>4. VoidTypeOK'
  BY <1>1, <1>2, <1>3 DEF VoidTypeOK
<1>5. \A q \in Optionals : Sound(q)' => (VoidContent(q) = meantVoid[q])'
  BY <1>1, <1>3 DEF ResultsInv, VoidKept, Sound, Stands, VoidContent
<1> QED BY <1>1, <1>4, <1>5, SameResults DEF ResultsInv, VoidKept

LEMMA DestroyVoidKeeps ==
    ASSUME ResultsInv, NEW o \in Optionals, DestroyVoid(o)
    PROVE  ResultsInv'
<1>1. /\ optional' = [optional EXCEPT ![o] = [exists |-> FALSE, error |-> FALSE, value |-> "moved"]]
      /\ emptied' = emptied \ {o} /\ meantVoid' = meantVoid /\ UNCHANGED resultVars
  BY DEF DestroyVoid
<1>2. VoidTypeOK
  BY DEF ResultsInv, VoidKept
<1>3. /\ optional' \in [Optionals -> [exists : BOOLEAN, error : BOOLEAN, value : Values \union {"moved"}]]
      /\ \A q \in Optionals \ {o} : optional'[q] = optional[q]
      /\ ~optional'[o].exists
  BY <1>1, <1>2 DEF VoidTypeOK
<1>4. VoidTypeOK'
  BY <1>1, <1>2, <1>3 DEF VoidTypeOK
<1>5. \A q \in Optionals : Sound(q)' => (VoidContent(q) = meantVoid[q])'
  BY <1>1, <1>3 DEF ResultsInv, VoidKept, Sound, Stands, VoidContent
<1> QED BY <1>1, <1>4, <1>5, SameResults DEF ResultsInv, VoidKept

(* Copies, moves and chains among results of this kind. *)
LEMMA ChainVoidKeeps ==
    ASSUME ResultsInv, NEW o \in Optionals, NEW from \in Optionals, NEW rvalue \in BOOLEAN,
           CopyVoid(o, from, rvalue) \/ ChainVoid(o, from, rvalue)
    PROVE  ResultsInv'
<1> DEFINE x == VoidContent(from)
<1>1. o # from /\ Sound(from) /\ UNCHANGED <<emptied, resultVars>>
  BY DEF CopyVoid, ChainVoid, Sound, Takes
<1>2. x = meantVoid[from] /\ x \in VoidEither
  BY <1>1 DEF ResultsInv, VoidKept, VoidTypeOK
<1>3. PICK y \in VoidEither :
         /\ optional' = [optional EXCEPT ![from].value = Spent(VoidContent(from), rvalue).value,
                                         ![o] = Option(y)]
         /\ meantVoid' = [meantVoid EXCEPT ![from] = Spent(@, rvalue), ![o] = y]
  <2>1. CASE CopyVoid(o, from, rvalue)
    <3>1. /\ optional' = [optional EXCEPT ![from].value = Spent(VoidContent(from), rvalue).value,
                                          ![o] = Option(x)]
          /\ meantVoid' = [meantVoid EXCEPT ![from] = Spent(@, rvalue), ![o] = meantVoid[from]]
      BY <2>1 DEF CopyVoid, Takes, Option
    <3> QED BY <1>2, <3>1
  <2>2. CASE ChainVoid(o, from, rvalue)
    <3>1. PICK e \in VoidFresh :
             \/ Takes(o, from, rvalue, LAMBDA z : AndThen(z, e))
             \/ Takes(o, from, rvalue, LAMBDA z : MapErr(z, e))
      BY <2>2 DEF ChainVoid
    <3>2. AndThen(x, e) \in VoidEither /\ MapErr(x, e) \in VoidEither
      BY <1>2, VoidResultsTyped
    <3>3. CASE Takes(o, from, rvalue, LAMBDA z : AndThen(z, e))
      <4>1. /\ optional' = [optional EXCEPT ![from].value = Spent(VoidContent(from), rvalue).value,
                                            ![o] = Option(AndThen(x, e))]
            /\ meantVoid' = [meantVoid EXCEPT ![from] = Spent(@, rvalue), ![o] = AndThen(meantVoid[from], e)]
        BY <3>3 DEF Takes, Option
      <4> QED BY <1>2, <3>2, <4>1
    <3>4. CASE Takes(o, from, rvalue, LAMBDA z : MapErr(z, e))
      <4>1. /\ optional' = [optional EXCEPT ![from].value = Spent(VoidContent(from), rvalue).value,
                                            ![o] = Option(MapErr(x, e))]
            /\ meantVoid' = [meantVoid EXCEPT ![from] = Spent(@, rvalue), ![o] = MapErr(meantVoid[from], e)]
        BY <3>4 DEF Takes, Option
      <4> QED BY <1>2, <3>2, <4>1
    <3> QED BY <3>1, <3>3, <3>4
  <2> QED BY <2>1, <2>2
<1>4. VoidKept'
  BY <1>1, <1>3, TakesKeeps DEF ResultsInv
<1> QED BY <1>1, <1>4, SameResults DEF ResultsInv

(* and_then of a result<T, E>, to a result<void, E>. *)
LEMMA EnterVoidKeeps ==
    ASSUME ResultsInv, NEW o \in Optionals, NEW r \in Slots, NEW rvalue \in BOOLEAN, EnterVoid(o, r, rvalue)
    PROVE  ResultsInv'
<1> DEFINE f == LeftOf(meant[r], rvalue)
           m == [meant EXCEPT ![r] = f]
<1>1. /\ Lives(r) /\ r \notin torn /\ Effect(TakenFrom(Storages, r, rvalue)) /\ torn' = torn
      /\ meant' = (IF rvalue THEN [meant EXCEPT ![r].value = "moved"] ELSE meant) /\ UNCHANGED emptied
  BY DEF EnterVoid
<1>2. StoresKept(Storages, meant, torn) /\ VoidKept
  BY DEF ResultsInv
<1>3. Content(Storages, r) = meant[r] /\ meant[r] \in Either /\ f \in Either
  BY <1>1, <1>2, Readable DEF Either, LeftOf
<1>4. meant \in [Slots -> Either] /\ Storages.result[r].exists /\ r \in Slots \ torn
  BY <1>1, <1>2 DEF StoresKept, Storages, Lives
<1>5. meant' = m
  BY <1>1, <1>4 DEF LeftOf
<1> HIDE DEF f
<1>6. MeansNow(meant, r, f, m)
  BY <1>3, <1>4, MeantNow
<1>7. StoresKept(TakenFrom(Storages, r, rvalue), m, torn)
  <2>1. f = LeftOf(meant[r], rvalue)
    BY DEF f
  <2> HIDE DEF m
  <2> QED BY <1>2, <1>4, <1>6, <2>1, TakenKeeps
<1>8. VoidKept'
  <2>1. PICK e \in VoidFresh :
           /\ optional' = [optional EXCEPT ![o] = Option(AndThen(Content(Storages, r), e))]
           /\ meantVoid' = [meantVoid EXCEPT ![o] = AndThen(meant[r], e)]
    BY DEF EnterVoid, Option
  <2>2. AndThen(meant[r], e) \in VoidEither
    BY <1>3, VoidResultsTyped
  <2> QED BY <1>1, <1>2, <1>3, <2>1, <2>2, PutsKeeps
<1> QED BY <1>1, <1>5, <1>7, <1>8, Fields DEF ResultsInv

(* The chains that lead back to a result<T, E>. *)
LEMMA LeaveVoidKeeps ==
    ASSUME ResultsInv, NEW from \in Optionals, NEW r \in Slots, NEW rvalue \in BOOLEAN,
           LeaveVoid(r, from, rvalue)
    PROVE  ResultsInv'
<1> DEFINE x == VoidContent(from)
<1>1. /\ ~Lives(r) /\ Sound(from) /\ UNCHANGED <<emptied, torn>>
      /\ optional' = [optional EXCEPT ![from].value = Spent(VoidContent(from), rvalue).value]
      /\ meantVoid' = [meantVoid EXCEPT ![from] = Spent(@, rvalue)]
  BY DEF LeaveVoid
<1>2. StoresKept(Storages, meant, torn) /\ VoidKept
  BY DEF ResultsInv
<1>3. x = meantVoid[from] /\ x \in Either
  <2>1. x = meantVoid[from] /\ meantVoid[from] \in VoidEither
    BY <1>1, <1>2 DEF VoidKept, VoidTypeOK
  <2> QED BY <2>1, VoidResultsTyped
<1>4. VoidKept'
  <2>1. Consistent(optional', meantVoid')
    BY <1>1, <1>2, SpentKeeps
  <2>2. emptied \subseteq Optionals /\ emptied' = emptied
    BY <1>1, <1>2 DEF VoidKept, VoidTypeOK
  <2> QED BY <2>1, <2>2 DEF Consistent, VoidKept, VoidTypeOK, Sound, Stands, VoidContent
<1>5. PICK y \in Either : Effect(Constructed(Storages, r, y)) /\ meant' = [meant EXCEPT ![r] = y]
  <2>1. PICK e \in Fresh :
           \/ LeavesAs(r, from, LAMBDA z : AndThen(z, e))
           \/ LeavesAs(r, from, LAMBDA z : Map(z, e))
           \/ LeavesAs(r, from, LAMBDA z : OrElse(z, Err(e.value)))
    BY DEF LeaveVoid
  <2>2. e \in Either
    BY DEF Fresh, Either
  <2>3. Err(e.value) \in Either
    BY <2>2, ChainsMakeResults
  <2>4. AndThen(x, e) \in Either /\ Map(x, e) \in Either /\ OrElse(x, Err(e.value)) \in Either
    BY <1>3, <2>2, <2>3, ChainsMakeResults
  <2>5. CASE LeavesAs(r, from, LAMBDA z : AndThen(z, e))
    BY <1>3, <2>4, <2>5 DEF LeavesAs
  <2>6. CASE LeavesAs(r, from, LAMBDA z : Map(z, e))
    BY <1>3, <2>4, <2>6 DEF LeavesAs
  <2>7. CASE LeavesAs(r, from, LAMBDA z : OrElse(z, Err(e.value)))
    BY <1>3, <2>4, <2>7 DEF LeavesAs
  <2> QED BY <2>1, <2>5, <2>6, <2>7
<1>6. Storages.result[r].storage.type = "none" /\ meant \in [Slots -> Either]
  BY <1>1, <1>2 DEF StoresKept, Lives, Storages
<1>7. StoresKept(Constructed(Storages, r, y), [meant EXCEPT ![r] = y], torn)
  BY <1>2, <1>6, MeantNow, ConstructedKeeps
<1> QED BY <1>1, <1>4, <1>5, <1>7, Fields DEF ResultsInv

LEMMA ResultsStep ==
    ASSUME TargetAssumption, ResultsInv, [VoidNext \/ (ResultNext /\ UNCHANGED voidVars)]_<<resultVars, voidVars>>
    PROVE  ResultsInv'
<1>1. ASSUME UNCHANGED voidVars PROVE VoidKept'
  BY <1>1 DEF voidVars, ResultsInv, VoidKept, VoidTypeOK, Sound, Stands, VoidContent
<1>2. CASE UNCHANGED <<resultVars, voidVars>>
  BY <1>1, <1>2, SameResults DEF ResultsInv
<1>3. CASE ResultNext /\ UNCHANGED voidVars
  BY <1>1, <1>3, ResultStep DEF ResultsInv
<1>4. CASE VoidNext
  <2>1. CASE \E o \in Optionals : MakeVoid(o) \/ EmplaceVoid(o) \/ ThrowInEmplace(o) \/ DestroyVoid(o)
    BY <2>1, MakeVoidKeeps, ThrowInEmplaceKeeps, DestroyVoidKeeps
  <2>2. CASE \E o, from \in Optionals, rvalue \in BOOLEAN : CopyVoid(o, from, rvalue) \/ ChainVoid(o, from, rvalue)
    BY <2>2, ChainVoidKeeps
  <2>3. CASE \E o \in Optionals, r \in Targets, rvalue \in BOOLEAN :
                EnterVoid(o, r, rvalue) \/ LeaveVoid(r, o, rvalue)
    BY <2>3, EnterVoidKeeps, LeaveVoidKeeps DEF TargetAssumption
  <2>4. CASE UNCHANGED voidVars /\ \E r \in Targets : DestroyResult(r)
    <3>1. ResultNext
      BY <2>4 DEF ResultNext, TargetAssumption
    <3> QED BY <1>1, <2>4, <3>1, ResultStep DEF ResultsInv
  <2> QED BY <1>4, <2>1, <2>2, <2>3, <2>4 DEF VoidNext
<1> QED BY <1>2, <1>3, <1>4

LEMMA ResultsBegin == ResultInit /\ VoidInit => ResultsInv
<1> SUFFICES ASSUME ResultInit, VoidInit PROVE ResultsInv
  OBVIOUS
<1>1. Ok("moved") \in Either /\ Done \in VoidEither /\ "none" \in {"T", "E", "none"}
  BY DEF Ok, Either, VoidEither, VoidFresh
<1>2. StoresKept(Storages, meant, torn)
  BY <1>1 DEF ResultInit, StoresKept, Storages, Storing, ResultRecord, Storage
<1>3. VoidKept
  BY <1>1 DEF VoidInit, VoidKept, VoidTypeOK, Sound, Stands
<1> QED BY <1>2, <1>3 DEF ResultsInv

(* The inductive invariant of the results of both kinds. *)
THEOREM ResultsInvariant == ResultsSpec => []ResultsInv
<1>1. ResultsInv /\ [VoidNext \/ (ResultNext /\ UNCHANGED voidVars)]_<<resultVars, voidVars>> => ResultsInv'
  BY TargetAssumption, ResultsStep
<1> QED BY <1>1, ResultsBegin, PTL DEF ResultsSpec

(* A result<T, E> or result<void, E> reads as what was last put into it,   *)
(* and its storage is destroyed as what it is, whatever is assigned,       *)
(* emplaced and chained, unless a constructor has thrown after destroy.    *)
THEOREM ResultsAreKept == ResultsSpec => []ResultsHold
<1>1. ResultsInv => ResultsHold
  <2> SUFFICES ASSUME ResultsInv PROVE ResultsHold
    OBVIOUS
  <2>1. StoresKept(Storages, meant, torn) /\ Storages.result = result /\ Storages.misused = misused
    BY DEF ResultsInv, Storages
  <2>2. misused \subseteq torn
    BY <2>1 DEF StoresKept
  <2>3. ASSUME NEW r \in Slots \ torn, Lives(r)
        PROVE  result[r].storage.type = TypeOf(result[r].error) /\ Content(Storages, r) = meant[r]
    BY <2>1, <2>3, Readable DEF StoresKept, Lives, Fits
  <2> QED BY <2>2, <2>3 DEF ResultsInv, VoidKept, ResultsHold, HoldsWhatItMeans
<1> QED BY <1>1, ResultsInvariant, PTL

(***************************************************************************)
(* Callbacks.  A holder has a manager and an invoker exactly when it has a *)
(* callable, which nobody else has; a box that is not used yet is empty,   *)
(* and no box holds a box.                                                 *)
(***************************************************************************)

(* Wherever a callable may be. *)
Places == Holders \union Boxes

Place == [exists : BOOLEAN, manager : Managers, invoker : Invokers, state : Callables \union {Nothing}]

Storeroom == [holder : [Places -> Place], instances : [Callables -> Int], used : SUBSET Callables]

Consistently(p) ==
    /\ p.state = Nothing <=> p.manager = "empty"
    /\ p.state = Nothing <=> p.invoker = "null"
    /\ p.state # Nothing => p.exists /\ p.manager = kind[p.state]

Held(s, t) == \E h \in Places : s.holder[h].state = t

(* How often a callable is constructed and not destroyed; what is moved    *)
(* and disposed of as bits is never destroyed.                             *)
Lasting(s, t) == IF kind[t] = "bits" THEN t \in s.used ELSE Held(s, t)

(* The boxes of X are being filled. *)
Sane(s, X) ==
    /\ s \in Storeroom
    /\ \A h \in Places : Consistently(s.holder[h])
    /\ \A h, g \in Places : s.holder[h].state = s.holder[g].state => h = g \/ s.holder[h].state = Nothing
    /\ \A h \in Places : s.holder[h].state \in s.used \union {Nothing}
    /\ \A b \in Boxes : s.holder[b].state \notin Boxes
    /\ \A b \in Boxes \ (s.used \union X) : s.holder[b].state = Nothing
    /\ \A t \in Callables : s.instances[t] = IF Lasting(s, t) THEN 1 ELSE 0

(* What a box holds is managed remotely. *)
Kinds == kind \in [Callables -> Managers \ {"empty"}] /\ \A b \in Boxes : kind[b] = "remote"

(* Between two operations no box is being filled and no swap is under way. *)
InvocableInv == Kinds /\ Sane(Objects, {}) /\ deadCalls = {} /\ ~Exists(Temporary)

(* Outside of A no holder changes. *)
SameOutside(s, r, A) == \A g \in Places \ A : r.holder[g] = s.holder[g]

LEMMA PlacesDiffer ==
    ASSUME InvocableAssumption
    PROVE  /\ Nothing \notin Callables /\ Temporary \in Holders /\ Variables \subseteq Holders
           /\ \A h \in Holders, b \in Boxes : h # b
           /\ \A b \in Boxes : b \in Callables /\ b \in Places
           /\ \A h \in Holders : h \in Places
BY DEF InvocableAssumption, Callables, Places, Variables

LEMMA VacantTyped ==
    ASSUME NEW e \in BOOLEAN
    PROVE  /\ Vacant(e) \in Place /\ Consistently(Vacant(e)) /\ Vacant(e).state = Nothing
           /\ Vacant(e).exists = e
BY DEF Vacant, Place, Managers, Invokers, Consistently

(* A place that does not exist is as it was constructed. *)
LEMMA NotThere ==
    ASSUME NEW s, NEW X, Sane(s, X), NEW h \in Places, ~s.holder[h].exists
    PROVE  s.holder[h].state = Nothing
BY DEF Sane, Consistently

(* The holder g loses what it has. *)
Dropped(s, g, e) == [DisposedOf(s, g) EXCEPT !.holder[g] = Vacant(e)]

LEMMA DroppedFields ==
    ASSUME NEW s, NEW X, Sane(s, X), NEW g \in Places, NEW e \in BOOLEAN,
           NEW t, t = s.holder[g].state
    PROVE  Dropped(s, g, e) =
              [holder    |-> [s.holder EXCEPT ![g] = Vacant(e)],
               instances |-> IF t = Nothing \/ kind[t] = "bits" THEN s.instances
                             ELSE [s.instances EXCEPT ![t] = s.instances[t] - 1],
               used      |-> s.used]
<1>1. s \in Storeroom /\ s.holder[g] \in Place /\ Consistently(s.holder[g])
  BY DEF Sane, Storeroom
<1>2. s = [holder |-> s.holder, instances |-> s.instances, used |-> s.used]
  BY <1>1 DEF Storeroom
<1>3. CASE t = Nothing \/ kind[t] = "bits"
  <2>1. DisposedOf(s, g) = s
    BY <1>1, <1>3 DEF DisposedOf, Consistently
  <2>2. [s EXCEPT !.holder[g] = Vacant(e)] =
           [holder |-> [s.holder EXCEPT ![g] = Vacant(e)], instances |-> s.instances, used |-> s.used]
    BY <1>1 DEF Storeroom
  <2> QED BY <1>3, <2>1, <2>2 DEF Dropped
<1>4. CASE ~(t = Nothing \/ kind[t] = "bits")
  <2>1. DisposedOf(s, g) = [s EXCEPT !.instances[t] = @ - 1]
    BY <1>1, <1>4 DEF DisposedOf, Consistently
  <2>2. [s EXCEPT !.instances[t] = @ - 1] =
           [holder |-> s.holder, instances |-> [s.instances EXCEPT ![t] = s.instances[t] - 1], used |-> s.used]
    BY <1>1 DEF Storeroom
  <2> DEFINE y == DisposedOf(s, g)
             I == [s.instances EXCEPT ![t] = s.instances[t] - 1]
  <2>3. y = [holder |-> s.holder, instances |-> I, used |-> s.used]
    BY <2>1, <2>2
  <2> HIDE DEF y, I
  <2>4. [y EXCEPT !.holder[g] = Vacant(e)] =
           [holder |-> [s.holder EXCEPT ![g] = Vacant(e)], instances |-> I, used |-> s.used]
    BY <2>3
  <2> QED BY <1>4, <2>4 DEF Dropped, y, I
<1> QED BY <1>3, <1>4

LEMMA DroppedSane ==
    ASSUME InvocableAssumption, Kinds, NEW s, NEW X, Sane(s, X), NEW g \in Places, NEW e \in BOOLEAN
    PROVE  /\ Sane(Dropped(s, g, e), X) /\ Dropped(s, g, e).holder[g] = Vacant(e)
           /\ SameOutside(s, Dropped(s, g, e), {g}) /\ Dropped(s, g, e).used = s.used
<1> DEFINE t == s.holder[g].state
           H == [s.holder EXCEPT ![g] = Vacant(e)]
           I == IF t = Nothing \/ kind[t] = "bits" THEN s.instances
                ELSE [s.instances EXCEPT ![t] = s.instances[t] - 1]
           r == Dropped(s, g, e)
<1>1. /\ s.holder \in [Places -> Place] /\ s.instances \in [Callables -> Int] /\ s.used \subseteq Callables
      /\ t \in Callables \union {Nothing}
  BY DEF Sane, Storeroom, Place
<1>2. r = [holder |-> H, instances |-> I, used |-> s.used]
  BY DroppedFields
<1>3. /\ H \in [Places -> Place] /\ H[g] = Vacant(e) /\ H[g].state = Nothing
      /\ \A h \in Places \ {g} : H[h] = s.holder[h]
  BY <1>1, VacantTyped
<1>4. t # Nothing => \A h \in Places : s.holder[h].state = t => h = g
  BY DEF Sane
<1>5. I \in [Callables -> Int] /\ \A u \in Callables :
         I[u] = IF u = t /\ kind[t] # "bits" THEN s.instances[u] - 1 ELSE s.instances[u]
  BY <1>1, PlacesDiffer
<1> HIDE DEF t, H, I, r
<1>6. r.holder = H /\ r.instances = I /\ r.used = s.used /\ r \in Storeroom
  BY <1>1, <1>2, <1>3, <1>5 DEF Storeroom
<1>7. \A h \in Places : Consistently(H[h])
  BY <1>3, VacantTyped DEF Sane
<1>8. /\ \A h, k \in Places : H[h].state = H[k].state => h = k \/ H[h].state = Nothing
      /\ \A h \in Places : H[h].state \in s.used \union {Nothing}
      /\ \A b \in Boxes : H[b].state \notin Boxes
      /\ \A b \in Boxes \ (s.used \union X) : H[b].state = Nothing
  BY <1>3, PlacesDiffer DEF Sane
<1>9. ASSUME NEW u \in Callables PROVE r.instances[u] = IF Lasting(r, u) THEN 1 ELSE 0
  <2>1. s.instances[u] = IF Lasting(s, u) THEN 1 ELSE 0
    BY DEF Sane
  <2>2. CASE kind[u] = "bits"
    BY <1>5, <1>6, <2>1, <2>2 DEF Lasting
  <2>3. CASE kind[u] # "bits" /\ u = t
    <3>1. Held(s, u) /\ ~Held(r, u)
      BY <1>3, <1>4, <1>6, <2>3, PlacesDiffer DEF Held, t
    <3> QED BY <1>5, <1>6, <2>1, <2>3, <3>1 DEF Lasting
  <2>4. CASE kind[u] # "bits" /\ u # t
    <3>1. Held(s, u) <=> Held(r, u)
      BY <1>3, <1>6, <2>4, PlacesDiffer DEF Held, t
    <3> QED BY <1>5, <1>6, <2>1, <2>4, <3>1 DEF Lasting
  <2> QED BY <2>2, <2>3, <2>4
<1>10. Sane(r, X)
  BY <1>6, <1>7, <1>8, <1>9 DEF Sane
<1> QED BY <1>3, <1>6, <1>10 DEF SameOutside, r

(* from is left vacant, and nothing but what from and to hold changes. *)
RelocationIsSane(s, from, to, X) ==
    /\ Sane(Relocated(s, from, to), X) /\ Relocated(s, from, to).holder[from] = Vacant(TRUE)
    /\ SameOutside(s, Relocated(s, from, to), {from, to}) /\ Relocated(s, from, to).used = s.used

(* What one place has is moved to another, which is empty. *)
LEMMA RelocatedIsSane ==
    ASSUME InvocableAssumption, Kinds, NEW s, NEW X, Sane(s, X), NEW from \in Places, NEW to \in Places,
           s.holder[to].state = Nothing,
           to \in Boxes => to \in X /\ s.holder[from].state \notin Boxes
    PROVE  RelocationIsSane(s, from, to, X)
<1> DEFINE p == [s.holder[from] EXCEPT !.exists = TRUE]
           H == [s.holder EXCEPT ![to] = p, ![from] = Vacant(TRUE)]
           r == Relocated(s, from, to)
<1>1. /\ s \in Storeroom /\ s.holder \in [Places -> Place] /\ s.instances \in [Callables -> Int]
      /\ s.used \subseteq Callables /\ s.holder[from] \in Place
  BY DEF Sane, Storeroom
<1>2. r = [holder |-> H, instances |-> s.instances, used |-> s.used]
  <2>1. r = [s EXCEPT !.holder[to] = p, !.holder[from] = Vacant(TRUE)]
    BY DEF Relocated
  <2> HIDE DEF p, r
  <2> QED BY <1>1, <2>1 DEF Storeroom
<1>3. /\ p \in Place /\ p.state = s.holder[from].state /\ p.manager = s.holder[from].manager
      /\ p.invoker = s.holder[from].invoker /\ p.exists
  BY <1>1 DEF Place
<1>4. Consistently(p)
  BY <1>3 DEF Sane, Consistently
<1> HIDE DEF p
<1>5. /\ H \in [Places -> Place] /\ H[from] = Vacant(TRUE) /\ (to # from => H[to] = p)
      /\ \A h \in Places \ {from, to} : H[h] = s.holder[h]
  BY <1>1, <1>3, VacantTyped
<1> HIDE DEF H, r
<1>6. r.holder = H /\ r.instances = s.instances /\ r.used = s.used /\ r \in Storeroom
  BY <1>1, <1>2, <1>5 DEF Storeroom
<1>7. Vacant(TRUE).state = Nothing /\ Consistently(Vacant(TRUE))
  BY VacantTyped
<1>8. \A h \in Places : Consistently(H[h])
  BY <1>4, <1>5, <1>7 DEF Sane
<1>9. /\ \A h, k \in Places : H[h].state = H[k].state => h = k \/ H[h].state = Nothing
      /\ \A h \in Places : H[h].state \in s.used \union {Nothing}
  <2>1. \A h \in Places : H[h].state # Nothing => h # from
    BY <1>5, <1>7
  <2>2. \A h \in Places \ {from, to} : H[h].state = s.holder[h].state
    BY <1>5
  <2>3. to # from => H[to].state = s.holder[from].state
    BY <1>3, <1>5
  <2>4. /\ \A h, g \in Places : s.holder[h].state = s.holder[g].state => h = g \/ s.holder[h].state = Nothing
        /\ \A h \in Places : s.holder[h].state \in s.used \union {Nothing}
    BY DEF Sane
  <2>5. ASSUME NEW h \in Places, NEW k \in Places, H[h].state = H[k].state, H[h].state # Nothing
        PROVE  h = k
    <3>1. h # from /\ k # from
      BY <2>1, <2>5
    <3>2. CASE h = to \/ k = to
      BY <2>2, <2>3, <2>4, <2>5, <3>1, <3>2, SMTT(30)
    <3>3. CASE h # to /\ k # to
      BY <2>2, <2>4, <2>5, <3>1, <3>3
    <3> QED BY <3>2, <3>3
  <2>6. ASSUME NEW h \in Places, H[h].state # Nothing PROVE H[h].state \in s.used
    BY <2>1, <2>2, <2>3, <2>4, <2>6
  <2> QED BY <2>5, <2>6
<1>10. \A b \in Boxes : H[b].state \notin Boxes
  <2>1. \A b \in Boxes : b \in Places /\ s.holder[b].state \notin Boxes
    BY PlacesDiffer DEF Sane
  <2>2. H[from].state \notin Boxes
    BY <1>5, <1>7, PlacesDiffer
  <2>3. to # from /\ to \in Boxes => H[to].state \notin Boxes
    BY <1>3, <1>5
  <2>4. \A b \in Boxes \ {from, to} : H[b].state \notin Boxes
    BY <1>5, <2>1
  <2> QED BY <2>2, <2>3, <2>4
<1>11. \A b \in Boxes \ (s.used \union X) : H[b].state = Nothing
  BY <1>5, <1>7, PlacesDiffer DEF Sane
<1>12. ASSUME NEW u \in Callables PROVE r.instances[u] = IF Lasting(r, u) THEN 1 ELSE 0
  <2>1. s.instances[u] = IF Lasting(s, u) THEN 1 ELSE 0
    BY DEF Sane
  <2>2. u # Nothing
    BY PlacesDiffer
  <2>3. ASSUME Held(s, u) PROVE Held(r, u)
    <3>1. PICK h \in Places : s.holder[h].state = u
      BY <2>3 DEF Held
    <3>2. CASE h = from
      BY <1>3, <1>5, <1>6, <2>2, <3>1, <3>2 DEF Held
    <3>3. CASE h # from
      BY <1>5, <1>6, <2>2, <3>1, <3>3 DEF Held
    <3> QED BY <3>2, <3>3
  <2>4. ASSUME Held(r, u) PROVE Held(s, u)
    <3>1. PICK h \in Places : H[h].state = u
      BY <1>6, <2>4 DEF Held
    <3> QED BY <1>3, <1>5, <1>7, <2>2, <3>1 DEF Held
  <2> QED BY <1>6, <2>1, <2>3, <2>4 DEF Lasting
<1>13. Sane(r, X)
  BY <1>6, <1>8, <1>9, <1>10, <1>11, <1>12 DEF Sane
<1> QED BY <1>5, <1>6, <1>13 DEF SameOutside, RelocationIsSane, r

LEMMA RelocatedSane ==
    ASSUME InvocableAssumption, Kinds, NEW s, NEW X, Sane(s, X), NEW from \in Places, NEW to \in Places,
           s.holder[to].state = Nothing,
           to \in Boxes => to \in X /\ s.holder[from].state \notin Boxes
    PROVE  /\ Sane(Relocated(s, from, to), X) /\ Relocated(s, from, to).holder[from] = Vacant(TRUE)
           /\ SameOutside(s, Relocated(s, from, to), {from, to}) /\ Relocated(s, from, to).used = s.used
<1>1. RelocationIsSane(s, from, to, X)
  BY RelocatedIsSane
<1> QED BY <1>1 DEF RelocationIsSane

(* A callable that is new is constructed in a holder that is empty. *)
LEMMA StoredSane ==
    ASSUME InvocableAssumption, Kinds, NEW s, NEW X, Sane(s, X), NEW h \in Holders,
           s.holder[h].state = Nothing, NEW t \in Callables, t \notin s.used
    PROVE  /\ Sane(Stored(s, h, t), X \ {t}) /\ SameOutside(s, Stored(s, h, t), {h})
<1> DEFINE p == [exists |-> TRUE, manager |-> kind[t], invoker |-> "call", state |-> t]
           H == [s.holder EXCEPT ![h] = p]
           I == [s.instances EXCEPT ![t] = s.instances[t] + 1]
           r == Stored(s, h, t)
<1>1. /\ s \in Storeroom /\ s.holder \in [Places -> Place] /\ s.instances \in [Callables -> Int]
      /\ s.used \subseteq Callables /\ h \in Places /\ h \notin Boxes
  BY PlacesDiffer DEF Sane, Storeroom
<1>2. r = [holder |-> H, instances |-> I, used |-> s.used \union {t}]
  <2>1. r = [s EXCEPT !.holder[h] = p, !.instances[t] = @ + 1, !.used = @ \union {t}]
    BY DEF Stored
  <2> DEFINE y == [holder |-> H, instances |-> s.instances, used |-> s.used]
             z == [holder |-> H, instances |-> I, used |-> s.used]
  <2>2. y = [s EXCEPT !.holder[h] = p]
    <3> HIDE DEF p, r
    <3> QED BY <1>1 DEF Storeroom
  <2> HIDE DEF p, r, H
  <2>3. z = [y EXCEPT !.instances[t] = @ + 1]
    OBVIOUS
  <2> HIDE DEF I
  <2>4. [z EXCEPT !.used = @ \union {t}] = [holder |-> H, instances |-> I, used |-> s.used \union {t}]
    OBVIOUS
  <2> HIDE DEF y, z
  <2> QED BY <2>1, <2>2, <2>3, <2>4
<1>3. /\ p \in Place /\ p.state = t /\ t # Nothing /\ Consistently(p)
  BY PlacesDiffer DEF Place, Kinds, Managers, Invokers, Consistently
<1> HIDE DEF p
<1>4. /\ H \in [Places -> Place] /\ H[h] = p /\ \A g \in Places \ {h} : H[g] = s.holder[g]
  BY <1>1, <1>3
<1>5. I \in [Callables -> Int] /\ \A u \in Callables :
         I[u] = IF u = t THEN s.instances[u] + 1 ELSE s.instances[u]
  BY <1>1
<1> HIDE DEF H, I, r
<1>6. r.holder = H /\ r.instances = I /\ r.used = s.used \union {t} /\ r \in Storeroom
  BY <1>1, <1>2, <1>4, <1>5 DEF Storeroom
<1>7. \A g \in Places : s.holder[g].state # t
  BY <1>3 DEF Sane
<1>8. \A g \in Places : Consistently(H[g])
  BY <1>3, <1>4 DEF Sane
<1>9. /\ \A f, g \in Places : H[f].state = H[g].state => f = g \/ H[f].state = Nothing
      /\ \A g \in Places : H[g].state \in r.used \union {Nothing}
  BY <1>3, <1>4, <1>6, <1>7 DEF Sane
<1>10. /\ \A b \in Boxes : H[b].state \notin Boxes
       /\ \A b \in Boxes \ (r.used \union (X \ {t})) : H[b].state = Nothing
  BY <1>1, <1>4, <1>6, PlacesDiffer DEF Sane
<1>11. ASSUME NEW u \in Callables PROVE r.instances[u] = IF Lasting(r, u) THEN 1 ELSE 0
  <2>1. s.instances[u] = IF Lasting(s, u) THEN 1 ELSE 0
    BY DEF Sane
  <2>2. CASE u = t
    <3>1. ~Lasting(s, u) /\ Lasting(r, u)
      BY <1>1, <1>3, <1>4, <1>6, <1>7, <2>2 DEF Lasting, Held
    <3> QED BY <1>5, <1>6, <2>1, <2>2, <3>1
  <2>3. CASE u # t
    <3>1. Held(s, u) <=> Held(r, u)
      <4>1. ASSUME NEW g \in Places, s.holder[g].state = u PROVE H[g].state = u
        BY <1>4, <2>3, <4>1, PlacesDiffer
      <4>2. ASSUME NEW g \in Places, H[g].state = u PROVE s.holder[g].state = u
        BY <1>3, <1>4, <2>3, <4>2
      <4> QED BY <1>6, <4>1, <4>2 DEF Held
    <3>2. Lasting(s, u) <=> Lasting(r, u)
      BY <1>6, <2>3, <3>1 DEF Lasting
    <3> QED BY <1>5, <1>6, <2>1, <2>3, <3>2
  <2> QED BY <2>2, <2>3
<1>12. Sane(r, X \ {t})
  BY <1>6, <1>8, <1>9, <1>10, <1>11 DEF Sane
<1> QED BY <1>4, <1>6, <1>12 DEF SameOutside, r

(* What r changes of the holders are those of A. *)
UnchangedBut(s, r, A) == \A g \in Holders \ A : r.holder[g] = s.holder[g]

ClearedTo(s, h, e) == [Disposed(s, h) EXCEPT !.holder[h] = Vacant(e)]

(* clear and the destructor: with a box, what is in it is disposed of too. *)
LEMMA DisposedSane ==
    ASSUME InvocableAssumption, Kinds, NEW s, NEW X, Sane(s, X), NEW h \in Holders, NEW e \in BOOLEAN
    PROVE  /\ Sane(ClearedTo(s, h, e), X) /\ ClearedTo(s, h, e).holder[h] = Vacant(e)
           /\ ClearedTo(s, h, e).used = s.used /\ UnchangedBut(s, ClearedTo(s, h, e), {h})
<1> DEFINE t == s.holder[h].state
           r == ClearedTo(s, h, e)
<1>1. h \in Places /\ \A g \in Holders : g \in Places /\ g \notin Boxes
  BY PlacesDiffer
<1>2. CASE t \in Boxes /\ s.holder[h].manager = "remote"
  <2> DEFINE d == Dropped(s, t, FALSE)
  <2>1. t \in Places
    BY <1>2, PlacesDiffer
  <2>2. Sane(d, X) /\ SameOutside(s, d, {t}) /\ d.used = s.used
    BY <2>1, DroppedSane
  <2>3. Disposed(s, h) = DisposedOf(d, h)
    BY <1>2 DEF Disposed, Dropped
  <2>4. r = Dropped(d, h, e)
    BY <2>3 DEF Dropped, ClearedTo
  <2> HIDE DEF d, r
  <2>5. /\ Sane(Dropped(d, h, e), X) /\ Dropped(d, h, e).holder[h] = Vacant(e)
        /\ SameOutside(d, Dropped(d, h, e), {h}) /\ Dropped(d, h, e).used = d.used
    BY <1>1, <2>2, DroppedSane
  <2> QED BY <1>1, <1>2, <2>2, <2>4, <2>5 DEF SameOutside, UnchangedBut, r
<1>3. CASE ~(t \in Boxes /\ s.holder[h].manager = "remote")
  <2>1. r = Dropped(s, h, e)
    BY <1>3 DEF Disposed, Dropped, ClearedTo
  <2>2. /\ Sane(Dropped(s, h, e), X) /\ Dropped(s, h, e).holder[h] = Vacant(e)
        /\ SameOutside(s, Dropped(s, h, e), {h}) /\ Dropped(s, h, e).used = s.used
    BY <1>1, DroppedSane
  <2> HIDE DEF r
  <2> QED BY <1>1, <2>1, <2>2 DEF SameOutside, UnchangedBut, r
<1> QED BY <1>2, <1>3

LeavesVacant(s, r, X, h, e) ==
    Sane(r, X) /\ r.holder[h] = Vacant(e) /\ r.used = s.used /\ UnchangedBut(s, r, {h})


LEMMA ClearedSane ==
    ASSUME InvocableAssumption, Kinds, NEW s, NEW X, Sane(s, X), NEW h \in Holders
    PROVE  /\ Sane(Cleared(s, h), X) /\ Cleared(s, h).holder[h] = Vacant(TRUE)
           /\ Cleared(s, h).used = s.used /\ UnchangedBut(s, Cleared(s, h), {h})
<1>1. Cleared(s, h) = ClearedTo(s, h, TRUE)
  BY DEF Cleared, ClearedTo
<1>2. \A e \in BOOLEAN : LeavesVacant(s, ClearedTo(s, h, e), X, h, e)
  BY DisposedSane DEF LeavesVacant
<1>3. LeavesVacant(s, ClearedTo(s, h, TRUE), X, h, TRUE)
  BY <1>2
<1> QED BY <1>1, <1>3 DEF LeavesVacant

LEMMA DestroyedSane ==
    ASSUME InvocableAssumption, Kinds, NEW s, NEW X, Sane(s, X), NEW h \in Holders
    PROVE  /\ Sane(Destroyed(s, h), X) /\ Destroyed(s, h).holder[h] = Vacant(FALSE)
           /\ Destroyed(s, h).used = s.used /\ UnchangedBut(s, Destroyed(s, h), {h})
<1>1. Destroyed(s, h) = ClearedTo(s, h, FALSE)
  BY DEF Destroyed, ClearedTo
<1>2. \A e \in BOOLEAN : LeavesVacant(s, ClearedTo(s, h, e), X, h, e)
  BY DisposedSane DEF LeavesVacant
<1>3. LeavesVacant(s, ClearedTo(s, h, FALSE), X, h, FALSE)
  BY <1>2
<1> QED BY <1>1, <1>3 DEF LeavesVacant

(* A holder without a callable can be made empty. *)
LEMMA NulledSane ==
    ASSUME InvocableAssumption, Kinds, NEW s, NEW X, Sane(s, X), NEW h \in Holders,
           s.holder[h].state = Nothing
    PROVE  Sane(FromNull(s, h), X) /\ UnchangedBut(s, FromNull(s, h), {h})
<1>1. h \in Places /\ \A g \in Holders : g \in Places
  BY PlacesDiffer
<1>2. DisposedOf(s, h) = s
  BY <1>1 DEF Sane, Consistently, DisposedOf
<1>3. FromNull(s, h) = Dropped(s, h, TRUE)
  BY <1>2 DEF FromNull, Dropped
<1>4. Sane(Dropped(s, h, TRUE), X) /\ SameOutside(s, Dropped(s, h, TRUE), {h})
  BY <1>1, DroppedSane
<1> QED BY <1>1, <1>3, <1>4 DEF SameOutside, UnchangedBut

(* A move assignment, also of a holder to itself. *)
LEMMA MovedSane ==
    ASSUME InvocableAssumption, Kinds, NEW s, NEW X, Sane(s, X), NEW from \in Holders, NEW to \in Holders
    PROVE  /\ Sane(Moved(s, from, to), X) /\ Moved(s, from, to).holder[from] = Vacant(TRUE)
           /\ UnchangedBut(s, Moved(s, from, to), {from, to})
<1> DEFINE c == Cleared(s, to)
           r == Relocated(c, from, to)
<1>1. /\ from \in Places /\ to \in Places /\ to \notin Boxes
      /\ \A g \in Holders : g \in Places
  BY PlacesDiffer
<1>2. Sane(c, X) /\ c.holder[to] = Vacant(TRUE) /\ UnchangedBut(s, c, {to})
  BY ClearedSane
<1>3. Vacant(TRUE).state = Nothing
  BY VacantTyped
<1> HIDE DEF c
<1>4. Sane(r, X) /\ r.holder[from] = Vacant(TRUE) /\ SameOutside(c, r, {from, to})
  BY <1>1, <1>2, <1>3, RelocatedSane
<1>5. Moved(s, from, to) = r
  BY DEF Moved, c
<1> HIDE DEF r
<1> QED BY <1>1, <1>2, <1>4, <1>5 DEF UnchangedBut, SameOutside

(* Between two operations no holder is temporary. *)
Settled(s) == Sane(s, {}) /\ ~s.holder[Temporary].exists

(* What was constructed for h is in h, and the temporary is gone. *)
LEMMA AssignedSettles ==
    ASSUME InvocableAssumption, Kinds, NEW h \in Variables, NEW s, Sane(s, {}),
           ~Exists(h) => ~s.holder[Temporary].exists
    PROVE  Settled(Assigned(s, h))
<1>1. Temporary \in Holders /\ h \in Holders
  BY PlacesDiffer
<1>2. CASE ~Exists(h)
  BY <1>2 DEF Assigned, Settled
<1>3. CASE Exists(h)
  <2> DEFINE m == Moved(s, Temporary, h)
             d == Destroyed(m, Temporary)
  <2>1. Sane(m, {})
    BY <1>1, MovedSane
  <2> HIDE DEF m
  <2>2. Sane(d, {}) /\ d.holder[Temporary] = Vacant(FALSE)
    BY <1>1, <2>1, DestroyedSane
  <2>3. Assigned(s, h) = d
    BY <1>3 DEF Assigned, m
  <2> QED BY <2>2, <2>3, VacantTyped DEF Settled
<1> QED BY <1>2, <1>3

(* An operation ends in what it computes. *)
LEMMA Settles ==
    ASSUME InvocableInv, NEW s, Settled(s), Becomes(s), UNCHANGED deadCalls
    PROVE  InvocableInv'
<1>1. kind' = kind /\ deadCalls' = {} /\ Kinds
  BY DEF Becomes, InvocableInv
<1>2. s = [holder |-> s.holder, instances |-> s.instances, used |-> s.used]
  BY DEF Settled, Sane, Storeroom
<1>3. Objects' = s
  BY <1>2 DEF Becomes, Objects
<1>4. Kinds'
  BY <1>1 DEF Kinds
<1>5. Sane(Objects, {})'
  BY <1>1, <1>3 DEF Settled, Sane, Storeroom, Place, Consistently, Lasting, Held
<1>6. ~Exists(Temporary)'
  BY DEF Settled, Becomes, Exists
<1> QED BY <1>1, <1>4, <1>5, <1>6 DEF InvocableInv

(* The holder an operation constructs for h does not exist before. *)
LEMMA IntoIsVacant ==
    ASSUME InvocableAssumption, InvocableInv, NEW h \in Variables
    PROVE  /\ Into(h) \in Holders /\ Into(h) \in Places /\ Into(h) \notin Boxes
           /\ Objects.holder[Into(h)].state = Nothing
           /\ Into(h) # h => Exists(h) /\ Into(h) = Temporary
           /\ Into(h) = h => ~Exists(h)
<1>1. /\ h \in Holders /\ Temporary \in Holders /\ Temporary # h
      /\ \A g \in Holders : g \in Places /\ g \notin Boxes
  BY PlacesDiffer DEF Variables
<1>2. Into(h) \in Holders /\ ~Objects.holder[Into(h)].exists
      /\ (Into(h) # h => Exists(h) /\ Into(h) = Temporary) /\ (Into(h) = h => ~Exists(h))
  BY <1>1 DEF Into, Exists, Objects, InvocableInv
<1>3. Sane(Objects, {})
  BY DEF InvocableInv
<1> QED BY <1>1, <1>2, <1>3, NotThere

LEMMA ConstructHolderKeeps ==
    ASSUME InvocableAssumption, InvocableInv, NEW h \in Variables, Construct(h)
    PROVE  InvocableInv'
<1>1. Kinds /\ Sane(Objects, {}) /\ ~Objects.holder[Temporary].exists /\ UNCHANGED deadCalls
  BY DEF InvocableInv, Construct, Exists, Objects
<1>2. h \in Holders /\ h \in Places /\ Temporary \in Holders /\ h # Temporary
  BY PlacesDiffer DEF Variables
<1>3. ASSUME NEW t \in Functions, Unused(t),
             Becomes(Assigned(FromCallable(Objects, Into(h), t), h))
      PROVE  InvocableInv'
  <2> DEFINE s == Stored(Objects, Into(h), t)
  <2>1. t \in Callables /\ t \notin Objects.used
    BY <1>3 DEF Callables, Unused, Objects
  <2>2. Sane(s, {} \ {t}) /\ SameOutside(Objects, s, {Into(h)})
    BY <1>1, <2>1, IntoIsVacant, StoredSane
  <2>3. Sane(s, {})
    <3>1. {} \ {t} = {}
      OBVIOUS
    <3> HIDE DEF s
    <3> QED BY <2>2, <3>1
  <2>4. FromCallable(Objects, Into(h), t) = s
    BY DEF FromCallable
  <2> HIDE DEF s
  <2>5. ~Exists(h) => ~s.holder[Temporary].exists
    BY <1>1, <1>2, <2>2, IntoIsVacant, PlacesDiffer DEF SameOutside
  <2>6. Settled(Assigned(s, h))
    BY <1>1, <2>3, <2>5, AssignedSettles
  <2> QED BY <1>1, <1>3, <2>4, <2>6, Settles
<1>4. ASSUME ~Exists(h), Becomes(FromNull(Objects, h)) PROVE InvocableInv'
  <2> DEFINE s == FromNull(Objects, h)
  <2>1. Objects.holder[h].state = Nothing
    BY <1>1, <1>2, <1>4, NotThere DEF Exists, Objects
  <2>2. Sane(s, {}) /\ UnchangedBut(Objects, s, {h})
    BY <1>1, <1>2, <2>1, NulledSane
  <2> HIDE DEF s
  <2>3. Settled(s)
    BY <1>1, <1>2, <2>2 DEF Settled, UnchangedBut
  <2> QED BY <1>1, <1>4, <2>3, Settles DEF s
<1>5. ASSUME Becomes(Cleared(Objects, h)) PROVE InvocableInv'
  <2> DEFINE s == Cleared(Objects, h)
  <2>1. Sane(s, {}) /\ UnchangedBut(Objects, s, {h})
    BY <1>1, <1>2, ClearedSane
  <2> HIDE DEF s
  <2>2. Settled(s)
    BY <1>1, <1>2, <2>1 DEF Settled, UnchangedBut
  <2> QED BY <1>1, <1>5, <2>2, Settles DEF s
<1> QED BY <1>3, <1>4, <1>5 DEF Construct

LEMMA SaneWithin ==
    ASSUME NEW s, NEW X, Sane(s, {})
    PROVE  Sane(s, X)
BY DEF Sane

LEMMA ConvertHolderKeeps ==
    ASSUME InvocableAssumption, InvocableInv, NEW h \in Variables, NEW f \in Variables, Convert(h, f)
    PROVE  InvocableInv'
<1>1. /\ Kinds /\ Sane(Objects, {}) /\ ~Objects.holder[Temporary].exists /\ UNCHANGED deadCalls
      /\ Exists(f) /\ f # h
  BY DEF InvocableInv, Convert, Exists, Objects
<1>2. /\ h \in Holders /\ h # Temporary /\ f \in Holders /\ f # Temporary
      /\ f \in Places /\ Temporary \in Places /\ f \notin Boxes /\ Temporary \notin Boxes
      /\ Temporary \in Holders
  BY PlacesDiffer DEF Variables
<1> DEFINE to == Into(h)
<1>3. /\ to \in Holders /\ to \in Places /\ to \notin Boxes /\ Objects.holder[to].state = Nothing
      /\ to # f /\ (~Exists(h) => to = h)
  BY <1>1, <1>2, IntoIsVacant
<1> HIDE DEF to
<1>4. ASSUME Becomes(Assigned(FromCompatible(Objects, to, f), h)) PROVE InvocableInv'
  <2> DEFINE s == Relocated(Objects, f, to)
  <2>1. Sane(s, {}) /\ SameOutside(Objects, s, {f, to})
    BY <1>1, <1>2, <1>3, RelocatedSane
  <2>2. FromCompatible(Objects, to, f) = s
    BY DEF FromCompatible
  <2> HIDE DEF s
  <2>3. ~Exists(h) => ~s.holder[Temporary].exists
    BY <1>1, <1>2, <1>3, <2>1 DEF SameOutside
  <2>4. Settled(Assigned(s, h))
    BY <1>1, <2>1, <2>3, AssignedSettles
  <2> QED BY <1>1, <1>4, <2>2, <2>4, Settles
<1>5. ASSUME NEW box \in Boxes, Unused(box), holder[f].state \notin Boxes,
             Becomes(Assigned(FromIncompatible(Objects, to, f, box), h))
      PROVE  InvocableInv'
  <2> DEFINE s == FromIncompatible(Objects, to, f, box)
  <2>1. Sane(s, {}) /\ (~Exists(h) => ~s.holder[Temporary].exists)
    <3>1. CASE Objects.holder[f].invoker = "null"
      <4>1. s = FromNull(Objects, to)
        BY <3>1 DEF FromIncompatible
      <4>2. Sane(FromNull(Objects, to), {}) /\ UnchangedBut(Objects, FromNull(Objects, to), {to})
        BY <1>1, <1>3, NulledSane
      <4> HIDE DEF s
      <4> QED BY <1>1, <1>2, <1>3, <4>1, <4>2 DEF UnchangedBut
    <3>2. CASE Objects.holder[f].invoker # "null"
      <4> DEFINE m == Relocated(Objects, f, box)
                 r == Stored(m, to, box)
      <4>1. s = r
        BY <3>2 DEF FromIncompatible
      <4>2. /\ box \in Places /\ box \in Callables /\ box # to /\ box # f /\ box # Temporary
            /\ box \notin Objects.used /\ Objects.holder[f].state \notin Boxes
        BY <1>2, <1>3, <1>5, PlacesDiffer DEF Unused, Objects
      <4>3. Objects.holder[box].state = Nothing
        BY <1>1, <1>5, <4>2 DEF Sane
      <4>4. Sane(Objects, {box})
        BY <1>1, SaneWithin
      <4>5. Sane(m, {box}) /\ SameOutside(Objects, m, {f, box}) /\ m.used = Objects.used
        <5> DEFINE X == {box}
        <5>1. box \in X /\ Sane(Objects, X)
          BY <4>4
        <5> HIDE DEF X
        <5>2. RelocationIsSane(Objects, f, box, X)
          BY <1>1, <1>2, <4>2, <4>3, <5>1, RelocatedIsSane
        <5> QED BY <5>2 DEF RelocationIsSane, X
      <4> HIDE DEF m
      <4>6. m.holder[to].state = Nothing /\ m.holder[Temporary] = Objects.holder[Temporary]
        BY <1>2, <1>3, <4>2, <4>5 DEF SameOutside
      <4>7. Sane(r, {box} \ {box}) /\ SameOutside(m, r, {to})
        BY <1>1, <1>3, <4>2, <4>5, <4>6, StoredSane
      <4>8. {box} \ {box} = {}
        OBVIOUS
      <4> HIDE DEF r, s
      <4>9. Sane(r, {})
        BY <4>7, <4>8
      <4> QED BY <1>1, <1>2, <1>3, <4>1, <4>6, <4>7, <4>9 DEF SameOutside
    <3> QED BY <3>1, <3>2
  <2> HIDE DEF s
  <2>2. Settled(Assigned(s, h))
    BY <1>1, <2>1, AssignedSettles
  <2> QED BY <1>1, <1>5, <2>2, Settles DEF s
<1> QED BY <1>4, <1>5 DEF Convert, to

LEMMA MoveAssignHolderKeeps ==
    ASSUME InvocableAssumption, InvocableInv, NEW h \in Variables, NEW f \in Variables, MoveAssign(h, f)
    PROVE  InvocableInv'
<1> DEFINE s == Moved(Objects, f, h)
<1>1. /\ Kinds /\ Sane(Objects, {}) /\ ~Objects.holder[Temporary].exists /\ UNCHANGED deadCalls
      /\ Becomes(s)
  BY DEF InvocableInv, MoveAssign, Exists, Objects
<1>2. h \in Holders /\ h # Temporary /\ f \in Holders /\ f # Temporary /\ Temporary \in Holders
  BY PlacesDiffer DEF Variables
<1>3. Sane(s, {}) /\ UnchangedBut(Objects, s, {f, h})
  BY <1>1, <1>2, MovedSane
<1> HIDE DEF s
<1>4. Settled(s)
  BY <1>1, <1>2, <1>3 DEF Settled, UnchangedBut
<1> QED BY <1>1, <1>4, Settles

(* A swap, also of a holder with itself. *)
LEMMA SwapHolderKeeps ==
    ASSUME InvocableAssumption, InvocableInv, NEW h \in Variables, NEW f \in Variables, Swap(h, f)
    PROVE  InvocableInv'
<1> DEFINE a == Relocated(Objects, h, Temporary)
           b == Moved(a, f, h)
           c == Moved(b, Temporary, f)
           d == Destroyed(c, Temporary)
<1>1. /\ Kinds /\ Sane(Objects, {}) /\ ~Objects.holder[Temporary].exists /\ UNCHANGED deadCalls
      /\ Becomes(d)
  BY DEF InvocableInv, Swap, Exists, Objects
<1>2. /\ h \in Holders /\ f \in Holders /\ Temporary \in Holders
      /\ h \in Places /\ Temporary \in Places /\ Temporary \notin Boxes
  BY PlacesDiffer DEF Variables
<1>3. Objects.holder[Temporary].state = Nothing
  BY <1>1, <1>2, NotThere
<1>4. Sane(a, {})
  BY <1>1, <1>2, <1>3, RelocatedSane
<1> HIDE DEF a
<1>5. Sane(b, {})
  BY <1>1, <1>2, <1>4, MovedSane
<1> HIDE DEF b
<1>6. Sane(c, {})
  BY <1>1, <1>2, <1>5, MovedSane
<1> HIDE DEF c
<1>7. Sane(d, {}) /\ d.holder[Temporary] = Vacant(FALSE)
  BY <1>1, <1>2, <1>6, DestroyedSane
<1> HIDE DEF d
<1>8. Settled(d)
  BY <1>7, VacantTyped DEF Settled
<1> QED BY <1>1, <1>8, Settles

LEMMA DestroyHolderKeeps ==
    ASSUME InvocableAssumption, InvocableInv, NEW h \in Variables, Destroy(h)
    PROVE  InvocableInv'
<1> DEFINE s == Destroyed(Objects, h)
<1>1. /\ Kinds /\ Sane(Objects, {}) /\ ~Objects.holder[Temporary].exists /\ UNCHANGED deadCalls
      /\ Becomes(s)
  BY DEF InvocableInv, Destroy, Exists, Objects
<1>2. h \in Holders /\ h # Temporary /\ Temporary \in Holders
  BY PlacesDiffer DEF Variables
<1>3. Sane(s, {}) /\ UnchangedBut(Objects, s, {h})
  BY <1>1, <1>2, DestroyedSane
<1> HIDE DEF s
<1>4. Settled(s)
  BY <1>1, <1>2, <1>3 DEF Settled, UnchangedBut
<1> QED BY <1>1, <1>4, Settles

(* A callable that some holder has was constructed and not destroyed. *)
LEMMA HeldIsAlive ==
    ASSUME InvocableAssumption, Sane(Objects, {}), NEW g \in Places, holder[g].invoker # "null"
    PROVE  holder[g].state \in Callables /\ instances[holder[g].state] = 1
<1>1. Objects.holder = holder /\ Objects.instances = instances /\ Objects.used = used
  BY DEF Objects
<1>2. /\ holder[g].state # Nothing /\ holder[g].state \in Callables
      /\ holder[g].state \in used
  BY <1>1 DEF Sane, Storeroom, Place, Consistently
<1>3. Lasting(Objects, holder[g].state)
  BY <1>1, <1>2 DEF Lasting, Held
<1> QED BY <1>1, <1>2, <1>3 DEF Sane

LEMMA CallHolderKeeps ==
    ASSUME InvocableAssumption, InvocableInv, NEW h \in Variables, NEW rvalue \in BOOLEAN, Call(h, rvalue)
    PROVE  InvocableInv'
<1>1. Kinds /\ Sane(Objects, {}) /\ deadCalls = {} /\ ~Exists(Temporary) /\ kind' = kind
  BY DEF InvocableInv, Call
<1>2. h \in Places /\ \A b \in Boxes : b \in Places
  BY PlacesDiffer DEF Variables
<1>3. /\ Objects.holder = holder /\ Objects.instances = instances /\ Objects.used = used
      /\ holder \in [Places -> Place] /\ holder[h].invoker = "call"
  BY <1>1 DEF Objects, Sane, Storeroom, Call
<1>4. deadCalls' = {}
  <2> DEFINE t == holder[h].state
             called == {t} \union (IF t \in Boxes /\ holder[t].invoker = "call" THEN {holder[t].state} ELSE {})
  <2>1. \A u \in called : u # Nothing /\ instances[u] = 1
    <3>1. t # Nothing /\ instances[t] = 1
      BY <1>1, <1>2, <1>3, HeldIsAlive, PlacesDiffer
    <3>2. t \in Boxes /\ holder[t].invoker = "call" =>
             holder[t].state # Nothing /\ instances[holder[t].state] = 1
      BY <1>1, <1>2, HeldIsAlive, PlacesDiffer
    <3> QED BY <3>1, <3>2
  <2>2. deadCalls' = deadCalls \union {u \in called : u = Nothing \/ instances[u] <= 0}
    BY DEF Call
  <2> HIDE DEF called
  <2> QED BY <1>1, <2>1, <2>2
<1>5. /\ holder' \in [Places -> Place]
      /\ \A g \in Places : /\ holder'[g].state = holder[g].state /\ holder'[g].exists = holder[g].exists
                           /\ holder'[g].manager = holder[g].manager
                           /\ holder'[g].invoker = "null" <=> holder[g].invoker = "null"
  <2>1. CASE ~rvalue
    BY <1>3, <2>1 DEF Call
  <2>2. CASE rvalue
    <3>1. holder' = [holder EXCEPT ![h].invoker = "spent"]
      BY <2>2 DEF Call
    <3>2. [holder[h] EXCEPT !.invoker = "spent"] =
             [exists |-> holder[h].exists, manager |-> holder[h].manager, invoker |-> "spent",
              state |-> holder[h].state]
      BY <1>2, <1>3 DEF Place
    <3>3. [holder[h] EXCEPT !.invoker = "spent"] \in Place
      BY <1>2, <1>3, <3>2 DEF Place, Invokers
    <3>4. holder' = [holder EXCEPT ![h] = [holder[h] EXCEPT !.invoker = "spent"]]
      BY <3>1
    <3> QED BY <1>2, <1>3, <3>2, <3>3, <3>4
  <2> QED BY <2>1, <2>2
<1>6. /\ Objects' = [holder |-> holder', instances |-> instances, used |-> used]
      /\ Objects'.holder = holder' /\ Objects'.instances = instances /\ Objects'.used = used
  BY DEF Call, Objects
<1>7. Sane(Objects, {})'
  <2>1. Objects' \in Storeroom
    BY <1>1, <1>3, <1>5, <1>6 DEF Sane, Storeroom
  <2>2. \A g \in Places : Consistently(holder'[g])
    BY <1>1, <1>3, <1>5 DEF Sane, Consistently
  <2>3. \A t \in Callables : Lasting(Objects, t)' <=> Lasting(Objects, t)
    BY <1>1, <1>3, <1>5, <1>6 DEF Lasting, Held
  <2>4. /\ \A f, g \in Places : holder'[f].state = holder'[g].state => f = g \/ holder'[f].state = Nothing
        /\ \A g \in Places : holder'[g].state \in used \union {Nothing}
        /\ \A b \in Boxes : holder'[b].state \notin Boxes
        /\ \A b \in Boxes \ (used \union {}) : holder'[b].state = Nothing
    BY <1>1, <1>2, <1>3, <1>5 DEF Sane
  <2>5. \A t \in Callables : instances[t] = IF Lasting(Objects, t)' THEN 1 ELSE 0
    BY <1>1, <1>3, <2>3 DEF Sane
  <2>6. (Storeroom)' = Storeroom
    BY DEF Storeroom, Place
  <2>7. \A g \in Places : Consistently(Objects.holder[g])'
    BY <1>1, <1>6, <2>2 DEF Consistently
  <2> QED BY <1>6, <2>1, <2>4, <2>5, <2>6, <2>7 DEF Sane
<1>8. Kinds' /\ ~Exists(Temporary)'
  BY <1>1, <1>2, <1>5, PlacesDiffer DEF Kinds, Exists
<1> QED BY <1>4, <1>7, <1>8 DEF InvocableInv

LEMMA InvocableStart ==
    ASSUME InvocableAssumption, InvocableInit
    PROVE  InvocableInv
<1> DEFINE H == [h \in Places |-> Vacant(FALSE)]
           I == [t \in Callables |-> 0]
<1>1. holder = H /\ instances = I /\ used = {} /\ deadCalls = {} /\ Kinds
  BY DEF InvocableInit, Places, Kinds
<1>2. Objects = [holder |-> H, instances |-> I, used |-> {}]
  BY <1>1 DEF Objects
<1>3. H \in [Places -> Place] /\ \A g \in Places : H[g] = Vacant(FALSE)
  BY VacantTyped
<1>4. I \in [Callables -> Int] /\ \A t \in Callables : I[t] = 0
  OBVIOUS
<1> HIDE DEF H, I
<1>5. Objects.holder = H /\ Objects.instances = I /\ Objects.used = {} /\ Objects \in Storeroom
  BY <1>2, <1>3, <1>4 DEF Storeroom
<1>6. \A g \in Places : Consistently(H[g]) /\ H[g].state = Nothing
  BY <1>3, VacantTyped
<1>7. \A t \in Callables : ~Lasting(Objects, t)
  BY <1>5, <1>6, PlacesDiffer DEF Lasting, Held
<1>8. Sane(Objects, {})
  BY <1>4, <1>5, <1>6, <1>7, PlacesDiffer DEF Sane
<1>9. ~Exists(Temporary)
  BY <1>1, <1>3, PlacesDiffer, VacantTyped DEF Exists
<1> QED BY <1>1, <1>8, <1>9 DEF InvocableInv

(* The invariant of the callbacks: whatever is constructed, converted,     *)
(* moved, swapped, cleared, called and destroyed, in any order, every      *)
(* holder is consistent and no callable is held twice.                     *)
THEOREM InvocableInvariant == InvocableSpec => []InvocableInv
<1> USE InvocableAssumption
<1>1. InvocableInit => InvocableInv
  BY InvocableStart
<1>2. InvocableInv /\ [InvocableNext]_invocableVars => InvocableInv'
  <2> SUFFICES ASSUME InvocableInv, [InvocableNext]_invocableVars PROVE InvocableInv'
    OBVIOUS
  <2>1. ASSUME NEW h \in Variables, Construct(h) PROVE InvocableInv'
    BY <2>1, ConstructHolderKeeps
  <2>2. ASSUME NEW h \in Variables, Destroy(h) PROVE InvocableInv'
    BY <2>2, DestroyHolderKeeps
  <2>3. ASSUME NEW h \in Variables, NEW rvalue \in BOOLEAN, Call(h, rvalue) PROVE InvocableInv'
    BY <2>3, CallHolderKeeps
  <2>4. ASSUME NEW h \in Variables, NEW f \in Variables, Convert(h, f) PROVE InvocableInv'
    BY <2>4, ConvertHolderKeeps
  <2>5. ASSUME NEW h \in Variables, NEW f \in Variables, MoveAssign(h, f) PROVE InvocableInv'
    BY <2>5, MoveAssignHolderKeeps
  <2>6. ASSUME NEW h \in Variables, NEW f \in Variables, Swap(h, f) PROVE InvocableInv'
    BY <2>6, SwapHolderKeeps
  <2>7. CASE UNCHANGED invocableVars
    BY <2>7 DEF invocableVars, InvocableInv, Kinds, Sane, Objects, Storeroom, Place, Consistently,
                Lasting, Held, Exists
  <2> QED BY <2>1, <2>2, <2>3, <2>4, <2>5, <2>6, <2>7 DEF InvocableNext
<1> QED BY <1>1, <1>2, PTL DEF InvocableSpec

(* A callable has one owner while it exists and none afterwards, it is     *)
(* destroyed as often as it was constructed, and it is not called when it  *)
(* is gone, for any holders, callables and ways of storing them.           *)
THEOREM CallablesHaveOneOwner == InvocableSpec => []OneOwner
<1>1. InvocableInv => OneOwner
  <2> SUFFICES ASSUME InvocableInv PROVE OneOwner
    OBVIOUS
  <2>1. Sane(Objects, {}) /\ deadCalls = {} /\ ~Exists(Temporary) /\ Kinds
    BY DEF InvocableInv
  <2>2. Objects.holder = holder /\ Objects.instances = instances /\ Objects.used = used
    BY DEF Objects
  <2>3. ASSUME NEW t \in Callables
        PROVE  /\ Cardinality(Owners(t)) <= 1
               /\ kind[t] # "bits" => instances[t] = Cardinality(Owners(t))
    <3>1. t # Nothing
      BY InvocableAssumption, PlacesDiffer
    <3>2. \A h \in Places : h \in Owners(t) <=> holder[h].state = t
      BY <2>1, <2>2, <3>1 DEF Owners, Places, Exists, Sane, Consistently
    <3>3. instances[t] = IF Lasting(Objects, t) THEN 1 ELSE 0
      BY <2>1, <2>2 DEF Sane
    <3>4. CASE \E h \in Places : holder[h].state = t
      <4>1. PICK h \in Places : holder[h].state = t
        BY <3>4
      <4>2. Owners(t) \subseteq Places
        BY DEF Owners, Places
      <4>3. Owners(t) = {h}
        BY <2>1, <2>2, <3>1, <3>2, <4>1, <4>2 DEF Sane
      <4>4. Cardinality(Owners(t)) = 1
        BY <4>3, FS_Singleton
      <4>5. kind[t] # "bits" => Lasting(Objects, t)
        BY <2>2, <4>1 DEF Lasting, Held
      <4> QED BY <3>3, <4>4, <4>5
    <3>5. CASE ~\E h \in Places : holder[h].state = t
      <4>1. Owners(t) = {}
        BY <3>2, <3>5 DEF Owners, Places
      <4>2. Cardinality(Owners(t)) = 0
        BY <4>1, FS_EmptySet
      <4>3. kind[t] # "bits" => ~Lasting(Objects, t)
        BY <2>2, <3>5 DEF Lasting, Held
      <4> QED BY <3>3, <4>2, <4>3
    <3> QED BY <3>4, <3>5
  <2> QED BY <2>1, <2>3 DEF OneOwner
<1> QED BY <1>1, InvocableInvariant, PTL

==============================================================================
