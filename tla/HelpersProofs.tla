----------------------------- MODULE HelpersProofs -----------------------------
(***************************************************************************)
(* The helpers that keep a state of their own.  Two undisturbed calls of   *)
(* uuid_factory::create return different ids while the clock and the       *)
(* sequence do their part; a ClientHello that arrives in one piece is      *)
(* collected as it was sent; a run of an event calls what is attached to   *)
(* it; and every option of a command line that is accepted has the value   *)
(* it is given.  All of it for any clock, sequences, threads, lengths,     *)
(* interceptors, options and command lines.                                *)
(***************************************************************************)
EXTENDS Uuid, HelloReader, Interceptors, Options, FiniteSetTheorems, WellFoundedInduction, TLAPS

(* A set of numbers has a least one. *)
LEMMA LeastNat ==
    ASSUME NEW T, T \subseteq Nat, T # {}
    PROVE  \E n \in T : \A m \in T : n <= m
  <1> DEFINE R == OpToRel(<, Nat)
  <1>1. IsWellFoundedOn(R, Nat)
    BY NatLessThanWellFounded
  <1>2. PICK n \in T : \A m \in T : <<m, n>> \notin R
    <2> HIDE DEF R
    <2>1. QED
      BY <1>1, WFMin
  <1>3. ASSUME NEW m \in T PROVE n <= m
    <2>1. n \in Nat /\ m \in Nat /\ <<m, n>> \notin R
      BY <1>2
    <2>2. QED
      BY <2>1 DEF OpToRel
  <1>4. QED
    BY <1>2, <1>3

(* Induction over the naturals, for a set instead of a formula.            *)
LEMMA SetInduction ==
    ASSUME NEW T, 0 \in T, \A n \in Nat : n \in T => n + 1 \in T
    PROVE  Nat \subseteq T
  <1> SUFFICES ASSUME ~(Nat \subseteq T) PROVE FALSE
    OBVIOUS
  <1> DEFINE U == Nat \ T
  <1>1. U \subseteq Nat /\ U # {}
    OBVIOUS
  <1>2. PICK n \in U : \A m \in U : n <= m
    <2> HIDE DEF U
    <2>1. QED
      BY <1>1, LeastNat
  <1>3. n # 0 /\ n \in Nat
    OBVIOUS
  <1>4. n - 1 \in Nat /\ n - 1 < n /\ n - 1 \notin U
    BY <1>2, <1>3
  <1>5. QED
    BY <1>3, <1>4


-----------------------------------------------------------------------------
(***************************************************************************)
(* Arithmetic of the clock sequence.                                       *)
(***************************************************************************)

(* Quotient and remainder. *)
LEMMA Division ==
    ASSUME NEW U \in Nat \ {0}, NEW n \in Nat
    PROVE  n = U * (n \div U) + (n % U) /\ n % U \in 0..U - 1 /\ n \div U \in Nat
OBVIOUS

(* A larger multiple is larger by at least the factor. *)
LEMMA MultipleGrows ==
    ASSUME NEW U \in Nat \ {0}, NEW a \in Nat, NEW b \in Nat, a < b
    PROVE  U * a + U =< U * b
<1>1. b - a - 1 \in Nat /\ U * (b - a - 1) \in Nat
  OBVIOUS
<1>2. U * b = U * a + U + U * (b - a - 1)
  OBVIOUS
<1>3. U * a \in Nat /\ U * b \in Nat
  OBVIOUS
<1> QED BY <1>1, <1>2, <1>3

(* The remainder is the only one there is. *)
LEMMA Remainder ==
    ASSUME NEW U \in Nat \ {0}, NEW q \in Nat, NEW r \in 0..U - 1, NEW n \in Nat, n = U * q + r
    PROVE  n % U = r
<1> DEFINE p == n \div U
<1>1. n = U * p + (n % U) /\ n % U \in 0..U - 1 /\ p \in Nat
  BY Division
<1> HIDE DEF p
<1>2. U * p \in Nat /\ U * q \in Nat
  BY <1>1
<1>3. ~(p < q) /\ ~(q < p)
  BY <1>1, <1>2, MultipleGrows
<1> QED BY <1>1, <1>3

(* The sequence that is used goes round as the whole one does. *)
LEMMA NextResidue ==
    ASSUME UuidAssumption, NEW s \in 0..Sequences - 1
    PROVE  /\ s % UsedSequences \in 0..UsedSequences - 1
           /\ ((s + 1) % Sequences) % UsedSequences =
                 IF s % UsedSequences = UsedSequences - 1 THEN 0 ELSE (s % UsedSequences) + 1
<1> DEFINE U == UsedSequences
           q == s \div U
           r == s % U
<1>1. U \in Nat \ {0} /\ Sequences \in Nat \ {0} /\ s \in Nat /\ Sequences % U = 0
  BY DEF UuidAssumption
<1>2. s = U * q + r /\ r \in 0..U - 1 /\ q \in Nat
  BY <1>1, Division
<1>3. (s + 1) % U = IF r = U - 1 THEN 0 ELSE r + 1
  <2>1. CASE r = U - 1
    <3>1. s + 1 = U * (q + 1) + 0
      BY <1>1, <1>2, <2>1
    <3>2. q + 1 \in Nat /\ 0 \in 0..U - 1 /\ s + 1 \in Nat
      BY <1>1, <1>2
    <3>3. PICK n \in Nat, p \in Nat : n = s + 1 /\ p = q + 1
      BY <3>2
    <3>4. n = U * p + 0
      BY ONLY <3>1, <3>3
    <3>5. n % U = 0
      BY ONLY <1>1, <3>2, <3>4, Remainder
    <3> QED BY <2>1, <3>3, <3>5
  <2>2. CASE r # U - 1
    <3>1. s + 1 = U * q + (r + 1) /\ r + 1 \in 0..U - 1 /\ s + 1 \in Nat
      BY <1>1, <1>2, <2>2
    <3>2. (s + 1) % U = r + 1
      BY <1>1, <1>2, <3>1, Remainder
    <3> QED BY <2>2, <3>2
  <2> QED BY <2>1, <2>2
<1>4. CASE s + 1 = Sequences
  <2>1. (s + 1) % Sequences = 0 /\ 0 % U = 0
    BY <1>1, <1>4
  <2> QED BY <1>1, <1>2, <1>3, <1>4, <2>1
<1>5. CASE s + 1 < Sequences
  <2>1. (s + 1) % Sequences = s + 1
    BY <1>1, <1>5
  <2> QED BY <1>2, <1>3, <2>1
<1> QED BY <1>1, <1>4, <1>5

(***************************************************************************)
(* uuid_factory::create.                                                   *)
(***************************************************************************)

(* The sequence that an id of the present state has. *)
Residue == process.state.sequence % UsedSequences

(* How often the sequence is advanced to get from v to u. *)
Dist(v, u) == IF v =< u THEN u - v ELSE u - v + UsedSequences

(***************************************************************************)
(* An id with the time t and the sequence q was stamped before now.  If t  *)
(* is a reading of the clock (b) and the clock is not set back, the next   *)
(* reading is later; and while the sequence does not come round, what is   *)
(* stamped next has a sequence that was not used, or the present one and   *)
(* a time that is later, or else catches up with a count.                  *)
(***************************************************************************)
Before(b, t, q) ==
    /\ ~setBack /\ b => t =< clock /\ (process.timed => t =< process.last)
    /\ Continues => /\ process.read /\ Dist(q, Residue) =< turns
                    /\ q = Residue => t =< IF b THEN process.last ELSE process.state.timestamp

(* Two ids that are both readings, or both counts, differ on the same terms. *)
Apart(b, t, q, b2, t2, q2) ==
    b = b2 => (~setBack /\ b => t # t2) /\ (Continues => t # t2 \/ q # q2)

(* The thread c is about to format the state x, its own, and b says whether *)
(* its timestamp is a reading of the clock.                                 *)
Stamped(c, b, x) == caller[c] = "formats" /\ exact[c] = b /\ seen[c] = {x}

(* The sequence of an id that is made of x. *)
Used(x) == x.sequence % UsedSequences

(* The process, its files and its threads agree: the stored timestamp is the *)
(* last time and its count, and only a restart leaves a node file or a state *)
(* file behind that the process has not read.                                *)
Coherent ==
    /\ \A c \in Callers : caller[c] = "locked" => process.timed
    /\ process.read => process.timed /\ process.state.timestamp = process.last + process.thisTick
    /\ ~setBack /\ process.timed => process.last =< clock
    /\ ~restarted /\ ~process.read => stateFile = Missing
    /\ ~restarted /\ process.read => nodeFile # 0 /\ nodeFile = process.state.node
    /\ \A c \in Callers : caller[c] = "formats" => seen[c] # {}

(* What an undisturbed call returned was stamped before now. *)
MadeBefore ==
    \A i \in DOMAIN made : made[i].sound => Before(made[i].exact, made[i].id.time, made[i].id.sequence)

(* So was what a thread is about to format. *)
StampedBefore ==
    \A c \in Callers, b \in BOOLEAN : \A x \in States : Stamped(c, b, x) => Before(b, x.timestamp, Used(x))

(* What was returned and what is about to be formatted are apart. *)
MadeApart ==
    \A i \in DOMAIN made, c \in Callers, b \in BOOLEAN : \A x \in States :
        made[i].sound /\ Stamped(c, b, x)
          => Apart(made[i].exact, made[i].id.time, made[i].id.sequence, b, x.timestamp, Used(x))

(* So are the states that two threads are about to format. *)
StampedApart ==
    \A c, d \in Callers : \A a, b \in BOOLEAN : \A x, y \in States :
        c # d /\ Stamped(c, a, x) /\ Stamped(d, b, y)
          => Apart(a, x.timestamp, Used(x), b, y.timestamp, Used(y))

(* The inductive invariant of create(). *)
UuidInv ==
    UuidTypeOK /\ Coherent /\ MadeBefore /\ StampedBefore /\ MadeApart /\ StampedApart /\ SoundIdsUnique

(* The types of the process's fields, as in UuidTypeOK. *)
Processes ==
    [timed : BOOLEAN, last : 0..MaxTime, thisTick : 0..PerTick, read : BOOLEAN,
     state : States, saving : BOOLEAN, nextSave : 0..MaxTime + PerTick + SaveInterval]

(* The bounds are natural numbers. *)
LEMMA Bounds ==
    ASSUME UuidAssumption
    PROVE  /\ MaxTime \in Nat /\ PerTick \in Nat /\ SaveInterval \in Nat /\ MaxNodes \in Nat
           /\ UsedSequences \in Nat \ {0} /\ Sequences \in Nat \ {0} /\ UsedSequences =< Sequences
BY DEF UuidAssumption

(* A process that starts has no time and no state, and a state file that is *)
(* missing or torn holds no state.                                          *)
LEMMA StartedTyped ==
    ASSUME UuidAssumption
    PROVE  /\ Started \in Processes /\ ~Started.timed /\ ~Started.read
           /\ Missing \notin States /\ Torn \notin States /\ Missing # Torn
BY Bounds DEF Started, Processes, States, Missing, Torn

(* get_current_time: the count starts again when the clock has moved. *)
LEMMA TimedFields ==
    ASSUME UuidAssumption, NEW p \in Processes, clock \in 0..MaxTime, p.last # clock \/ p.thisTick < PerTick
    PROVE  /\ Timed(p) \in Processes /\ Timed(p).last = clock
           /\ Timed(p).thisTick = (IF p.last # clock THEN 0 ELSE p.thisTick + 1)
           /\ Timed(p).timed = p.timed /\ Timed(p).read = p.read /\ Timed(p).state = p.state
           /\ Timed(p).saving = p.saving /\ Timed(p).nextSave = p.nextSave
<1>1. CASE p.last # clock
  <2>1. Timed(p) = [p EXCEPT !.last = clock, !.thisTick = 0]
    BY <1>1 DEF Timed
  <2>2. 0 \in 0..PerTick
    BY Bounds
  <2>3. Timed(p) = [timed |-> p.timed, last |-> clock, thisTick |-> 0, read |-> p.read,
                    state |-> p.state, saving |-> p.saving, nextSave |-> p.nextSave]
    BY <2>1 DEF Processes
  <2> QED BY <1>1, <2>2, <2>3 DEF Processes
<1>2. CASE p.last = clock
  <2>1. Timed(p) = [p EXCEPT !.thisTick = @ + 1]
    BY <1>2 DEF Timed
  <2>2. p.thisTick + 1 \in 0..PerTick
    BY <1>2, Bounds DEF Processes
  <2> QED BY <1>2, <2>1, <2>2, Bounds DEF Processes
<1> QED BY <1>1, <1>2

(* write_state: what becomes of the process. *)
LEMMA WrittenFields ==
    ASSUME UuidAssumption, NEW p \in Processes, NEW s \in States
    PROVE  /\ Written([p EXCEPT !.read = TRUE], s) \in Processes
           /\ Written([p EXCEPT !.read = TRUE], s).state = s
           /\ Written([p EXCEPT !.read = TRUE], s).read
           /\ Written([p EXCEPT !.read = TRUE], s).last = p.last
           /\ Written([p EXCEPT !.read = TRUE], s).thisTick = p.thisTick
           /\ Written([p EXCEPT !.read = TRUE], s).timed = p.timed
<1> DEFINE r == [p EXCEPT !.read = TRUE]
           n == IF Saves(r, s.timestamp) THEN s.timestamp + SaveInterval ELSE r.nextSave
<1>1. /\ r \in Processes /\ r.read /\ r.last = p.last /\ r.thisTick = p.thisTick /\ r.timed = p.timed
  BY DEF Processes
<1>2. n \in 0..MaxTime + PerTick + SaveInterval
  BY <1>1, Bounds DEF Processes, States
<1>3. Written(r, s) = [r EXCEPT !.state = s, !.saving = TRUE, !.nextSave = n]
  BY DEF Written
<1> HIDE DEF r, n
<1>4. Written(r, s) = [timed |-> r.timed, last |-> r.last, thisTick |-> r.thisTick, read |-> r.read,
                       state |-> s, saving |-> TRUE, nextSave |-> n]
  BY <1>1, <1>3 DEF Processes
<1>5. Written(r, s) \in Processes
  BY <1>1, <1>2, <1>4 DEF Processes
<1>6. /\ Written(r, s).state = s /\ Written(r, s).read = r.read /\ Written(r, s).last = r.last
      /\ Written(r, s).thisTick = r.thisTick /\ Written(r, s).timed = r.timed
  BY <1>4
<1> QED BY <1>1, <1>5, <1>6 DEF r

(* What a step of create() stamps, and whether it is a reading of the clock. *)
Stamps(c, s, b) ==
    /\ s \in States /\ process' \in Processes
    /\ s.timestamp = clock + process'.thisTick /\ s.node = Node
    /\ process'.state = s /\ process'.read /\ process'.last = clock /\ process'.timed = process.timed
    /\ process'.thisTick = (IF process.last # clock THEN 0 ELSE process.thisTick + 1)
    /\ process.read => s.sequence = IF Node # process.state.node THEN s.sequence
                                    ELSE IF s.timestamp < process.state.timestamp
                                      THEN (process.state.sequence + 1) % Sequences
                                    ELSE process.state.sequence
    /\ process.read => turns' = IF s.timestamp < process.state.timestamp /\ turns < UsedSequences
                                  THEN turns + 1 ELSE turns
    /\ seen' = [d \in Callers |-> IF d = c THEN {s}
                                  ELSE seen[d] \union {x \in {s} : caller[d] = "formats"}]
    /\ b = (process.last # clock) /\ exact' = [exact EXCEPT ![c] = b]
    /\ stateFile' \in {stateFile, s}
    /\ turns' \in 0..UsedSequences /\ turns =< turns'

(* The rest of the critical section does stamp a state. *)
LEMMA StampStamps ==
    ASSUME UuidAssumption, UuidTypeOK, NEW c \in Callers, Stamp(c)
    PROVE  \E s \in States, b \in BOOLEAN : Stamps(c, s, b)
<1> DEFINE p == Timed(process)
           t == clock + p.thisTick
<1>1. /\ process \in Processes /\ clock \in 0..MaxTime /\ (process.last # clock \/ process.thisTick < PerTick)
      /\ turns \in 0..UsedSequences /\ nodes \in 0..MaxNodes /\ nodeFile \in 0..MaxNodes
      /\ stateFile \in States \union {Missing, Torn} /\ exact \in [Callers -> BOOLEAN]
  BY DEF UuidTypeOK, Processes, Stamp, MayLeaveLoop
<1>2. /\ p \in Processes /\ p.last = clock
      /\ p.thisTick = (IF process.last # clock THEN 0 ELSE process.thisTick + 1)
      /\ p.timed = process.timed /\ p.read = process.read /\ p.state = process.state
  BY <1>1, TimedFields
<1> HIDE DEF p
<1>3. t \in 0..MaxTime + PerTick /\ Node \in 0..MaxNodes
  BY <1>1, <1>2, Bounds DEF Processes, Node, Stamp
<1>4. Valid => Previous \in States
  BY <1>1 DEF Valid, Previous, Stamp, Processes
<1>5. process.read => Valid /\ Previous = process.state
  BY DEF Valid, Previous
<1> HIDE DEF t
<1>6. PICK drawn \in 0..Sequences - 1 :
        LET s == [timestamp |-> t, node |-> Node,
                  sequence |-> NextSequence(t, Node, Previous, Valid, drawn)]
        IN  /\ process' = Written([p EXCEPT !.read = TRUE], s)
            /\ stateFile' \in {stateFile} \union {x \in {s} : Saves(p, t)}
            /\ seen' = [d \in Callers |-> IF d = c THEN {s}
                                          ELSE seen[d] \union {x \in {s} : caller[d] = "formats"}]
            /\ exact' = [exact EXCEPT ![c] = p.thisTick = 0]
            /\ turns' = IF BehindLast(t) /\ turns < UsedSequences THEN turns + 1 ELSE turns
  BY DEF Stamp, p, t
<1> DEFINE q == NextSequence(t, Node, Previous, Valid, drawn)
           s == [timestamp |-> t, node |-> Node, sequence |-> q]
<1>7. q \in 0..Sequences - 1
  <2>1. Valid => Previous.sequence \in 0..Sequences - 1 /\ (Previous.sequence + 1) % Sequences \in 0..Sequences - 1
    BY <1>4, Bounds DEF States
  <2> QED BY <2>1 DEF NextSequence
<1>8. process.read => q = IF Node # process.state.node THEN q
                          ELSE IF t < process.state.timestamp THEN (process.state.sequence + 1) % Sequences
                          ELSE process.state.sequence
  BY <1>5 DEF NextSequence
<1> HIDE DEF q
<1>9. s \in States /\ s.timestamp = t /\ s.node = Node /\ s.sequence = q
  BY <1>3, <1>7 DEF States
<1>10. /\ process' = Written([p EXCEPT !.read = TRUE], s)
       /\ stateFile' \in {stateFile} \union {x \in {s} : Saves(p, t)}
       /\ seen' = [d \in Callers |-> IF d = c THEN {s}
                                     ELSE seen[d] \union {x \in {s} : caller[d] = "formats"}]
       /\ exact' = [exact EXCEPT ![c] = p.thisTick = 0]
       /\ turns' = IF BehindLast(t) /\ turns < UsedSequences THEN turns + 1 ELSE turns
  BY <1>6 DEF q
<1> HIDE DEF s
<1>11. /\ process' \in Processes /\ process'.state = s /\ process'.read /\ process'.last = clock
       /\ process'.thisTick = p.thisTick /\ process'.timed = process.timed
  BY <1>2, <1>9, <1>10, WrittenFields
<1>12. t = clock + process'.thisTick
  BY <1>11 DEF t
<1>13. /\ process.read => turns' = IF s.timestamp < process.state.timestamp /\ turns < UsedSequences
                                     THEN turns + 1 ELSE turns
       /\ turns' \in 0..UsedSequences /\ turns =< turns'
  BY <1>1, <1>5, <1>9, <1>10, Bounds DEF BehindLast
<1>14. (p.thisTick = 0) = (process.last # clock)
  BY <1>1, <1>2, Bounds DEF Processes
<1>15. exact' = [exact EXCEPT ![c] = process.last # clock]
  BY <1>10, <1>14
<1>16. process'.thisTick = (IF process.last # clock THEN 0 ELSE process.thisTick + 1)
  BY <1>2, <1>11
<1>17. stateFile' \in {stateFile, s}
  BY <1>10
<1>18. PICK b \in BOOLEAN : b = (process.last # clock)
  OBVIOUS
<1>19. Stamps(c, s, b)
  BY <1>8, <1>9, <1>10, <1>11, <1>12, <1>13, <1>15, <1>16, <1>17, <1>18 DEF Stamps
<1> QED BY <1>9, <1>19

(* The sequence in use is one that is used. *)
LEMMA ResidueTyped ==
    ASSUME UuidAssumption, UuidTypeOK
    PROVE  Residue \in 0..UsedSequences - 1
BY NextResidue DEF UuidTypeOK, States, Residue

(* So is the one of any state. *)
LEMMA UsedTyped ==
    ASSUME UuidAssumption, NEW x \in States
    PROVE  Used(x) \in 0..UsedSequences - 1 /\ x.timestamp \in Nat
BY NextResidue, Bounds DEF States, Used

(* What was stamped before is still before a new stamp, and apart from it. *)
LEMMA StampMoves ==
    ASSUME UuidAssumption, UuidTypeOK, Coherent, NEW c \in Callers, caller[c] = "locked",
           NEW s \in States, NEW b \in BOOLEAN, Stamps(c, s, b),
           UNCHANGED <<clock, setBack, restarted>>, nodeFile' = Node,
           NEW a \in BOOLEAN, NEW t \in Nat, NEW q \in 0..UsedSequences - 1, Before(a, t, q)
    PROVE  Before(a, t, q)' /\ Apart(a, t, q, b, s.timestamp, Used(s))'
<1>1. /\ process \in Processes /\ process'.last = clock /\ process'.read /\ process'.timed /\ process.timed
      /\ clock \in Nat /\ process.last \in Nat /\ turns \in Nat /\ turns' \in Nat
      /\ process'.thisTick = (IF process.last # clock THEN 0 ELSE process.thisTick + 1)
      /\ process.thisTick \in Nat /\ process'.state = s
      /\ b = (process.last # clock)
  BY Bounds DEF UuidTypeOK, Processes, Stamps, Coherent
<1>2. /\ process.last # clock => s.timestamp = clock
      /\ process.last = clock => s.timestamp = clock + process.thisTick + 1
  BY <1>1 DEF Stamps
<1>3. ASSUME ~setBack, a
      PROVE  t =< process'.last /\ t =< clock /\ (process.last # clock => t # s.timestamp)
  <2>1. t =< clock /\ t =< process.last /\ process.last =< clock
    BY <1>1, <1>3 DEF Before, Coherent
  <2> QED BY <1>1, <1>2, <2>1
<1>4. turns' >= turns /\ (Continues' => Continues)
  BY <1>1, Bounds DEF Stamps, Continues
<1>5. ASSUME Continues'
      PROVE  /\ Dist(q, Residue') =< turns'
             /\ q = Residue' => t =< IF a THEN process'.last ELSE s.timestamp
             /\ a = (process.last # clock) => t # s.timestamp \/ q # Used(s)
  <2>1. /\ Continues /\ process.read /\ Dist(q, Residue) =< turns
        /\ q = Residue => t =< IF a THEN process.last ELSE process.state.timestamp
        /\ turns' < UsedSequences
    BY <1>4, <1>5 DEF Before, Continues
  <2>2. process.state.timestamp = process.last + process.thisTick /\ Node = process.state.node
    BY <1>5, <2>1 DEF Coherent, Node, Continues
  <2>3. /\ Residue \in 0..UsedSequences - 1 /\ process.state.sequence \in 0..Sequences - 1
        /\ UsedSequences \in Nat \ {0}
    BY <1>1, ResidueTyped, Bounds DEF Processes, States
  <2>4. Residue' = Used(s)
    BY DEF Residue, Used, Stamps
  <2>5. CASE s.timestamp < process.state.timestamp
    <3>1. s.sequence = (process.state.sequence + 1) % Sequences /\ turns' = turns + 1
      BY <2>1, <2>2, <2>5, Bounds DEF Stamps, Continues
    <3>2. Used(s) = IF Residue = UsedSequences - 1 THEN 0 ELSE Residue + 1
      BY <2>3, <3>1, NextResidue DEF Used, Residue
    <3>3. Dist(q, Used(s)) = Dist(q, Residue) + 1 /\ q # Used(s)
      BY <1>1, <2>1, <2>3, <3>1, <3>2 DEF Dist
    <3>4. Dist(q, Residue) \in Nat
      BY <2>3 DEF Dist
    <3> QED BY <1>1, <2>1, <2>4, <3>1, <3>3, <3>4
  <2>6. CASE ~(s.timestamp < process.state.timestamp)
    <3>1. s.sequence = process.state.sequence /\ turns' = turns
      BY <2>1, <2>2, <2>6 DEF Stamps
    <3>2. Used(s) = Residue
      BY <3>1 DEF Used, Residue
    <3>3. CASE process.last # clock
      <4>1. process.last < clock /\ process.state.timestamp =< s.timestamp
        <5>1. s.timestamp = clock /\ s.timestamp \in Nat
          BY <1>2, <3>3, UsedTyped
        <5>2. process.last + process.thisTick =< clock
          BY <1>1, <2>2, <2>6, <5>1
        <5> QED BY <1>1, <2>2, <3>3, <5>1, <5>2
      <4>2. q = Residue => (a => t =< clock /\ t # s.timestamp) /\ (~a => t =< s.timestamp)
        BY <1>1, <1>2, <2>1, <2>2, <3>3, <4>1
      <4> QED BY <1>1, <2>1, <2>4, <3>1, <3>2, <3>3, <4>2
    <3>4. CASE process.last = clock
      <4>1. process.last = clock /\ s.timestamp = process.state.timestamp + 1
        BY <1>1, <1>2, <2>2, <3>4
      <4>2. q = Residue => (a => t =< clock) /\ (~a => t =< s.timestamp /\ t # s.timestamp)
        BY <1>1, <2>1, <2>2, <4>1
      <4> QED BY <1>1, <2>1, <2>4, <3>1, <3>2, <3>4, <4>2
    <3> QED BY <3>3, <3>4
  <2> QED BY <2>5, <2>6
<1>6. Before(a, t, q)'
  BY <1>1, <1>3, <1>5 DEF Before
<1>7. Apart(a, t, q, b, s.timestamp, Used(s))'
  <2>1. b = (process.last # clock)
    BY <1>1
  <2>2. ASSUME ~setBack, a, a = b PROVE t # s.timestamp
    BY <1>3, <2>1, <2>2
  <2>3. ASSUME Continues', a = b PROVE t # s.timestamp \/ q # Used(s)
    BY <1>5, <2>1, <2>3
  <2> QED BY <2>2, <2>3 DEF Apart
<1> QED BY <1>6, <1>7

(* The new stamp itself. *)
LEMMA StampIsBefore ==
    ASSUME UuidAssumption, UuidTypeOK, Coherent, NEW c \in Callers, caller[c] = "locked",
           NEW s \in States, NEW b \in BOOLEAN, Stamps(c, s, b), UNCHANGED <<clock, setBack, restarted>>
    PROVE  Before(b, s.timestamp, Used(s))'
<1>1. /\ clock \in Nat /\ process'.last = clock /\ process'.read /\ turns' \in Nat
      /\ process'.state = s /\ s.timestamp \in Nat
      /\ s.timestamp = clock + process'.thisTick
      /\ process'.thisTick = (IF process.last # clock THEN 0 ELSE process.thisTick + 1)
      /\ b = (process.last # clock)
  BY Bounds DEF Stamps, UuidTypeOK, States
<1>4. b => s.timestamp = clock
  <2>1. process.last # clock => s.timestamp = clock
    BY <1>1
  <2> QED BY <1>1, <2>1
<1>2. Residue' = Used(s) /\ Used(s) \in Nat
  BY UsedTyped, Bounds DEF Residue, Used, Stamps
<1>3. Dist(Used(s), Used(s)) = 0
  BY <1>2 DEF Dist
<1>5. b => s.timestamp =< clock /\ s.timestamp =< process'.last
  BY <1>1, <1>4
<1>6. s.timestamp =< process'.state.timestamp
  BY <1>1
<1> QED BY <1>1, <1>2, <1>3, <1>5, <1>6 DEF Before

(* Once the clock has been set back or the sequence has come round, it stays so. *)
Fades == (setBack => setBack') /\ (Continues' => Continues)

(* Two ids that are apart stay so. *)
LEMMA ApartStays ==
    ASSUME Fades, NEW b, NEW t, NEW q, NEW b2, NEW t2, NEW q2, Apart(b, t, q, b2, t2, q2)
    PROVE  Apart(b, t, q, b2, t2, q2)'
BY DEF Fades, Apart

(* An id that was returned has its types. *)
LEMMA MadeTyped ==
    ASSUME UuidAssumption, UuidTypeOK, NEW i \in DOMAIN made
    PROVE  /\ made[i].exact \in BOOLEAN /\ made[i].id.time \in Nat
           /\ made[i].id.sequence \in 0..UsedSequences - 1
<1>1. made[i] \in Returns
  BY DEF UuidTypeOK
<1> QED BY <1>1, Bounds DEF Returns, Ids

(* The critical section with a state to go on from. *)
LEMMA StampKeeps ==
    ASSUME UuidAssumption, UuidInv, NEW c \in Callers, Stamp(c)
    PROVE  UuidInv'
<1>1. UuidTypeOK /\ Coherent /\ MadeBefore /\ StampedBefore /\ MadeApart /\ StampedApart /\ SoundIdsUnique
  BY DEF UuidInv
<1>2. /\ UNCHANGED <<clock, made, setBack, restarted>> /\ caller[c] = "locked" /\ nodeFile' = Node
      /\ nodes' = (IF nodeFile = 0 THEN Node ELSE nodes) /\ caller' = [caller EXCEPT ![c] = "formats"]
      /\ Node =< MaxNodes
  BY DEF Stamp
<1>3. PICK s \in States, b \in BOOLEAN : Stamps(c, s, b)
  BY <1>1, StampStamps
<1>4. /\ clock \in 0..MaxTime /\ caller \in [Callers -> {"idle", "locked", "formats"}]
      /\ exact \in [Callers -> BOOLEAN] /\ nodeFile \in 0..MaxNodes /\ nodes \in 0..MaxNodes
      /\ process \in Processes /\ \A d \in Callers : seen[d] \subseteq States
      /\ stateFile \in States \union {Missing, Torn}
  BY <1>1 DEF UuidTypeOK, Processes
<1>5. Node \in 0..MaxNodes /\ Node # 0
  BY <1>2, <1>4, Bounds DEF Node
<1>6. UuidTypeOK'
  <2>1. process' \in Processes /\ stateFile' \in States \union {Missing, Torn} /\ turns' \in 0..UsedSequences
    BY <1>3, <1>4 DEF Stamps
  <2>2. exact' \in [Callers -> BOOLEAN] /\ \A d \in Callers : seen'[d] \subseteq States
    BY <1>3, <1>4 DEF Stamps
  <2>3. caller' \in [Callers -> {"idle", "locked", "formats"}] /\ nodeFile' \in 0..MaxNodes /\ nodes' \in 0..MaxNodes
    BY <1>2, <1>4, <1>5
  <2> QED BY <1>1, <1>2, <2>1, <2>2, <2>3 DEF UuidTypeOK, Processes
<1>7. Coherent'
  <2>1. process.timed /\ process'.timed /\ process'.read /\ process'.last = clock
        /\ process'.state.timestamp = process'.last + process'.thisTick
        /\ process'.state.node = Node
    BY <1>1, <1>2, <1>3 DEF Coherent, Stamps
  <2>2. ~setBack' /\ process'.timed => process'.last =< clock'
    BY <1>2, <1>4, <2>1, Bounds
  <2>3. \A d \in Callers : caller'[d] = "formats" => seen'[d] # {}
    <3>1. seen'[c] # {}
      BY <1>3 DEF Stamps
    <3>2. ASSUME NEW d \in Callers \ {c}, caller'[d] = "formats" PROVE seen'[d] # {}
      <4>1. caller[d] = "formats" /\ seen'[d] = seen[d] \union {s}
        BY <1>2, <1>3, <1>4, <3>2 DEF Stamps
      <4> QED BY <4>1
    <3> QED BY <3>1, <3>2
  <2>4. \A d \in Callers : caller'[d] = "locked" => process'.timed
    BY <2>1
  <2> QED BY <1>2, <1>5, <2>1, <2>2, <2>3, <2>4 DEF Coherent
<1>8. \A a \in BOOLEAN, t \in Nat, q \in 0..UsedSequences - 1 :
         Before(a, t, q) => Before(a, t, q)' /\ Apart(a, t, q, b, s.timestamp, Used(s))'
  BY <1>1, <1>2, <1>3, StampMoves
<1>9. Before(b, s.timestamp, Used(s))'
  BY <1>1, <1>2, <1>3, StampIsBefore
<1>10. ASSUME NEW d \in Callers, NEW a \in BOOLEAN, NEW x \in States, Stamped(d, a, x)'
       PROVE  \/ d = c /\ x = s /\ a = b
              \/ d # c /\ Stamped(d, a, x)
  <2>1. caller'[d] = "formats" /\ exact'[d] = a /\ seen'[d] = {x}
    BY <1>10 DEF Stamped
  <2>2. CASE d = c
    BY <1>3, <1>4, <2>1, <2>2 DEF Stamps
  <2>3. CASE d # c
    <3>1. caller[d] = "formats" /\ exact[d] = a /\ seen[d] \union {s} = {x}
      BY <1>2, <1>3, <1>4, <2>1, <2>3 DEF Stamps
    <3>2. seen[d] # {}
      BY <1>1, <3>1 DEF Coherent
    <3> QED BY <2>3, <3>1, <3>2 DEF Stamped
  <2> QED BY <2>2, <2>3
<1>11. Fades
  <2>1. turns \in Nat /\ turns' \in Nat /\ turns =< turns' /\ UsedSequences \in Nat
    BY <1>1, <1>3, Bounds DEF Stamps, UuidTypeOK
  <2> QED BY <1>2, <2>1 DEF Fades, Continues
<1>12. MadeBefore'
  BY <1>1, <1>2, <1>8, MadeTyped DEF MadeBefore
<1>13. \A d \in Callers, a \in BOOLEAN : \A x \in States :
          d # c /\ Stamped(d, a, x)' => /\ Stamped(d, a, x)
                                      /\ Before(a, x.timestamp, Used(x)) /\ Before(a, x.timestamp, Used(x))'
  BY <1>1, <1>8, <1>10, UsedTyped DEF StampedBefore
<1>14. StampedBefore'
  BY <1>9, <1>10, <1>13 DEF StampedBefore, Used
<1>15. MadeApart'
  <2>1. ASSUME NEW i \in DOMAIN made, made[i].sound,
               NEW d \in Callers, NEW a \in BOOLEAN, NEW x \in States, Stamped(d, a, x)'
        PROVE  Apart(made[i].exact, made[i].id.time, made[i].id.sequence, a, x.timestamp, Used(x))'
    <3> DEFINE e == made[i]
    <3>1. e.exact \in BOOLEAN /\ e.id.time \in Nat /\ e.id.sequence \in 0..UsedSequences - 1
      BY <1>1, MadeTyped
    <3>2. made'[i] = made[i]
      BY <1>2
    <3>3. CASE d = c
      <4>1. Before(e.exact, e.id.time, e.id.sequence)
        BY <1>1, <2>1 DEF MadeBefore
      <4>2. x = s /\ a = b
        BY <1>10, <2>1, <3>3
      <4>3. PICK f, t, q : f = e.exact /\ t = e.id.time /\ q = e.id.sequence
        OBVIOUS
      <4>4. Apart(f, t, q, b, s.timestamp, Used(s))'
        BY <1>8, <3>1, <4>1, <4>3
      <4> QED BY <3>2, <4>2, <4>3, <4>4
    <3>4. CASE d # c
      <4>1. Stamped(d, a, x)
        BY <1>13, <2>1, <3>4
      <4>2. Apart(e.exact, e.id.time, e.id.sequence, a, x.timestamp, Used(x))
        BY <1>1, <2>1, <4>1 DEF MadeApart
      <4>3. PICK f, t, q : f = e.exact /\ t = e.id.time /\ q = e.id.sequence
        OBVIOUS
      <4>4. Apart(f, t, q, a, x.timestamp, Used(x))'
        BY <1>11, <4>2, <4>3, ApartStays
      <4> QED BY <3>2, <4>3, <4>4
    <3> QED BY <3>3, <3>4
  <2> QED BY <1>2, <2>1 DEF MadeApart, Used
<1>16. StampedApart'
  <2>1. ASSUME NEW d \in Callers, NEW f \in Callers, d # f, NEW a \in BOOLEAN, NEW g \in BOOLEAN,
               NEW x \in States, NEW y \in States, Stamped(d, a, x)', Stamped(f, g, y)'
        PROVE  Apart(a, x.timestamp, Used(x), g, y.timestamp, Used(y))'
    <3>1. CASE f = c
      <4>1. y = s /\ g = b /\ Before(a, x.timestamp, Used(x))
        BY <1>10, <1>13, <2>1, <3>1
      <4> QED BY <1>8, <4>1, UsedTyped
    <3>2. CASE d = c
      <4>1. x = s /\ a = b /\ Before(g, y.timestamp, Used(y))
        BY <1>10, <1>13, <2>1, <3>2
      <4>2. Apart(g, y.timestamp, Used(y), a, x.timestamp, Used(x))'
        BY <1>8, <4>1, UsedTyped
      <4> QED BY <4>2 DEF Apart
    <3>3. CASE d # c /\ f # c
      <4>1. Stamped(d, a, x) /\ Stamped(f, g, y)
        BY <1>13, <2>1, <3>3
      <4>2. Apart(a, x.timestamp, Used(x), g, y.timestamp, Used(y))
        BY <1>1, <2>1, <4>1 DEF StampedApart
      <4> QED BY <1>11, <4>2, ApartStays
    <3> QED BY <3>1, <3>2, <3>3
  <2> QED BY <2>1 DEF StampedApart, Used
<1>17. SoundIdsUnique'
  BY <1>1, <1>2 DEF SoundIdsUnique
<1> QED BY <1>6, <1>7, <1>12, <1>14, <1>15, <1>16, <1>17 DEF UuidInv

(* A step that neither stamps nor formats. *)
LEMMA QuietStep ==
    ASSUME UuidAssumption, UuidInv, Fades, made' = made, UuidTypeOK', Coherent',
           \A b \in BOOLEAN, t \in Nat, q \in 0..UsedSequences - 1 : Before(b, t, q) => Before(b, t, q)',
           \A c \in Callers, b \in BOOLEAN : \A x \in States : Stamped(c, b, x)' => Stamped(c, b, x)
    PROVE  UuidInv'
<1>1. UuidTypeOK /\ MadeBefore /\ StampedBefore /\ MadeApart /\ StampedApart /\ SoundIdsUnique
  BY DEF UuidInv
<1>2. MadeBefore'
  BY <1>1, MadeTyped DEF MadeBefore
<1>3. StampedBefore'
  BY <1>1, UsedTyped DEF StampedBefore, Used
<1>4. MadeApart'
  BY <1>1, ApartStays DEF MadeApart, Used
<1>5. StampedApart'
  BY <1>1, ApartStays DEF StampedApart, Used
<1>6. SoundIdsUnique'
  BY <1>1 DEF SoundIdsUnique
<1> QED BY <1>2, <1>3, <1>4, <1>5, <1>6 DEF UuidInv

(* create() takes the mutex. *)
LEMMA EnterKeeps ==
    ASSUME UuidAssumption, UuidInv, NEW c \in Callers, Enter(c)
    PROVE  UuidInv'
<1>1. UuidTypeOK /\ Coherent
  BY DEF UuidInv
<1>2. /\ process \in Processes /\ clock \in 0..MaxTime /\ caller \in [Callers -> {"idle", "locked", "formats"}]
      /\ caller[c] = "idle" /\ caller' = [caller EXCEPT ![c] = "locked"]
      /\ UNCHANGED <<clock, seen, exact, stateFile, nodeFile, nodes, made, turns, setBack, restarted>>
      /\ clock \in Nat
  BY <1>1, Bounds DEF UuidTypeOK, Processes, Enter
<1>3. /\ process' \in Processes /\ process'.timed /\ process'.read = process.read
      /\ process'.state = process.state
      /\ process.timed => process' = process
      /\ ~process.timed => process'.last = clock
  <2>1. CASE process.timed
    BY <1>2, <2>1 DEF Enter, Processes
  <2>2. CASE ~process.timed
    <3>1. process' = [process EXCEPT !.timed = TRUE, !.last = clock, !.thisTick = PerTick]
      BY <2>2 DEF Enter
    <3>2. PerTick \in 0..PerTick
      BY Bounds
    <3> QED BY <1>2, <2>2, <3>1, <3>2 DEF Processes
  <2> QED BY <2>1, <2>2
<1>4. Fades
  BY <1>2 DEF Fades, Continues
<1>5. UuidTypeOK'
  BY <1>1, <1>2, <1>3 DEF UuidTypeOK, Processes
<1>6. process.read => process.timed
  BY <1>1 DEF Coherent
<1>7. Coherent'
  <2>1. \A d \in Callers : caller'[d] = "formats" => caller[d] = "formats"
    BY <1>2
  <2>2. process'.read => process'.state.timestamp = process'.last + process'.thisTick
    BY <1>1, <1>3, <1>6 DEF Coherent
  <2>3. ~setBack => process'.last =< clock
    BY <1>1, <1>2, <1>3 DEF Coherent
  <2> QED BY <1>1, <1>2, <1>3, <2>1, <2>2, <2>3 DEF Coherent
<1>8. ASSUME NEW b \in BOOLEAN, NEW t \in Nat, NEW q \in 0..UsedSequences - 1, Before(b, t, q)
      PROVE  Before(b, t, q)'
  <2>1. Continues' <=> Continues
    BY <1>2 DEF Continues
  <2>2. process.read => Residue' = Residue /\ process'.last = process.last /\ process'.state = process.state
    BY <1>3, <1>6 DEF Residue
  <2> QED BY <1>2, <1>3, <1>8, <2>1, <2>2 DEF Before
<1>9. \A d \in Callers, b \in BOOLEAN : \A x \in States : Stamped(d, b, x)' => Stamped(d, b, x)
  BY <1>2 DEF Stamped
<1> QED BY <1>2, <1>4, <1>5, <1>7, <1>8, <1>9, QuietStep

(* read_state throws at a file that is too short. *)
LEMMA StampThrowsKeeps ==
    ASSUME UuidAssumption, UuidInv, NEW c \in Callers, StampThrows(c)
    PROVE  UuidInv'
<1>1. UuidTypeOK /\ Coherent
  BY DEF UuidInv
<1>2. /\ process \in Processes /\ clock \in 0..MaxTime /\ caller \in [Callers -> {"idle", "locked", "formats"}]
      /\ caller[c] = "locked" /\ caller' = [caller EXCEPT ![c] = "idle"]
      /\ UNCHANGED <<clock, seen, exact, stateFile, made, turns, setBack, restarted>>
      /\ clock \in Nat /\ ~process.read /\ stateFile = Torn
      /\ nodeFile \in 0..MaxNodes /\ nodes \in 0..MaxNodes /\ Node =< MaxNodes
      /\ nodeFile' = Node /\ nodes' = (IF nodeFile = 0 THEN Node ELSE nodes)
      /\ (process.last # clock \/ process.thisTick < PerTick) /\ process' = Timed(process)
  BY <1>1, Bounds DEF UuidTypeOK, Processes, StampThrows, MayLeaveLoop
<1>3. /\ process' \in Processes /\ process'.timed = process.timed /\ ~process'.read /\ process'.last = clock
  BY <1>2, TimedFields
<1>4. restarted /\ process.timed
  BY <1>1, <1>2, StartedTyped DEF Coherent
<1>5. Fades
  BY <1>2 DEF Fades, Continues
<1>6. UuidTypeOK'
  <2>1. Node \in 0..MaxNodes
    BY <1>2, Bounds DEF Node
  <2> QED BY <1>1, <1>2, <1>3, <2>1 DEF UuidTypeOK, Processes
<1>7. Coherent'
  <2>1. \A d \in Callers : caller'[d] = "formats" => caller[d] = "formats"
    BY <1>2
  <2> QED BY <1>1, <1>2, <1>3, <1>4, <2>1 DEF Coherent
<1>8. ASSUME NEW b \in BOOLEAN, NEW t \in Nat, NEW q \in 0..UsedSequences - 1, Before(b, t, q)
      PROVE  Before(b, t, q)'
  BY <1>2, <1>3, <1>4, <1>8 DEF Before, Continues
<1>9. \A d \in Callers, b \in BOOLEAN : \A x \in States : Stamped(d, b, x)' => Stamped(d, b, x)
  BY <1>2 DEF Stamped
<1> QED BY <1>2, <1>5, <1>6, <1>7, <1>8, <1>9, QuietStep

(* The clock goes on. *)
LEMMA TickKeeps ==
    ASSUME UuidAssumption, UuidInv, Tick
    PROVE  UuidInv'
<1>1. UuidTypeOK /\ Coherent
  BY DEF UuidInv
<1>2. /\ UNCHANGED <<process, caller, seen, exact, stateFile, nodeFile, nodes, made, turns, setBack, restarted>>
      /\ clock \in Nat /\ clock' = clock + 1 /\ clock' \in 0..MaxTime /\ process.last \in Nat
  BY <1>1, Bounds DEF UuidTypeOK, Tick
<1>3. Fades
  BY <1>2 DEF Fades, Continues
<1>4. UuidTypeOK'
  BY <1>1, <1>2 DEF UuidTypeOK
<1>5. Coherent'
  BY <1>1, <1>2 DEF Coherent
<1>6. ASSUME NEW b \in BOOLEAN, NEW t \in Nat, NEW q \in 0..UsedSequences - 1, Before(b, t, q)
      PROVE  Before(b, t, q)'
  BY <1>2, <1>6 DEF Before, Continues, Residue
<1>7. \A d \in Callers, b \in BOOLEAN : \A x \in States : Stamped(d, b, x)' => Stamped(d, b, x)
  BY <1>2 DEF Stamped
<1> QED BY <1>2, <1>3, <1>4, <1>5, <1>6, <1>7, QuietStep

(* The clock is set back. *)
LEMMA SetClockBackKeeps ==
    ASSUME UuidAssumption, UuidInv, SetClockBack
    PROVE  UuidInv'
<1>1. UuidTypeOK /\ Coherent
  BY DEF UuidInv
<1>2. /\ UNCHANGED <<process, caller, seen, exact, stateFile, nodeFile, nodes, made, turns, restarted>>
      /\ setBack' = TRUE /\ clock' \in 0..MaxTime
  BY <1>1, Bounds DEF UuidTypeOK, SetClockBack
<1>3. Fades
  BY <1>2 DEF Fades, Continues
<1>4. UuidTypeOK'
  BY <1>1, <1>2 DEF UuidTypeOK
<1>5. Coherent'
  BY <1>1, <1>2 DEF Coherent
<1>6. ASSUME NEW b \in BOOLEAN, NEW t \in Nat, NEW q \in 0..UsedSequences - 1, Before(b, t, q)
      PROVE  Before(b, t, q)'
  BY <1>2, <1>6 DEF Before, Continues, Residue
<1>7. \A d \in Callers, b \in BOOLEAN : \A x \in States : Stamped(d, b, x)' => Stamped(d, b, x)
  BY <1>2 DEF Stamped
<1> QED BY <1>2, <1>3, <1>4, <1>5, <1>6, <1>7, QuietStep

(* The process is started again. *)
LEMMA RestartKeeps ==
    ASSUME UuidAssumption, UuidInv, Restart
    PROVE  UuidInv'
<1>1. UuidTypeOK /\ Coherent
  BY DEF UuidInv
<1>2. /\ UNCHANGED <<clock, nodes, made, turns, setBack>> /\ restarted' = TRUE /\ process' = Started
      /\ stateFile' \in {stateFile, Torn} /\ nodeFile' \in {0, nodeFile}
      /\ caller' = [c \in Callers |-> "idle"] /\ seen' = [c \in Callers |-> {}]
      /\ exact' = [c \in Callers |-> FALSE]
  BY DEF Restart
<1>3. Fades
  BY <1>2 DEF Fades, Continues
<1>4. process' \in Processes /\ ~process'.timed /\ ~process'.read
  BY <1>2, StartedTyped
<1>5. UuidTypeOK'
  <2>1. stateFile' \in States \union {Missing, Torn} /\ nodeFile' \in 0..MaxNodes
    BY <1>1, <1>2, Bounds DEF UuidTypeOK
  <2>2. /\ caller' \in [Callers -> {"idle", "locked", "formats"}] /\ exact' \in [Callers -> BOOLEAN]
        /\ \A d \in Callers : seen'[d] \subseteq States
    BY <1>2
  <2> QED BY <1>1, <1>2, <1>4, <2>1, <2>2 DEF UuidTypeOK, Processes
<1>6. Coherent'
  BY <1>2, <1>4 DEF Coherent
<1>7. ASSUME NEW b \in BOOLEAN, NEW t \in Nat, NEW q \in 0..UsedSequences - 1, Before(b, t, q)
      PROVE  Before(b, t, q)'
  BY <1>2, <1>4, <1>7 DEF Before, Continues
<1>8. \A d \in Callers, b \in BOOLEAN : \A x \in States : Stamped(d, b, x)' => Stamped(d, b, x)
  BY <1>2 DEF Stamped
<1> QED BY <1>2, <1>3, <1>5, <1>6, <1>7, <1>8, QuietStep

(* format_uuid_v1 after the mutex: what it returns as sound was stamped by  *)
(* the thread itself, so it is apart from every other id.                   *)
LEMMA FormatKeeps ==
    ASSUME UuidAssumption, UuidInv, NEW c \in Callers, Format(c)
    PROVE  UuidInv'
<1>1. UuidTypeOK /\ Coherent /\ MadeBefore /\ StampedBefore /\ MadeApart /\ StampedApart /\ SoundIdsUnique
  BY DEF UuidInv
<1>2. /\ UNCHANGED <<clock, process, stateFile, nodeFile, nodes, turns, setBack, restarted>>
      /\ caller[c] = "formats" /\ caller' = [caller EXCEPT ![c] = "idle"]
      /\ seen' = [seen EXCEPT ![c] = {}] /\ exact' = [exact EXCEPT ![c] = FALSE]
  BY DEF Format
<1>3. /\ caller \in [Callers -> {"idle", "locked", "formats"}] /\ exact \in [Callers -> BOOLEAN]
      /\ \A d \in Callers : seen[d] \subseteq States
  BY <1>1 DEF UuidTypeOK
<1>4. PICK r \in seen[c], s \in seen[c], n \in seen[c] :
        made' = Append(made, [id    |-> [time |-> r.timestamp, sequence |-> s.sequence % UsedSequences,
                                         node |-> n.node],
                              exact |-> exact[c],
                              sound |-> seen[c] = {r} /\ (Continues \/ (exact[c] /\ ~setBack))])
  BY DEF Format
<1> DEFINE b == seen[c] = {r} /\ (Continues \/ (exact[c] /\ ~setBack))
           e == [id |-> [time |-> r.timestamp, sequence |-> s.sequence % UsedSequences, node |-> n.node],
                 exact |-> exact[c], sound |-> b]
<1>5. /\ made' = Append(made, e) /\ e.exact = exact[c] /\ e.sound = b
      /\ e.id.time = r.timestamp /\ e.id.sequence = s.sequence % UsedSequences /\ e.id.node = n.node
      /\ r \in States /\ s \in States /\ n \in States
  BY <1>3, <1>4
<1>6. e \in Returns
  <2>1. b \in BOOLEAN
    OBVIOUS
  <2> HIDE DEF b
  <2>2. s.sequence % UsedSequences \in 0..UsedSequences - 1
    BY <1>5, NextResidue DEF States
  <2>3. [time |-> r.timestamp, sequence |-> s.sequence % UsedSequences, node |-> n.node] \in Ids
    BY <1>5, <2>2 DEF Ids, States
  <2> QED BY <1>3, <2>1, <2>3 DEF Returns
<1> HIDE DEF e
<1>7. e.sound => /\ Stamped(c, e.exact, r) /\ (Continues \/ (e.exact /\ ~setBack)) /\ e.exact \in BOOLEAN
                 /\ e.id.time = r.timestamp /\ e.id.sequence = Used(r)
  <2>1. ASSUME e.sound PROVE b
    BY <1>5, <2>1
  <2>2. ASSUME b PROVE s = r /\ Stamped(c, exact[c], r) /\ (Continues \/ (exact[c] /\ ~setBack))
    BY <1>2, <1>4, <2>2 DEF Stamped
  <2> HIDE DEF b
  <2> QED BY <1>3, <1>5, <2>1, <2>2 DEF Used
<1> HIDE DEF b
<1>8. UuidTypeOK'
  <2>1. made' \in Seq(Returns)
    BY <1>1, <1>5, <1>6 DEF UuidTypeOK
  <2>2. /\ caller' \in [Callers -> {"idle", "locked", "formats"}] /\ exact' \in [Callers -> BOOLEAN]
        /\ \A d \in Callers : seen'[d] \subseteq States
    BY <1>2, <1>3
  <2> QED BY <1>1, <1>2, <2>1, <2>2 DEF UuidTypeOK
<1>9. Coherent'
  <2>1. \A d \in Callers : /\ caller'[d] = "locked" => caller[d] = "locked"
                           /\ caller'[d] = "formats" => caller[d] = "formats" /\ seen'[d] = seen[d]
    BY <1>2, <1>3
  <2> QED BY <1>1, <1>2, <2>1 DEF Coherent
<1>10. ASSUME NEW d \in Callers, NEW a \in BOOLEAN, NEW x \in States, Stamped(d, a, x)'
       PROVE  d # c /\ Stamped(d, a, x)
  <2>1. caller'[d] = "formats" /\ exact'[d] = a /\ seen'[d] = {x}
    BY <1>10 DEF Stamped
  <2>2. d # c
    BY <1>2, <1>3, <2>1
  <2>3. caller[d] = "formats" /\ exact[d] = a /\ seen[d] = {x}
    BY <1>2, <1>3, <2>1, <2>2
  <2> QED BY <2>2, <2>3 DEF Stamped
<1>11. \A a, t, q : Before(a, t, q)' <=> Before(a, t, q)
  BY <1>2 DEF Before, Residue, Continues
<1>12. Fades
  BY <1>2 DEF Fades, Continues
<1>13. ASSUME NEW i \in DOMAIN made'
       PROVE  \/ i \in DOMAIN made /\ made'[i] = made[i]
              \/ i = Len(made) + 1 /\ made'[i] = e
  BY <1>1, <1>5, <1>13 DEF UuidTypeOK
<1>14. MadeBefore'
  <2>1. e.sound => Before(e.exact, e.id.time, e.id.sequence)
    BY <1>1, <1>5, <1>7 DEF StampedBefore
  <2>2. ASSUME NEW i \in DOMAIN made', made'[i].sound
        PROVE  Before(made'[i].exact, made'[i].id.time, made'[i].id.sequence)
    BY <1>1, <1>13, <2>1, <2>2 DEF MadeBefore
  <2>3. ASSUME NEW i \in DOMAIN made', made'[i].sound
        PROVE  Before(made[i].exact, made[i].id.time, made[i].id.sequence)'
    <3>1. PICK f, t, q : f = made'[i].exact /\ t = made'[i].id.time /\ q = made'[i].id.sequence
      OBVIOUS
    <3>2. Before(f, t, q)'
      BY <1>11, <2>2, <2>3, <3>1
    <3> QED BY <3>1, <3>2
  <2> QED BY <2>3 DEF MadeBefore
<1>15. StampedBefore'
  BY <1>1, <1>10, <1>11 DEF StampedBefore, Used
<1>16. ASSUME NEW i \in DOMAIN made, made[i].sound, e.sound, made[i].exact = e.exact PROVE made[i].id # e.id
  <2>1. Apart(made[i].exact, made[i].id.time, made[i].id.sequence, e.exact, r.timestamp, Used(r))
    BY <1>1, <1>5, <1>7, <1>16 DEF MadeApart
  <2>2. made[i].id.time # e.id.time \/ made[i].id.sequence # e.id.sequence
    BY <1>7, <1>16, <2>1 DEF Apart
  <2> QED BY <2>2
<1>17. MadeApart'
  <2>1. ASSUME NEW d \in Callers, NEW a \in BOOLEAN, NEW x \in States, Stamped(d, a, x)', e.sound
        PROVE  Apart(e.exact, e.id.time, e.id.sequence, a, x.timestamp, Used(x))
    <3>1. c # d /\ Stamped(c, e.exact, r) /\ Stamped(d, a, x)
      BY <1>7, <1>10, <2>1
    <3>2. Apart(e.exact, r.timestamp, Used(r), a, x.timestamp, Used(x))
      BY <1>1, <1>5, <1>7, <2>1, <3>1 DEF StampedApart
    <3> QED BY <1>7, <2>1, <3>2
  <2>2. ASSUME NEW i \in DOMAIN made', made'[i].sound,
               NEW d \in Callers, NEW a \in BOOLEAN, NEW x \in States, Stamped(d, a, x)'
        PROVE  Apart(made'[i].exact, made'[i].id.time, made'[i].id.sequence, a, x.timestamp, Used(x))
    <3>1. Stamped(d, a, x)
      BY <1>10, <2>2
    <3> QED BY <1>1, <1>13, <2>1, <2>2, <3>1 DEF MadeApart
  <2>3. ASSUME NEW i \in DOMAIN made', made'[i].sound,
               NEW d \in Callers, NEW a \in BOOLEAN, NEW x \in States, Stamped(d, a, x)'
        PROVE  Apart(made[i].exact, made[i].id.time, made[i].id.sequence, a, x.timestamp, Used(x))'
    <3>1. PICK f, t, q : f = made'[i].exact /\ t = made'[i].id.time /\ q = made'[i].id.sequence
      OBVIOUS
    <3>2. Apart(f, t, q, a, x.timestamp, Used(x))
      BY <2>2, <2>3, <3>1
    <3>3. Apart(f, t, q, a, x.timestamp, Used(x))'
      BY <1>12, <3>2, ApartStays
    <3> QED BY <3>1, <3>3
  <2> QED BY <2>3 DEF MadeApart, Used
<1>18. StampedApart'
  BY <1>1, <1>10, <1>12, ApartStays DEF StampedApart, Used
<1>19. SoundIdsUnique'
  <2>1. ASSUME NEW i \in DOMAIN made', NEW j \in DOMAIN made', i # j, made'[i].sound, made'[j].sound,
               made'[i].exact = made'[j].exact
        PROVE  made'[i].id # made'[j].id
    <3>1. /\ (i \in DOMAIN made /\ made'[i] = made[i]) \/ (i = Len(made) + 1 /\ made'[i] = e)
          /\ (j \in DOMAIN made /\ made'[j] = made[j]) \/ (j = Len(made) + 1 /\ made'[j] = e)
      BY <1>13, <2>1
    <3>2. \/ i \in DOMAIN made /\ made'[i] = made[i] /\ j \in DOMAIN made /\ made'[j] = made[j]
          \/ i \in DOMAIN made /\ made'[i] = made[i] /\ made'[j] = e
          \/ j \in DOMAIN made /\ made'[j] = made[j] /\ made'[i] = e
      BY <2>1, <3>1
    <3> QED BY <1>1, <1>16, <2>1, <3>2 DEF SoundIdsUnique
  <2> QED BY <2>1 DEF SoundIdsUnique
<1> QED BY <1>8, <1>9, <1>14, <1>15, <1>17, <1>18, <1>19 DEF UuidInv

(* The first process has stamped nothing. *)
LEMMA UuidStart ==
    ASSUME UuidAssumption, UuidInit
    PROVE  UuidInv
<1>1. UuidTypeOK
  <2>1. 0 \in 0..MaxTime /\ 0 \in 0..MaxNodes /\ 0 \in 0..UsedSequences
    BY Bounds
  <2>2. process \in Processes
    BY StartedTyped DEF UuidInit
  <2>3. /\ caller \in [Callers -> {"idle", "locked", "formats"}] /\ exact \in [Callers -> BOOLEAN]
        /\ \A c \in Callers : seen[c] \subseteq States
    BY DEF UuidInit
  <2>4. clock = 0 /\ stateFile = Missing /\ nodeFile = 0 /\ nodes = 0 /\ turns = 0
    BY DEF UuidInit
  <2>5. made \in Seq(Returns)
    BY DEF UuidInit
  <2>6. setBack \in BOOLEAN /\ restarted \in BOOLEAN
    BY DEF UuidInit
  <2> QED BY <2>1, <2>2, <2>3, <2>4, <2>5, <2>6 DEF UuidTypeOK, Processes
<1>2. Coherent
  BY StartedTyped DEF UuidInit, Coherent
<1>3. \A c \in Callers, b \in BOOLEAN : \A x \in States : ~Stamped(c, b, x)
  BY DEF UuidInit, Stamped
<1> QED BY <1>1, <1>2, <1>3
        DEF UuidInit, UuidInv, MadeBefore, StampedBefore, MadeApart, StampedApart, SoundIdsUnique

(* create() keeps its inductive invariant. *)
THEOREM UuidInvariant == UuidSpec => []UuidInv
<1> USE UuidAssumption
<1>1. UuidInit => UuidInv
  BY UuidStart
<1>2. UuidInv /\ [UuidNext]_uuidVars => UuidInv'
  <2> SUFFICES ASSUME UuidInv, [UuidNext]_uuidVars PROVE UuidInv'
    OBVIOUS
  <2>1. ASSUME NEW c \in Callers, Enter(c) PROVE UuidInv'
    BY <2>1, EnterKeeps
  <2>2. ASSUME NEW c \in Callers, Stamp(c) PROVE UuidInv'
    BY <2>2, StampKeeps
  <2>3. ASSUME NEW c \in Callers, StampThrows(c) PROVE UuidInv'
    BY <2>3, StampThrowsKeeps
  <2>4. ASSUME NEW c \in Callers, Format(c) PROVE UuidInv'
    BY <2>4, FormatKeeps
  <2>5. CASE Tick
    BY <2>5, TickKeeps
  <2>6. CASE SetClockBack
    BY <2>6, SetClockBackKeeps
  <2>7. CASE Restart
    BY <2>7, RestartKeeps
  <2>8. CASE UNCHANGED uuidVars
    <3>1. UuidTypeOK' /\ Coherent'
      BY <2>8 DEF uuidVars, UuidInv, UuidTypeOK, Coherent
    <3>2. Fades /\ made' = made
      BY <2>8 DEF uuidVars, Fades, Continues
    <3>3. \A b \in BOOLEAN, t \in Nat, q \in 0..UsedSequences - 1 : Before(b, t, q) => Before(b, t, q)'
      BY <2>8 DEF uuidVars, Before, Continues, Residue
    <3>4. \A c \in Callers, b \in BOOLEAN : \A x \in States : Stamped(c, b, x)' => Stamped(c, b, x)
      BY <2>8 DEF uuidVars, Stamped
    <3> QED BY <3>1, <3>2, <3>3, <3>4, QuietStep
  <2> QED BY <2>1, <2>2, <2>3, <2>4, <2>5, <2>6, <2>7, <2>8 DEF UuidNext
<1> QED BY <1>1, <1>2, PTL DEF UuidSpec

(* The state of the factory, of its files and of the threads keeps its     *)
(* types, for any clock, sequences and number of threads.                  *)
THEOREM UuidTypes == UuidSpec => []UuidTypeOK
BY UuidInvariant, PTL DEF UuidInv

(* No two calls of create() return the same id if no thread stamped before *)
(* either was formatted and both timestamps are readings of a clock that   *)
(* is not set back; or if the process goes on, the sequence has not come   *)
(* round and both are readings, or both a reading and a count.             *)
THEOREM SoundIdsStayUnique == UuidSpec => []SoundIdsUnique
BY UuidInvariant, PTL DEF UuidInv

(***************************************************************************)
(* handshake_reader::read.                                                 *)
(***************************************************************************)

(* Before the first bytes arrive, handshake_reader holds nothing.          *)
Untouched ==
    /\ record \in Nat \ {0} /\ available \in Nat
    /\ available = 0 => /\ hello = "reads" /\ length = NotKnown
                        /\ segment = [committed |-> <<>>, pending |-> <<>>]

(* What is copied in one piece of size bytes after the committed ones.     *)
LEMMA CopyWhole ==
    ASSUME NEW done \in Nat, NEW bytes \in Nat \ {0}, NEW size \in Nat, size >= done + bytes
    PROVE  Copy([committed |-> [i \in 1..done |-> i], pending |-> <<>>], bytes, size, size)
             = [complete |-> TRUE, defined |-> TRUE,
                segment  |-> [committed |-> [i \in 1..done + bytes |-> i], pending |-> <<>>]]
<1> DEFINE s == [committed |-> [i \in 1..done |-> i], pending |-> <<>>]
           here == [i \in 1..bytes |-> done + i]
<1>1. Len(s.committed) = done /\ Len(s.pending) = 0 /\ s.committed \in Seq(Int)
  OBVIOUS
<1>2. Enough(size, done, bytes)
  BY DEF Enough
<1>3. here \in Seq(Int) /\ Len(here) = bytes
  OBVIOUS
<1>4. <<>> \o here = here
  BY <1>3
<1>5. s.committed \o here = [i \in 1..done + bytes |-> i]
  BY <1>1, <1>3
<1>6. [i \in 1..bytes |-> IF done + 0 + i =< done + bytes THEN done + 0 + i ELSE Garbage] = here
  OBVIOUS
<1>7. bytes - 0 = bytes /\ done + 0 =< done + bytes /\ done + bytes =< size
  OBVIOUS
<1> QED
  BY <1>1, <1>2, <1>4, <1>5, <1>6, <1>7, ZenonT(60) DEF Copy

(* The first read finds the reader untouched.                              *)
LEMMA UntouchedHolds == HelloSpec => []Untouched
<1>1. HelloInit => Untouched
  BY HelloAssumption DEF HelloInit, Untouched
<1>2. Untouched /\ [HelloNext]_helloVars => Untouched'
  <2> SUFFICES ASSUME Untouched, [HelloNext]_helloVars PROVE Untouched'
    OBVIOUS
  <2>1. CASE UNCHANGED helloVars
    BY <2>1 DEF Untouched, helloVars
  <2>2. CASE HelloNext
    <3>1. PICK n \in 1..Total : OnRead(n)
      BY <2>2 DEF HelloNext, ReadUndefined, ReadPartOfHeader, ReadNoHello, ReadRecord
    <3>2. Total \in Nat
      BY HelloAssumption DEF Untouched, Total
    <3>3. n \in Nat \ {0} /\ available' = available + n /\ record' = record
      BY <3>1, <3>2 DEF OnRead
    <3> QED
      BY <3>3 DEF Untouched
  <2> QED
    BY <2>1, <2>2
<1> QED
  BY <1>1, <1>2, PTL DEF HelloSpec

(* A ClientHello that comes in one read is collected byte for byte at      *)
(* once by handshake_reader::read, for all lengths.                        *)
THEOREM OnePiece == HelloSpec => OnePieceIsRead
<1>1. ASSUME Untouched, HelloNext, available = 0, available' = Total, isHello
      PROVE  hello' = "done" /\ segment'.committed = Whole
  <2>1. HeaderLength \in Nat \ {0} /\ record \in Nat \ {0} /\ Total \in Nat
    BY <1>1, HelloAssumption DEF Untouched, Total
  <2>2. PICK n \in 1..Total :
          ReadUndefined(n) \/ ReadPartOfHeader(n) \/ ReadNoHello(n) \/ ReadRecord(n)
    BY <1>1 DEF HelloNext
  <2>3. n = Total
    <3>1. OnRead(n)
      BY <2>2 DEF ReadUndefined, ReadPartOfHeader, ReadNoHello, ReadRecord
    <3>2. n \in Nat /\ available' = 0 + n
      BY <1>1, <2>1, <3>1 DEF OnRead
    <3> QED
      BY <1>1, <2>1, <3>2
  <2> DEFINE header == [i \in 1..HeaderLength |-> i]
             read   == [committed |-> header, pending |-> <<>>]
  <2>4. segment = [committed |-> [i \in 1..0 |-> i], pending |-> <<>>] /\ length = NotKnown
    BY <1>1 DEF Untouched
  <2>5. Copy(segment, HeaderLength, n, available + n)
          = [complete |-> TRUE, defined |-> TRUE, segment |-> read]
    <3>1. n \in Nat /\ n >= 0 + HeaderLength /\ available + n = n /\ 0 + HeaderLength = HeaderLength
      BY <1>1, <2>1, <2>3 DEF Total
    <3>2. Copy(segment, HeaderLength, n, n)
            = [complete |-> TRUE, defined |-> TRUE,
               segment  |-> [committed |-> [i \in 1..0 + HeaderLength |-> i], pending |-> <<>>]]
      BY <2>1, <2>4, <3>1, CopyWhole, Zenon
    <3> QED
      BY <3>1, <3>2
  <2>6. \A i \in DOMAIN header : header[i] # Garbage
    BY <2>1 DEF Garbage
  <2>7. HeaderRead(n) = [complete |-> TRUE, defined |-> TRUE, segment |-> read]
    <3> DEFINE whole == [complete |-> TRUE, defined |-> TRUE, segment |-> read]
    <3>1. HeaderRead(n) = HeaderWritten(whole)
      BY <2>4, <2>5 DEF HeaderRead
    <3>2. whole.segment.committed = header
      OBVIOUS
    <3>3. (whole.defined /\ \A i \in DOMAIN header : header[i] # Garbage) = TRUE
      BY <2>6
    <3>4. HeaderWritten(whole) = [whole EXCEPT !.defined = TRUE]
      BY <3>2, <3>3, Zenon DEF HeaderWritten
    <3> QED
      BY <3>1, <3>4
  <2>8. RecordRead(n) = [complete |-> TRUE, defined |-> TRUE,
                         segment  |-> [committed |-> Whole, pending |-> <<>>]]
    <3>1. n \in Nat /\ n >= HeaderLength + record /\ available + n = n
      BY <1>1, <2>1, <2>3 DEF Total
    <3> QED
      BY <2>1, <2>7, <3>1, CopyWhole DEF RecordRead, Whole, Total
  <2>9. ReadRecord(n)
    BY <1>1, <2>2, <2>7, <2>8 DEF ReadUndefined, ReadPartOfHeader, ReadNoHello
  <2> QED
    BY <2>8, <2>9 DEF ReadRecord
<1>2. Untouched /\ [HelloNext]_helloVars =>
        [available = 0 /\ available' = Total /\ isHello
           => hello' = "done" /\ segment'.committed = Whole]_helloVars
  BY <1>1
<1> QED
  BY <1>2, UntouchedHolds, PTL DEF HelloSpec, OnePieceIsRead

-----------------------------------------------------------------------------

(* What a runner may be at: an event, and the place of its iterator in the *)
(* map.                                                                    *)
Iterators == [event : Events \union {"none"}, at : 1..End, dangling : BOOLEAN]

(* What is remembered of a run. *)
Runs == [called : Seq(InterceptorIds), throughout : SUBSET InterceptorIds, ever : SUBSET InterceptorIds]

(* The types, with runners and histories as functions of their threads. *)
Types == InterceptorTypeOK /\ runner \in [Runners -> Iterators] /\ history \in [Runners -> Runs]

(* The maps of the events hold what the lookup says, but for the id that   *)
(* is being detached.                                                      *)
Maps ==
    /\ \A e \in Events : interceptors[e] = Attached(e)
    /\ \A i \in DOMAIN lookup : i < next_id
    /\ pending.id # 0 => pending.events = {}

(* A run with iterator it and history h over the map m has called, in      *)
(* order, what it may call, and has all along been ahead of nothing else.  *)
Faithful(it, h, m) ==
    /\ it.at # End => it.at \in m
    /\ h.throughout \subseteq m /\ m \subseteq h.ever
    /\ \A k \in 1..Len(h.called) : h.called[k] < it.at /\ h.called[k] \in h.ever
    /\ \A j, k \in 1..Len(h.called) : j < k => h.called[j] < h.called[k]
    /\ \A i \in h.throughout : i >= it.at \/ \E k \in 1..Len(h.called) : h.called[k] = i

(* A run whose iterator stands on an entry, or at the end, is faithful. *)
Faith(r) == Running(r) /\ ~runner[r].dangling => Faithful(runner[r], history[r], interceptors[runner[r].event])

(* The inductive invariant of the interceptors. *)
InterceptorInv == Types /\ Maps /\ \A r \in Runners : Faith(r)

(* An iterator moves to the next id in the map, or to its end.             *)
LEMMA FirstIsNext ==
    ASSUME InterceptorAssumption, NEW e \in Events, interceptors \in [Events -> SUBSET InterceptorIds],
           NEW low \in 1..End
    PROVE  /\ FirstFrom(e, low) \in low..End
           /\ FirstFrom(e, low) = End \/ FirstFrom(e, low) \in interceptors[e]
           /\ \A j \in low..FirstFrom(e, low) - 1 : j \notin interceptors[e]
<1> DEFINE S == {i \in low..End : i = End \/ i \in interceptors[e]}
           Next(i) == /\ i = End \/ i \in interceptors[e]
                      /\ \A j \in low..i - 1 : j \notin interceptors[e]
<1>1. End \in Nat /\ low =< End /\ low \in Nat
  BY DEF InterceptorAssumption, End
<1>2. PICK x \in S : \A y \in S : ~(y < x)
  <2>1. S \subseteq Nat /\ End \in S
    BY <1>1
  <2> HIDE DEF S
  <2>2. PICK x \in S : \A y \in S : x <= y
    BY <2>1, LeastNat
  <2> QED BY <2>1, <2>2
<1>3. x \in low..End /\ Next(x)
  <2>1. x \in low..End /\ (x = End \/ x \in interceptors[e])
    OBVIOUS
  <2>2. ASSUME NEW j \in low..x - 1 PROVE j \notin interceptors[e]
    <3>1. j \in low..End /\ j < x
      BY <1>1, <2>1
    <3> QED BY <1>2, <3>1
  <2> QED BY <2>1, <2>2
<1>4. FirstFrom(e, low) = CHOOSE i \in low..End : Next(i)
  BY DEF FirstFrom
<1> HIDE DEF Next
<1>5. FirstFrom(e, low) \in low..End /\ Next(FirstFrom(e, low))
  BY <1>3, <1>4
<1> QED BY <1>5 DEF Next

(* Nothing is attached and nothing runs at first. *)
LEMMA Begins == InterceptorInit => InterceptorInv
<1> SUFFICES ASSUME InterceptorInit PROVE InterceptorInv
  OBVIOUS
<1> USE InterceptorAssumption DEF InterceptorInit, Idle, Unrun, Nothing2Do, End, InterceptorIds
<1>1. Types
  <2>1. Idle \in Iterators
    BY DEF Iterators
  <2>2. Unrun \in Runs
    <3>1. <<>> \in Seq(InterceptorIds) /\ {} \in SUBSET InterceptorIds
      OBVIOUS
    <3> QED BY ONLY <3>1 DEF Runs, Unrun
  <2>3. InterceptorTypeOK
    <3>1. ASSUME NEW r \in Runners PROVE runner[r] \in Iterators /\ history[r] \in Runs
      BY <2>1, <2>2
    <3>2. interceptors \in [Events -> SUBSET InterceptorIds] /\ pending \in Doing /\ next_id \in 1..MaxInterceptors + 1
      BY DEF Doing
    <3>3. DOMAIN lookup = {}
      OBVIOUS
    <3> QED BY <3>1, <3>2, <3>3 DEF InterceptorTypeOK, Iterators, Runs
  <2> QED BY <2>1, <2>2, <2>3 DEF Types
<1>2. Maps
  BY DEF Maps, Attached
<1>3. \A r \in Runners : Faith(r)
  BY DEF Faith, Running
<1> QED BY <1>1, <1>2, <1>3 DEF InterceptorInv

(* The map m of an event and the history h of a run of it become m2 and h2 *)
(* when interceptor x is detached; the run does not stand on x.            *)
Loses(it, h, m, it2, h2, m2, x) ==
    /\ it2.at = it.at /\ it.at # x /\ h2.called = h.called /\ h2.ever = h.ever
    /\ h2.throughout = h.throughout \ {x} /\ m2 = m \ {x}

(* ... and when interceptor x is attached.                                 *)
Gains(h, m, h2, m2, x) ==
    /\ h2.called = h.called /\ h2.ever = h.ever \union {x}
    /\ h2.throughout = h.throughout /\ m2 = m \union {x}

(* A run stays faithful to a map that loses an id it does not stand on.    *)
LEMMA FaithfulWithout ==
    ASSUME NEW it, NEW h, NEW m, NEW it2, NEW h2, NEW m2, NEW x,
           Faithful(it, h, m), Loses(it, h, m, it2, h2, m2, x)
    PROVE  Faithful(it2, h2, m2)
<1> USE DEF Loses
<1>1. /\ it.at # End => it.at \in m2
      /\ h2.throughout \subseteq m2 /\ m2 \subseteq h2.ever
  BY DEF Faithful
<1>2. /\ \A k \in 1..Len(h.called) : h.called[k] < it.at /\ h.called[k] \in h.ever
      /\ \A j, k \in 1..Len(h.called) : j < k => h.called[j] < h.called[k]
      /\ \A i \in h2.throughout : i >= it.at \/ \E k \in 1..Len(h.called) : h.called[k] = i
  BY DEF Faithful
<1> QED BY <1>1, <1>2, Zenon DEF Faithful

(* A run stays faithful to a map that gains an id.                         *)
LEMMA FaithfulWith ==
    ASSUME NEW it, NEW h, NEW m, NEW h2, NEW m2, NEW x, Faithful(it, h, m), Gains(h, m, h2, m2, x)
    PROVE  Faithful(it, h2, m2)
<1> USE DEF Gains
<1>1. /\ it.at # End => it.at \in m2
      /\ h2.throughout \subseteq m2 /\ m2 \subseteq h2.ever
  BY DEF Faithful
<1>2. /\ \A k \in 1..Len(h.called) : h.called[k] < it.at /\ h.called[k] \in h2.ever
      /\ \A j, k \in 1..Len(h.called) : j < k => h.called[j] < h.called[k]
      /\ \A i \in h.throughout : i >= it.at \/ \E k \in 1..Len(h.called) : h.called[k] = i
  BY DEF Faithful
<1> QED BY <1>1, <1>2, Zenon DEF Faithful

(* A run stays faithful to a map that does not change.                     *)
LEMMA FaithfulStill ==
    ASSUME NEW it, NEW h, NEW m, Faithful(it, h, m), NEW it2, NEW h2, it2.at = it.at,
           h2.called = h.called, h2.ever = h.ever, h2.throughout \subseteq h.throughout
    PROVE  Faithful(it2, h2, m)
<1>1. h2.throughout \subseteq m /\ m \subseteq h2.ever
  BY DEF Faithful
<1>2. \A i \in h2.throughout : i >= it.at \/ \E k \in 1..Len(h.called) : h.called[k] = i
  BY DEF Faithful
<1> QED BY <1>1, <1>2, Zenon DEF Faithful

(* A new interceptor gets an id behind all others.                         *)
LEMMA AttachStep ==
    ASSUME InterceptorInv, NEW e \in Events, AttachOne(e) \/ AttachNext(e) PROVE InterceptorInv'
<1> USE InterceptorAssumption DEF InterceptorInv, AttachOne, AttachNext
<1>1. /\ next_id \in InterceptorIds /\ next_id' = next_id + 1
      /\ interceptors' = [interceptors EXCEPT ![e] = @ \union {next_id}]
      /\ lookup' = [i \in DOMAIN lookup \union {next_id} |-> IF i = next_id THEN e ELSE lookup[i]]
      /\ history' = Offered(e, next_id) /\ runner' = runner
      /\ pending'.id = pending.id /\ pending' \in Doing /\ (pending.id # 0 => pending'.events = {})
      /\ next_id \notin DOMAIN lookup
  BY DEF Attach, Types, InterceptorTypeOK, InterceptorIds, Doing, Nothing2Do, Maps
<1>2. /\ Types /\ Maps /\ pending.id < next_id
  <2>1. CASE pending.id = 0
    BY <2>1, <1>1 DEF InterceptorIds
  <2>2. CASE pending.id # 0
    BY <2>2 DEF AttachOne, AttachNext, Maps, Nothing2Do
  <2> QED BY <2>1, <2>2
<1>3. \A r \in Runners :
         /\ runner'[r] = runner[r] /\ history'[r] \in Runs
         /\ history'[r].called = history[r].called /\ history'[r].throughout = history[r].throughout
         /\ history'[r].ever = IF runner[r].event = e THEN history[r].ever \union {next_id} ELSE history[r].ever
  <2> SUFFICES ASSUME NEW r \in Runners
               PROVE  /\ runner'[r] = runner[r] /\ history'[r] \in Runs
                      /\ history'[r].called = history[r].called
                      /\ history'[r].throughout = history[r].throughout
                      /\ history'[r].ever = IF runner[r].event = e THEN history[r].ever \union {next_id}
                                            ELSE history[r].ever
    OBVIOUS
  <2>1. history'[r] = IF runner[r].event = e THEN [history[r] EXCEPT !.ever = @ \union {next_id}] ELSE history[r]
    BY <1>1 DEF Offered
  <2>2. history[r] \in Runs
    BY DEF Types
  <2> QED BY <1>1, <2>1, <2>2 DEF Runs
<1>4. \A d \in Events : interceptors'[d] = IF d = e THEN interceptors[d] \union {next_id} ELSE interceptors[d]
  BY <1>1 DEF Types, InterceptorTypeOK
<1>5. Types'
  <2>1. runner' \in [Runners -> Iterators] /\ history' \in [Runners -> Runs]
    BY <1>1, <1>3 DEF Types, Offered
  <2>2. interceptors' \in [Events -> SUBSET InterceptorIds]
    BY <1>1 DEF Types, InterceptorTypeOK
  <2>3. /\ DOMAIN lookup' \subseteq InterceptorIds /\ \A i \in DOMAIN lookup' : lookup'[i] \in Events
        /\ next_id' \in 1..MaxInterceptors + 1
    BY <1>1 DEF Types, InterceptorTypeOK, InterceptorIds
  <2> QED BY <1>1, <2>1, <2>2, <2>3 DEF Types, InterceptorTypeOK, Iterators, Runs
<1>6. Maps'
  <2>1. \A d \in Events : interceptors'[d] = Attached(d)'
    <3> SUFFICES ASSUME NEW d \in Events PROVE interceptors'[d] = Attached(d)'
      OBVIOUS
    <3>1. interceptors[d] = {i \in DOMAIN lookup : lookup[i] = d} \ {pending.id}
      BY <1>2 DEF Maps, Attached
    <3>2. Attached(d)' = {i \in DOMAIN lookup' : lookup'[i] = d} \ {pending.id}
      BY <1>1 DEF Attached
    <3>3. \A i \in DOMAIN lookup : i # next_id
      BY <1>1
    <3>4. /\ DOMAIN lookup' = DOMAIN lookup \union {next_id} /\ lookup'[next_id] = e
          /\ \A i \in DOMAIN lookup : lookup'[i] = lookup[i]
      BY ONLY <1>1, <3>3
    <3>5. interceptors'[d] = IF d = e THEN interceptors[d] \union {next_id} ELSE interceptors[d]
      BY <1>4
    <3>6. next_id # pending.id
      BY <1>1, <1>2 DEF InterceptorIds, Types, InterceptorTypeOK, Doing
    <3>7. \A i : i \in interceptors'[d] <=> i \in Attached(d)'
      BY ONLY <3>1, <3>2, <3>3, <3>4, <3>5, <3>6
    <3> QED BY <3>7
  <2>2. \A i \in DOMAIN lookup' : i < next_id'
    BY <1>1, <1>2 DEF Maps, Types, InterceptorTypeOK, InterceptorIds
  <2> QED BY <1>1, <2>1, <2>2 DEF Maps
<1>7. ASSUME NEW r \in Runners PROVE Faith(r)'
  <2> SUFFICES ASSUME runner[r].event # "none", ~runner[r].dangling
               PROVE  Faithful(runner[r], history'[r], interceptors'[runner[r].event])
    BY <1>1 DEF Faith, Running
  <2>1. Faithful(runner[r], history[r], interceptors[runner[r].event]) /\ runner[r].event \in Events
    BY DEF Faith, Running, Types, Iterators
  <2>2. CASE runner[r].event = e
    <3>1. interceptors'[runner[r].event] = interceptors[runner[r].event] \union {next_id}
      BY ONLY <1>4, <2>1, <2>2
    <3>2. /\ history'[r].called = history[r].called /\ history'[r].throughout = history[r].throughout
          /\ history'[r].ever = history[r].ever \union {next_id}
      BY ONLY <1>3, <2>2
    <3>3. Gains(history[r], interceptors[runner[r].event],
                history'[r], interceptors'[runner[r].event], next_id)
      BY ONLY <3>1, <3>2 DEF Gains
    <3> QED BY ONLY <2>1, <3>3, FaithfulWith
  <2>3. CASE runner[r].event # e
    <3>1. interceptors'[runner[r].event] = interceptors[runner[r].event]
      BY ONLY <1>4, <2>1, <2>3
    <3>2. /\ history'[r].called = history[r].called /\ history'[r].throughout = history[r].throughout
          /\ history'[r].ever = history[r].ever
      BY ONLY <1>3, <2>3
    <3>3. Faithful(runner[r], history'[r], interceptors[runner[r].event])
      BY ONLY <2>1, <3>2, FaithfulStill
    <3> QED BY ONLY <3>1, <3>3
  <2> QED BY <2>2, <2>3
<1> QED BY <1>5, <1>6, <1>7

(* An interceptor that is detached leaves the map of its event; a run that *)
(* stands on it is lost.                                                   *)
LEMMA EraseStep == ASSUME InterceptorInv, NEW x \in InterceptorIds, Erase(x) PROVE InterceptorInv'
<1> USE InterceptorAssumption DEF InterceptorInv, Erase
<1> DEFINE e == lookup[x]
<1>1. /\ e \in Events /\ pending = Nothing2Do /\ x \in DOMAIN lookup
      /\ interceptors' = [interceptors EXCEPT ![e] = @ \ {x}]
      /\ pending' = [events |-> {}, id |-> x] /\ lookup' = lookup /\ next_id' = next_id
  BY DEF EventOf, Types, InterceptorTypeOK
<1>2. \A r \in Runners :
         /\ runner'[r] \in Iterators /\ runner'[r].event = runner[r].event /\ runner'[r].at = runner[r].at
         /\ runner'[r].dangling = (runner[r].dangling \/ (runner[r].event = e /\ runner[r].at = x))
         /\ history'[r] \in Runs
         /\ history'[r].called = history[r].called /\ history'[r].ever = history[r].ever
         /\ history'[r].throughout = history[r].throughout \ {x}
  <2> SUFFICES ASSUME NEW r \in Runners
               PROVE  /\ runner'[r] \in Iterators /\ runner'[r].event = runner[r].event
                      /\ runner'[r].at = runner[r].at
                      /\ runner'[r].dangling = (runner[r].dangling \/ (runner[r].event = e /\ runner[r].at = x))
                      /\ history'[r] \in Runs
                      /\ history'[r].called = history[r].called /\ history'[r].ever = history[r].ever
                      /\ history'[r].throughout = history[r].throughout \ {x}
    OBVIOUS
  <2>1. runner[r] \in Iterators /\ history[r] \in Runs
    BY DEF Types
  <2>2. /\ runner'[r] = [runner[r] EXCEPT !.dangling = @ \/ (runner[r].event = e /\ runner[r].at = x)]
        /\ history'[r] = [history[r] EXCEPT !.throughout = @ \ {x}]
    BY DEF EventOf
  <2>3. (runner[r].dangling \/ (runner[r].event = e /\ runner[r].at = x)) \in BOOLEAN
    BY <2>1 DEF Iterators
  <2>4. /\ runner'[r] \in Iterators /\ runner'[r].event = runner[r].event /\ runner'[r].at = runner[r].at
        /\ runner'[r].dangling = (runner[r].dangling \/ (runner[r].event = e /\ runner[r].at = x))
    BY ONLY <2>1, <2>2, <2>3 DEF Iterators
  <2>5. /\ history'[r] \in Runs
        /\ history'[r].called = history[r].called /\ history'[r].ever = history[r].ever
        /\ history'[r].throughout = history[r].throughout \ {x}
    BY ONLY <2>1, <2>2 DEF Runs
  <2> QED BY ONLY <2>4, <2>5
<1>3. \A d \in Events : interceptors'[d] = IF d = e THEN interceptors[d] \ {x} ELSE interceptors[d]
  BY <1>1 DEF Types, InterceptorTypeOK
<1>4. Types'
  <2>1. runner' \in [Runners -> Iterators] /\ history' \in [Runners -> Runs]
    BY <1>2
  <2>2. interceptors' \in [Events -> SUBSET InterceptorIds] /\ pending' \in Doing
    <3>1. interceptors \in [Events -> SUBSET InterceptorIds]
      BY DEF Types, InterceptorTypeOK
    <3>2. interceptors' \in [Events -> SUBSET InterceptorIds]
      BY ONLY <1>1, <3>1
    <3>3. x \in 0..MaxInterceptors
      BY DEF InterceptorIds
    <3> QED BY ONLY <1>1, <3>2, <3>3 DEF Doing
  <2> QED BY <1>1, <2>1, <2>2, ZenonT(60) DEF Types, InterceptorTypeOK, Iterators, Runs
<1>5. Maps'
  <2>1. \A d \in Events : interceptors'[d] = Attached(d)'
    <3> SUFFICES ASSUME NEW d \in Events PROVE interceptors'[d] = Attached(d)'
      OBVIOUS
    <3>1. interceptors[d] = {i \in DOMAIN lookup : lookup[i] = d} \ {0}
      BY <1>1 DEF Maps, Attached, Nothing2Do
    <3>2. Attached(d)' = {i \in DOMAIN lookup : lookup[i] = d} \ {x}
      BY <1>1 DEF Attached
    <3>3. 0 \notin DOMAIN lookup
      BY DEF Types, InterceptorTypeOK, InterceptorIds
    <3>4. interceptors'[d] = IF d = e THEN interceptors[d] \ {x} ELSE interceptors[d]
      BY <1>3
    <3>5. \A i : i \in interceptors'[d] <=> i \in Attached(d)'
      BY ONLY <3>1, <3>2, <3>3, <3>4
    <3> QED BY <3>5
  <2> QED BY <1>1, <2>1 DEF Maps
<1>6. ASSUME NEW r \in Runners PROVE Faith(r)'
  <2>0. UNCHANGED runner[r].event
    BY <1>2
  <2> SUFFICES ASSUME runner[r].event # "none", ~runner'[r].dangling
               PROVE  Faithful(runner'[r], history'[r], interceptors'[runner[r].event])
    BY <1>2 DEF Faith, Running
  <2>1. /\ Faithful(runner[r], history[r], interceptors[runner[r].event]) /\ runner[r].event \in Events
        /\ ~(runner[r].event = e /\ runner[r].at = x)
    <3>1. ~runner[r].dangling /\ ~(runner[r].event = e /\ runner[r].at = x)
      BY <1>2
    <3> QED BY <3>1 DEF Faith, Running, Types, Iterators
  <2>2. CASE runner[r].event = e
    <3>1. interceptors'[runner[r].event] = interceptors[runner[r].event] \ {x} /\ runner[r].at # x
      BY ONLY <1>3, <2>1, <2>2
    <3>2. /\ runner'[r].at = runner[r].at
          /\ history'[r].called = history[r].called /\ history'[r].ever = history[r].ever
          /\ history'[r].throughout = history[r].throughout \ {x}
      BY ONLY <1>2
    <3>3. Loses(runner[r], history[r], interceptors[runner[r].event],
                runner'[r], history'[r], interceptors'[runner[r].event], x)
      BY ONLY <3>1, <3>2 DEF Loses
    <3> QED BY ONLY <2>1, <3>3, FaithfulWithout
  <2>3. CASE runner[r].event # e
    <3>1. interceptors'[runner[r].event] = interceptors[runner[r].event]
      BY ONLY <1>3, <2>1, <2>3
    <3>2. /\ runner'[r].at = runner[r].at
          /\ history'[r].called = history[r].called /\ history'[r].ever = history[r].ever
          /\ history'[r].throughout \subseteq history[r].throughout
      BY ONLY <1>2
    <3>3. Faithful(runner'[r], history'[r], interceptors[runner[r].event])
      BY ONLY <2>1, <3>2, FaithfulStill
    <3> QED BY ONLY <3>1, <3>3
  <2> QED BY <2>2, <2>3
<1> QED BY <1>4, <1>5, <1>6

(* What the main thread does to the lookup and to its plans.               *)
LEMMA LookupStep == ASSUME InterceptorInv, Forget \/ \E hub \in Hubs : AttachHub(hub) PROVE InterceptorInv'
<1> USE InterceptorAssumption DEF InterceptorInv
<1>1. UNCHANGED <<interceptors, next_id, runner, history>>
  BY DEF Forget, AttachHub
<1>2. \A e \in Events : Attached(e)' = Attached(e)
  <2>1. CASE Forget
    <3> SUFFICES ASSUME NEW e \in Events PROVE Attached(e)' = Attached(e)
      OBVIOUS
    <3>1. /\ DOMAIN lookup' = DOMAIN lookup \ {pending.id} /\ \A i \in DOMAIN lookup' : lookup'[i] = lookup[i]
          /\ pending'.id = 0 /\ 0 \notin DOMAIN lookup
      BY <2>1 DEF Forget, Nothing2Do, Types, InterceptorTypeOK, InterceptorIds
    <3> QED BY ONLY <3>1 DEF Attached
  <2>2. CASE \E hub \in Hubs : AttachHub(hub)
    BY <2>2 DEF AttachHub, Attached, Nothing2Do
  <2> QED BY <2>1, <2>2
<1>3. /\ pending' \in Doing /\ pending'.id = 0
      /\ DOMAIN lookup' \subseteq DOMAIN lookup /\ \A i \in DOMAIN lookup' : lookup'[i] = lookup[i]
  BY DEF Forget, AttachHub, Nothing2Do, Doing
<1>4. Types'
  BY <1>1, <1>3 DEF Types, InterceptorTypeOK
<1>5. Maps'
  BY <1>1, <1>2, <1>3 DEF Maps
<1>6. \A r \in Runners : Faith(r)'
  BY <1>1 DEF Faith, Running
<1> QED BY <1>4, <1>5, <1>6

(* A run begins with all there is ahead of it.                             *)
LEMMA BeginStep == ASSUME InterceptorInv, NEW r \in Runners, NEW e \in Events, Begin(r, e) PROVE InterceptorInv'
<1> USE InterceptorAssumption DEF InterceptorInv, Begin
<1> DEFINE first == FirstFrom(e, 1)
           it    == [event |-> e, at |-> first, dangling |-> FALSE]
           h     == [called |-> <<>>, throughout |-> Attached(e), ever |-> Attached(e)]
<1>1. /\ first \in 1..End /\ (first = End \/ first \in interceptors[e])
      /\ \A j \in 1..first - 1 : j \notin interceptors[e]
  <2>1. 1 \in 1..End /\ interceptors \in [Events -> SUBSET InterceptorIds]
    BY DEF End, Types, InterceptorTypeOK
  <2> QED BY ONLY <2>1, FirstIsNext, InterceptorAssumption
<1>2. interceptors[e] = Attached(e) /\ interceptors[e] \subseteq InterceptorIds
  BY DEF Maps, Types, InterceptorTypeOK
<1>3. it \in Iterators /\ h \in Runs
  <2>1. <<>> \in Seq(InterceptorIds)
    OBVIOUS
  <2>2. Attached(e) \in SUBSET InterceptorIds
    BY <1>2
  <2> HIDE DEF first
  <2>3. it \in Iterators
    BY <1>1 DEF Iterators
  <2> QED BY ONLY <2>1, <2>2, <2>3 DEF Runs
<1>4. runner' = [runner EXCEPT ![r] = it] /\ history' = [history EXCEPT ![r] = h]
  OBVIOUS
<1>5. Types'
  <2>1. runner' \in [Runners -> Iterators] /\ history' \in [Runners -> Runs]
    BY ONLY <1>3, <1>4, Types DEF Types
  <2> QED BY <2>1 DEF Types, InterceptorTypeOK, Iterators, Runs
<1>6. Maps'
  BY DEF Maps, Attached
<1>7. ASSUME NEW s \in Runners PROVE Faith(s)'
  <2>1. CASE s = r
    <3>1. runner'[s] = it /\ history'[s] = h /\ interceptors' = interceptors
      BY <2>1, <1>4 DEF Types
    <3>2. Faithful(it, h, interceptors[e])
      <4>1. \A i \in interceptors[e] : i >= first
        BY <1>1, <1>2 DEF InterceptorIds, End
      <4> HIDE DEF first
      <4>2. Len(h.called) = 0
        OBVIOUS
      <4> QED BY ONLY <1>1, <1>2, <4>1, <4>2 DEF Faithful
    <3> QED BY <3>1, <3>2 DEF Faith
  <2>2. CASE s # r
    BY <2>2 DEF Faith, Running, Types
  <2> QED BY <2>1, <2>2
<1> QED BY <1>5, <1>6, <1>7

(* What is called is behind the iterator from then on.                     *)
LEMMA CallStep == ASSUME InterceptorInv, NEW r \in Runners, CallAndAdvance(r) PROVE InterceptorInv'
<1> USE InterceptorAssumption DEF InterceptorInv, CallAndAdvance
<1> DEFINE e    == runner[r].event
           place   == runner[r].at
           next == FirstFrom(e, place + 1)
           h    == history[r]
<1>1. /\ runner[r] \in Iterators /\ h \in Runs /\ e \in Events /\ place \in 1..End /\ place # End
      /\ Faithful(runner[r], h, interceptors[e])
  BY DEF Types, Iterators, Faith, Running
<1>2. place \in InterceptorIds /\ place + 1 \in 1..End
  BY <1>1 DEF InterceptorIds, End
<1>3. /\ next \in place + 1..End /\ (next = End \/ next \in interceptors[e])
      /\ \A j \in place + 1..next - 1 : j \notin interceptors[e]
  <2>1. interceptors \in [Events -> SUBSET InterceptorIds]
    BY DEF Types, InterceptorTypeOK
  <2> QED BY ONLY <1>1, <1>2, <2>1, FirstIsNext, InterceptorAssumption
<1> HIDE DEF next
<1>4. /\ Append(h.called, place) \in Seq(InterceptorIds) /\ Len(Append(h.called, place)) = Len(h.called) + 1
      /\ Len(h.called) \in Nat
      /\ \A k \in 1..Len(h.called) + 1 :
            Append(h.called, place)[k] = IF k = Len(h.called) + 1 THEN place ELSE h.called[k]
  BY <1>1, <1>2 DEF Runs
<1>5. /\ runner' = [runner EXCEPT ![r].at = next]
      /\ history' = [history EXCEPT ![r].called = Append(@, place)]
      /\ UNCHANGED <<interceptors, lookup, next_id, pending>>
  BY DEF next
<1>6. /\ runner'[r] = [runner[r] EXCEPT !.at = next]
      /\ history'[r] = [history[r] EXCEPT !.called = Append(@, place)]
      /\ \A s \in Runners \ {r} : runner'[s] = runner[s] /\ history'[s] = history[s]
  BY <1>5 DEF Types
<1>7. /\ runner'[r] \in Iterators /\ runner'[r].at = next
      /\ runner'[r].event = e /\ runner'[r].dangling = runner[r].dangling
  BY ONLY <1>1, <1>2, <1>3, <1>6, InterceptorAssumption DEF Iterators, End, InterceptorAssumption
<1>8. /\ history'[r] \in Runs /\ history'[r].called = Append(h.called, place)
      /\ history'[r].throughout = h.throughout /\ history'[r].ever = h.ever
  BY ONLY <1>1, <1>4, <1>6 DEF Runs
<1>9. Types'
  <2>1. runner' \in [Runners -> Iterators] /\ history' \in [Runners -> Runs]
    <3>1. \A s \in Runners : runner'[s] \in Iterators /\ history'[s] \in Runs
      BY <1>6, <1>7, <1>8 DEF Types
    <3> QED BY <1>5, <3>1 DEF Types
  <2>2. \A s \in Runners :
           /\ runner'[s].event \in Events \union {"none"}
           /\ runner'[s].at \in 1..End /\ runner'[s].dangling \in BOOLEAN
           /\ history'[s].throughout \subseteq InterceptorIds /\ history'[s].ever \subseteq InterceptorIds
           /\ history'[s].called \in Seq(InterceptorIds)
    BY ONLY <2>1 DEF Iterators, Runs
  <2>3. InterceptorTypeOK'
    BY <1>5, <2>2 DEF Types, InterceptorTypeOK
  <2> QED BY <2>1, <2>3 DEF Types
<1>10. Maps'
  BY <1>5 DEF Maps, Attached
<1>11. Faithful(runner'[r], history'[r], interceptors[e])
  <2>1. /\ next # End => next \in interceptors[e]
        /\ h.throughout \subseteq interceptors[e] /\ interceptors[e] \subseteq h.ever
        /\ place \in interceptors[e]
    BY <1>1, <1>3 DEF Faithful
  <2>2. \A k \in 1..Len(h.called) : h.called[k] < place /\ h.called[k] \in h.ever /\ h.called[k] \in InterceptorIds
    BY <1>1 DEF Faithful, Runs
  <2>3. \A k \in 1..Len(h.called) + 1 : Append(h.called, place)[k] < next /\ Append(h.called, place)[k] \in h.ever
    <3> DEFINE n     == Len(h.called)
               after == Append(h.called, place)
    <3>1. place \in Int /\ next \in Int /\ place < next /\ place \in h.ever /\ n \in Nat
      BY <1>2, <1>3, <1>4, <2>1 DEF InterceptorAssumption, InterceptorIds, End
    <3>2. \A k \in 1..n : h.called[k] \in Int /\ h.called[k] < place /\ h.called[k] \in h.ever
      BY <2>2 DEF InterceptorIds
    <3>3. \A k \in 1..n + 1 : after[k] = IF k = n + 1 THEN place ELSE h.called[k]
      BY <1>4
    <3> HIDE DEF n, after
    <3>4. \A k \in 1..n + 1 : after[k] < next /\ after[k] \in h.ever
      BY ONLY <3>1, <3>2, <3>3
    <3> QED BY <3>4 DEF n, after
  <2>4. \A j, k \in 1..Len(h.called) + 1 : j < k => Append(h.called, place)[j] < Append(h.called, place)[k]
    <3>1. \A j, k \in 1..Len(h.called) : j < k => h.called[j] < h.called[k]
      BY <1>1 DEF Faithful
    <3> QED BY ONLY <1>2, <1>4, <2>2, <3>1
  <2>5. ASSUME NEW i \in h.throughout
        PROVE  i >= next \/ \E k \in 1..Len(h.called) + 1 : Append(h.called, place)[k] = i
    <3>1. i \in InterceptorIds /\ i \in interceptors[e]
      BY <1>1, <2>1 DEF Runs
    <3>2. i >= place \/ \E k \in 1..Len(h.called) : h.called[k] = i
      BY <1>1 DEF Faithful
    <3>3. CASE \E k \in 1..Len(h.called) : h.called[k] = i
      BY <1>4, <3>3
    <3>4. CASE i = place
      <4>1. Len(h.called) + 1 \in 1..Len(h.called) + 1
        BY <1>4
      <4> QED BY <1>4, <3>4, <4>1
    <3>5. CASE i > place
      BY ONLY <1>2, <1>3, <3>1, <3>5, InterceptorAssumption DEF InterceptorAssumption, InterceptorIds, End
    <3>6. i >= place => i = place \/ i > place
      BY <1>2, <3>1 DEF InterceptorIds
    <3> QED BY <3>2, <3>3, <3>4, <3>5, <3>6
  <2> QED BY ONLY <1>4, <1>7, <1>8, <2>1, <2>3, <2>4, <2>5 DEF Faithful
<1>12. ASSUME NEW s \in Runners PROVE Faith(s)'
  <2>1. CASE s = r
    BY <2>1, <1>5, <1>7, <1>11 DEF Faith
  <2>2. CASE s # r
    BY <2>2, <1>5, <1>6 DEF Faith, Running
  <2> QED BY <2>1, <2>2
<1> QED BY <1>9, <1>10, <1>12

(* A run that ends, or is lost, says nothing any more. *)
LEMMA EndStep == ASSUME InterceptorInv, NEW r \in Runners, Lost(r) \/ Return(r) PROVE InterceptorInv'
<1> USE InterceptorAssumption DEF InterceptorInv, Lost, Return
<1>1. Idle \in Iterators /\ Unrun \in Runs
  <2>1. <<>> \in Seq(InterceptorIds) /\ {} \in SUBSET InterceptorIds
    OBVIOUS
  <2>2. Unrun \in Runs
    BY ONLY <2>1 DEF Runs, Unrun
  <2> QED BY <2>2 DEF Idle, Iterators, End
<1>2. /\ runner' = [runner EXCEPT ![r] = Idle] /\ history' = [history EXCEPT ![r] = Unrun]
      /\ UNCHANGED <<interceptors, lookup, next_id, pending>>
  OBVIOUS
<1>3. Types'
  <2>1. runner' \in [Runners -> Iterators] /\ history' \in [Runners -> Runs]
    BY ONLY <1>1, <1>2, Types DEF Types
  <2> QED BY <1>2, <2>1 DEF Types, InterceptorTypeOK, Iterators, Runs
<1>4. Maps'
  BY <1>2 DEF Maps, Attached
<1>5. \A s \in Runners : Faith(s)'
  BY <1>2 DEF Faith, Running, Types, Idle
<1> QED BY <1>3, <1>4, <1>5

(* The maps agree with the lookup, and every run is faithful to the map of *)
(* its event, however attach, detach and run interleave.                   *)
THEOREM InterceptorInvariant == InterceptorSpec => []InterceptorInv
<1>1. InterceptorInv /\ [InterceptorNext]_interceptorVars => InterceptorInv'
  <2> SUFFICES ASSUME InterceptorInv, [InterceptorNext]_interceptorVars PROVE InterceptorInv'
    OBVIOUS
  <2>1. CASE \E e \in Events : AttachOne(e) \/ AttachNext(e)
    BY <2>1, AttachStep
  <2>2. CASE \E x \in InterceptorIds : Erase(x)
    BY <2>2, EraseStep
  <2>3. CASE Forget \/ \E hub \in Hubs : AttachHub(hub)
    BY <2>3, LookupStep
  <2>4. CASE \E r \in Runners, e \in Events : Begin(r, e)
    BY <2>4, BeginStep
  <2>5. CASE \E r \in Runners : CallAndAdvance(r)
    BY <2>5, CallStep
  <2>6. CASE \E r \in Runners : Lost(r) \/ Return(r)
    BY <2>6, EndStep
  <2>7. CASE UNCHANGED interceptorVars
    BY <2>7 DEF interceptorVars, InterceptorInv, Types, InterceptorTypeOK, Maps, Attached, Faith, Running
  <2> QED BY <2>1, <2>2, <2>3, <2>4, <2>5, <2>6, <2>7 DEF InterceptorNext
<1> QED BY <1>1, Begins, PTL DEF InterceptorSpec

(* run calls what is attached to its event all along, once and in order,   *)
(* and nothing else.                                                       *)
THEOREM FaithfulRuns == InterceptorSpec => []RunsWhatIsAttached
<1>1. InterceptorInv => RunsWhatIsAttached
  <2> SUFFICES ASSUME InterceptorInv, NEW r \in Runners, Running(r), ~runner[r].dangling
               PROVE  LET called == history[r].called
                          set    == {called[k] : k \in 1..Len(called)}
                      IN  /\ \A j, k \in 1..Len(called) : j < k => called[j] < called[k]
                          /\ set \subseteq history[r].ever
                          /\ \A i \in history[r].throughout : i \in set \/ i >= runner[r].at
    BY DEF RunsWhatIsAttached
  <2>1. Faithful(runner[r], history[r], interceptors[runner[r].event])
    BY DEF InterceptorInv, Faith
  <2> QED BY ONLY <2>1 DEF Faithful
<1> QED BY <1>1, InterceptorInvariant, PTL

-----------------------------------------------------------------------------

(* The first n options of add_options.                                     *)
First(n) == {Declared[i] : i \in 1..n}

(* The value that option o has after its use at i.                         *)
ValueAt(o, i) == IF o.boolean THEN TextOf(o, i) # "false" ELSE TextOf(o, i)

(* The uses of o among the arguments before n. *)
UsesBefore(o, n) == {i \in Uses(o) : i < n}

(* An option has the value of the last of its uses that was read.          *)
Valued(o, n) ==
    IF UsesBefore(o, n) = {} THEN destination[o] = o.fallback
    ELSE \E i \in UsesBefore(o, n) : (\A j \in UsesBefore(o, n) : j =< i) /\ destination[o] = ValueAt(o, i)

(* The argument at i uses an option that exists, with a value it accepts. *)
LegalAt(i) ==
    /\ OptionOf(args[i]) # {}
    /\ TakesNext(args[i]) => i < Len(args)
    /\ \A o \in OptionOf(args[i]) : o.boolean \/ TextOf(o, i) \in o.accepts

(* The arguments before n have been read, as what they are.                *)
ReadUpTo(n) ==
    /\ \A o \in Options : Valued(o, n)
    /\ required_seen = {o \in Options : o.required /\ UsesBefore(o, n) # {}}
    /\ \A i \in 1..Len(args) : i < n /\ IsOption[i] /\ args[i].form # "end" => LegalAt(i)

(* While options are added, the map holds the first of them, with their    *)
(* defaults.                                                               *)
Adding ==
    /\ at = 1 /\ required_seen = {}
    /\ IsFiniteSet(option_map) /\ Cardinality(option_map) \in 0..Len(Declared)
    /\ option_map = First(Cardinality(option_map))
    /\ DOMAIN destination = option_map /\ \A o \in option_map : destination[o] = o.fallback

(* While arguments are read: the next one is read as an option, and no end *)
(* of the options has been met.                                            *)
Parsing ==
    /\ at \in 1..Len(args) + 1
    /\ at =< Len(args) => IsOption[at]
    /\ \A i \in 1..Len(args) : i < at /\ IsOption[i] => args[i].form # "end"
    /\ ReadUpTo(at)

(* The inductive invariant of the options. *)
OptionInv ==
    /\ args \in CommandLines
    /\ phase \in {"adds", "parses", "checks", "runs", "help", "fails"}
    /\ phase = "adds" => Adding
    /\ phase # "adds" => option_map = Options /\ DOMAIN destination = Options /\ at \in 1..Len(args) + 1 
         /\ required_seen \subseteq Options
    /\ phase = "parses" => Parsing
    /\ phase = "checks" => ReadUpTo(Len(args) + 1)
    /\ ParsedAsMeant

(* Whether i is read as an option, given f for those before it.            *)
ReadAsOption(f, i) ==
    /\ i > 0
    /\ \A j \in 1..i - 1 : f[j] => args[j].form # "end"
    /\ ~(i > 1 /\ f[i - 1] /\ TakesNext(args[i - 1]))

(* The recursion defines a function.                                       *)
LEMMA IsOptionDefined ==
    ASSUME args \in Seq(Arguments)
    PROVE  /\ IsOption \in [0..Len(args) -> BOOLEAN]
           /\ \A i \in 0..Len(args) : IsOption[i] <=> ReadAsOption(IsOption, i)
  <1> DEFINE T == {n \in Nat : \E f \in [0..n -> BOOLEAN] : \A i \in 0..n : f[i] = ReadAsOption(f, i)}
  <1>1. 0 \in T
    <2> DEFINE f == [i \in 0..0 |-> FALSE]
    <2>1. f \in [0..0 -> BOOLEAN] /\ \A i \in 0..0 : f[i] = FALSE /\ i = 0
      OBVIOUS
    <2> HIDE DEF f
    <2>2. \A i \in 0..0 : f[i] = ReadAsOption(f, i)
      <3>1. ReadAsOption(f, 0) = FALSE
        BY DEF ReadAsOption
      <3>2. QED
        BY ONLY <2>1, <3>1
    <2>3. QED
      BY <2>1, <2>2
  <1>2. ASSUME NEW n \in Nat, n \in T
        PROVE  n + 1 \in T
    <2>1. PICK f \in [0..n -> BOOLEAN] : \A i \in 0..n : f[i] = ReadAsOption(f, i)
      BY <1>2
    <2> DEFINE g == [i \in 0..n + 1 |-> IF i =< n THEN f[i] ELSE ReadAsOption(f, n + 1)]
    <2>2. ReadAsOption(f, n + 1) \in BOOLEAN
      BY DEF ReadAsOption
    <2>3. g \in [0..n + 1 -> BOOLEAN] /\ (\A i \in 0..n : g[i] = f[i]) /\ g[n + 1] = ReadAsOption(f, n + 1)
      BY <2>2
    <2> HIDE DEF g
    <2>4. ASSUME NEW i \in 0..n + 1
          PROVE  ReadAsOption(g, i) = ReadAsOption(f, i)
      <3>1. \A j \in 1..i - 1 : j \in 0..n
        OBVIOUS
      <3>2. i > 1 => i - 1 \in 0..n
        OBVIOUS
      <3>3. QED
        BY <2>3, <3>1, <3>2 DEF ReadAsOption
    <2>5. \A i \in 0..n + 1 : i \in 0..n \/ i = n + 1
      OBVIOUS
    <2>6. \A i \in 0..n + 1 : g[i] = ReadAsOption(g, i)
      BY <2>1, <2>3, <2>4, <2>5
    <2>7. QED
      BY <2>3, <2>6
  <1>3. Len(args) \in T
    <2>1. Nat \subseteq T
      <3> HIDE DEF T
      <3>1. QED
        BY <1>1, <1>2, SetInduction
    <2>2. QED
      BY <2>1
  <1>4. PICK f \in [0..Len(args) -> BOOLEAN] : \A i \in 0..Len(args) : f[i] = ReadAsOption(f, i)
    BY <1>3
  <1>5. f = [i \in 0..Len(args) |-> ReadAsOption(f, i)]
    BY <1>4
  <1>6. IsOption = CHOOSE h : h = [i \in 0..Len(args) |-> ReadAsOption(h, i)]
    BY DEF IsOption, ReadAsOption
  <1>7. IsOption = [i \in 0..Len(args) |-> ReadAsOption(IsOption, i)]
    BY <1>5, <1>6
  <1>8. \A i \in 0..Len(args) : ReadAsOption(IsOption, i) \in BOOLEAN
    BY DEF ReadAsOption
  <1>9. QED
    BY <1>7, <1>8

(* What is read as an option depends on the arguments alone. *)
LEMMA ArgumentsAlike ==
    ASSUME args' = args
    PROVE  IsOption' = IsOption
  <1>1. QED
    BY DEF IsOption, TakesNext, OptionOf, OwnText

-----------------------------------------------------------------------------
(* The options. *)

LEMMA DeclaredOptions ==
    /\ Len(Declared) \in Nat
    /\ \A i \in 1..Len(Declared) : Declared[i] \in Options
    /\ \A o, q \in Options : o.name = q.name /\ o.name # Plain => o = q
    /\ \A o, q \in Options : o.letter = q.letter /\ o.letter # Plain => o = q
    /\ Help \in Options /\ Help.boolean
  <1>1. Len(Declared) \in Nat /\ \A i \in 1..Len(Declared) : Declared[i] \in Options
    BY OptionAssumption DEF Options
  <1>2. ASSUME NEW o \in Options, NEW q \in Options, o.name = q.name, o.name # Plain PROVE o = q
    <2>1. PICK i \in 1..Len(Declared), j \in 1..Len(Declared) : o = Declared[i] /\ q = Declared[j]
      BY DEF Options
    <2>2. i # j => (Declared[i].name = Declared[j].name => Declared[i].name = Plain)
      BY OptionAssumption
    <2>3. QED
      BY <1>2, <2>1, <2>2
  <1>3. ASSUME NEW o \in Options, NEW q \in Options, o.letter = q.letter, o.letter # Plain PROVE o = q
    <2>1. PICK i \in 1..Len(Declared), j \in 1..Len(Declared) : o = Declared[i] /\ q = Declared[j]
      BY DEF Options
    <2>2. i # j => (Declared[i].letter = Declared[j].letter => Declared[i].letter = Plain)
      BY OptionAssumption
    <2>3. QED
      BY <1>3, <2>1, <2>2
  <1>4. Help \in Options /\ Help.name = "help"
    BY OptionAssumption DEF Help
  <1>5. PICK o \in Options : o.name = "help" /\ o.boolean
    BY OptionAssumption
  <1>6. Help = o
    BY <1>2, <1>4, <1>5 DEF Plain
  <1>7. QED
    BY <1>1, <1>2, <1>3, <1>4, <1>5, <1>6

(* An argument names one option at most, and is matched with it.           *)
LEMMA OneOption ==
    ASSUME args \in CommandLines, NEW i \in 1..Len(args)
    PROVE  /\ \A o, q \in OptionOf(args[i]) : o = q
           /\ option_map = Options => Named(args[i]) = OptionOf(args[i])
           /\ args[i].form \in {"end", "plain"} => OptionOf(args[i]) = {}
  <1>1. args[i].form \in {"full", "letter"} => args[i].key # Plain
    BY OptionAssumption
  <1>2. ASSUME NEW o \in OptionOf(args[i])
        PROVE  /\ o \in Options /\ args[i].key # Plain
               /\ \/ args[i].form = "full" /\ o.name = args[i].key
                  \/ args[i].form = "letter" /\ o.letter = args[i].key
    BY <1>1 DEF OptionOf
  <1>3. \A o, q \in OptionOf(args[i]) : o = q
    BY <1>2, DeclaredOptions
  <1>4. option_map = Options => Named(args[i]) = OptionOf(args[i])
    BY <1>1 DEF Named, OptionOf
  <1>5. QED
    BY <1>2, <1>3, <1>4

(* Reading is done with the same command line.                             *)
LEMMA MeaningAlike ==
    ASSUME args' = args
    PROVE  /\ LegalCommand' <=> LegalCommand
           /\ \A o : Uses(o)' = Uses(o)
           /\ \A o, n : UsesBefore(o, n)' = UsesBefore(o, n)
           /\ \A o : Meant(o)' = Meant(o)
           /\ \A o, i : ValueAt(o, i)' = ValueAt(o, i)
           /\ \A i : LegalAt(i)' <=> LegalAt(i)
  <1>1. IsOption' = IsOption
    BY ArgumentsAlike
  <1>2. \A o : Uses(o)' = Uses(o)
    BY <1>1 DEF Uses, OptionOf
  <1>3. \A o, i : TextOf(o, i)' = TextOf(o, i)
    BY DEF TextOf, OwnText, AsValue
  <1>4. \A i : TakesNext(args[i])' <=> TakesNext(args[i])
    BY DEF TakesNext, OptionOf, OwnText
  <1>5. \A i : OptionOf(args[i])' = OptionOf(args[i])
    BY DEF OptionOf
  <1>6. \A i : LegalAt(i)' <=> LegalAt(i)
    BY <1>3, <1>4, <1>5 DEF LegalAt
  <1>7. LegalCommand' <=> LegalCommand
    BY <1>1, <1>2, <1>3, <1>4, <1>5 DEF LegalCommand
  <1>8. \A o : Meant(o)' = Meant(o)
    BY DEF Meant, Uses, IsOption, TakesNext, OptionOf, TextOf, OwnText, AsValue
  <1>9. QED
    BY <1>2, <1>3, <1>6, <1>7, <1>8 DEF UsesBefore, ValueAt

-----------------------------------------------------------------------------
(* Reading one option. *)

LEMMA NextOption ==
    ASSUME args \in Seq(Arguments), NEW i \in 1..Len(args), IsOption[i],
           \A j \in 1..i : IsOption[j] => args[j].form # "end"
    PROVE  /\ i < Len(args) => (IsOption[i + 1] <=> ~TakesNext(args[i]))
           /\ i + 1 < Len(args) /\ TakesNext(args[i]) => IsOption[i + 2]
  <1>1. i \in Nat /\ i > 0 /\ Len(args) \in Nat
    OBVIOUS
  <1>2. ASSUME i < Len(args)
        PROVE  IsOption[i + 1] <=> ~TakesNext(args[i])
    <2>1. i + 1 \in 0..Len(args) /\ i + 1 > 1 /\ (i + 1) - 1 = i
      BY <1>1, <1>2
    <2>2. IsOption[i + 1] <=> ReadAsOption(IsOption, i + 1)
      BY <2>1, IsOptionDefined
    <2>3. QED
      BY <2>1, <2>2 DEF ReadAsOption
  <1>3. ASSUME i + 1 < Len(args), TakesNext(args[i])
        PROVE  IsOption[i + 2]
    <2>1. i + 2 \in 0..Len(args) /\ i + 2 > 1 /\ (i + 2) - 1 = i + 1 /\ i < Len(args)
      BY <1>1, <1>3
    <2>2. ~IsOption[i + 1]
      BY <1>2, <1>3, <2>1
    <2>3. \A j \in 1..i + 1 : j \in 1..i \/ j = i + 1
      BY <1>1
    <2>4. IsOption[i + 2] <=> ReadAsOption(IsOption, i + 2)
      BY <2>1, IsOptionDefined
    <2>5. QED
      BY <2>1, <2>2, <2>3, <2>4 DEF ReadAsOption
  <1>4. QED
    BY <1>2, <1>3

(* The argument to read after the use of an option at i.                   *)
After(i) == IF TakesNext(args[i]) THEN i + 2 ELSE i + 1

(* The argument read now is the one use between this place and the next    *)
(* one.                                                                    *)
LEMMA UsesGrow ==
    ASSUME args \in CommandLines, Parsing, at =< Len(args), args[at].form # "end",
           NEW o \in OptionOf(args[at]), After(at) =< Len(args) + 1
    PROVE  /\ at \in 1..Len(args) /\ After(at) \in 1..Len(args) + 1 /\ at < After(at)
           /\ \A i \in 1..Len(args) : i < After(at) /\ IsOption[i] => i < at \/ i = at
           /\ After(at) =< Len(args) => IsOption[After(at)]
           /\ \A i \in 1..Len(args) : i < After(at) /\ IsOption[i] => args[i].form # "end"
           /\ \A q \in Options : UsesBefore(q, After(at)) =
                 IF q = o THEN UsesBefore(q, at) \union {at} ELSE UsesBefore(q, at)
  <1>1. args \in Seq(Arguments) /\ Len(args) \in Nat
    BY OptionAssumption
  <1>2. at \in 1..Len(args) /\ IsOption[at]
    BY <1>1 DEF Parsing
  <1>3. After(at) \in 1..Len(args) + 1 /\ at < After(at) /\ After(at) \in {at + 1, at + 2}
    BY <1>1, <1>2 DEF After
  <1>4. \A j \in 1..at : IsOption[j] => args[j].form # "end"
    BY <1>1, <1>2 DEF Parsing
  <1>5. /\ at < Len(args) => (IsOption[at + 1] <=> ~TakesNext(args[at]))
        /\ at + 1 < Len(args) /\ TakesNext(args[at]) => IsOption[at + 2]
    BY <1>1, <1>2, <1>4, NextOption
  <1>6. \A i \in 1..Len(args) : i < After(at) /\ IsOption[i] => i < at \/ i = at
    BY <1>1, <1>2, <1>5 DEF After
  <1>7. After(at) =< Len(args) => IsOption[After(at)]
    BY <1>1, <1>2, <1>5 DEF After
  <1>8. \A i \in 1..Len(args) : i < After(at) /\ IsOption[i] => args[i].form # "end"
    BY <1>1, <1>2, <1>4, <1>6
  <1>9. ASSUME NEW q \in Options
        PROVE  UsesBefore(q, After(at)) = IF q = o THEN UsesBefore(q, at) \union {at} ELSE UsesBefore(q, at)
    <2>1. \A i \in Uses(q) : i \in 1..Len(args) /\ IsOption[i]
      BY DEF Uses
    <2>2. UsesBefore(q, After(at)) = UsesBefore(q, at) \union (Uses(q) \intersect {at})
      BY <1>1, <1>2, <1>3, <1>6, <2>1 DEF UsesBefore
    <2>3. at \in Uses(q) <=> q \in OptionOf(args[at])
      BY <1>2 DEF Uses
    <2>4. q \in OptionOf(args[at]) <=> q = o
      BY <1>2, OneOption
    <2>5. QED
      BY <2>2, <2>3, <2>4
  <1>10. QED
    BY <1>2, <1>3, <1>6, <1>7, <1>8, <1>9

(* Reading an option with a legal value keeps the invariant: the last use  *)
(* of an option is now this one.                                           *)
LEMMA UseIsRead ==
    ASSUME OptionInv, phase = "parses", at =< Len(args), args[at].form # "end",
           NEW o \in OptionOf(args[at]), LegalAt(at), After(at) =< Len(args) + 1,
           destination' = [destination EXCEPT ![o] = ValueAt(o, at)],
           required_seen' = required_seen \union {q \in {o} : q.required},
           at' = After(at), UNCHANGED <<args, option_map, phase>>
    PROVE  OptionInv'
  <1> PICK n : n = After(at)
    OBVIOUS
  <1>1. /\ args \in CommandLines /\ Parsing /\ option_map = Options /\ DOMAIN destination = Options
        /\ o \in Options /\ required_seen \subseteq Options
    BY DEF OptionInv, OptionOf
  <1>2. /\ at \in 1..Len(args) /\ n \in 1..Len(args) + 1 /\ at < n
        /\ \A i \in 1..Len(args) : i < n /\ IsOption[i] => i < at \/ i = at
        /\ n =< Len(args) => IsOption[n]
        /\ \A i \in 1..Len(args) : i < n /\ IsOption[i] => args[i].form # "end"
        /\ \A q \in Options : UsesBefore(q, n) = IF q = o THEN UsesBefore(q, at) \union {at} ELSE UsesBefore(q, at)
    BY <1>1, UsesGrow
  <1>3. /\ \A q \in Options : Valued(q, at)
        /\ required_seen = {q \in Options : q.required /\ UsesBefore(q, at) # {}}
        /\ \A i \in 1..Len(args) : i < at /\ IsOption[i] /\ args[i].form # "end" => LegalAt(i)
    BY <1>1 DEF Parsing, ReadUpTo
  <1>4. IsOption' = IsOption /\ (\A q, m : UsesBefore(q, m)' = UsesBefore(q, m))
        /\ (\A q, i : ValueAt(q, i)' = ValueAt(q, i)) /\ (\A i : LegalAt(i)' <=> LegalAt(i))
    BY ArgumentsAlike, MeaningAlike
  <1>5. ASSUME NEW q \in Options
        PROVE  Valued(q, n)'
    <2>1. CASE q = o
      <3>1. destination'[q] = ValueAt(q, at)
        BY <1>1, <2>1
      <3>2. UsesBefore(q, n) = UsesBefore(q, at) \union {at}
        BY <1>2, <2>1
      <3>3. \A j \in UsesBefore(q, n) : j =< at
        BY <1>2, <3>2 DEF UsesBefore, Uses
      <3>4. QED
        BY <1>4, <3>1, <3>2, <3>3 DEF Valued
    <2>2. CASE q # o
      <3>1. destination'[q] = destination[q] /\ UsesBefore(q, n) = UsesBefore(q, at)
        BY <1>1, <1>2, <2>2
      <3>2. Valued(q, at)
        BY <1>3
      <3>3. QED
        BY <1>4, <3>1, <3>2 DEF Valued
    <2>3. QED
      BY <2>1, <2>2
  <1>6. required_seen' = {q \in Options : q.required /\ UsesBefore(q, n) # {}}
    BY <1>1, <1>2, <1>3
  <1>7. \A i \in 1..Len(args) : i < n /\ IsOption[i] /\ args[i].form # "end" => LegalAt(i)
    BY <1>2, <1>3
  <1>8. n = at'
    OBVIOUS
  <1>9. ReadUpTo(n)'
    <2>1. \A q \in Options : Valued(q, n)'
      BY <1>5
    <2>2. required_seen' = {q \in Options : q.required /\ UsesBefore(q, n)' # {}}
      BY <1>4, <1>6
    <2>3. \A i \in 1..Len(args') : i < n /\ IsOption'[i] /\ args'[i].form # "end" => LegalAt(i)'
      BY <1>4, <1>7
    <2>4. QED
      BY <2>1, <2>2, <2>3 DEF ReadUpTo
  <1>10. Parsing'
    <2>1. at' = n /\ n \in 1..Len(args') + 1
      BY <1>2, <1>8
    <2>2. at' =< Len(args') => IsOption'[at']
      BY <1>2, <1>4, <1>8
    <2>3. \A i \in 1..Len(args') : i < at' /\ IsOption'[i] => args'[i].form # "end"
      BY <1>2, <1>4, <1>8
    <2>4. ReadUpTo(at)'
      BY <1>9, <2>1
    <2>5. QED
      BY <2>1, <2>2, <2>3, <2>4 DEF Parsing
  <1>11. DOMAIN destination' = Options /\ required_seen' \subseteq Options
    BY <1>1
  <1>12. at' \in 1..Len(args') + 1
    BY <1>2, <1>8
  <1>13. QED
    BY <1>1, <1>10, <1>11, <1>12 DEF OptionInv, ParsedAsMeant

(* A use that is not legal makes the command line illegal.                 *)
LEMMA UseFails ==
    ASSUME OptionInv, phase = "parses", at =< Len(args), args[at].form # "end", ~LegalAt(at),
           phase' = "fails", UNCHANGED <<args, option_map>>, DOMAIN destination' = DOMAIN destination,
           required_seen' \subseteq Options, at' \in 1..Len(args) + 1
    PROVE  OptionInv'
  <1>1. /\ args \in CommandLines /\ option_map = Options /\ DOMAIN destination = Options
        /\ Parsing
    BY DEF OptionInv
  <1>2. Len(args) \in Nat
    BY <1>1, OptionAssumption
  <1>3. at \in 1..Len(args) /\ IsOption[at]
    BY <1>1, <1>2 DEF Parsing
  <1>4. ~LegalCommand
    BY <1>3 DEF LegalCommand, LegalAt
  <1>5. ~LegalCommand'
    BY <1>4, MeaningAlike
  <1>6. ParsedAsMeant'
    BY <1>5 DEF ParsedAsMeant
  <1>7. QED
    BY <1>1, <1>6 DEF OptionInv

(* The option that is read: the argument names it and no other one. *)
LEMMA ReadsOption ==
    ASSUME OptionInv, NEW o \in Options, Reads(o)
    PROVE  /\ phase = "parses" /\ at \in 1..Len(args) /\ args[at].form # "end" /\ o \in OptionOf(args[at])
           /\ \A q \in OptionOf(args[at]) : q = o
           /\ option_map = Options /\ required_seen \subseteq Options
           /\ Len(args) \in Nat /\ DOMAIN destination = Options
           /\ TakesNext(args[at]) <=> ~o.boolean /\ ~OwnText(args[at])
           /\ OwnText(args[at]) <=> args[at].form = "full" /\ args[at].text # Plain
           /\ args[at].form \in {"full", "letter"}
  <1>1. phase = "parses" /\ at =< Len(args) /\ o \in Named(args[at])
    BY DEF Reads
  <1>2. args \in CommandLines /\ option_map = Options /\ Parsing /\ DOMAIN destination = Options
        /\ required_seen \subseteq Options
    BY <1>1 DEF OptionInv
  <1>3. Len(args) \in Nat
    BY <1>2, OptionAssumption
  <1>4. at \in 1..Len(args)
    BY <1>1, <1>2, <1>3 DEF Parsing
  <1>5. o \in OptionOf(args[at]) /\ (\A q \in OptionOf(args[at]) : q = o)
    <2>1. Named(args[at]) = OptionOf(args[at])
      BY <1>2, <1>4, OneOption
    <2>2. \A p, q \in OptionOf(args[at]) : p = q
      BY <1>2, <1>4, OneOption
    <2>3. QED
      BY <1>1, <2>1, <2>2
  <1>6. args[at].form \in {"full", "letter"}
    BY <1>5 DEF OptionOf
  <1>7. QED
    BY <1>1, <1>2, <1>3, <1>4, <1>5, <1>6 DEF TakesNext, OwnText

(* A text is stored as the option's value, or refused as illegal.          *)
LEMMA StoresKeeps ==
    ASSUME OptionInv, NEW o \in Options, Reads(o), NEW text, Stores(o, text), at' = After(at), After(at) =< Len(args) + 1,
           IF o.boolean THEN ToBool(text) = ValueAt(o, at) ELSE text = TextOf(o, at),
           TakesNext(args[at]) => at < Len(args)
    PROVE  OptionInv'
  <1>1. /\ phase = "parses" /\ at \in 1..Len(args) /\ args[at].form # "end" /\ o \in OptionOf(args[at])
        /\ \A q \in OptionOf(args[at]) : q = o
        /\ required_seen \subseteq Options /\ Len(args) \in Nat
    BY ReadsOption
  <1>2. /\ required_seen' = required_seen \union {q \in {o} : q.required}
        /\ UNCHANGED <<args, option_map>>
    BY DEF Stores
  <1>3. CASE o.boolean \/ text \in o.accepts
    <2>1. destination' = [destination EXCEPT ![o] = ValueAt(o, at)] /\ phase' = phase
      BY <1>3 DEF Stores, ValueAt
    <2>2. LegalAt(at)
      BY <1>1, <1>3 DEF LegalAt
    <2>3. at =< Len(args) /\ UNCHANGED <<args, option_map, phase>>
      BY <1>1, <1>2, <2>1
    <2>4. QED
      BY <1>1, <1>2, <2>1, <2>2, <2>3, UseIsRead
  <1>4. CASE ~o.boolean /\ text \notin o.accepts
    <2>1. phase' = "fails" /\ destination' = destination
      BY <1>4 DEF Stores
    <2>2. ~LegalAt(at)
      BY <1>1, <1>4 DEF LegalAt
    <2>3. at' \in 1..Len(args) + 1
      BY <1>1 DEF After
    <2>4. required_seen' \subseteq Options
      BY <1>1, <1>2
    <2>5. QED
      BY <1>1, <1>2, <2>1, <2>2, <2>3, <2>4, UseFails
  <1>5. QED
    BY <1>3, <1>4

(* A value after "=". *)
LEMMA GivenValueKeeps == ASSUME OptionInv, NEW o \in Options, GivenValue(o) PROVE OptionInv'
  <1>1. Reads(o) /\ Stores(o, args[at].text) /\ at' = at + 1
    BY DEF GivenValue
  <1>2. OwnText(args[at]) /\ ~TakesNext(args[at]) /\ at \in 1..Len(args) /\ Len(args) \in Nat
    BY <1>1, ReadsOption DEF GivenValue
  <1>3. IF o.boolean THEN ToBool(args[at].text) = ValueAt(o, at) ELSE args[at].text = TextOf(o, at)
    BY <1>2 DEF ToBool, ValueAt, TextOf
  <1>4. at' = After(at) /\ After(at) =< Len(args) + 1
    BY <1>1, <1>2 DEF After
  <1>5. QED
    BY <1>1, <1>2, <1>3, <1>4, StoresKeeps

(* A flag without a value. *)
LEMMA FlagKeeps == ASSUME OptionInv, NEW o \in Options, Flag(o) PROVE OptionInv'
  <1>1. Reads(o) /\ at' = at + 1 /\ o.boolean
    BY DEF Flag
  <1>2. ~OwnText(args[at]) /\ ~TakesNext(args[at]) /\ at \in 1..Len(args) /\ Len(args) \in Nat
    BY <1>1, ReadsOption DEF Flag
  <1>3. at' = After(at) /\ After(at) =< Len(args) + 1
    BY <1>1, <1>2 DEF After
  <1>4. PICK text : text = "" /\ Stores(o, text)
    BY DEF Flag
  <1>5. ToBool(text) = ValueAt(o, at)
    BY <1>1, <1>2, <1>4 DEF ToBool, ValueAt, TextOf
  <1>6. QED
    BY <1>1, <1>2, <1>3, <1>4, <1>5, StoresKeeps

(* A value in the next argument, whatever that is. *)
LEMMA NextValueKeeps == ASSUME OptionInv, NEW o \in Options, NextValue(o) PROVE OptionInv'
  <1>1. Reads(o) /\ Stores(o, AsValue(args[at + 1])) /\ at' = at + 2 /\ ~o.boolean /\ at < Len(args)
    BY DEF NextValue
  <1>2. ~OwnText(args[at]) /\ TakesNext(args[at]) /\ at \in 1..Len(args) /\ Len(args) \in Nat
    BY <1>1, ReadsOption DEF NextValue
  <1>3. AsValue(args[at + 1]) = TextOf(o, at)
    BY <1>1, <1>2 DEF TextOf
  <1>4. at' = After(at) /\ After(at) =< Len(args) + 1
    BY <1>1, <1>2 DEF After
  <1>5. QED
    BY <1>1, <1>2, <1>3, <1>4, StoresKeeps

(* An option at the end, without its value. *)
LEMMA MissingValueKeeps == ASSUME OptionInv, NEW o \in Options, MissingValue(o) PROVE OptionInv'
  <1>1. /\ Reads(o) /\ ~o.boolean /\ at = Len(args) /\ phase' = "fails"
        /\ required_seen' = required_seen \union {p \in {o} : p.required}
        /\ UNCHANGED <<args, option_map, destination, at>>
    BY DEF MissingValue
  <1>2. /\ phase = "parses" /\ at \in 1..Len(args) /\ args[at].form # "end" /\ o \in OptionOf(args[at])
        /\ TakesNext(args[at]) /\ Len(args) \in Nat /\ required_seen \subseteq Options
    BY <1>1, ReadsOption DEF MissingValue
  <1>3. ~LegalAt(at)
    BY <1>1, <1>2 DEF LegalAt
  <1>4. required_seen' \subseteq Options /\ at' \in 1..Len(args) + 1
    BY <1>1, <1>2
  <1>5. QED
    BY <1>1, <1>2, <1>3, <1>4, UseFails

(* An argument that names no option. *)
LEMMA UnknownOptionKeeps == ASSUME OptionInv, UnknownOption PROVE OptionInv'
  <1>1. /\ phase = "parses" /\ at =< Len(args) /\ args[at].form # "end" /\ Named(args[at]) = {}
        /\ phase' = "fails" /\ UNCHANGED <<args, option_map, destination, required_seen, at>>
    BY DEF UnknownOption
  <1>2. args \in CommandLines /\ option_map = Options /\ at \in 1..Len(args) + 1 /\ required_seen \subseteq Options
    BY <1>1 DEF OptionInv
  <1>3. at \in 1..Len(args)
    BY <1>1, <1>2, OptionAssumption
  <1>4. ~LegalAt(at)
    BY <1>1, <1>2, <1>3, OneOption DEF LegalAt
  <1>5. QED
    BY <1>1, <1>2, <1>4, UseFails

-----------------------------------------------------------------------------
(* The end of the options, and what comes of them. *)

(* All of the options have been read when the rest is none.                *)
LEMMA AllRead ==
    ASSUME ReadUpTo(at), at \in 1..Len(args) + 1, Len(args) \in Nat,
           \A i \in at..Len(args) : IsOption[i] => args[i].form = "end" /\ OptionOf(args[i]) = {}
    PROVE  ReadUpTo(Len(args) + 1)
  <1>1. \A i \in 1..Len(args) : i < at \/ i \in at..Len(args)
    OBVIOUS
  <1>2. \A i \in 1..Len(args) : i < Len(args) + 1
    OBVIOUS
  <1>3. ASSUME NEW o \in Options
        PROVE  UsesBefore(o, Len(args) + 1) = UsesBefore(o, at)
    <2>1. \A i \in Uses(o) : i \in 1..Len(args) /\ IsOption[i] /\ o \in OptionOf(args[i])
      BY DEF Uses
    <2>2. \A i \in Uses(o) : i < at
      BY <1>1, <2>1
    <2>3. QED
      BY <1>2, <2>1, <2>2 DEF UsesBefore
  <1>4. \A o \in Options : Valued(o, Len(args) + 1)
    BY <1>3 DEF ReadUpTo, Valued
  <1>5. required_seen = {o \in Options : o.required /\ UsesBefore(o, Len(args) + 1) # {}}
    BY <1>3 DEF ReadUpTo
  <1>6. \A i \in 1..Len(args) : i < Len(args) + 1 /\ IsOption[i] /\ args[i].form # "end" => LegalAt(i)
    BY <1>1 DEF ReadUpTo
  <1>7. QED
    BY <1>4, <1>5, <1>6 DEF ReadUpTo

(* Nothing but the phase and the place in the command line changes.        *)
LEMMA ReadAlike ==
    ASSUME UNCHANGED <<args, destination, required_seen>>
    PROVE  \A n : ReadUpTo(n)' <=> ReadUpTo(n)
  <1>1. IsOption' = IsOption /\ (\A q, m : UsesBefore(q, m)' = UsesBefore(q, m))
        /\ (\A q, i : ValueAt(q, i)' = ValueAt(q, i)) /\ (\A i : LegalAt(i)' <=> LegalAt(i))
    BY ArgumentsAlike, MeaningAlike
  <1>2. \A q, m : Valued(q, m)' <=> Valued(q, m)
    BY <1>1 DEF Valued
  <1>3. QED
    BY <1>1, <1>2 DEF ReadUpTo

(* Once no option follows, the whole command line has been read. *)
LEMMA ChecksKeeps ==
    ASSUME OptionInv, phase = "parses", phase' = "checks",
           UNCHANGED <<args, option_map, destination, required_seen>>, at' \in 1..Len(args) + 1,
           \A i \in at..Len(args) : IsOption[i] => args[i].form = "end" /\ OptionOf(args[i]) = {}
    PROVE  OptionInv'
  <1>1. args \in CommandLines /\ Parsing /\ option_map = Options /\ DOMAIN destination = Options
        /\ required_seen \subseteq Options
    BY DEF OptionInv
  <1>2. ReadUpTo(Len(args) + 1)
    <2>1. ReadUpTo(at) /\ at \in 1..Len(args) + 1 /\ Len(args) \in Nat
      BY <1>1, OptionAssumption DEF Parsing
    <2>2. QED
      BY <2>1, AllRead
  <1>3. ReadUpTo(Len(args) + 1)'
    <2>1. PICK n : n = Len(args) + 1 /\ n = Len(args') + 1
      OBVIOUS
    <2>2. ReadUpTo(n)'
      BY <1>2, <2>1, ReadAlike
    <2>3. QED
      BY <2>1, <2>2
  <1>4. QED
    BY <1>1, <1>3 DEF OptionInv, ParsedAsMeant

(* The end of the options is met. *)
LEMMA EndOfOptionsKeeps == ASSUME OptionInv, EndOfOptions PROVE OptionInv'
  <1>1. /\ phase = "parses" /\ at =< Len(args) /\ args[at].form = "end" /\ at' = at + 1 /\ phase' = "checks"
        /\ UNCHANGED <<args, option_map, destination, required_seen>>
    BY DEF EndOfOptions
  <1>2. args \in CommandLines /\ Parsing /\ args \in Seq(Arguments) /\ Len(args) \in Nat
    BY <1>1, OptionAssumption DEF OptionInv
  <1>3. at \in 1..Len(args) /\ IsOption[at]
    BY <1>1, <1>2 DEF Parsing
  <1>4. ASSUME NEW i \in at..Len(args), IsOption[i]
        PROVE  i = at
    <2>1. IsOption[i] <=> ReadAsOption(IsOption, i)
      BY <1>2, <1>3, IsOptionDefined
    <2>2. i > at => at \in 1..i - 1
      BY <1>3
    <2>3. QED
      BY <1>1, <1>3, <1>4, <2>1, <2>2 DEF ReadAsOption
  <1>5. OptionOf(args[at]) = {}
    BY <1>1, <1>2, <1>3, OneOption
  <1>6. at' \in 1..Len(args) + 1
    BY <1>1, <1>2, <1>3
  <1>7. QED
    BY <1>1, <1>4, <1>5, <1>6, ChecksKeeps

(* The arguments are at their end. *)
LEMMA EndOfArgumentsKeeps == ASSUME OptionInv, EndOfArguments PROVE OptionInv'
  <1>1. /\ phase = "parses" /\ at > Len(args) /\ phase' = "checks"
        /\ UNCHANGED <<args, option_map, destination, required_seen, at>>
    BY DEF EndOfArguments
  <1>2. at \in 1..Len(args) + 1 /\ Len(args) \in Nat
    BY <1>1, OptionAssumption DEF OptionInv
  <1>3. at..Len(args) = {} /\ at' \in 1..Len(args) + 1
    BY <1>1, <1>2
  <1>4. QED
    BY <1>1, <1>3, ChecksKeeps

(* When every argument has been read, each option has what was meant.      *)
LEMMA MeantAtEnd ==
    ASSUME Len(args) \in Nat, ReadUpTo(Len(args) + 1)
    PROVE  /\ \A o \in Options : destination[o] = Meant(o)
           /\ LegalCommand <=> \A o \in Options : o.required => o \in required_seen
  <1>1. ASSUME NEW o \in Options
        PROVE  UsesBefore(o, Len(args) + 1) = Uses(o) /\ Uses(o) \subseteq 1..Len(args)
    BY DEF UsesBefore, Uses
  <1>2. ASSUME NEW o \in Options
        PROVE  destination[o] = Meant(o)
    <2>1. Valued(o, Len(args) + 1)
      BY DEF ReadUpTo
    <2>2. CASE Uses(o) = {}
      BY <1>1, <2>1, <2>2 DEF Valued, Meant
    <2>3. CASE Uses(o) # {}
      <3>1. PICK i \in Uses(o) : (\A j \in Uses(o) : j =< i) /\ destination[o] = ValueAt(o, i)
        BY <1>1, <2>1, <2>3 DEF Valued
      <3> DEFINE last == CHOOSE k \in Uses(o) : \A j \in Uses(o) : j =< k
      <3>2. last \in Uses(o) /\ \A j \in Uses(o) : j =< last
        BY <3>1
      <3>3. last = i
        <4>1. i \in Int /\ last \in Int /\ i =< last /\ last =< i
          BY <1>1, <3>1, <3>2
        <4>2. QED
          BY <4>1
      <3>4. Meant(o) = ValueAt(o, last)
        BY <2>3 DEF Meant, ValueAt
      <3>5. QED
        BY <3>1, <3>3, <3>4
    <2>4. QED
      BY <2>2, <2>3
  <1>3. \A i \in 1..Len(args) : IsOption[i] /\ args[i].form # "end" => LegalAt(i)
    BY DEF ReadUpTo
  <1>4. \A o \in Options : o.required => (o \in required_seen <=> Uses(o) # {})
    BY <1>1 DEF ReadUpTo
  <1>5. LegalCommand <=> \A o \in Options : o.required => o \in required_seen
    BY <1>3, <1>4 DEF LegalCommand, LegalAt
  <1>6. QED
    BY <1>2, <1>5

(* The check of required options accepts what is meant and fails what is   *)
(* not.                                                                    *)
LEMMA CheckRequiredKeeps == ASSUME OptionInv, CheckRequired PROVE OptionInv'
  <1>1. /\ phase = "checks" /\ UNCHANGED <<args, option_map, destination, required_seen, at>>
        /\ phase' = IF \E o \in option_map : o.required /\ o \notin required_seen THEN "fails"
                    ELSE IF destination[Help] THEN "help" ELSE "runs"
    BY DEF CheckRequired
  <1>2. /\ args \in CommandLines /\ option_map = Options /\ DOMAIN destination = Options
        /\ at \in 1..Len(args) + 1 /\ required_seen \subseteq Options
    BY <1>1 DEF OptionInv
  <1>3. /\ \A o \in Options : destination[o] = Meant(o)
        /\ LegalCommand <=> \A o \in Options : o.required => o \in required_seen
    <2>1. Len(args) \in Nat /\ ReadUpTo(Len(args) + 1)
      BY <1>1, OptionAssumption DEF OptionInv
    <2>2. QED
      BY <2>1, MeantAtEnd
  <1>4. Help \in Options
    BY DeclaredOptions
  <1>5. (LegalCommand' <=> LegalCommand) /\ \A o : Meant(o)' = Meant(o)
    BY <1>1, MeaningAlike
  <1>6. phase' \in {"runs", "help", "fails"}
    BY <1>1
  <1>7. phase' = "fails" <=> ~LegalCommand
    BY <1>1, <1>2, <1>3
  <1>8. phase' \in {"runs", "help"} => (phase' = "help" <=> Meant(Help))
    BY <1>1, <1>3, <1>4
  <1>9. ParsedAsMeant'
    BY <1>1, <1>3, <1>5, <1>6, <1>7, <1>8 DEF ParsedAsMeant
  <1>10. QED
    BY <1>1, <1>2, <1>6, <1>9 DEF OptionInv

-----------------------------------------------------------------------------
(* The options are added. *)

LEMMA OptionStart == OptionInit => OptionInv
  <1> SUFFICES ASSUME OptionInit PROVE OptionInv
    OBVIOUS
  <1> USE DEF OptionInit
  <1>1. IsFiniteSet(option_map) /\ Cardinality(option_map) = 0
    BY FS_EmptySet
  <1>2. Cardinality(option_map) \in 0..Len(Declared)
    BY <1>1, DeclaredOptions
  <1>3. First(0) = {}
    BY DEF First
  <1>4. DOMAIN destination = option_map
    OBVIOUS
  <1>5. Adding
    BY <1>1, <1>2, <1>3, <1>4 DEF Adding
  <1>6. QED
    BY <1>5 DEF OptionInv, ParsedAsMeant

(* One more option is added. *)
LEMMA AddOptionKeeps == ASSUME OptionInv, AddOption PROVE OptionInv'
  <1> DEFINE n == Cardinality(option_map)
             o == Declared[n + 1]
  <1>1. /\ phase = "adds" /\ n < Len(Declared) /\ option_map' = option_map \union {o}
        /\ destination' = Defaulted(o) /\ UNCHANGED <<args, required_seen, at, phase>>
    BY DEF AddOption
  <1>2. args \in CommandLines /\ Adding
    BY <1>1 DEF OptionInv
  <1>3. /\ IsFiniteSet(option_map) /\ n \in Nat /\ n + 1 \in 1..Len(Declared)
        /\ option_map = First(n) /\ Len(Declared) \in Nat /\ o \in Options
        /\ at = 1 /\ required_seen = {}
    BY <1>1, <1>2, DeclaredOptions DEF Adding
  <1>4. /\ DOMAIN destination' = option_map'
        /\ \A q \in option_map' : destination'[q] = IF q = o THEN o.fallback ELSE destination[q]
    BY <1>1 DEF Defaulted
  <1> HIDE DEF n
  <1>5. First(n + 1) = First(n) \union {o}
    <2>1. 1..n + 1 = 1..n \union {n + 1}
      BY <1>3
    <2>2. QED
      BY <2>1 DEF First
  <1>6. o \notin First(n)
    <2>1. ASSUME NEW i \in 1..n PROVE Declared[i] # o
      <3>1. i \in 1..Len(Declared) /\ i # n + 1
        BY <1>3
      <3>2. o.name # Plain \/ o.letter # Plain
        BY <1>3, OptionAssumption
      <3>3. QED
        BY <1>3, <3>1, <3>2, OptionAssumption
    <2>2. QED
      BY <2>1 DEF First
  <1> HIDE DEF o
  <1>7. IsFiniteSet(option_map') /\ Cardinality(option_map') = n + 1
    BY <1>1, <1>3, <1>6, FS_AddElement DEF n
  <1>8. Cardinality(option_map') \in 0..Len(Declared)
    BY <1>3, <1>7
  <1>9. option_map' = First(Cardinality(option_map'))
    BY <1>1, <1>3, <1>5, <1>7
  <1>10. \A q \in option_map' : destination'[q] = q.fallback
    BY <1>1, <1>2, <1>4 DEF Adding
  <1>11. First(Cardinality(option_map))' = First(Cardinality(option_map'))
    BY DEF First
  <1>12. Adding'
    BY <1>1, <1>3, <1>4, <1>7, <1>8, <1>9, <1>10, <1>11 DEF Adding
  <1>13. QED
    BY <1>1, <1>2, <1>12 DEF OptionInv, ParsedAsMeant

(* All options have been added. *)
LEMMA OptionsAddedKeeps == ASSUME OptionInv, OptionsAdded PROVE OptionInv'
  <1>1. /\ phase = "adds" /\ Cardinality(option_map) = Len(Declared) /\ phase' = "parses"
        /\ UNCHANGED <<args, option_map, destination, required_seen, at>>
    BY DEF OptionsAdded
  <1>2. args \in CommandLines /\ Adding
    BY <1>1 DEF OptionInv
  <1>3. args \in Seq(Arguments) /\ Len(args) \in Nat
    BY <1>2, OptionAssumption
  <1>4. option_map = Options
    BY <1>1, <1>2 DEF Adding, First, Options
  <1>5. at = 1 /\ required_seen = {} /\ DOMAIN destination = Options
        /\ \A o \in Options : destination[o] = o.fallback
    BY <1>2, <1>4 DEF Adding
  <1>6. \A o \in Options : UsesBefore(o, 1) = {}
    BY DEF UsesBefore, Uses
  <1>7. ReadUpTo(1)
    BY <1>3, <1>5, <1>6 DEF ReadUpTo, Valued
  <1>8. 1 =< Len(args) => IsOption[1]
    <2>1. 1 =< Len(args) => (IsOption[1] <=> ReadAsOption(IsOption, 1))
      BY <1>3, IsOptionDefined
    <2>2. ReadAsOption(IsOption, 1)
      BY DEF ReadAsOption
    <2>3. QED
      BY <2>1, <2>2
  <1>9. Parsing
    BY <1>3, <1>5, <1>7, <1>8 DEF Parsing
  <1>10. Parsing'
    <2>1. IsOption' = IsOption
      BY <1>1, ArgumentsAlike
    <2>2. ReadUpTo(1)'
      BY <1>1, <1>7, ReadAlike
    <2>3. ReadUpTo(at)'
      BY <1>1, <1>5, <2>2
    <2>4. QED
      BY <1>1, <1>9, <2>1, <2>3 DEF Parsing
  <1>11. at' \in 1..Len(args') + 1
    BY <1>1, <1>3, <1>5
  <1>12. QED
    BY <1>1, <1>2, <1>4, <1>5, <1>10, <1>11 DEF OptionInv, ParsedAsMeant

(* The inductive invariant of options_factory and options_parser. *)
THEOREM OptionInvariant == OptionSpec => []OptionInv
  <1>1. ASSUME OptionInv, UNCHANGED optionVars PROVE OptionInv'
    <2>1. UNCHANGED <<args, option_map, destination, required_seen, at, phase>>
      BY <1>1 DEF optionVars
    <2>2. \A n : ReadUpTo(n)' <=> ReadUpTo(n)
      BY <2>1, ReadAlike
    <2>3. IsOption' = IsOption
      BY <2>1, ArgumentsAlike
    <2>4. (LegalCommand' <=> LegalCommand) /\ (\A o : Meant(o)' = Meant(o))
      BY <2>1, MeaningAlike
    <2>5. ParsedAsMeant'
      BY <1>1, <2>1, <2>4 DEF OptionInv, ParsedAsMeant
    <2>6. PICK m, n : m = at /\ n = Len(args) + 1
      OBVIOUS
    <2>7. (ReadUpTo(at)' <=> ReadUpTo(at)) /\ (ReadUpTo(Len(args) + 1)' <=> ReadUpTo(Len(args) + 1))
      <3>1. (ReadUpTo(at)' <=> ReadUpTo(m)') /\ (ReadUpTo(Len(args) + 1)' <=> ReadUpTo(n)')
        BY <2>1, <2>6
      <3>2. QED
        BY <2>2, <2>6, <3>1
    <2>8. Parsing => Parsing'
      BY <2>1, <2>3, <2>7 DEF Parsing
    <2>9. Adding => Adding'
      BY <2>1 DEF Adding, First
    <2>10. QED
      BY <1>1, <2>1, <2>5, <2>7, <2>8, <2>9 DEF OptionInv
  <1>2. OptionInv /\ [OptionNext]_optionVars => OptionInv'
    BY <1>1, AddOptionKeeps, OptionsAddedKeeps, EndOfOptionsKeeps, EndOfArgumentsKeeps, UnknownOptionKeeps,
       CheckRequiredKeeps, GivenValueKeeps, FlagKeeps, NextValueKeeps, MissingValueKeeps DEF OptionNext
  <1>3. QED
    BY <1>2, OptionStart, PTL DEF OptionSpec

(* options_parser::parse accepts exactly the legal command lines, and      *)
(* every option then has the value of its last use, or its default.        *)
THEOREM CommandLineIsMeant == OptionSpec => []ParsedAsMeant
  <1>1. OptionInv => ParsedAsMeant
    BY DEF OptionInv
  <1>2. QED
    BY <1>1, OptionInvariant, PTL

===============================================================================
