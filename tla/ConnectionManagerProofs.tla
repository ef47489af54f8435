---------------------- MODULE ConnectionManagerProofs ----------------------
(***************************************************************************)
(* What TLAPS proves about ConnectionManager for every set of flows, every *)
(* service limit and every number of io_contexts.                          *)
(***************************************************************************)
EXTENDS ConnectionManager, FiniteSetTheorems, SequenceTheorems, TLAPS

(***************************************************************************)
(* Sequences as queues: what Append and Tail do to the elements.           *)
(***************************************************************************)

(* Pushing an element adds it to the elements of the queue. *)
LEMMA RangeOfAppend ==
    ASSUME NEW S, NEW s \in Seq(S), NEW e \in S
    PROVE  Range(Append(s, e)) = Range(s) \union {e}
<1>1. Range(Append(s, e)) \subseteq Range(s) \union {e}
  BY DEF Range
<1>2. Range(s) \subseteq Range(Append(s, e))
  <2> SUFFICES ASSUME NEW i \in DOMAIN s PROVE s[i] \in Range(Append(s, e))
    BY DEF Range
  <2>1. i \in DOMAIN Append(s, e) /\ Append(s, e)[i] = s[i]
    OBVIOUS
  <2> QED BY <2>1 DEF Range
<1>3. e \in Range(Append(s, e))
  <2>1. Len(s) + 1 \in DOMAIN Append(s, e) /\ Append(s, e)[Len(s) + 1] = e
    OBVIOUS
  <2> QED BY <2>1 DEF Range
<1> QED BY <1>1, <1>2, <1>3

(* Popping a queue without duplicates removes exactly its first element. *)
LEMMA RangeOfTail ==
    ASSUME NEW S, NEW s \in Seq(S), s # <<>>, Distinct(s)
    PROVE  /\ Head(s) \in Range(s)
           /\ Range(Tail(s)) = Range(s) \ {Head(s)}
           /\ Distinct(Tail(s))
<1>1. /\ Tail(s) \in Seq(S) /\ Len(Tail(s)) = Len(s) - 1
      /\ \A i \in 1 .. Len(s) - 1 : Tail(s)[i] = s[i + 1]
      /\ Len(s) \in Nat \ {0} /\ Head(s) = s[1]
  OBVIOUS
<1>2. Head(s) \in Range(s)
  BY <1>1 DEF Range
<1>3. Range(Tail(s)) \subseteq Range(s) \ {Head(s)}
  <2> SUFFICES ASSUME NEW i \in DOMAIN Tail(s)
               PROVE  Tail(s)[i] \in Range(s) \ {Head(s)}
    BY DEF Range
  <2>1. i \in 1 .. Len(s) - 1 /\ i + 1 \in DOMAIN s /\ 1 \in DOMAIN s /\ i + 1 # 1
    BY <1>1
  <2> QED BY <1>1, <2>1 DEF Range, Distinct
<1>4. Range(s) \ {Head(s)} \subseteq Range(Tail(s))
  <2> SUFFICES ASSUME NEW i \in DOMAIN s, s[i] # Head(s)
               PROVE  s[i] \in Range(Tail(s))
    BY DEF Range
  <2>1. i - 1 \in DOMAIN Tail(s) /\ Tail(s)[i - 1] = s[i]
    BY <1>1
  <2> QED BY <2>1 DEF Range
<1>5. Distinct(Tail(s))
  <2> SUFFICES ASSUME NEW j \in DOMAIN Tail(s), NEW k \in DOMAIN Tail(s),
                      Tail(s)[j] = Tail(s)[k]
               PROVE  j = k
    BY DEF Distinct
  <2>1. j + 1 \in DOMAIN s /\ k + 1 \in DOMAIN s /\ s[j + 1] = s[k + 1]
    BY <1>1
  <2> QED BY <1>1, <2>1 DEF Distinct
<1> QED BY <1>2, <1>3, <1>4, <1>5

(* A queue stays without duplicates when a new element is pushed. *)
LEMMA DistinctAppend ==
    ASSUME NEW S, NEW s \in Seq(S), NEW e \in S, Distinct(s), e \notin Range(s)
    PROVE  Distinct(Append(s, e))
<1> SUFFICES ASSUME NEW j \in DOMAIN Append(s, e), NEW k \in DOMAIN Append(s, e),
                    Append(s, e)[j] = Append(s, e)[k]
             PROVE  j = k
  BY DEF Distinct
<1>1. \A i \in 1 .. Len(s) : Append(s, e)[i] = s[i] /\ s[i] # e
  BY DEF Range
<1>2. Append(s, e)[Len(s) + 1] = e /\ DOMAIN Append(s, e) = 1 .. Len(s) + 1
  OBVIOUS
<1> QED BY <1>1, <1>2 DEF Distinct

(* Moving the head of a queue to the end of what has left it. *)
LEMMA ConcatShift ==
    ASSUME NEW S, NEW s \in Seq(S), NEW q \in Seq(S), q # <<>>
    PROVE  Append(s, Head(q)) \o Tail(q) = s \o q
<1> DEFINE l == Append(s, Head(q)) \o Tail(q)
           r == s \o q
<1>1. l \in Seq(S) /\ r \in Seq(S) /\ Len(l) = Len(r)
  OBVIOUS
<1>2. ASSUME NEW i \in 1 .. Len(r) PROVE l[i] = r[i]
  <2>1. CASE i <= Len(s)
    BY <2>1
  <2>2. CASE i = Len(s) + 1
    BY <2>2
  <2>3. CASE i > Len(s) + 1
    BY <2>3
  <2>4. i \in Nat /\ Len(s) \in Nat
    BY <1>1, LenProperties
  <2> HIDE DEF l, r
  <2>5. i <= Len(s) \/ i = Len(s) + 1 \/ i > Len(s) + 1
    BY <2>4
  <2> QED BY <2>1, <2>2, <2>3, <2>5
<1> QED BY <1>1, <1>2, SeqEqual

(* Pushing on the second of two queues pushes on their concatenation. *)
LEMMA ConcatAppend ==
    ASSUME NEW S, NEW s \in Seq(S), NEW q \in Seq(S), NEW e \in S
    PROVE  Append(s \o q, e) = s \o Append(q, e)
OBVIOUS

(***************************************************************************)
(* The inductive invariant.                                                *)
(***************************************************************************)

(* Identifiers of threads and the acceptor's context. *)
LEMMA ContextFacts ==
    /\ AcceptorContext \in Contexts /\ 2 % NumContexts \in Contexts
    /\ 0 \in Contexts /\ Unlocked \notin Contexts
    /\ \A n \in Contexts : (n + 1) % NumContexts \in Contexts
BY ContextsAssumption, Z3 DEF AcceptorContext, Contexts, Unlocked

(* The server starts in a state that satisfies the inductive invariant. *)
LEMMA InitInvariant == Init => IInv
<1> SUFFICES ASSUME Init PROVE IInv
  OBVIOUS
<1> USE DEF Init
<1>1. TypeOK
  <2>1. 0 \in 0 .. NumContexts /\ IsFiniteSet({})
    BY ContextsAssumption, FS_EmptySet
  <2>2. /\ pending \in Seq(Flows) /\ accepted \in Seq(Flows) /\ served \in Seq(Flows)
        /\ posted \in [Contexts -> Seq(Flows)]
    OBVIOUS
  <2>3. /\ next \in Contexts /\ context \in [Flows -> Contexts]
        /\ stage \in [Flows -> Stages]
    BY ContextFacts DEF Stages
  <2> QED BY <2>1, <2>2, <2>3 DEF TypeOK, AcceptorPcs
<1>2. LimitRespected
  BY FS_EmptySet, LimitAssumption DEF LimitRespected
<1>3. NoIdleSlot /\ AtMostOneLateClient
  BY DEF NoIdleSlot, AtMostOneLateClient
<1>4. FirstComeFirstServed
  BY ConcatEmptySeq, EmptySeq DEF FirstComeFirstServed
<1>5. Range(pending) = {} /\ Range(served) = {} /\ HeldByAcceptor = {}
  BY DEF Range, HeldByAcceptor
<1>6. Ownership
  BY <1>5 DEF Ownership
<1>7. HandlersAlive
  BY DEF HandlersAlive
<1>8. FlowStages
  BY <1>5 DEF FlowStages, Distinct
<1>9. StoppedClock
  BY DEF StoppedClock
<1> QED BY <1>1, <1>2, <1>3, <1>4, <1>6, <1>7, <1>8, <1>9 DEF IInv

(* Every step keeps every variable in its type. *)
LEMMA TypeStep ==
    ASSUME TypeOK, FlowStages, [Next]_vars
    PROVE  TypeOK'
<1> USE ContextFacts DEF TypeOK, managerVars, acceptorVars, shutdownVars
<1> USE DEF Stages, AcceptorPcs
<1>1. ASSUME NEW f \in Flows, StartService(f)
      PROVE  /\ services' \subseteq Flows /\ IsFiniteSet(services')
             /\ stage' \in [Flows -> Stages]
             /\ posted' \in [Contexts -> Seq(Flows)]
             /\ served' \in Seq(Flows)
  <2>1. IsFiniteSet(services')
    BY <1>1, FS_AddElement DEF StartService
  <2> QED BY <1>1, <2>1 DEF StartService
<1>2. ASSUME NEW f \in Flows, InitAccept(f) PROVE TypeOK'
  BY <1>2 DEF InitAccept, NextContext
<1>3. CASE InitAcceptAtBound
  BY <1>3 DEF InitAcceptAtBound
<1>4. CASE AcceptClient
  BY <1>4 DEF AcceptClient
<1>5. CASE AcceptError
  BY <1>5 DEF AcceptError
<1>6. CASE Destroy
  BY <1>6 DEF Destroy
<1>7. CASE Start
  <2>1. accFlow \in Flows
    <3>1. accPc = "connected"
      BY <1>7 DEF Start
    <3> QED BY <3>1 DEF FlowStages
  <2>2. pending' \in Seq(Flows) /\ accepted' \in Seq(Flows)
    <3>1. /\ pending' = pending \/ pending' = Append(pending, accFlow)
          /\ accepted' = Append(accepted, accFlow)
      BY <1>7 DEF Start
    <3>2. /\ pending \in Seq(Flows) /\ accepted \in Seq(Flows)
          /\ \A q \in Seq(Flows) : Append(q, accFlow) \in Seq(Flows)
      BY <2>1, AppendProperties
    <3> HIDE DEF TypeOK
    <3> QED BY <3>1, <3>2
  <2>3. /\ services' \subseteq Flows /\ IsFiniteSet(services')
        /\ stage' \in [Flows -> Stages]
        /\ posted' \in [Contexts -> Seq(Flows)]
        /\ served' \in Seq(Flows)
    <3>1. CASE StartService(accFlow)
      BY <1>1, <2>1, <3>1
    <3>2. CASE UNCHANGED <<services, stage, posted, served>>
      BY <3>2
    <3> QED BY <1>7, <3>1, <3>2 DEF Start
  <2> QED BY <1>7, <2>2, <2>3 DEF Start
<1>8. CASE AfterStart
  BY <1>8 DEF AfterStart
<1>9. ASSUME NEW i \in Contexts, RunPosted(i) PROVE TypeOK'
  <2>1. posted[i] \in Seq(Flows) /\ posted[i] # <<>>
    BY <1>9 DEF RunPosted
  <2>2. Head(posted[i]) \in Flows /\ Tail(posted[i]) \in Seq(Flows)
    BY <2>1
  <2> QED BY <1>9, <2>2 DEF RunPosted
<1>10. ASSUME NEW f \in Flows, ServiceEnds(f) PROVE TypeOK'
  BY <1>10 DEF ServiceEnds
<1>11. ASSUME NEW f \in Flows, Stop(f) PROVE TypeOK'
  BY <1>11, FS_RemoveElement DEF Stop
<1>12. CASE StartPending
  <2>1. Head(pending) \in Flows /\ pending' \in Seq(Flows)
    BY <1>12 DEF StartPending
  <2>2. /\ services' \subseteq Flows /\ IsFiniteSet(services')
        /\ stage' \in [Flows -> Stages]
        /\ posted' \in [Contexts -> Seq(Flows)]
        /\ served' \in Seq(Flows)
    <3>1. CASE StartService(Head(pending))
      BY <1>1, <2>1, <3>1
    <3>2. CASE UNCHANGED <<services, stage, posted, served>>
      BY <3>2
    <3> QED BY <1>12, <3>1, <3>2 DEF StartPending
  <2> QED BY <1>12, <2>1, <2>2 DEF StartPending
<1>13. CASE StopReturns
  BY <1>13 DEF StopReturns
<1>14. CASE AcceptorStop
  BY <1>14 DEF AcceptorStop
<1>15. CASE StopContext
  BY <1>15, ContextsAssumption DEF StopContext
<1>16. CASE JoinThreads
  BY <1>16 DEF JoinThreads
<1>17. CASE UNCHANGED vars
  BY <1>17 DEF vars
<1> QED
  BY <1>2, <1>3, <1>4, <1>5, <1>6, <1>7, <1>8, <1>9, <1>10, <1>11, <1>12,
     <1>13, <1>14, <1>15, <1>16, <1>17
  DEF Next, AcceptorNext, HandlerNext, ShutdownNext

(* A step that neither services a connection nor ends a service, nor       *)
(* queues one, leaves the limit and the slots as they are.                 *)
LEMMA SlotsFrame ==
    ASSUME LimitRespected, NoIdleSlot, UNCHANGED <<services, pending, mutex>>
    PROVE  LimitRespected' /\ NoIdleSlot'
BY DEF LimitRespected, NoIdleSlot, HasRoom

(* The service limit holds after every step, and no slot is idle once the  *)
(* mutex is free again.                                                    *)
LEMMA SlotsStep ==
    ASSUME TypeOK, LimitRespected, NoIdleSlot, [Next]_vars
    PROVE  LimitRespected' /\ NoIdleSlot'
<1> USE DEF managerVars, acceptorVars, shutdownVars
<1>0. /\ Cardinality(services) \in Nat /\ ServiceLimit \in Nat
      /\ IsFiniteSet(services)
  BY FS_CardinalityType, LimitAssumption DEF TypeOK
<1>1. ASSUME NEW f, HasRoom, StartService(f) PROVE LimitRespected'
  <2>1. services' = services \union {f}
    BY <1>1 DEF StartService
  <2>2. /\ IsFiniteSet(services')
        /\ Cardinality(services') = IF f \in services THEN Cardinality(services) ELSE Cardinality(services) + 1
    BY <1>0, <2>1, FS_AddElement
  <2> QED BY <1>0, <1>1, <2>2 DEF HasRoom, LimitRespected
<1>2. CASE Start
  <2>1. CASE HasRoom /\ StartService(accFlow) /\ UNCHANGED pending
    <3>1. LimitRespected'
      BY <1>1, <2>1
    <3>2. pending = <<>>
      BY <1>2, <2>1 DEF Start, NoIdleSlot
    <3> QED BY <2>1, <3>1, <3>2 DEF NoIdleSlot
  <2>2. CASE ~HasRoom /\ UNCHANGED services
    BY <2>2 DEF LimitRespected, NoIdleSlot, HasRoom
  <2> QED BY <1>2, <2>1, <2>2 DEF Start
<1>3. ASSUME NEW f \in Flows, Stop(f) PROVE LimitRespected' /\ NoIdleSlot'
  <2>1. Cardinality(services') <= Cardinality(services) /\ Cardinality(services') \in Nat
    <3>1. services' = services \ {f}
      BY <1>3 DEF Stop
    <3>2. /\ IsFiniteSet(services')
          /\ Cardinality(services') = IF f \in services THEN Cardinality(services) - 1 ELSE Cardinality(services)
      BY <1>0, <3>1, FS_RemoveElement
    <3>3. Cardinality(services') \in Nat
      BY <3>2, FS_CardinalityType
    <3> QED BY <1>0, <3>2, <3>3
  <2>2. LimitRespected'
    BY <1>0, <2>1 DEF LimitRespected
  <2>3. mutex' # Unlocked
    BY <1>3, ContextFacts DEF Stop, TypeOK
  <2> QED BY <2>2, <2>3 DEF NoIdleSlot
<1>4. CASE StartPending
  <2>1. mutex' # Unlocked
    BY <1>4, ContextFacts DEF StartPending
  <2>2. LimitRespected'
    <3>1. CASE StartService(Head(pending))
      BY <1>1, <1>4, <3>1 DEF StartPending
    <3>2. CASE UNCHANGED services
      BY <3>2 DEF LimitRespected
    <3> QED BY <1>4, <3>1, <3>2 DEF StartPending
  <2> QED BY <2>1, <2>2 DEF NoIdleSlot
<1>5. CASE StopReturns
  BY <1>5 DEF StopReturns, NoIdleSlot, LimitRespected, HasRoom
<1>6. CASE \E f \in Flows : InitAccept(f)
  BY <1>6, SlotsFrame DEF InitAccept
<1>7. CASE InitAcceptAtBound \/ AcceptClient \/ AcceptError \/ Destroy \/ AfterStart
  BY <1>7, SlotsFrame DEF InitAcceptAtBound, AcceptClient, AcceptError, Destroy, AfterStart
<1>8. CASE \/ \E i \in Contexts : RunPosted(i)
           \/ \E f \in Flows : ServiceEnds(f)
  BY <1>8, SlotsFrame DEF RunPosted, ServiceEnds
<1>9. CASE ShutdownNext
  BY <1>9, SlotsFrame DEF ShutdownNext, AcceptorStop, StopContext, JoinThreads
<1>10. CASE UNCHANGED vars
  BY <1>10, SlotsFrame DEF vars
<1> QED
  BY <1>2, <1>3, <1>4, <1>5, <1>6, <1>7, <1>8, <1>9, <1>10
  DEF Next, AcceptorNext, HandlerNext

(***************************************************************************)
(* The flows: who owns them, in which order they are serviced, and which   *)
(* handlers refer to them.                                                 *)
(***************************************************************************)
Flowing == FirstComeFirstServed /\ Ownership /\ HandlersAlive /\ FlowStages

(* A step that touches no flow and leaves the acceptor's flow alone.       *)
LEMMA FlowingFrame ==
    ASSUME Flowing, UNCHANGED <<connections, pending, services, stage, context,
                                posted, accepted, served, accFlow>>,
           accPc' \in {"connected", "failed"} => accFlow # NoFlow,
           accFlow # NoFlow => accPc' \in {"accepting", "connected", "failed"}
    PROVE  Flowing'
BY DEF Flowing, FirstComeFirstServed, Ownership, HandlersAlive, FlowStages, HeldByAcceptor

(* start_service on a flow that waits: its handler joins the others.       *)
LEMMA StartServiceFacts ==
    ASSUME TypeOK, Flowing, NEW f \in Flows, stage[f] = "created",
           StartService(f), UNCHANGED context
    PROVE  /\ HandlersAlive'
           /\ services' = services \union {f}
           /\ Range(served)' = Range(served) \union {f}
           /\ \A g \in Flows : stage'[g] = IF g = f THEN "posted" ELSE stage[g]
<1>1. services' = services \union {f}
  BY DEF StartService
<1>2. Range(served)' = Range(served) \union {f}
  BY RangeOfAppend DEF StartService, TypeOK
<1>3. \A g \in Flows : stage'[g] = IF g = f THEN "posted" ELSE stage[g]
  BY DEF StartService, TypeOK
<1>4. HandlersAlive'
  <2> DEFINE i == context[f]
  <2>1. /\ i \in Contexts /\ posted[i] \in Seq(Flows)
        /\ posted'[i] = Append(posted[i], f)
        /\ \A j \in Contexts \ {i} : posted'[j] = posted[j]
    BY DEF StartService, TypeOK
  <2>2. \A g \in Flows : g \in services' <=> stage'[g] \in {"posted", "running", "disconnected"}
    BY <1>1, <1>3 DEF Flowing, HandlersAlive
  <2>3. \A j \in Contexts : \A k \in DOMAIN posted[j] : posted[j][k] # f
    BY DEF Flowing, HandlersAlive
  <2>4. ASSUME NEW j \in Contexts, NEW k \in DOMAIN posted'[j]
        PROVE  /\ stage'[posted'[j][k]] = "posted" /\ context'[posted'[j][k]] = j
               /\ \A l \in DOMAIN posted'[j] : posted'[j][l] = posted'[j][k] => l = k
    <3>1. CASE j # i
      <4>1. posted'[j] = posted[j] /\ posted[j] \in Seq(Flows)
        BY <2>1, <3>1 DEF TypeOK
      <4>2. posted[j][k] \in Flows
        BY <4>1
      <4> QED BY <1>3, <2>3, <4>1, <4>2 DEF Flowing, HandlersAlive
    <3>2. CASE j = i
      <4>1. /\ DOMAIN posted[i] = 1 .. Len(posted[i])
            /\ DOMAIN posted'[i] = 1 .. Len(posted[i]) + 1
            /\ posted'[i][Len(posted[i]) + 1] = f
            /\ \A l \in 1 .. Len(posted[i]) : posted'[i][l] = posted[i][l] /\ posted[i][l] \in Flows
            /\ Len(posted[i]) \in Nat
        BY <2>1
      <4>2. \A l \in 1 .. Len(posted[i]) :
               /\ stage[posted[i][l]] = "posted" /\ context[posted[i][l]] = i
               /\ \A m \in 1 .. Len(posted[i]) : posted[i][m] = posted[i][l] => m = l
               /\ posted[i][l] # f
        BY <2>1, <2>3, <4>1 DEF Flowing, HandlersAlive
      <4> HIDE DEF i
      <4>3. /\ stage'[f] = "posted" /\ context'[f] = i
        BY <1>3 DEF i
      <4>4. CASE k = Len(posted[i]) + 1
        <5>1. posted'[j][k] = f
          BY ONLY <3>2, <4>1, <4>4
        <5>2. ASSUME NEW l \in DOMAIN posted'[j], posted'[j][l] = f PROVE l = k
          BY ONLY <3>2, <4>1, <4>2, <4>4, <5>2
        <5> QED BY ONLY <3>2, <4>3, <5>1, <5>2
      <4>5. CASE k \in 1 .. Len(posted[i])
        <5>1. posted'[j][k] = posted[i][k] /\ posted[i][k] \in Flows /\ posted[i][k] # f
          BY ONLY <3>2, <4>1, <4>2, <4>5
        <5>2. stage'[posted[i][k]] = "posted" /\ context[posted[i][k]] = i
          BY ONLY <1>3, <4>2, <4>5, <5>1
        <5>3. ASSUME NEW l \in DOMAIN posted'[j], posted'[j][l] = posted'[j][k] PROVE l = k
          BY ONLY <3>2, <4>1, <4>2, <4>5, <5>1, <5>3
        <5>4. context' = context
          BY DEF StartService
        <5> QED BY ONLY <3>2, <5>1, <5>2, <5>3, <5>4
      <4> QED BY <3>2, <4>1, <4>4, <4>5
    <3> QED BY <3>1, <3>2
  <2> QED BY <2>2, <2>4 DEF HandlersAlive
<1> QED BY <1>1, <1>2, <1>3, <1>4

(* Every step of the acceptor, of the handlers and of the main thread      *)
(* keeps the flows in order.                                               *)
LEMMA FlowingStep ==
    ASSUME TypeOK, NoIdleSlot, Flowing, [Next]_vars
    PROVE  Flowing'
<1> USE DEF managerVars, acceptorVars, shutdownVars
<1>1. ASSUME NEW f \in Flows, InitAccept(f) PROVE Flowing'
  <2> USE DEF InitAccept
  <2>1. accFlow = NoFlow /\ f # NoFlow
    BY <1>1, FlowsAssumption DEF Flowing, FlowStages
  <2>2. f \notin connections /\ f \notin services /\ f \notin Range(pending) /\ f \notin Range(served)
    BY <1>1 DEF Flowing, FlowStages, HandlersAlive
  <2>3. \A g \in Flows : stage'[g] = IF g = f THEN "created" ELSE stage[g]
    BY <1>1 DEF TypeOK
  <2>4. \A g \in Flows : context'[g] = IF g = f THEN next ELSE context[g]
    BY <1>1 DEF TypeOK
  <2>5. FirstComeFirstServed'
    BY <1>1 DEF Flowing, FirstComeFirstServed
  <2>6. Ownership'
    BY <1>1, <2>1, <2>2 DEF Flowing, Ownership, HeldByAcceptor
  <2>7. HandlersAlive'
    <3>1. \A i \in Contexts : \A k \in DOMAIN posted[i] : posted[i][k] \in Flows /\ posted[i][k] # f
      BY <1>1 DEF TypeOK, Flowing, HandlersAlive
    <3> QED BY <1>1, <2>2, <2>3, <2>4, <3>1 DEF Flowing, HandlersAlive
  <2>8. FlowStages'
    <3>1. Range(pending) \subseteq Flows /\ Range(served) \subseteq Flows
      BY RangeOfSeq DEF TypeOK
    <3> QED BY <1>1, <2>1, <2>2, <2>3, <3>1 DEF TypeOK, Flowing, FlowStages, HeldByAcceptor
  <2> QED BY <2>5, <2>6, <2>7, <2>8 DEF Flowing
<1>2. CASE Destroy
  <2> USE DEF Destroy
  <2>1. accFlow \in Flows /\ accFlow # NoFlow /\ stage[accFlow] = "created"
    BY <1>2 DEF TypeOK, Flowing, FlowStages, HeldByAcceptor
  <2>2. accFlow \notin services /\ accFlow \notin Range(pending) /\ accFlow \notin Range(served)
    BY <2>1 DEF Flowing, FlowStages, HandlersAlive, Ownership, HeldByAcceptor
  <2>3. \A g \in Flows : stage'[g] = IF g = accFlow THEN "destroyed" ELSE stage[g]
    BY <1>2 DEF TypeOK
  <2>4. FirstComeFirstServed'
    BY <1>2 DEF Flowing, FirstComeFirstServed
  <2>5. Ownership'
    BY <1>2, <2>1, <2>2 DEF Flowing, Ownership, HeldByAcceptor
  <2>6. HandlersAlive'
    <3>1. \A i \in Contexts : \A k \in DOMAIN posted[i] : posted[i][k] \in Flows /\ posted[i][k] # accFlow
      BY <2>1 DEF TypeOK, Flowing, HandlersAlive
    <3> QED BY <1>2, <2>2, <2>3, <3>1 DEF Flowing, HandlersAlive
  <2>7. FlowStages'
    <3>1. Range(pending) \subseteq Flows /\ Range(served) \subseteq Flows
      BY RangeOfSeq DEF TypeOK
    <3> QED BY <1>2, <2>1, <2>2, <2>3, <3>1 DEF TypeOK, Flowing, FlowStages, HeldByAcceptor
  <2> QED BY <2>4, <2>5, <2>6, <2>7 DEF Flowing
<1>3. CASE Start
  <2> USE DEF Start
  <2>1. accFlow \in Flows /\ accFlow # NoFlow /\ stage[accFlow] = "created"
    BY <1>3 DEF TypeOK, Flowing, FlowStages, HeldByAcceptor
  <2>2. accFlow \notin services /\ accFlow \notin Range(pending) /\ accFlow \in connections
    BY <2>1 DEF Flowing, Ownership, HeldByAcceptor
  <2>3. pending \in Seq(Flows) /\ served \in Seq(Flows) /\ accepted = served \o pending
    BY DEF TypeOK, Flowing, FirstComeFirstServed
  <2>4. CASE HasRoom /\ StartService(accFlow) /\ UNCHANGED pending
    <3>1. /\ HandlersAlive'
          /\ services' = services \union {accFlow}
          /\ Range(served)' = Range(served) \union {accFlow}
          /\ \A g \in Flows : stage'[g] = IF g = accFlow THEN "posted" ELSE stage[g]
      BY <1>3, <2>1, <2>4, StartServiceFacts
    <3>2. pending = <<>> /\ pending' = <<>> /\ Range(pending) = {}
      BY <1>3, <2>4 DEF NoIdleSlot, Range
    <3>3. FirstComeFirstServed'
      <4>1. served' = Append(served, accFlow) /\ accepted' = Append(accepted, accFlow)
        BY <1>3, <2>4 DEF StartService
      <4>2. served \o <<>> = served
        BY <2>3, ConcatEmptySeq
      <4>3. served' \in Seq(Flows)
        <5>1. Append(served, accFlow) \in Seq(Flows)
          BY <2>1, <2>3, AppendProperties
        <5> QED BY <4>1, <5>1
      <4>4. served' \o <<>> = served'
        <5> DEFINE t == served'
        <5> HIDE DEF t
        <5>1. t \in Seq(Flows) => t \o <<>> = t
          BY ConcatEmptySeq
        <5> QED BY <4>3, <5>1 DEF t
      <4>5. accepted = served
        BY <2>3, <3>2, <4>2, Zenon
      <4>6. accepted' = served'
        BY <4>1, <4>5, Zenon
      <4>7. served' \o pending' = served'
        BY <3>2, <4>4, Zenon
      <4> QED BY <4>6, <4>7 DEF FirstComeFirstServed
    <3>4. Ownership'
      BY <1>3, <2>1, <2>2, <2>4, <3>1, <3>2 DEF Flowing, Ownership, HeldByAcceptor
    <3>5. FlowStages'
      <4>1. Range(served) \subseteq Flows
        BY <2>3, RangeOfSeq
      <4> QED BY <1>3, <2>1, <2>4, <3>1, <3>2, <4>1 DEF TypeOK, Flowing, FlowStages, HeldByAcceptor
    <3> QED BY <3>1, <3>3, <3>4, <3>5 DEF Flowing
  <2>5. CASE /\ ~HasRoom
             /\ pending' = Append(pending, accFlow)
             /\ UNCHANGED <<services, stage, posted, served>>
    <3>1. FirstComeFirstServed'
      <4>1. Append(served \o pending, accFlow) = served \o Append(pending, accFlow)
        BY <2>1, <2>3, ConcatAppend
      <4> QED BY <1>3, <2>3, <2>5, <4>1 DEF FirstComeFirstServed
    <3>2. Range(pending)' = Range(pending) \union {accFlow}
      BY <2>1, <2>3, <2>5, RangeOfAppend
    <3>3. Distinct(pending)'
      BY <2>1, <2>2, <2>3, <2>5, DistinctAppend DEF Flowing, FlowStages
    <3>4. Ownership'
      BY <1>3, <2>1, <2>2, <2>5, <3>2 DEF Flowing, Ownership, HeldByAcceptor
    <3>5. HandlersAlive'
      BY <1>3, <2>5 DEF Flowing, HandlersAlive
    <3>6. FlowStages'
      BY <1>3, <2>1, <2>5, <3>2, <3>3 DEF Flowing, FlowStages, HeldByAcceptor
    <3> QED BY <3>1, <3>4, <3>5, <3>6 DEF Flowing
  <2> QED BY <1>3, <2>4, <2>5
<1>4. ASSUME NEW i \in Contexts, RunPosted(i) PROVE Flowing'
  <2> USE DEF RunPosted
  <2> DEFINE f == Head(posted[i])
  <2>1. /\ posted[i] \in Seq(Flows) /\ posted[i] # <<>> /\ Distinct(posted[i])
        /\ f \in Flows /\ stage[f] = "posted"
    BY <1>4 DEF TypeOK, Flowing, HandlersAlive, Distinct
  <2>2. \A g \in Flows : stage'[g] = IF g = f THEN "running" ELSE stage[g]
    BY <1>4 DEF TypeOK
  <2>3. /\ posted'[i] = Tail(posted[i])
        /\ \A j \in Contexts \ {i} : posted'[j] = posted[j]
    BY <1>4 DEF TypeOK
  <2>4. /\ Range(posted'[i]) = Range(posted[i]) \ {f} /\ Distinct(posted'[i])
        /\ f \in Range(posted[i])
    BY <2>1, <2>3, RangeOfTail
  <2> HIDE DEF f
  <2>5. HandlersAlive'
    <3>1. ASSUME NEW j \in Contexts, NEW k \in DOMAIN posted'[j]
          PROVE  /\ stage'[posted'[j][k]] = "posted" /\ context'[posted'[j][k]] = j
                 /\ \A l \in DOMAIN posted'[j] : posted'[j][l] = posted'[j][k] => l = k
      <4>1. CASE j = i
        <5>1. posted'[i][k] \in Range(posted[i]) /\ posted'[i][k] # f /\ Range(posted[i]) \subseteq Flows
          BY <2>1, <2>4, <4>1, RangeOfSeq DEF Range
        <5>2. PICK m \in DOMAIN posted[i] : posted[i][m] = posted'[i][k]
          BY <5>1 DEF Range
        <5>3. stage[posted'[i][k]] = "posted" /\ context[posted'[i][k]] = i
          BY <5>2 DEF Flowing, HandlersAlive
        <5> QED BY <1>4, <2>2, <2>4, <4>1, <5>1, <5>3 DEF Distinct
      <4>2. CASE j # i
        <5>1. posted'[j] = posted[j] /\ posted[j] \in Seq(Flows) /\ posted[j][k] \in Flows
          BY <2>3, <4>2 DEF TypeOK
        <5>2. posted[j][k] # f
          <6>1. PICK m \in DOMAIN posted[i] : posted[i][m] = f
            BY <2>4 DEF Range
          <6> QED BY <4>2, <5>1, <6>1 DEF Flowing, HandlersAlive
        <5> QED BY <1>4, <2>2, <5>1, <5>2 DEF Flowing, HandlersAlive
      <4> QED BY <4>1, <4>2
    <3>2. \A g \in Flows : g \in services' <=> stage'[g] \in {"posted", "running", "disconnected"}
      BY <1>4, <2>1, <2>2 DEF Flowing, HandlersAlive
    <3> QED BY <3>1, <3>2 DEF HandlersAlive
  <2>6. FlowStages'
    <3>1. Range(pending) \subseteq Flows /\ Range(served) \subseteq Flows
      BY RangeOfSeq DEF TypeOK
    <3> QED BY <1>4, <2>1, <2>2, <3>1 DEF TypeOK, Flowing, FlowStages, HeldByAcceptor
  <2> QED BY <1>4, <2>5, <2>6 DEF Flowing, FirstComeFirstServed, Ownership, HeldByAcceptor
<1>5. ASSUME NEW f \in Flows, ServiceEnds(f) PROVE Flowing'
  <2> USE DEF ServiceEnds
  <2>1. \A g \in Flows : stage'[g] = IF g = f THEN "disconnected" ELSE stage[g]
    BY <1>5 DEF TypeOK
  <2>2. HandlersAlive'
    <3>1. \A i \in Contexts : \A k \in DOMAIN posted[i] : posted[i][k] \in Flows /\ posted[i][k] # f
      BY <1>5 DEF TypeOK, Flowing, HandlersAlive
    <3> QED BY <1>5, <2>1, <3>1 DEF Flowing, HandlersAlive
  <2>3. FlowStages'
    <3>1. Range(pending) \subseteq Flows /\ Range(served) \subseteq Flows
      BY RangeOfSeq DEF TypeOK
    <3> QED BY <1>5, <2>1, <3>1 DEF TypeOK, Flowing, FlowStages, HeldByAcceptor
  <2> QED BY <1>5, <2>2, <2>3 DEF Flowing, FirstComeFirstServed, Ownership, HeldByAcceptor
<1>6. ASSUME NEW f \in Flows, Stop(f) PROVE Flowing'
  <2> USE DEF Stop
  <2>1. \A g \in Flows : stage'[g] = IF g = f THEN "destroyed" ELSE stage[g]
    BY <1>6 DEF TypeOK
  <2>2. f \in services /\ f \notin Range(pending) /\ f \notin HeldByAcceptor
    BY <1>6 DEF Flowing, HandlersAlive, Ownership
  <2>3. HandlersAlive'
    <3>1. \A i \in Contexts : \A k \in DOMAIN posted[i] : posted[i][k] \in Flows /\ posted[i][k] # f
      BY <1>6 DEF TypeOK, Flowing, HandlersAlive
    <3> QED BY <1>6, <2>1, <3>1 DEF Flowing, HandlersAlive
  <2>4. FlowStages'
    <3>1. Range(pending) \subseteq Flows /\ Range(served) \subseteq Flows
      BY RangeOfSeq DEF TypeOK
    <3> QED BY <1>6, <2>1, <2>2, <3>1 DEF TypeOK, Flowing, FlowStages, HeldByAcceptor
  <2>5. Ownership'
    BY <1>6, <2>2 DEF Flowing, Ownership, HeldByAcceptor
  <2> QED BY <1>6, <2>3, <2>4, <2>5 DEF Flowing, FirstComeFirstServed
<1>7. CASE StartPending
  <2> DEFINE f == Head(pending)
  <2> USE DEF StartPending
  <2>1. /\ pending \in Seq(Flows) /\ pending # <<>> /\ served \in Seq(Flows)
        /\ f \in Flows
    BY <1>7 DEF TypeOK
  <2>2. /\ f \in Range(pending) /\ Range(pending)' = Range(pending) \ {f}
        /\ Distinct(pending)'
    BY <1>7, <2>1, RangeOfTail DEF Flowing, FlowStages
  <2>3. f \in connections /\ stage[f] = "created" /\ f \notin services /\ f \notin HeldByAcceptor
    BY <2>2 DEF Flowing, FlowStages, Ownership
  <2>4. StartService(f) /\ UNCHANGED context
    BY <1>7, <2>3
  <2>5. /\ HandlersAlive'
        /\ services' = services \union {f}
        /\ Range(served)' = Range(served) \union {f}
        /\ \A g \in Flows : stage'[g] = IF g = f THEN "posted" ELSE stage[g]
    BY <2>1, <2>3, <2>4, StartServiceFacts
  <2>6. FirstComeFirstServed'
    <3>1. served' = Append(served, f) /\ pending' = Tail(pending) /\ accepted' = accepted
      BY <1>7, <2>4 DEF StartService
    <3>2. Append(served, f) \o Tail(pending) = served \o pending
      BY <2>1, ConcatShift
    <3> QED BY <3>1, <3>2 DEF Flowing, FirstComeFirstServed
  <2> HIDE DEF f
  <2>7. Ownership'
    BY <1>7, <2>2, <2>3, <2>5 DEF Flowing, Ownership, HeldByAcceptor
  <2>8. FlowStages'
    <3>1. Range(pending) \subseteq Flows /\ Range(served) \subseteq Flows
      BY <2>1, RangeOfSeq
    <3> QED BY <1>7, <2>1, <2>2, <2>3, <2>5, <3>1 DEF TypeOK, Flowing, FlowStages, HeldByAcceptor
  <2> QED BY <2>5, <2>6, <2>7, <2>8 DEF Flowing
<1>8. CASE InitAcceptAtBound \/ AcceptClient \/ AcceptError \/ AfterStart
  <2>1. CASE InitAcceptAtBound
    BY <2>1 DEF InitAcceptAtBound, Flowing, FlowStages, FirstComeFirstServed, Ownership,
                HandlersAlive, HeldByAcceptor
  <2>2. CASE AcceptClient \/ AcceptError \/ AfterStart
    BY <2>2, FlowingFrame DEF AcceptClient, AcceptError, AfterStart, Flowing, FlowStages
  <2> QED BY <1>8, <2>1, <2>2
<1>9. CASE StopReturns \/ ShutdownNext \/ UNCHANGED vars
  BY <1>9, FlowingFrame
  DEF StopReturns, ShutdownNext, AcceptorStop, StopContext, JoinThreads, vars, Flowing, FlowStages
<1> QED
  BY <1>1, <1>2, <1>3, <1>4, <1>5, <1>6, <1>7, <1>8, <1>9
  DEF Next, AcceptorNext, HandlerNext

(***************************************************************************)
(* Stopping the server.                                                    *)
(***************************************************************************)

(* When the threads are joined, none of them is inside a handler, so no    *)
(* step of the manager is possible any more.                               *)
LEMMA QuietWhenJoined ==
    ASSUME TypeOK, Flowing, StoppedClock, joined, [Next]_vars
    PROVE  UNCHANGED <<managerVars, accPc, joined, stopped>>
<1> USE DEF managerVars, acceptorVars, shutdownVars
<1>1. /\ stopped = NumContexts /\ \A i \in Contexts : Idle(i) /\ ~CanRun(i)
  BY ContextsAssumption DEF StoppedClock, CanRun, Contexts
<1>2. mutex \notin Contexts /\ accPc \in {"accepting", "closed"}
  BY <1>1, ContextFacts DEF Idle
<1>3. \A f \in Flows : stage[f] # "disconnected"
  BY <1>1 DEF Idle, TypeOK
<1>4. ~AcceptorNext
  BY <1>1, <1>2, ContextFacts
  DEF AcceptorNext, InitAccept, InitAcceptAtBound, AcceptClient, AcceptError, Destroy, Start, AfterStart
<1>5. ~HandlerNext
  BY <1>1, <1>2, <1>3, ContextFacts
  DEF HandlerNext, RunPosted, ServiceEnds, Stop, StartPending, StopReturns, TypeOK
<1>6. CASE ShutdownNext
  <2>1. ~StopContext /\ ~JoinThreads
    <3>1. stopped = NumContexts /\ NumContexts \in Nat
      BY <1>1, ContextsAssumption
    <3>2. ~(stopped < NumContexts)
      BY <3>1
    <3> QED BY <3>2 DEF StopContext, JoinThreads
  <2> QED BY <1>6, <2>1 DEF ShutdownNext, AcceptorStop
<1>7. CASE UNCHANGED vars
  BY <1>7 DEF vars
<1> QED BY <1>4, <1>5, <1>6, <1>7 DEF Next

(* The flag of acceptor::stop, the clients accepted after it, and the join *)
(* stay consistent.                                                        *)
LEMMA StoppedStep ==
    ASSUME TypeOK, Flowing, AtMostOneLateClient, StoppedClock, [Next]_vars
    PROVE  AtMostOneLateClient' /\ StoppedClock'
<1> USE DEF managerVars, acceptorVars, shutdownVars
<1>1. ASSUME joined, joined' PROVE stopped' = NumContexts /\ \A i \in Contexts : Idle(i)'
  <2>1. UNCHANGED <<managerVars, accPc, joined, stopped>>
    BY <1>1, QuietWhenJoined
  <2> QED BY <1>1, <2>1 DEF StoppedClock, Idle
<1>2. ASSUME ~joined, joined' PROVE stopped' = NumContexts /\ \A i \in Contexts : Idle(i)'
  <2>1. JoinThreads
    BY <1>2
    DEF Next, AcceptorNext, HandlerNext, ShutdownNext, vars, InitAccept, InitAcceptAtBound,
        AcceptClient, AcceptError, Destroy, Start, AfterStart, RunPosted, ServiceEnds, Stop,
        StartPending, StopReturns, AcceptorStop, StopContext
  <2> QED BY <2>1 DEF JoinThreads, Idle
<1>3. /\ late \in Nat /\ late <= 1 /\ is_stopped \in BOOLEAN
      /\ ~is_stopped => late = 0 /\ stopped = 0 /\ accPc # "closed"
      /\ late # 0 => accPc \in {"connected", "started", "closed"}
  BY DEF TypeOK, AtMostOneLateClient, StoppedClock
<1>4. /\ late' <= 1
      /\ ~is_stopped' => late' = 0 /\ stopped' = 0 /\ accPc' # "closed"
      /\ late' # 0 => accPc' \in {"connected", "started", "closed"}
  <2>1. CASE AcceptClient
    BY <1>3, <2>1 DEF AcceptClient
  <2>2. CASE AfterStart
    BY <1>3, <2>2 DEF AfterStart
  <2>3. CASE Start
    BY <1>3, <2>3 DEF Start
  <2>4. CASE (\E f \in Flows : InitAccept(f)) \/ InitAcceptAtBound \/ AcceptError \/ Destroy
    BY <1>3, <2>4 DEF InitAccept, InitAcceptAtBound, AcceptError, Destroy
  <2>5. CASE HandlerNext \/ UNCHANGED vars
    BY <1>3, <2>5 DEF HandlerNext, RunPosted, ServiceEnds, Stop, StartPending, StopReturns, vars
  <2>6. CASE ShutdownNext
    BY <1>3, <2>6 DEF ShutdownNext, AcceptorStop, StopContext, JoinThreads
  <2> QED BY <2>1, <2>2, <2>3, <2>4, <2>5, <2>6 DEF Next, AcceptorNext
<1> QED BY <1>1, <1>2, <1>4 DEF AtMostOneLateClient, StoppedClock

(***************************************************************************)
(* The theorems.                                                           *)
(***************************************************************************)

(* The inductive invariant holds in every reachable state.                 *)
THEOREM Invariant == Spec => []IInv
<1>1. IInv /\ [Next]_vars => IInv'
  <2> SUFFICES ASSUME IInv, [Next]_vars PROVE IInv'
    OBVIOUS
  <2> USE DEF IInv, Flowing
  <2>1. TypeOK'
    BY TypeStep
  <2>2. LimitRespected' /\ NoIdleSlot'
    BY SlotsStep
  <2>3. Flowing'
    BY FlowingStep
  <2>4. AtMostOneLateClient' /\ StoppedClock'
    BY StoppedStep
  <2> QED BY <2>1, <2>2, <2>3, <2>4
<1> QED BY InitInvariant, <1>1, PTL DEF Spec

(* Every variable keeps its type.                                          *)
THEOREM TypeCorrect == Spec => []TypeOK
<1>1. IInv => TypeOK
  BY DEF IInv
<1> QED BY Invariant, <1>1, PTL

(* Never more handlers than the service limit, and never a connection that *)
(* waits beside a free slot while nobody is at work on the queue.          *)
THEOREM LimitedService == Spec => [](LimitRespected /\ NoIdleSlot)
<1>1. IInv => LimitRespected /\ NoIdleSlot
  BY DEF IInv
<1> QED BY Invariant, <1>1, PTL

(* Connections are serviced in the order in which they were accepted.      *)
THEOREM ServedInOrder == Spec => []FirstComeFirstServed
<1>1. IInv => FirstComeFirstServed
  BY DEF IInv
<1> QED BY Invariant, <1>1, PTL

(* No pending id or accept outlives its flow, and no flow is leaked.       *)
THEOREM NothingDangles == Spec => []Ownership
<1>1. IInv => Ownership
  BY DEF IInv
<1> QED BY Invariant, <1>1, PTL

(* What start_service posts finds its handler: stop erases none that is    *)
(* posted or running.                                                      *)
THEOREM PostedHandlersLive == Spec => []HandlersAlive
<1>1. IInv => HandlersAlive
  BY DEF IInv
<1> QED BY Invariant, <1>1, PTL

(* After acceptor::stop at most one more client is accepted.               *)
THEOREM OneLateClient == Spec => []AtMostOneLateClient
<1>1. IInv => AtMostOneLateClient
  BY DEF IInv
<1> QED BY Invariant, <1>1, PTL

(* Once the threads are joined the manager never changes.                  *)
THEOREM QuietAfterShutdown == Spec => QuietAfterJoin
<1>1. IInv /\ [Next]_vars => [joined => UNCHANGED managerVars]_vars
  BY QuietWhenJoined DEF IInv, Flowing
<1> QED BY Invariant, <1>1, PTL DEF Spec, QuietAfterJoin

(***************************************************************************)
(* The manager implements the service pool.                                *)
(***************************************************************************)

(* A step in which the queue, the handlers and the history of services     *)
(* stay the same is a stuttering step of the pool.                         *)
LEMMA PoolStutter ==
    ASSUME UNCHANGED <<pending, services, served>>
    PROVE  UNCHANGED Pool!vars
BY DEF Pool!vars

(* connection_manager::start is an arrival, an iteration of                *)
(* start_pending_connections an admission, the beginning of                *)
(* connection_manager::stop the end of a service; every other step is      *)
(* invisible.                                                              *)
LEMMA PoolStep ==
    ASSUME IInv, [Next]_vars
    PROVE  [Pool!Next]_(Pool!vars)
<1> USE DEF IInv, managerVars, acceptorVars, shutdownVars
<1>0. Flowing
  BY DEF Flowing
<1>a. Pool!HasRoom <=> HasRoom
  BY DEF Pool!HasRoom, HasRoom, Pool!Cardinality, Cardinality
<1>b. Pool!Range(pending) = Range(pending)
  BY DEF Pool!Range, Range
<1>1. CASE Start
  <2> USE DEF Start
  <2>1. /\ accFlow \in Flows /\ stage[accFlow] = "created"
        /\ accFlow \notin services /\ accFlow \notin Range(pending)
    BY <1>1 DEF TypeOK, FlowStages, Ownership, HeldByAcceptor
  <2>2. accFlow \notin Range(served)
    BY <2>1 DEF FlowStages
  <2>3. CASE HasRoom /\ StartService(accFlow) /\ UNCHANGED pending
    <3>1. services' = services \union {accFlow} /\ Range(served)' = Range(served) \union {accFlow}
      BY <1>0, <1>1, <2>1, <2>3, StartServiceFacts
    <3>2. pending = <<>> /\ pending' = pending
      BY <1>1, <2>3 DEF NoIdleSlot
    <3>3. Range(served)' \ services' = Range(served) \ services
      BY <2>2, <3>1
    <3>4. Pool!Arrive(accFlow)
      BY <1>a, <1>b, <2>1, <2>2, <2>3, <3>1, <3>2, <3>3 DEF Pool!Arrive
    <3> QED BY <2>1, <3>4 DEF Pool!Next
  <2>4. CASE ~HasRoom /\ pending' = Append(pending, accFlow) /\ UNCHANGED <<services, served>>
    <3>1. Pool!Arrive(accFlow)
      BY <1>a, <1>b, <2>1, <2>2, <2>4 DEF Pool!Arrive
    <3> QED BY <2>1, <3>1 DEF Pool!Next
  <2> QED BY <1>1, <2>3, <2>4
<1>2. CASE StartPending
  <2> DEFINE f == Head(pending)
  <2>1. /\ pending # <<>> /\ HasRoom /\ f \in Flows /\ pending \in Seq(Flows)
        /\ pending' = Tail(pending)
    BY <1>2 DEF StartPending, TypeOK
  <2>2. f \in Range(pending)
    BY <2>1, RangeOfTail DEF FlowStages
  <2>3. f \in connections /\ stage[f] = "created" /\ f \notin services /\ f \notin Range(served)
    BY <2>2 DEF FlowStages, Ownership
  <2>4. StartService(f) /\ UNCHANGED context
    BY <1>2, <2>3 DEF StartPending
  <2>5. services' = services \union {f} /\ Range(served)' = Range(served) \union {f}
    BY <1>0, <2>1, <2>3, <2>4, StartServiceFacts
  <2>6. Pool!Admit
    BY <1>a, <2>1, <2>3, <2>5 DEF Pool!Admit
  <2> QED BY <2>6 DEF Pool!Next
<1>3. ASSUME NEW f \in Flows, Stop(f) PROVE Pool!Next
  <2>1. f \in services /\ f \in Range(served)
    BY <1>3 DEF Stop, HandlersAlive, FlowStages
  <2>2. Pool!Finish(f)
    BY <1>3, <2>1 DEF Stop, Pool!Finish
  <2> QED BY <2>2 DEF Pool!Next
<1>4. CASE \/ \E f \in Flows : InitAccept(f)
           \/ InitAcceptAtBound \/ AcceptClient \/ AcceptError \/ Destroy \/ AfterStart
  BY <1>4, PoolStutter DEF InitAccept, InitAcceptAtBound, AcceptClient, AcceptError, Destroy, AfterStart
<1>5. CASE \/ \E i \in Contexts : RunPosted(i)
           \/ \E f \in Flows : ServiceEnds(f)
           \/ StopReturns
  BY <1>5, PoolStutter DEF RunPosted, ServiceEnds, StopReturns
<1>6. CASE ShutdownNext \/ UNCHANGED vars
  BY <1>6, PoolStutter DEF ShutdownNext, AcceptorStop, StopContext, JoinThreads, vars
<1> QED
  BY <1>1, <1>2, <1>3, <1>4, <1>5, <1>6 DEF Next, AcceptorNext, HandlerNext

(* Every behaviour of the threads is a behaviour of the pool.              *)
THEOREM Refinement == Spec => Pool!SafeSpec
<1>1. Init => Pool!Init
  <2> SUFFICES ASSUME Init PROVE Pool!Init
    OBVIOUS
  <2>1. Range(served) = {}
    BY DEF Init, Range
  <2> QED BY <2>1 DEF Init, Pool!Init
<1>2. IInv /\ [Next]_vars => [Pool!Next]_(Pool!vars)
  BY PoolStep
<1> QED BY Invariant, <1>1, <1>2, PTL DEF Spec, Pool!SafeSpec
==============================================================================
