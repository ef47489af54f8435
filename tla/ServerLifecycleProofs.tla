------------------------ MODULE ServerLifecycleProofs ------------------------
(***************************************************************************)
(* Proofs about ServerLifecycle: however many signals are sent, and with   *)
(* or without the command service and spurious wakeups, the program only   *)
(* exits clean, and no handler outlives its signal_handler.                *)
(***************************************************************************)
EXTENDS ServerLifecycle, TLAPS

(***************************************************************************)
(* The inductive invariant.                                                *)
(***************************************************************************)

(* needs_cleanup_ is set while the threads run, and the signals of the     *)
(* server exist as long; those of the logs command while it runs.          *)
Phases ==
    /\ main = "start" <=> contexts = "ready"
    /\ needs_cleanup <=> contexts = "running"
    /\ set["server"].exists <=> contexts = "running"
    /\ set["logs"].exists <=> main \in {"before_logs", "in_logs", "after_logs"}
    /\ main = "exited" => contexts = "joined"
    /\ contexts = "joined" => main \in {"loop", "await_stop", "cleanup", "exited"}
    /\ contexts = "joined" /\ main # "exited" => ~is_running
    /\ main = "stopping" => ~is_running

(* A handler that is queued or running was given by a set that has stopped *)
(* waiting; the one of the server runs only while its threads do, and has  *)
(* cleared is_running_; the logs command goes on when its handler has run. *)
Handlers ==
    /\ \A o \in Owners : set[o].waiting => set[o].exists
    /\ set["server"].waiting => handler["server"] = "none"
    /\ set["logs"].waiting => handler["logs"] = "none" \/ woken
    /\ contexts = "ready" => \A o \in Owners : handler[o] = "none"
    /\ handler["server"] = "running" => contexts = "running" /\ ~is_running
    /\ handler["logs"] # "running"
    /\ handler["logs"] = "queued" => set["logs"].exists \/ woken \/ contexts # "running"
    /\ main = "after_logs" /\ ~woken => handler["logs"] = "none" /\ ~set["logs"].waiting

(* No set keeps more signals than were sent. *)
Kept == \A o \in Owners : set[o].kept <= signals

IInv == TypeOK /\ Phases /\ Handlers /\ Kept /\ NotBeforeStop

(* What a signal_set may be. *)
Sets == [exists : BOOLEAN, waiting : BOOLEAN, kept : 0 .. MaxSignals]

(* What a handler or a signal does to a signal_set: its wait ends or begins, *)
(* a signal is kept when one is sent, a kept signal is given to a wait.    *)
LEMMA WaitChanges ==
    ASSUME NEW r \in Sets, NEW b \in BOOLEAN
    PROVE  [r EXCEPT !.waiting = b] \in Sets /\ [r EXCEPT !.waiting = b].kept = r.kept
BY DEF Sets

LEMMA SignalKept ==
    ASSUME MaxSignals \in Nat, NEW r \in Sets, NEW m \in 0 .. MaxSignals,
           m + 1 <= MaxSignals, r.kept <= m
    PROVE  [r EXCEPT !.kept = @ + 1] \in Sets /\ [r EXCEPT !.kept = @ + 1].kept <= m + 1
BY DEF Sets

LEMMA SignalGiven ==
    ASSUME MaxSignals \in Nat, NEW r \in Sets, NEW m \in 0 .. MaxSignals,
           r.kept > 0, r.kept <= m
    PROVE  [r EXCEPT !.kept = @ - 1] \in Sets /\ [r EXCEPT !.kept = @ - 1].kept <= m
BY DEF Sets

(* The program starts in a state that satisfies the invariant. *)
LEMMA InitInvariant == Init => IInv
<1> SUFFICES ASSUME Init PROVE IInv
  OBVIOUS
<1> USE LifecycleAssumption DEF Init, Owners
<1>1. NoSet \in Sets
  BY DEF NoSet, Sets
<1>2. TypeOK
  <2>1. set \in [Owners -> Sets]
    BY <1>1
  <2>2. handler \in [Owners -> {"none", "queued", "running"}]
    OBVIOUS
  <2>3. signals \in 0 .. MaxSignals
    OBVIOUS
  <2>4. main \in Mains /\ contexts \in {"ready", "running", "joined"}
    BY DEF Mains
  <2>5. /\ is_running \in BOOLEAN /\ needs_cleanup \in BOOLEAN
        /\ paused \in BOOLEAN /\ asked \in BOOLEAN /\ woken \in BOOLEAN
    OBVIOUS
  <2>6. set \in [Owners -> [exists : BOOLEAN, waiting : BOOLEAN, kept : 0 .. MaxSignals]]
    BY <2>1 DEF Sets
  <2> HIDE DEF Init, Owners
  <2> QED BY <2>2, <2>3, <2>4, <2>5, <2>6 DEF TypeOK
<1>3. Phases /\ NotBeforeStop
  BY DEF Phases, NotBeforeStop, NoSet
<1>4. Handlers
  BY DEF Handlers, NoSet
<1>5. Kept
  BY DEF Kept, NoSet
<1> QED BY <1>2, <1>3, <1>4, <1>5 DEF IInv

(* The steps of the main thread outside of cleanup keep the invariant. *)
LEMMA MainStep ==
    ASSUME IInv,
           \/ Start \/ Loop \/ OtherCommand \/ EndOfInput \/ StopCommand
           \/ LogsCommand \/ LogsWait \/ LogsBlock \/ LogsReturn
           \/ AwaitStop \/ Block \/ SpuriousWakeup
    PROVE  IInv'
<1> USE LifecycleAssumption DEF IInv, TypeOK, Phases, Handlers, Kept, NotBeforeStop, Owners,
        NoSet, Waiting, Mains, At, history
<1>1. CASE Start
  <2>1. TypeOK'
    BY <1>1 DEF Start
  <2>2. Phases' /\ NotBeforeStop' /\ Kept'
    BY <1>1 DEF Start
  <2>3. Handlers'
    BY <1>1 DEF Start
  <2> QED BY <2>1, <2>2, <2>3
<1>2. CASE Loop \/ OtherCommand \/ EndOfInput
  BY <1>2 DEF Loop, OtherCommand, EndOfInput
<1>3. CASE StopCommand
  BY <1>3 DEF StopCommand
<1>4. CASE LogsCommand
  BY <1>4 DEF LogsCommand
<1>5. CASE LogsWait
  <2>1. TypeOK'
    BY <1>5 DEF LogsWait
  <2>2. Phases' /\ NotBeforeStop' /\ Kept'
    BY <1>5 DEF LogsWait
  <2>3. Handlers'
    BY <1>5 DEF LogsWait
  <2> QED BY <2>1, <2>2, <2>3
<1>6. CASE LogsBlock
  BY <1>6 DEF LogsBlock
<1>7. CASE LogsReturn
  <2>1. NoSet \in Sets
    BY DEF Sets
  <2>2. TypeOK'
    BY <1>7, <2>1 DEF LogsReturn, Sets
  <2>3. Phases' /\ NotBeforeStop' /\ Kept'
    BY <1>7 DEF LogsReturn
  <2>4. Handlers'
    BY <1>7 DEF LogsReturn
  <2> QED BY <2>2, <2>3, <2>4
<1>8. CASE AwaitStop \/ Block
  BY <1>8 DEF AwaitStop, Block
<1>9. CASE SpuriousWakeup
  BY <1>9 DEF SpuriousWakeup
<1> QED BY <1>1, <1>2, <1>3, <1>4, <1>5, <1>6, <1>7, <1>8, <1>9

(* cleanup joins the threads, so the handlers and the signals of the       *)
(* server end together, and does nothing the second time.                  *)
LEMMA CleanupStep == ASSUME IInv, NEW here \in Mains, Cleanup(here) PROVE IInv'
<1> USE LifecycleAssumption DEF IInv, TypeOK, Phases, Handlers, Kept, NotBeforeStop, Owners,
        NoSet, Mains, Cleanup, AfterCleanup, history
<1>1. CASE needs_cleanup
  <2>1. NoSet \in Sets
    BY DEF Sets
  <2>2. TypeOK'
    <3>1. set' = [set EXCEPT !["server"] = NoSet] /\ set \in [Owners -> Sets]
      BY <1>1 DEF Sets
    <3>2. set' \in [Owners -> Sets]
      BY ONLY <2>1, <3>1
    <3>3. /\ main' \in Mains /\ needs_cleanup' = FALSE /\ contexts' = "joined"
          /\ UNCHANGED <<is_running, handler, paused, signals, asked, woken>>
      BY <1>1
    <3> QED BY ONLY <3>2, <3>3, TypeOK DEF TypeOK, Sets
  <2>3. Phases'
    BY <1>1
  <2>4. Handlers'
    BY <1>1
  <2>5. Kept' /\ NotBeforeStop'
    BY <1>1
  <2> QED BY <2>2, <2>3, <2>4, <2>5
<1>2. CASE ~needs_cleanup
  BY <1>2
<1> QED BY <1>1, <1>2

(* A signal and the handlers it causes keep the invariant. *)
LEMMA SignalStep == ASSUME IInv, SendSignal \/ HandlerNext PROVE IInv'
<1> USE LifecycleAssumption DEF IInv, TypeOK, Phases, Handlers, Kept, NotBeforeStop, Owners,
        Mains, Runs, history
<1>1. CASE SendSignal
  <2>1. ASSUME NEW o \in Owners
        PROVE  set'[o] \in Sets /\ set'[o].kept <= signals'
    <3>1. set[o] \in Sets
      BY DEF Sets
    <3>2. /\ signals \in 0 .. MaxSignals /\ signals + 1 <= MaxSignals
          /\ set[o].kept <= signals /\ signals' = signals + 1
      BY <1>1 DEF SendSignal
    <3>3. CASE set'[o] = set[o]
      BY <3>1, <3>2, <3>3 DEF Sets
    <3>4. CASE set'[o] = [set[o] EXCEPT !.waiting = FALSE]
      <4>1. set'[o] \in Sets /\ set'[o].kept = set[o].kept
        BY ONLY <3>1, <3>4, WaitChanges
      <4> QED BY ONLY <4>1, <3>1, <3>2, LifecycleAssumption DEF Sets
    <3>5. CASE set'[o] = [set[o] EXCEPT !.kept = @ + 1]
      BY ONLY <3>1, <3>2, <3>5, SignalKept, LifecycleAssumption
    <3>6. \/ set'[o] = set[o]
          \/ set'[o] = [set[o] EXCEPT !.waiting = FALSE]
          \/ set'[o] = [set[o] EXCEPT !.kept = @ + 1]
      BY <1>1 DEF SendSignal
    <3> QED BY ONLY <3>3, <3>4, <3>5, <3>6
  <2>2. TypeOK' /\ Kept'
    BY <1>1, <2>1 DEF SendSignal, Sets
  <2>3. Phases' /\ NotBeforeStop'
    BY <1>1 DEF SendSignal
  <2>4. Handlers'
    BY <1>1 DEF SendSignal
  <2> QED BY <2>2, <2>3, <2>4
<1>2. CASE PausedSignal
  <2>1. set'["server"] \in Sets /\ set'["server"].kept <= signals'
    <3>1. set["server"] \in Sets
      BY DEF Sets
    <3>2. signals \in 0 .. MaxSignals /\ set["server"].kept <= signals /\ signals' = signals
      BY <1>2 DEF PausedSignal
    <3>3. CASE /\ set["server"].kept > 0
               /\ set'["server"] = [set["server"] EXCEPT !.kept = @ - 1]
      BY ONLY <3>1, <3>2, <3>3, SignalGiven, LifecycleAssumption
    <3>4. CASE set'["server"] = [set["server"] EXCEPT !.waiting = TRUE]
      <4>1. set'["server"] \in Sets /\ set'["server"].kept = set["server"].kept
        BY ONLY <3>1, <3>4, WaitChanges
      <4> QED BY ONLY <4>1, <3>1, <3>2, LifecycleAssumption DEF Sets
    <3>5. \/ /\ set["server"].kept > 0
             /\ set'["server"] = [set["server"] EXCEPT !.kept = @ - 1]
          \/ set'["server"] = [set["server"] EXCEPT !.waiting = TRUE]
      BY <1>2 DEF PausedSignal
    <3> QED BY ONLY <3>3, <3>4, <3>5
  <2>2. TypeOK' /\ Kept'
    BY <1>2, <2>1 DEF PausedSignal, Sets
  <2>3. Phases' /\ NotBeforeStop'
    BY <1>2 DEF PausedSignal
  <2>4. Handlers'
    BY <1>2 DEF PausedSignal
  <2> QED BY <2>2, <2>3, <2>4
<1>3. CASE SignalStop
  BY <1>3 DEF SignalStop
<1>4. CASE Unblock
  BY <1>4 DEF Unblock
<1>5. CASE UnblockLogs
  BY <1>5 DEF UnblockLogs
<1> QED BY <1>1, <1>2, <1>3, <1>4, <1>5 DEF HandlerNext

(***************************************************************************)
(* The theorems.                                                           *)
(***************************************************************************)

(* The inductive invariant holds in every reachable state.                 *)
THEOREM LifecycleInvariant == Spec => []IInv
<1>1. IInv /\ [Next]_vars => IInv'
  <2> SUFFICES ASSUME IInv, [Next]_vars PROVE IInv'
    OBVIOUS
  <2>1. CASE UNCHANGED vars
    BY <2>1 DEF IInv, TypeOK, Phases, Handlers, Kept, NotBeforeStop, vars, history
  <2>2. CASE Next
    BY <2>2, MainStep, CleanupStep, SignalStep DEF Next, MainNext
  <2> QED BY <2>1, <2>2
<1> QED BY InitInvariant, <1>1, PTL DEF Spec

(* The program only exits with its io_context threads joined, cleanup done *)
(* and no handler running (server.cpp, stop, signal_stop and cleanup).     *)
THEOREM CleanExit == Spec => []ExitIsClean
<1>1. IInv => ExitIsClean
  BY DEF IInv, TypeOK, Phases, Handlers, ExitIsClean, Owners
<1> QED BY LifecycleInvariant, <1>1, PTL

(* No completion of a signal_set runs after its signal_handler is gone,    *)
(* unless block() has returned spuriously in the logs command.             *)
THEOREM HandlersEndFirst == Spec => []HandlersOutlived
<1>1. IInv => HandlersOutlived
  BY DEF IInv, TypeOK, Phases, Handlers, HandlersOutlived, Owners, Runs
<1> QED BY LifecycleInvariant, <1>1, PTL

(* await_stop does not clean up a server that runs, unless block() has     *)
(* returned spuriously.                                                    *)
THEOREM StopBeforeCleanup == Spec => []NotBeforeStop
<1>1. IInv => NotBeforeStop
  BY DEF IInv
<1> QED BY LifecycleInvariant, <1>1, PTL
==============================================================================
