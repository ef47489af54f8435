--------------------------- MODULE ServerLifecycle ---------------------------
(***************************************************************************)
(* How the program ends: main, server::start, stop, await_stop and         *)
(* cleanup, the command loop with the commands that stop the server or     *)
(* wait for Ctrl+C, signal_handler, and thread_blocker, which is a         *)
(* condition variable without a predicate.                                 *)
(*                                                                         *)
(* The main thread runs the commands; the handlers of the two signal sets, *)
(* the server's and that of the logs command, run on io_context threads.   *)
(* A signal that finds no wait is kept by its signal_set and given to the  *)
(* next one.                                                               *)
(***************************************************************************)
EXTENDS Naturals

CONSTANTS
    Interactive,    \* options.run_interactive: main runs the command service
    Spurious,       \* condition_variable::wait may return without a notification
    MaxSignals      \* bound: signals the user sends

ASSUME LifecycleAssumption ==
    Interactive \in BOOLEAN /\ Spurious \in BOOLEAN /\ MaxSignals \in Nat

VARIABLES
    main,           \* where the main thread is
    is_running,     \* server::is_running_
    needs_cleanup,  \* server::needs_cleanup_
    contexts,       \* the io_contexts: "ready", "running", "joined"
    set,            \* each signal_set: does it exist, is a wait pending, signals kept
    handler,        \* the handler of each signal set: "none", "queued", "running"
    paused,         \* signal_handler::paused_ of the server's signals
    signals,        \* history: signals sent
    asked,          \* history: the user has asked for the end of the server
    woken           \* history: a wait has returned without a notification

history == <<signals, asked, woken>>
vars == <<main, is_running, needs_cleanup, contexts, set, handler, paused, history>>

Owners == {"server", "logs"}

NoSet   == [exists |-> FALSE, waiting |-> FALSE, kept |-> 0]
Waiting == [exists |-> TRUE, waiting |-> TRUE, kept |-> 0]

Mains == {"start", "loop", "reading", "stopping", "logs", "before_logs", "in_logs", "after_logs",
          "await_stop", "before_block", "blocked", "cleanup", "joining", "exited"}

Init ==
    /\ main = "start"
    /\ is_running = FALSE /\ needs_cleanup = FALSE
    /\ contexts = "ready"
    /\ set = [o \in Owners |-> NoSet]
    /\ handler = [o \in Owners |-> "none"]
    /\ paused = FALSE
    /\ signals = 0 /\ asked = FALSE /\ woken = FALSE

(***************************************************************************)
(* The main thread.                                                        *)
(***************************************************************************)

At(here, there) == main = here /\ main' = there

(* server::start. *)
Start ==
    /\ At("start", IF Interactive THEN "loop" ELSE "await_stop")
    /\ is_running' = TRUE /\ needs_cleanup' = TRUE
    /\ set' = [set EXCEPT !["server"] = Waiting]
    /\ contexts' = "running"
    /\ UNCHANGED <<handler, paused, history>>

(* command_loop tests running(). *)
Loop ==
    /\ At("loop", IF is_running THEN "reading" ELSE "await_stop")
    /\ UNCHANGED <<is_running, needs_cleanup, contexts, set, handler, paused, history>>

(* Any command but stop and logs; a signal interrupts the read, or the     *)
(* input is at its end.                                                    *)
OtherCommand ==
    /\ At("reading", "loop")
    /\ UNCHANGED <<is_running, needs_cleanup, contexts, set, handler, paused, history>>

EndOfInput ==
    /\ At("reading", "await_stop")
    /\ UNCHANGED <<is_running, needs_cleanup, contexts, set, handler, paused, history>>

(* Mutant: stop() does not clear is_running_. *)
StopCommandRunsOn ==
    /\ At("reading", "stopping")
    /\ asked' = TRUE
    /\ UNCHANGED <<is_running, needs_cleanup, contexts, set, handler, paused, signals, woken>>

(* The command stop: server::stop up to cleanup. *)
StopCommand ==
    /\ At("reading", "stopping")
    /\ is_running' = FALSE
    /\ asked' = TRUE
    /\ UNCHANGED <<needs_cleanup, contexts, set, handler, paused, signals, woken>>

(* The command logs: the server's signals are paused, ... *)
LogsCommand ==
    /\ At("reading", "logs")
    /\ paused' = TRUE
    /\ UNCHANGED <<is_running, needs_cleanup, contexts, set, handler, history>>

(* ... a signal set of its own is waited for, ... *)
LogsWait ==
    /\ At("logs", "before_logs")
    /\ set' = [set EXCEPT !["logs"] = Waiting]
    /\ UNCHANGED <<is_running, needs_cleanup, contexts, handler, paused, history>>

(* ... and its handler. *)
LogsBlock ==
    /\ At("before_logs", "in_logs")
    /\ UNCHANGED <<is_running, needs_cleanup, contexts, set, handler, paused, history>>

(* The signals of the command are destroyed, which cancels the wait, and   *)
(* those of the server are unpaused.                                       *)
LogsReturn ==
    /\ At("after_logs", "loop")
    /\ set' = [set EXCEPT !["logs"] = NoSet]
    /\ paused' = FALSE
    /\ UNCHANGED <<is_running, needs_cleanup, contexts, handler, history>>

(* Mutant: await_stop does not look at is_running_. *)
AwaitNothing ==
    /\ At("await_stop", "cleanup")
    /\ UNCHANGED <<is_running, needs_cleanup, contexts, set, handler, paused, history>>

(* await_stop. *)
AwaitStop ==
    /\ At("await_stop", IF is_running THEN "before_block" ELSE "cleanup")
    /\ UNCHANGED <<is_running, needs_cleanup, contexts, set, handler, paused, history>>

Block ==
    /\ At("before_block", "blocked")
    /\ UNCHANGED <<is_running, needs_cleanup, contexts, set, handler, paused, history>>

(* thread_blocker::block returns although nobody has called unblock. *)
SpuriousWakeup ==
    /\ Spurious
    /\ At("blocked", "cleanup") \/ At("in_logs", "after_logs")
    /\ woken' = TRUE
    /\ UNCHANGED <<is_running, needs_cleanup, contexts, set, handler, paused, signals, asked>>

(* Where cleanup returns to: await_stop is the last call of main, stop()   *)
(* was called from the command loop.                                       *)
AfterCleanup(here) == IF here = "stopping" THEN "loop" ELSE "exited"

(* Mutant: the signals are destroyed before the io_contexts are stopped. *)
CleanupSignalsFirst(here) ==
    /\ main = here /\ here \in {"stopping", "cleanup"}
    /\ \/ /\ needs_cleanup
          /\ contexts' = "joined"
          /\ set' = [set EXCEPT !["server"] = NoSet]
          /\ needs_cleanup' = FALSE
       \/ ~needs_cleanup /\ UNCHANGED <<contexts, set, needs_cleanup>>
    /\ main' = AfterCleanup(here)
    /\ UNCHANGED <<is_running, handler, paused, history>>

(* cleanup: io_context_pool::stop joins the threads, so no handler runs    *)
(* any more when signals_ is destroyed.                                    *)
Cleanup(here) ==
    /\ main = here /\ here \in {"stopping", "cleanup"}
    /\ \/ /\ needs_cleanup
          /\ \A o \in Owners : handler[o] # "running"
          /\ contexts' = "joined"
          /\ set' = [set EXCEPT !["server"] = NoSet]
          /\ needs_cleanup' = FALSE
       \/ ~needs_cleanup /\ UNCHANGED <<contexts, set, needs_cleanup>>
    /\ main' = AfterCleanup(here)
    /\ UNCHANGED <<is_running, handler, paused, history>>

MainNext ==
    \/ Start \/ Loop \/ OtherCommand \/ EndOfInput \/ StopCommand
    \/ LogsCommand \/ LogsWait \/ LogsBlock \/ LogsReturn
    \/ AwaitStop \/ Block \/ SpuriousWakeup
    \/ \E here \in Mains : Cleanup(here)

(***************************************************************************)
(* Signals and their handlers, on the io_context threads.                  *)
(***************************************************************************)

(* A signal goes to every signal_set.  The user means the command that     *)
(* waits for it if there is one, and the server otherwise.                 *)
SendSignal ==
    /\ signals < MaxSignals /\ \E o \in Owners : set[o].exists
    /\ signals' = signals + 1
    /\ asked' = (asked \/ ~paused)
    /\ set' = [o \in Owners |->
                 IF ~set[o].exists THEN set[o]
                 ELSE IF set[o].waiting THEN [set[o] EXCEPT !.waiting = FALSE]
                 ELSE [set[o] EXCEPT !.kept = @ + 1]]
    /\ handler' = [o \in Owners |-> IF set[o].waiting THEN "queued" ELSE handler[o]]
    /\ UNCHANGED <<main, is_running, needs_cleanup, contexts, paused, woken>>

Runs(o) == contexts = "running" /\ handler[o] = "queued"

(* on_signal while the signals are paused: wait again; a signal that was   *)
(* kept is there at once.                                                  *)
PausedSignal ==
    /\ Runs("server") /\ paused
    /\ \/ /\ set["server"].kept > 0
          /\ set' = [set EXCEPT !["server"].kept = @ - 1]
          /\ UNCHANGED handler
       \/ /\ set["server"].kept = 0
          /\ set' = [set EXCEPT !["server"].waiting = TRUE]
          /\ handler' = [handler EXCEPT !["server"] = "none"]
    /\ UNCHANGED <<main, is_running, needs_cleanup, contexts, paused, history>>

(* Mutant: a stop by a signal counts as cleaned up. *)
SignalStopCleans ==
    /\ Runs("server") /\ ~paused
    /\ is_running' = FALSE /\ needs_cleanup' = FALSE
    /\ handler' = [handler EXCEPT !["server"] = "running"]
    /\ UNCHANGED <<main, contexts, set, paused, history>>

(* signal_stop clears is_running_ ... *)
SignalStop ==
    /\ Runs("server") /\ ~paused
    /\ is_running' = FALSE
    /\ handler' = [handler EXCEPT !["server"] = "running"]
    /\ UNCHANGED <<main, needs_cleanup, contexts, set, paused, history>>

(* ... and unblocks the main thread, if it is in block(). *)
Unblock ==
    /\ handler["server"] = "running"
    /\ handler' = [handler EXCEPT !["server"] = "none"]
    /\ main' = IF main = "blocked" THEN "cleanup" ELSE main
    /\ UNCHANGED <<is_running, needs_cleanup, contexts, set, paused, history>>

(* The callback of the logs command. *)
UnblockLogs ==
    /\ Runs("logs")
    /\ handler' = [handler EXCEPT !["logs"] = "none"]
    /\ main' = IF main = "in_logs" THEN "after_logs" ELSE main
    /\ UNCHANGED <<is_running, needs_cleanup, contexts, set, paused, history>>

HandlerNext == PausedSignal \/ SignalStop \/ Unblock \/ UnblockLogs

Next == MainNext \/ SendSignal \/ HandlerNext

Spec == Init /\ [][Next]_vars

(* The threads run what is ready.  Nothing is assumed of the user: no      *)
(* command and no signal ever has to come.                                 *)
Fairness ==
    /\ WF_vars(Start \/ Loop \/ LogsWait \/ LogsBlock \/ LogsReturn \/ AwaitStop \/ Block)
    /\ \A here \in Mains : WF_vars(Cleanup(here))
    /\ WF_vars(HandlerNext)

FairSpec == Spec /\ Fairness

(***************************************************************************)
(* Properties.                                                             *)
(***************************************************************************)

TypeOK ==
    /\ main \in Mains
    /\ is_running \in BOOLEAN /\ needs_cleanup \in BOOLEAN
    /\ contexts \in {"ready", "running", "joined"}
    /\ set \in [Owners -> [exists : BOOLEAN, waiting : BOOLEAN, kept : 0 .. MaxSignals]]
    /\ handler \in [Owners -> {"none", "queued", "running"}]
    /\ paused \in BOOLEAN
    /\ signals \in 0 .. MaxSignals /\ asked \in BOOLEAN /\ woken \in BOOLEAN

(* The completion of a wait refers to its signal_handler: none runs, or    *)
(* can still be run, when the signal_handler has been destroyed, by the    *)
(* logs command or by cleanup.  (A spurious wakeup of the logs command can *)
(* leave one behind.)                                                      *)
HandlersOutlived ==
    \A o \in Owners :
        handler[o] = "running" \/ Runs(o) => set[o].exists \/ (woken /\ o = "logs")

(* "it stops running but is not cleaned up here" (server.cpp): whichever   *)
(* way the server was stopped, by the command, by a signal, or by both at  *)
(* the same time, the program only exits when the threads are joined, and  *)
(* their handlers have returned.                                           *)
ExitIsClean ==
    main = "exited" =>
        contexts = "joined" /\ ~needs_cleanup /\ \A o \in Owners : handler[o] # "running"

(* "Blocks the current thread until unblock() is called."                  *)
(* (thread_blocker.hpp): main does not clean up a server that nobody has   *)
(* stopped, whatever was sent, paused or kept meanwhile, unless the wait   *)
(* has returned by itself, which block() does not notice.                  *)
NotBeforeStop == main \in {"cleanup", "exited"} => ~is_running \/ woken

(* The command stop ends the program, whatever signals arrive meanwhile.   *)
StopCommandEnds == main = "stopping" ~> main = "exited"

(* "Blocks the thread until the server is stopped internally."             *)
(* (server.hpp, of await_stop): once a signal has asked for the end of the *)
(* server, the program exits.                                              *)
SignalEnds == asked ~> main = "exited"
==============================================================================
