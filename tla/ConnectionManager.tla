-------------------------- MODULE ConnectionManager --------------------------
(***************************************************************************)
(* The life of a client connection from accept to destruction: acceptor,   *)
(* connection_manager, connection_handler and the io_context threads that  *)
(* run them.                                                               *)
(*                                                                         *)
(* One thread runs each io_context (io_context_pool::run).  A critical     *)
(* section of data_mutex_ is one step, except connection_manager::stop,    *)
(* whose loop over the pending queue takes one step per iteration with the *)
(* mutex held, because the handlers it posts may start meanwhile on other  *)
(* threads.  The threads interleave freely everywhere else: between        *)
(* set_connected and start, between start and the test of is_stopped_,     *)
(* between disconnect() and on_finished_().                                *)
(*                                                                         *)
(* When a service asks its handler to stop is left open (ServiceEnds): it  *)
(* depends on the peers and on the services.                               *)
(***************************************************************************)
EXTENDS Integers, Sequences, FiniteSets, Functions

CONSTANTS
    Flows,          \* connection_flow objects that may ever be created
    NoFlow,         \* no connection_flow
    ServiceLimit,   \* options.connection_service_limit (any size_t)
    NumContexts     \* options.thread_pool_size

ASSUME FlowsAssumption    == NoFlow \notin Flows
ASSUME LimitAssumption    == ServiceLimit \in Nat
ASSUME ContextsAssumption == NumContexts \in Nat \ {0}

Contexts == 0 .. NumContexts - 1
Unlocked == -1

(* server::start takes the first io_context for the signals and the second *)
(* for the acceptor.                                                       *)
AcceptorContext == 1 % NumContexts

VARIABLES
    connections,    \* connections_: ids of the flows the manager owns
    pending,        \* pending_connection_ids_
    services,       \* services_: flows that have a handler in the set
    mutex,          \* thread that holds data_mutex_ in stop(), or Unlocked
    stage,          \* how far each flow and its handler have come
    context,        \* flow.io_context()
    posted,         \* per io_context, the handlers whose start is posted
    next,           \* io_context_pool::next_
    accPc,          \* where the acceptor is
    accFlow,        \* the flow the acceptor is waiting with or handling
    is_stopped,     \* acceptor::is_stopped_
    stopped,        \* number of io_contexts that server::cleanup has stopped
    joined,         \* io_context_pool::stop has joined every thread
    accepted,       \* history: flows given to connection_manager::start
    served,         \* history: flows given to start_service
    late            \* history: clients accepted after acceptor::stop

managerVars  == <<connections, pending, services, mutex, stage, context,
                  posted, accepted, served>>
acceptorVars == <<accPc, accFlow, is_stopped, next, late>>
shutdownVars == <<stopped, joined>>
vars == <<managerVars, acceptorVars, shutdownVars>>

Stages == {"unborn", "created", "posted", "running", "disconnected", "destroyed"}
AcceptorPcs == {"init_accept", "accepting", "connected", "started", "failed", "closed"}

Init ==
    /\ connections = {}
    /\ pending = <<>>
    /\ services = {}
    /\ mutex = Unlocked
    /\ stage = [f \in Flows |-> "unborn"]
    /\ context = [f \in Flows |-> 0]
    /\ posted = [i \in Contexts |-> <<>>]
    /\ next = 2 % NumContexts
    /\ accPc = "init_accept"
    /\ accFlow = NoFlow
    /\ is_stopped = FALSE
    /\ stopped = 0
    /\ joined = FALSE
    /\ accepted = <<>>
    /\ served = <<>>
    /\ late = 0

(* A thread runs one completion handler at a time, to its end. *)
Idle(i) ==
    /\ mutex # i
    /\ i = AcceptorContext => accPc \in {"accepting", "closed"}
    /\ \A f \in Flows : context[f] = i => stage[f] # "disconnected"

(* io_context i still hands out work, and its thread is free to take it. *)
CanRun(i) == i >= stopped /\ Idle(i)

(* Mutant: the limit is off by one. *)
HasRoomForOneMore == Cardinality(services) <= ServiceLimit

HasRoom == Cardinality(services) < ServiceLimit

(***************************************************************************)
(* The acceptor.                                                           *)
(***************************************************************************)

(* io_context_pool::get_io_context returns the context at next_ and        *)
(* advances it.                                                            *)
NextContext == (next + 1) % NumContexts

(* init_accept: get_io_context, new_connection, async_accept. *)
InitAccept(f) ==
    /\ accPc = "init_accept" /\ mutex = Unlocked
    /\ stage[f] = "unborn"
    /\ connections' = connections \union {f}
    /\ stage' = [stage EXCEPT ![f] = "created"]
    /\ context' = [context EXCEPT ![f] = next]
    /\ next' = NextContext
    /\ accPc' = "accepting"
    /\ accFlow' = f
    /\ UNCHANGED <<pending, services, mutex, posted, accepted, served,
                   is_stopped, late, shutdownVars>>

(* The bound of the model: when every flow has been used, the acceptor     *)
(* waits for a client that never comes.                                    *)
InitAcceptAtBound ==
    /\ accPc = "init_accept"
    /\ \A f \in Flows : stage[f] # "unborn"
    /\ accPc' = "accepting"
    /\ accFlow' = NoFlow
    /\ UNCHANGED <<managerVars, is_stopped, next, late, shutdownVars>>

(* A client connects: on_accept up to client.set_connected(). *)
AcceptClient ==
    /\ accPc = "accepting" /\ accFlow # NoFlow
    /\ CanRun(AcceptorContext)
    /\ accPc' = "connected"
    /\ late' = IF is_stopped THEN late + 1 ELSE late
    /\ UNCHANGED <<managerVars, accFlow, is_stopped, next, shutdownVars>>

(* async_accept reports an error. *)
AcceptError ==
    /\ accPc = "accepting" /\ accFlow # NoFlow
    /\ CanRun(AcceptorContext)
    /\ accPc' = "failed"
    /\ UNCHANGED <<managerVars, accFlow, is_stopped, next, late, shutdownVars>>

(* Mutant: the flow of a failed accept stays in connections_. *)
DestroyNothing ==
    /\ accPc = "failed" /\ mutex = Unlocked
    /\ accPc' = "init_accept"
    /\ accFlow' = NoFlow
    /\ UNCHANGED <<managerVars, is_stopped, next, late, shutdownVars>>

(* connection_manager::destroy; on_accept then calls init_accept without   *)
(* looking at is_stopped_.                                                 *)
Destroy ==
    /\ accPc = "failed" /\ mutex = Unlocked
    /\ connections' = connections \ {accFlow}
    /\ stage' = [stage EXCEPT ![accFlow] = "destroyed"]
    /\ accPc' = "init_accept"
    /\ accFlow' = NoFlow
    /\ UNCHANGED <<pending, services, mutex, context, posted, accepted, served,
                   is_stopped, next, late, shutdownVars>>

(* Mutant: the start is posted to the io_context of the acceptor. *)
StartServiceOnAcceptor(f) ==
    /\ services' = services \union {f}
    /\ stage' = [stage EXCEPT ![f] = "posted"]
    /\ posted' = [posted EXCEPT ![AcceptorContext] = Append(@, f)]
    /\ served' = Append(served, f)

(* start_service: a handler joins services_ and its start is posted to the *)
(* io_context of the flow.                                                 *)
StartService(f) ==
    /\ services' = services \union {f}
    /\ stage' = [stage EXCEPT ![f] = "posted"]
    /\ posted' = [posted EXCEPT ![context[f]] = Append(@, f)]
    /\ served' = Append(served, f)

(* connection_manager::start. *)
Start ==
    /\ accPc = "connected" /\ mutex = Unlocked
    /\ \/ HasRoom /\ StartService(accFlow) /\ UNCHANGED pending
       \/ /\ ~HasRoom
          /\ pending' = Append(pending, accFlow)
          /\ UNCHANGED <<services, stage, posted, served>>
    /\ accepted' = Append(accepted, accFlow)
    /\ accPc' = "started"
    /\ accFlow' = NoFlow
    /\ UNCHANGED <<connections, mutex, context, is_stopped, next, late,
                   shutdownVars>>

(* The end of on_accept: accept the next client, or close the acceptor. *)
AfterStart ==
    /\ accPc = "started"
    /\ accPc' = IF is_stopped THEN "closed" ELSE "init_accept"
    /\ UNCHANGED <<managerVars, accFlow, is_stopped, next, late, shutdownVars>>

(***************************************************************************)
(* Handlers and the end of a service.                                      *)
(***************************************************************************)

(* The task start_service posted: connection_handler::start. *)
RunPosted(i) ==
    /\ CanRun(i) /\ posted[i] # <<>>
    /\ posted' = [posted EXCEPT ![i] = Tail(@)]
    /\ stage' = [stage EXCEPT ![Head(posted[i])] = "running"]
    /\ UNCHANGED <<connections, pending, services, mutex, context, accepted,
                   served, acceptorVars, shutdownVars>>

(* The service calls connection_handler::stop, which disconnects the flow. *)
ServiceEnds(f) ==
    /\ stage[f] = "running" /\ CanRun(context[f])
    /\ stage' = [stage EXCEPT ![f] = "disconnected"]
    /\ UNCHANGED <<connections, pending, services, mutex, context, posted,
                   accepted, served, acceptorVars, shutdownVars>>

(* on_finished_(): connection_manager::stop takes the mutex and destroys   *)
(* the handler and the flow.                                               *)
Stop(f) ==
    /\ stage[f] = "disconnected" /\ mutex = Unlocked
    /\ mutex' = context[f]
    /\ services' = services \ {f}
    /\ connections' = connections \ {f}
    /\ stage' = [stage EXCEPT ![f] = "destroyed"]
    /\ UNCHANGED <<pending, context, posted, accepted, served, acceptorVars,
                   shutdownVars>>

(* One iteration of start_pending_connections: an id without a connection  *)
(* is dropped with a warning.                                              *)
StartPending ==
    /\ mutex \in Contexts
    /\ pending # <<>> /\ HasRoom
    /\ pending' = Tail(pending)
    /\ IF Head(pending) \in connections
         THEN StartService(Head(pending))
         ELSE UNCHANGED <<services, stage, posted, served>>
    /\ UNCHANGED <<connections, mutex, context, accepted, acceptorVars,
                   shutdownVars>>

(* Mutants: stop() does not start pending connections; the loop over the   *)
(* queue does not look at the limit.                                       *)
StopReturnsEarly ==
    /\ mutex \in Contexts
    /\ mutex' = Unlocked
    /\ UNCHANGED <<connections, pending, services, stage, context, posted,
                   accepted, served, acceptorVars, shutdownVars>>

StopReturnsWhenEmpty ==
    /\ mutex \in Contexts /\ pending = <<>>
    /\ mutex' = Unlocked
    /\ UNCHANGED <<connections, pending, services, stage, context, posted,
                   accepted, served, acceptorVars, shutdownVars>>

(* start_pending_connections is done and stop() releases the mutex. *)
StopReturns ==
    /\ mutex \in Contexts
    /\ pending = <<>> \/ ~HasRoom
    /\ mutex' = Unlocked
    /\ UNCHANGED <<connections, pending, services, stage, context, posted,
                   accepted, served, acceptorVars, shutdownVars>>

(***************************************************************************)
(* server::cleanup, on the main thread.                                    *)
(***************************************************************************)

(* acceptor::stop only sets a flag; the pending accept is not cancelled. *)
AcceptorStop ==
    /\ ~is_stopped
    /\ is_stopped' = TRUE
    /\ UNCHANGED <<managerVars, accPc, accFlow, next, late, shutdownVars>>

(* io_context_pool::stop, first loop. *)
StopContext ==
    /\ is_stopped /\ stopped < NumContexts
    /\ stopped' = stopped + 1
    /\ UNCHANGED <<managerVars, acceptorVars, joined>>

(* io_context_pool::stop, second loop: every thread leaves run() when the  *)
(* handler it is in has returned.                                          *)
JoinThreads ==
    /\ stopped = NumContexts /\ ~joined
    /\ \A i \in Contexts : Idle(i)
    /\ joined' = TRUE
    /\ UNCHANGED <<managerVars, acceptorVars, stopped>>

AcceptorNext ==
    \/ \E f \in Flows : InitAccept(f)
    \/ InitAcceptAtBound
    \/ AcceptClient
    \/ AcceptError
    \/ Destroy
    \/ Start
    \/ AfterStart

HandlerNext ==
    \/ \E i \in Contexts : RunPosted(i)
    \/ \E f \in Flows : ServiceEnds(f) \/ Stop(f)
    \/ StartPending
    \/ StopReturns

ShutdownNext == AcceptorStop \/ StopContext \/ JoinThreads

Next == AcceptorNext \/ HandlerNext \/ ShutdownNext

Spec == Init /\ [][Next]_vars

(* Every thread keeps running the handler it is in, takes posted work, and *)
(* the main thread goes through cleanup once it has begun.  Nothing is     *)
(* assumed of the clients (AcceptClient, AcceptError), of the user         *)
(* (AcceptorStop) or of the services (ServiceEnds).                        *)
Fairness ==
    /\ WF_vars(\E f \in Flows : InitAccept(f))
    /\ WF_vars(InitAcceptAtBound) /\ WF_vars(Destroy)
    /\ WF_vars(Start) /\ WF_vars(AfterStart)
    /\ \A i \in Contexts : WF_vars(RunPosted(i))
    /\ \A f \in Flows : WF_vars(Stop(f))
    /\ WF_vars(StartPending) /\ WF_vars(StopReturns)
    /\ WF_vars(StopContext) /\ WF_vars(JoinThreads)

FairSpec == Spec /\ Fairness

(***************************************************************************)
(* Properties.                                                             *)
(***************************************************************************)

(* Every variable holds a value of its type. *)
TypeOK ==
    /\ connections \subseteq Flows
    /\ pending \in Seq(Flows)
    /\ services \subseteq Flows /\ IsFiniteSet(services)
    /\ mutex \in Contexts \union {Unlocked}
    /\ stage \in [Flows -> Stages]
    /\ context \in [Flows -> Contexts]
    /\ posted \in [Contexts -> Seq(Flows)]
    /\ next \in Contexts
    /\ accPc \in AcceptorPcs
    /\ accFlow \in Flows \union {NoFlow}
    /\ is_stopped \in BOOLEAN
    /\ stopped \in 0 .. NumContexts
    /\ joined \in BOOLEAN
    /\ accepted \in Seq(Flows)
    /\ served \in Seq(Flows)
    /\ late \in Nat

(* connection-service-limit ("Number of connections that can be serviced   *)
(* by the proxy at any given time") is never exceeded, whichever of start  *)
(* and start_pending_connections admits a connection.                      *)
LimitRespected == Cardinality(services) <= ServiceLimit

(* No slot is free while a connection waits, except inside stop() while    *)
(* start_pending_connections is at work.  start() relies on this: it does  *)
(* not look at the queue before it services a new connection.              *)
NoIdleSlot == mutex = Unlocked /\ pending # <<>> => ~HasRoom

(* Connections are serviced in the order in which they were accepted, each *)
(* once, and none is lost between the queue and the handlers: "continue"   *)
(* in start_pending_connections never drops one.                           *)
FirstComeFirstServed == accepted = served \o pending

(* A flow the acceptor still uses. *)
HeldByAcceptor == {accFlow} \ {NoFlow}

(* The manager "owns connection flows and connection handlers to assure    *)
(* they are not destroyed until their work is finished"                    *)
(* (connection_manager.hpp): the flows it owns are exactly those the       *)
(* acceptor is using, those in the queue and those being serviced.  No     *)
(* pending id, handler or accept refers to a destroyed flow, and no flow   *)
(* is left behind that nobody will ever serve or destroy.                  *)
Ownership ==
    /\ connections = HeldByAcceptor \union Range(pending) \union services
    /\ HeldByAcceptor \intersect (Range(pending) \union services) = {}
    /\ Range(pending) \intersect services = {}

(* A posted start and a running handler refer to a handler that is still   *)
(* in services_ (the lambda of start_service and on_finished_ hold         *)
(* references into the set), and a start is posted once, to the io_context *)
(* of its flow.                                                            *)
HandlersAlive ==
    /\ \A f \in Flows : f \in services <=> stage[f] \in {"posted", "running", "disconnected"}
    /\ \A i \in Contexts : \A k \in DOMAIN posted[i] :
          /\ stage[posted[i][k]] = "posted" /\ context[posted[i][k]] = i
          /\ \A j \in DOMAIN posted[i] : posted[i][j] = posted[i][k] => j = k

(* acceptor::stop does not cancel the accept in progress, so one client    *)
(* may still be accepted after it; never a second one.                     *)
AtMostOneLateClient == late <= 1

(* Nothing runs on an io_context thread after server::cleanup has joined   *)
(* it, so the manager may then be destroyed: it does not change any more.  *)
QuietAfterJoin == [][joined => UNCHANGED managerVars]_vars

(* If services always end, every connection that was given to the manager  *)
(* is eventually serviced, unless the server is stopped.                   *)
EventuallyServed ==
    (\A f \in Flows : stage[f] = "running" ~> stage[f] # "running")
        => \A f \in Flows : (f \in Range(accepted)) ~> (stage[f] \in {"running", "disconnected", "destroyed"} \/ is_stopped)

(* cleanup terminates: no thread waits for another in a way that keeps     *)
(* io_context_pool::stop from joining it.                                  *)
ShutdownTerminates == is_stopped ~> joined

(***************************************************************************)
(* The inductive invariant.  FlowStages says what the stage of a flow      *)
(* tells about the containers; StoppedClock what the accept after          *)
(* acceptor::stop and the join rest on.                                    *)
(***************************************************************************)
Distinct(s) == \A j, k \in DOMAIN s : s[j] = s[k] => j = k

FlowStages ==
    /\ accFlow # NoFlow => accPc \in {"accepting", "connected", "failed"}
    /\ accPc \in {"connected", "failed"} => accFlow # NoFlow
    /\ \A f \in HeldByAcceptor \union Range(pending) : stage[f] = "created"
    /\ \A f \in connections : stage[f] # "unborn"
    /\ \A f \in Range(served) : stage[f] \notin {"unborn", "created"}
    /\ services \subseteq Range(served)
    /\ Distinct(pending)

StoppedClock ==
    /\ ~is_stopped => late = 0 /\ stopped = 0 /\ accPc # "closed"
    /\ late # 0 => accPc \in {"connected", "started", "closed"}
    /\ joined => stopped = NumContexts /\ \A i \in Contexts : Idle(i)

IInv ==
    /\ TypeOK
    /\ LimitRespected
    /\ NoIdleSlot
    /\ FirstComeFirstServed
    /\ Ownership
    /\ HandlersAlive
    /\ AtMostOneLateClient
    /\ FlowStages
    /\ StoppedClock

(***************************************************************************)
(* The manager implements the bounded first-come-first-served pool.        *)
(***************************************************************************)
Pool == INSTANCE ServicePool WITH
            line <- pending, active <- services, done <- Range(served) \ services

(* Every step of the threads is a step of the pool or changes nothing it   *)
(* shows, and a free slot is given away under the fairness of the threads. *)
ImplementsPool == Pool!Spec
==============================================================================
