----------------------------- MODULE Interceptors -----------------------------
(***************************************************************************)
(* base_interceptor_service: functions attached to events.  io_context     *)
(* threads run the functions of an event while the main thread attaches    *)
(* and detaches some, with no lock between them.  One operation of a map   *)
(* (find, emplace, erase, the step of an iterator) is taken as atomic.     *)
(***************************************************************************)
EXTENDS Naturals, Sequences, FiniteSets

CONSTANTS
    Events,         \* the values of the event enumeration
    Runners,        \* threads that run events
    Hubs,           \* each hub is the set of events it has a method for
    MaxInterceptors          \* bound on the interceptors attached

ASSUME InterceptorAssumption ==
    MaxInterceptors \in Nat /\ Hubs \subseteq SUBSET Events /\ "none" \notin Events

VARIABLES
    interceptors,   \* interceptors_: each event's map, by the ids in it
    lookup,         \* interceptor_lookup_: the event of each attached id
    next_id,
    pending,        \* the main thread: what is left of attach_hub or of detach
    runner,         \* each thread: the event it runs and its iterator
    history         \* each thread's run: what it called, what was there all along, what it may call

interceptorVars == <<interceptors, lookup, next_id, pending, runner, history>>

InterceptorIds == 1..MaxInterceptors

End == MaxInterceptors + 1

Idle == [event |-> "none", at |-> End, dangling |-> FALSE]

Unrun == [called |-> <<>>, throughout |-> {}, ever |-> {}]

(* What the main thread is doing: attaching to these events, or detaching. *)
Doing == [events : SUBSET Events, id : 0..MaxInterceptors]

Nothing2Do == [events |-> {}, id |-> 0]

InterceptorInit ==
    /\ interceptors = [e \in Events |-> {}]
    /\ lookup = <<>>
    /\ next_id = 1
    /\ pending = Nothing2Do
    /\ runner = [r \in Runners |-> Idle]
    /\ history = [r \in Runners |-> Unrun]

InterceptorTypeOK ==
    /\ interceptors \in [Events -> SUBSET InterceptorIds]
    /\ DOMAIN lookup \subseteq InterceptorIds /\ \A i \in DOMAIN lookup : lookup[i] \in Events
    /\ next_id \in 1..MaxInterceptors + 1
    /\ pending \in Doing
    /\ \A r \in Runners : /\ runner[r].event \in Events \union {"none"}
                          /\ runner[r].at \in 1..End /\ runner[r].dangling \in BOOLEAN
                          /\ history[r].throughout \subseteq InterceptorIds /\ history[r].ever \subseteq InterceptorIds
                          /\ history[r].called \in Seq(InterceptorIds)

-------------------------------------------------------------------------------

Running(r) == runner[r].event # "none"

(* What is attached to an event, by the lookup. *)
Attached(e) == {i \in DOMAIN lookup : lookup[i] = e} \ {pending.id}

(* The runs of an event have it among what they may call from now on. *)
Offered(e, i) ==
    [r \in Runners |-> IF runner[r].event = e THEN [history[r] EXCEPT !.ever = @ \union {i}] ELSE history[r]]

(* attach(event, func); attach_hub does this for each of the hub's events. *)
Attach(e) ==
    /\ next_id =< MaxInterceptors
    /\ interceptors' = [interceptors EXCEPT ![e] = @ \union {next_id}]
    /\ lookup' = [i \in DOMAIN lookup \union {next_id} |-> IF i = next_id THEN e ELSE lookup[i]]
    /\ next_id' = next_id + 1
    /\ history' = Offered(e, next_id)
    /\ UNCHANGED runner

AttachOne(e) == pending = Nothing2Do /\ Attach(e) /\ UNCHANGED pending

AttachHub(hub) ==
    /\ pending = Nothing2Do /\ next_id + Cardinality(hub) =< MaxInterceptors + 1
    /\ pending' = [events |-> hub, id |-> 0]
    /\ UNCHANGED <<interceptors, lookup, next_id, runner, history>>

AttachNext(e) ==
    /\ e \in pending.events /\ Attach(e)
    /\ pending' = [pending EXCEPT !.events = @ \ {e}]

(* Mutant: the id is taken to be attached to some event. *)
AnEvent(i) == CHOOSE e \in Events : TRUE

(* detach: erase(id) from the map of the event the id is looked up to be   *)
(* for.  An iterator that stands on it is left dangling.                   *)
EventOf(i) == lookup[i]

Erase(i) ==
    /\ pending = Nothing2Do /\ i \in DOMAIN lookup
    /\ interceptors' = [interceptors EXCEPT ![EventOf(i)] = @ \ {i}]
    /\ runner' = [r \in Runners |-> [runner[r] EXCEPT
                    !.dangling = @ \/ (runner[r].event = EventOf(i) /\ runner[r].at = i)]]
    /\ history' = [r \in Runners |-> [history[r] EXCEPT !.throughout = @ \ {i}]]
    /\ pending' = [events |-> {}, id |-> i]
    /\ UNCHANGED <<lookup, next_id>>

(* ... and the id leaves the lookup. *)
Forget ==
    /\ pending.id # 0
    /\ lookup' = [i \in DOMAIN lookup \ {pending.id} |-> lookup[i]]
    /\ pending' = Nothing2Do
    /\ UNCHANGED <<interceptors, next_id, runner, history>>

(* The first id of the event's map that is not below a bound. *)
FirstFrom(e, low) == CHOOSE i \in low..End : /\ i = End \/ i \in interceptors[e]
                                             /\ \A j \in low..i - 1 : j \notin interceptors[e]

(* run(event): the iterator starts at begin() ... *)
Begin(r, e) ==
    /\ ~Running(r)
    /\ runner' = [runner EXCEPT ![r] = [event |-> e, at |-> FirstFrom(e, 1), dangling |-> FALSE]]
    /\ history' = [history EXCEPT ![r] =
                     [called |-> <<>>, throughout |-> Attached(e), ever |-> Attached(e)]]
    /\ UNCHANGED <<interceptors, lookup, next_id, pending>>

(* ... calls the function it stands on, and moves on.  Past an erased node *)
(* it may go anywhere: this run is lost.                                   *)
CallAndAdvance(r) ==
    /\ Running(r) /\ ~runner[r].dangling /\ runner[r].at # End
    /\ history' = [history EXCEPT ![r].called = Append(@, runner[r].at)]
    /\ runner' = [runner EXCEPT ![r].at = FirstFrom(runner[r].event, @ + 1)]
    /\ UNCHANGED <<interceptors, lookup, next_id, pending>>

Lost(r) ==
    /\ Running(r) /\ runner[r].dangling
    /\ runner' = [runner EXCEPT ![r] = Idle]
    /\ history' = [history EXCEPT ![r] = Unrun]
    /\ UNCHANGED <<interceptors, lookup, next_id, pending>>

Return(r) ==
    /\ Running(r) /\ ~runner[r].dangling /\ runner[r].at = End
    /\ runner' = [runner EXCEPT ![r] = Idle]
    /\ history' = [history EXCEPT ![r] = Unrun]
    /\ UNCHANGED <<interceptors, lookup, next_id, pending>>

InterceptorNext ==
    \/ \E e \in Events : AttachOne(e) \/ AttachNext(e)
    \/ \E hub \in Hubs : AttachHub(hub)
    \/ \E i \in InterceptorIds : Erase(i)
    \/ Forget
    \/ \E r \in Runners : (\E e \in Events : Begin(r, e)) \/ CallAndAdvance(r) \/ Lost(r) \/ Return(r)

InterceptorSpec == InterceptorInit /\ [][InterceptorNext]_interceptorVars

-------------------------------------------------------------------------------

(* While interceptors come and go, a run whose iterator was never left on  *)
(* an erased one calls every interceptor that was attached to its event    *)
(* all along, once and in the order of attachment, and none that was       *)
(* detached before the run began or is attached to another event.          *)
RunsWhatIsAttached ==
    \A r \in Runners : Running(r) /\ ~runner[r].dangling =>
      LET called == history[r].called
          set    == {called[k] : k \in 1..Len(called)}
      IN  /\ \A j, k \in 1..Len(called) : j < k => called[j] < called[k]
          /\ set \subseteq history[r].ever
          /\ \A i \in history[r].throughout : i \in set \/ i >= runner[r].at

===============================================================================
