# TLA+ models of aether-proxy

aether is an HTTP/1.1, HTTPS and WebSocket proxy in C++ on Boost.Asio. This
directory holds TLA+ models of it, TLC configurations that check them on small
instances, and TLAPS proofs in eight more modules. All paths below are
relative to `src/src/aether/` of the repository.

## 1. The system

| component | source | state it keeps | operations | interacts with |
|---|---|---|---|---|
| acceptor | `proxy/acceptor.cpp` | the accept in progress, `is_stopped_` | `start`, `stop`, `on_accept` | creates flows in the connection manager; runs on one io_context |
| connection manager | `proxy/connection/connection_manager.cpp` | `connections_`, `pending_connection_ids_`, `services_`, `data_mutex_` | `new_connection`, `start`, `destroy`, `stop` | posts handlers to io_contexts; handlers call back into `stop` |
| io_context pool | `proxy/concurrent/io_context_pool.cpp` | contexts, threads, `next_` | `run`, `stop`, `get_io_context` | one thread per context runs every completion of the flows given to it |
| connection handler | `proxy/connection_handler.*` | the current service | `start`, `stop`, `switch_service` | owns one flow's service; tells the manager when it stops |
| connections, timeouts | `proxy/connection/*` | sockets, `connected_`, TLS state, buffers, one timer per connection | `read_async`, `write_async`, `connect_async`, `establish_tls_async`, `disconnect` | completions are bound to raw pointers and run on the flow's thread |
| HTTP service | `proxy/http/http1/http_service.cpp`, `proxy/base_service.cpp` | the exchange, the parser's state | request, response, CONNECT, errors | switches to the tunnel, TLS or WebSocket service |
| HTTP parser, buffers | `proxy/http/http1/http_parser.cpp`, `util/buffer_segment.*` | how much of a body or chunk has been read | `read_body`, `read_until`, `read_up_to_bytes` | resumes with every read of a connection |
| request targets | `proxy/http/message/url.cpp` | the parts of a URL | `parse`, `parse_target`, `to_string` | the HTTP service validates and rewrites them |
| TLS service | `proxy/tls/tls_service.cpp`, `proxy/tls/handshake/*` | the Client Hello | read hello, connect, two handshakes | asks the certificate store, switches to HTTP or tunnel |
| tunnel service | `proxy/tunnel/*` | two loops | read, write, finish | relays bytes until both loops have ended |
| WebSocket service | `proxy/websocket/*` | two loops, frame parsers, pipeline | frames, close handshake, injected messages | relays messages, runs interceptors |
| certificate store | `proxy/tls/x509/server_store.cpp` | CA files, serial number file, `cert_map_`, `cert_queue_` | `create`, `get_certificate`, `create_certificate`, `insert` | shared by all io_context threads |
| OpenSSL pointers | `util/openssl_ptrs.hpp` | one native pointer each, OpenSSL's counts | construct, copy, move, hand over | held by the store, the contexts and the connections |
| server, signals | `proxy/server.cpp`, `util/signal_handler.hpp`, `util/thread_blocker.cpp` | `is_running_`, `needs_cleanup_`, signal sets | `start`, `stop`, `signal_stop`, `await_stop`, `cleanup` | main thread and signal handlers on io_context threads |
| command service | `input/*` | the input stream | `stop`, `logs`, `stats`, `help` | pauses the server's signals, attaches interceptors |
| interceptors | `proxy/intercept/*`, `interceptors/*` | a map of callbacks for each event, a lookup | `attach`, `attach_hub`, `detach`, `run` | called by the services on their threads |
| callbacks, results | `util/any_invocable.hpp`, `util/result.hpp` | a type-erased callable; a value or an error | move, convert, call; assign, chain | every handler and every fallible call |
| uuid factory | `util/uuid.cpp` | clock, clock sequence, node, a state file | `create` | ids of flows |
| options | `program/options_*.cpp` | the options and their values | `add_option`, `parse_cmdline` | read once by `main` |

What is hard about them, and what makes each one correct:

* **Acceptor and manager.** Several threads admit and remove connections under
  one mutex, but the handler of a connection is posted under it and runs after
  it; the flow, its handler and the posted lambda refer to each other by
  reference. Correct: the limit holds; no free slot beside a waiting
  connection; first come, first served; exactly the flows somebody needs are
  alive; shutdown ends, and nothing changes after it.
* **Connections and services.** One thread, but every completion, expired timer
  and posted handler waits in a queue while the state it was made for goes on.
  One timer serves all operations of a connection, a service is replaced from
  inside its own handler, and `disconnect` destroys what completions point to.
  Correct: one operation at a time, no timeout hits an operation it was not set
  for, each flow stops exactly once with nothing outstanding, requests reach
  the server they name, and a flow ends when its client is gone.
* **Tunnel and WebSocket.** Two loops on the same two connections, each writing
  where the other one reads; either side may close, and both at once; each loop
  sends what was injected for it by the other. Correct: one thing at a time in
  each loop, one close frame for each side, what is closed stays closed and no
  read or error changes the reason, messages stay whole, and both loops end.
* **Parsers.** They are called again with each piece that arrives and must go on
  where they were. Correct: what is collected is what was sent, wherever it was
  cut; what is written for the other side means the same.
* **Certificate store.** Search and creation are separate, the search takes no
  lock, and files are written in several steps, the last of which is never
  checked. Correct: what is handed out fits the server, serial numbers are not
  reused, the cache can be emptied again, the authority used is the one on disk.
* **Server life cycle.** Three ways to stop, signals delivered to two sets,
  and a blocker without a predicate. Correct: the program exits with its threads
  joined, and only when asked; the stop command always ends it.
* **Shared helpers.** Interceptors are attached while other threads run them;
  ids are made from a clock that may go back, by a factory with a mutex for
  several threads, although the proxy itself calls it only from its chain of
  accepts, one call after the other; callbacks and results change what their
  storage holds. Correct: a run calls what is attached, ids differ, everything
  has one owner and is destroyed once.

## 2. Plan

Modelled in this order, the most important behaviour first; all of it is done.

1. `ConnectionManager` with `ServicePool`, its abstract specification.
2. `Connections`, the operations and timers of a flow.
3. `FlowService` on top of it: the HTTP and TLS services and the switches.
4. `Relay` on top of it: what the tunnel and the WebSocket service share; then
   `Tunnel` and `WebSocket`, the latter with `WebSocketFrames`, and `Relays`,
   which has both.
5. `ServerStore` and `ServerLifecycle`.
6. The parts that stand alone, composed in `MCLibrary`.
7. Proofs: the manager, the life cycle, the store, the flow, the interceptors,
   the relays, the counted pointers, results and callbacks, `create()` of the
   uuids, the one-piece case of the Client Hello, the options, the WebSocket
   parser, request targets, bodies, and the composition `MCLibrary`.

Left for later, in the order of what they would add: the secure stream that
outlives `disconnect` (a flow that goes from a server with TLS to one without),
the unsynchronised `next_` of the io_context pool, and the negotiation of
permessage-deflate.

## 3. The modules

**ConnectionManager** has one action for each piece of code between two points
where another thread may intervene. A critical section of `data_mutex_` is one
step, except `connection_manager::stop`: its loop over the queue posts handlers
that other threads may start at once, so each iteration (`StartPending`) is a
step, with the mutex held. `accPc` says where the acceptor is (`InitAccept`,
`AcceptClient` or `AcceptError`, `Start` or `Destroy`, `AfterStart`), `stage`
how far a flow has come: created, posted, running, disconnected (inside `stop`),
destroyed. `posted` is the run queue of each io_context. `ServiceEnds` leaves
open when a service asks to be stopped. Cleanup is `AcceptorStop`, one
`StopContext` per io_context, and `JoinThreads`, which waits for every handler.

**ServicePool** is what the manager promises: a queue, a bounded set of active
connections, arrivals, admissions from the head, ends. `ConnectionManager`
implements it under `line <- pending, active <- services, done <- what was
served and is no longer active`.

**Connections** is a module of operators and actions that the services extend:
`conn[c]` is a connection (socket, `connected_`, timer, outstanding
operations, its peer), `tasks` the run queue of the flow's io_context. The
reactor completes an outstanding operation with a result the state of socket
and peer allows (`Outcomes`), an armed timer may expire at any time, and each
of them appends a task. The completions of the connection itself (`OnRead`,
`OnWrite`, `OnConnect`, `OnTimeout`) run when they are at the head, and post the
handler of the service as another task, as the code does.

**FlowService** is the life of one flow from its first request to its end or to
a tunnel or WebSocket service. `pc` names the operation the current service
waits for. What a message says is a choice; where it matters for a property, it
is remembered: `named` (the server of the request), `remote` (the server the
socket was connected to), `body` (how a response body ends). A handler and all
it calls, `set_server`, `connect_async`, `send_error_response`,
`switch_service`, up to the next asynchronous operation, is one action, since
one thread runs them.

**Relay** has the two loops, the peers and the reactor around them, which the
tunnel and the WebSocket service share. It starts in every state another service
may hand over (`HandedOver`; `FlowService` checks, and its proof shows, that it
hands over nothing else). **Tunnel** follows `tunnel_service` and its
`tunnel_loop`s. **WebSocket** adds the pipeline: whether it is closed, by whom
and why, what interceptors have injected for each side, whether interception is
on, and what each loop has collected of a message. **WebSocketFrames** is what
`frame_parser`, `websocket_manager` and `permessage_deflate` do with one frame.
What interceptors inject waits in two queues, frames and messages, which a loop
empties as `inject_frames` and `inject_messages` do. **Relays** puts both services
side by side, since a flow ends in one of them; **MCRelays** chooses the batches
of frames TLC tries and fixes what does not matter to one of the two.

**ServerStore** has a set of threads, each searching (`Search`), taking a serial
number (`ReadSerial` truncates the file, `WriteSerial` closes it) and inserting
(`Emplace`, `Evict`); the program creates or reads its files before that
(`CreateStore`, `OpenStoreFile`, `CloseStoreFile`, `ReadStore`), and may exit or
crash. Each file that is closed may lose its content (`Close`), which nobody looks
at. `Evict` reads the reference that `insert` returns, after the entry may have
been deleted (`Returned`, `Dangling`). Names are numbers in string order, so that the merge in `is_disjoint` and
the order of `std::map` can be modelled; one asterisk form is shared by all hosts.

**ServerLifecycle** has the main thread's position (`main`), the two signal sets
and the queued or running handler of each. A signal goes to every set; a set
without a wait keeps it for the next. `woken` records that a wait has returned
without a notification.

The parts that stand alone. Each has its own specification; **MCLibrary** checks
them in one run, one part in each behaviour.

| module | what it models | its property says |
|---|---|---|
| `AnyInvocable` | where a callable is kept, by which manager and invoker, through moves, swaps, conversions and destruction | `OneOwner`: each callable has one owner, is called through what fits it, and is disposed of once |
| `Result`, `VoidResult` | storage and flag of `result<T, E>`, the optional error of `result<void, E>`, assignments, chains between both, constructors that throw | `ResultsHold`: what is read is what was last put in; storage is never taken for what it is not |
| `OpenSslPointers` | unique and counted pointers, and the calls of OpenSSL that take, lend or share references | `ReferencesCounted`: OpenSSL's count is the number of owners |
| `Uuid` | `create`, which several threads may call: reading and adjusting the clock, the clock sequence, the state file, formatting outside of the lock, a restart | `SoundIdsUnique`: two calls that nobody disturbed return different ids, if both timestamps are readings of the clock or neither is |
| `Interceptors` | attach, attach_hub and detach against runs whose iterators stand in the maps | `RunsWhatIsAttached`: a run calls what is attached throughout, once, in order, and nothing else |
| `Bodies` | `read_body` (by length, in chunks, until the end of the stream) on `buffer_segment`s, byte by byte | `ReadAsSent`: a body that is read is the one that was sent, however it was cut |
| `HelloReader` | `handshake_reader` on a `const_buffer_segment` | `SplitHelloIsRead` (refuted), `OnePieceIsRead` (proved) |
| `Options` | adding options and reading a command line | `ParsedAsMeant`: an independent reading of the command line gives the same values, help or failure |
| `WebSocketParser` | the four stages of `frame_parser` for one direction and the serialization for the other peer | `OutputLegal`, `ArrivesAsSent`: what is forwarded keeps to the protocol and, without fragments, misread keys, and compressed frames after a control frame, is what was sent |
| `Targets` | `url::parse`, the target forms, validation, rewriting for the server | `TargetUnderstood`: host, port and path of a plain target (`PlainTarget`) are those the client means |

`Options` and `Targets` are algorithms with a reference beside them. `Options`
says what a legal command line is (`LegalCommand`) and which value an option
then has (`Meant`) from all arguments at once, not by the code's loop; `Targets`
starts from the fields a client means, writes them down in the form it chose, and
wants the same fields back, unless the target has user information, a port behind
an address of colons, or an absolute form without slashes or path: the code fails
for these (section 4). The run compares both on all bounded inputs, the proof on
all inputs. A target is refused only where it names no host, or where
it is a tunnel's and names no port. `Bodies` has the message as it was sent
beside the stream it is read from; a size is one byte of that stream, which of the
`Digits` it is says how long the chunk is.

## 4. What TLC checks

| run | instance | states | properties |
|---|---|---|---|
| `manager` | 3 flows, limit 1, 2 contexts | 10 thousand | `NoIdleSlot`, `Ownership`, `HandlersAlive`; `EventuallyServed`, `ShutdownTerminates`, `ImplementsPool` |
| `relays` | tunnel: 2 chunks each way; WebSocket: one read from each side with any of 5 batches of frames, one interference of each kind (a message, a close, a switch) | 3.1 million | `TypeOK`, `StopsOnceAndQuiet`, `OneOperationPerLoop`, `CloseSentOnce`, `MessagesIntact`, `FirstCloseKept` |
| `relays_liveness` | the same with 2 batches and no interference, with fairness | 230 thousand | `RelayEnds` |
| `flow` | 2 servers, 1 further read of a body, clients that expect "100 Continue", TLS not passed through | 110 thousand | `TypeOK`, `OneOperation`, `StopsOnceAndQuiet`, `HandsOverAtRest`, `RightServer`, `NoDowngrade`, `NoStaleExpiry`, `FlowEnds` |
| `store` | 2 threads, 2 hosts, room for 1 certificate, 5 serial numbers, 1 fault | 3.2 million | `CoversServer`, `QueueCovers`, `UniqueSerials`, `AuthorityPersists` |
| `lifecycle` | 3 signals, with the command service and spurious wakeups | 1.9 thousand | `ExitIsClean`, `HandlersOutlived`, `NotBeforeStop`, `StopCommandEnds` |
| `library` | all eleven parts | 1.3 million | `LibraryTypeOK` and the properties of the table above |

Every property comes with a comment in its module, and with a mutated definition
of the code, marked "Mutant" there, under which it fails.

Five runs are expected to fail; each shows where the code does not do what one of
its comments says.

| run | what it shows |
|---|---|
| `relays_close_unanswered` | A side whose close frame was taken is sent none when the loop that would send it has already been ended: `finish_connection` shuts the connection down first. |
| `flow_cut_bodies` | A response body that goes until the end of the stream is taken to be complete when the buffer happens to be empty, right after the head for instance. |
| `lifecycle_lost_stop` | A signal handled between the test of `is_running_` and the wait in `await_stop` wakes nobody. |
| `store_capacity` | A key that is queued twice (two handshakes without a connected server, one after the other, are enough) is deleted once; at its second turn `insert` deletes nothing, and the cache exceeds `max_num_certs`. |
| `hello_split` | `on_read_client_hello` passes the size of the last read where the size of the buffer is expected; a Client Hello in two pieces is not completed, or read beyond the buffer. |

Further disagreements and oddities met while modelling, which no run is spent
on; the models behave as the code does, and the properties that hold name them
as exceptions.

* Manager: `stop_all` holds `data_mutex_` while handlers call `stop`, which locks
  it again (nothing calls `stop_all`); `pending_connection_count()` is constantly 0.
* Connections: a connection that is not connected keeps its open socket, and the
  next attempt is made on it, where it cannot succeed
  (`proxy/connection/connection_flow.cpp:38`); a timeout during a connection
  attempt does nothing and is not set again; the timeout for a next endpoint may
  be hit by an expiry already queued; `tls_established_` survives `disconnect`;
  the handler of a failed handshake with the client is never called, and
  handshakes have no timeout; certificates of a chain are handed to
  `SSL_CTX_add_extra_chain_cert` without counting (`client_connection.cpp:43`).
* HTTP: after "100 Continue" nothing continues the flow
  (`http_service.cpp:172`); `buffer_segment::read_all` drops whitespace and
  leaves `bytes_last_read` as it was. Targets: the host of an absolute form with
  user information begins with `@`, and the user name includes the password;
  `http://h` forwards an empty target; a search before the first slash is lost;
  an IPv6 address with a port is not understood; an empty port leaves the colon
  in the host; an absolute form without `//` is cut in odd places.
* WebSocket: a close frame that is injected after the pipeline was closed
  replaces the reason and the side it came from, so that the two sides may be
  told different things (`pipeline.cpp:68`); the last continuation frame of a
  message is dropped on some paths, a control frame between fragments is
  refused, and the compression flag of a message is lost after a control frame;
  a frame's masking key may come out differently when it arrives in pieces.
* Store: a key can be queued twice, and `insert` may then delete the entry whose
  reference it returns and read it afterwards (`server_store.cpp:299`; the
  exception of `CoversServer`); the files of the authority are flushed by an
  `fclose` whose result nobody looks at, so with a full disk the program goes up
  and its next run is refused (the exception of `AuthorityPersists`); a program
  killed while it creates its authority leaves files it cannot read again; a
  serial number file torn by a crash makes the numbers start again;
  `is_disjoint` merges an unsorted list. Files and BIOs are reopened without
  looking at the result.
* Life cycle: a signal between `wait` and `block` in the logs command is lost,
  and one whose handler runs late stops the server too.
* Results: `err()` of an OK result has the message of an error; a constructor
  that throws after the old object was destroyed leaves a torn result; one that
  throws in `result<void, E>::emplace` leaves OK.
* Uuid: the promise of `uuid.hpp:85` that ids are unique has two exceptions
  which `SoundIdsUnique` names. `create` formats the id from the shared state
  after the mutex is released (`uuid.cpp:227`), so calls that overlap may return
  the same id; the proxy calls it only from its chain of accepts
  (`connection_flow.cpp:26`), where no two calls overlap. And a timestamp is a
  reading of the clock and a count of the calls in this tick, so a later reading
  may be equal to an earlier count: calls at 5, 5 and 6 make 5, 6 and 6, with
  the same sequence, since it is advanced only when the time is less
  (`uuid.cpp:178`, `216`); no second thread is needed, but two calls within 100
  ns. A torn state file makes every `create` throw. The clock sequence is
  advanced not only when the clock goes back but whenever it has not caught up
  with the last timestamp, a reading and a count (`uuid.cpp:216`), so it comes
  round after far fewer settings of the clock than it has values; if the clock
  is then set back, an id may be returned again.
* Options: a boolean option whose text cannot be parsed counts as true.

### Bounds

* `manager`: with one slot and three flows two connections wait while one is
  serviced, `stop` may admit one or none, and a connection can arrive between any
  two steps; two contexts give every interleaving of one thread with another, and
  the acceptor shares its context with half of the flows. `InitAcceptAtBound`
  stands for an acceptor that waits for a client that never comes. The safety
  part is proved for all values.
* `relays`: two chunks each way let each loop go round twice, so an expiry left
  from the first round can meet the second. The batches hold fragments, several
  messages in one read, a control frame between them, a close before a message,
  and a frame the parser refuses. `relays_liveness` has fewer batches, since only
  the way to the end matters.
* `flow`: the number of requests is not bounded, only the data: two servers are
  enough to be on the wrong one, and one extra read of a body (`MaxBody`, the
  size limit) separates a body that is read at once from one that is not. The
  safety part is proved for all values.
* `store`: with room for one certificate and two hosts every insertion meets a full
  cache. Five serial numbers are the authority and four certificates, just enough for
  a thread to delete the entry it has made, or two authorities after a fault and three
  certificates. The queue grows with the insertions, which the serial numbers bound.
  All four properties are proved for all values, any number of faults included.
* `lifecycle`: three signals are one for each set and one more that is kept.
* `library`: three holders, one of them the temporary of a swap, and a box are
  the deepest a conversion goes; two pointers of each kind and a temporary for
  two objects; for the ids two threads, two times with two counts beside the reading
  itself, so that a timestamp runs ahead of the clock, two sequences, which one
  setting of the clock lets come round (the case `SoundIdsUnique` excepts), four
  ids, and one restart that may lose the node identifier; two events, a hub for
  both, three interceptors and two runs; bodies of up to two chunks of up to two bytes over an alphabet with CR and
  LF, cut anywhere, with a limit of three; records of one and four bytes; command
  lines of up to three arguments over ten that cover every branch; targets over
  all combinations of listed schemes, users, hosts, ports, paths and searches;
  three frames from a peer.

Deadlock is not checked: flows, relays, parsers and the program come to an end,
and at its bound the store has nothing left to do.

### Fairness

* `ConnectionManager`: a thread goes on with the handler it is in and takes
  posted work; the main thread goes on with cleanup. Nothing is assumed of
  clients, services and the user; that services end is a premise of
  `EventuallyServed`. Weak fairness is enough since only one other step can
  take away what a thread waits for, the mutex, and it is always given back.
* `FlowService`: the flow's thread runs what is ready (Asio runs handlers in
  order), armed timers expire, and an operation on a socket that either side has
  ended completes. Reads and connection attempts have strong fairness towards
  ending: a shut socket holds a finite amount of data, and a name has finitely
  many endpoints.
* `Relay`: the same; also, what is written to a peer is eventually taken
  (`PeerTakes`), because the writes of a relay are untimed: without that a peer
  that does not read keeps the flow for ever. Nothing is assumed of what peers
  send.
* `ServerLifecycle`: threads run what is ready. No command or signal has to come.

## 5. What is proved

Every theorem is for all values of the module's constants under the named
assumptions the module makes about them.

**ConnectionManagerProofs** (any set of flows, any limit, 0 included, any
positive number of io_contexts):

| theorem | states |
|---|---|
| `Invariant`, `TypeCorrect` | `[]IInv`, `[]TypeOK` |
| `LimitedService` | `[](LimitRespected /\ NoIdleSlot)` |
| `ServedInOrder` | `[]FirstComeFirstServed` |
| `NothingDangles`, `PostedHandlersLive` | `[]Ownership`, `[]HandlersAlive` |
| `OneLateClient` | `[]AtMostOneLateClient` |
| `QuietAfterShutdown` | `QuietAfterJoin` |
| `Refinement` | every behaviour is one of the safety part of `ServicePool` |

`IInv` is the conjunction of the properties with two parts that say why they
persist. `FlowStages` ties the stage of a flow to the containers: what the
acceptor holds or the queue contains is exactly at "created", what was once
serviced is past it, the queue has no duplicates. Without it `Ownership` is not
inductive: popping the queue could leave a second copy of an id, and
`start_service` could meet a flow that has a handler already. `StoppedClock` says
that nothing is late or stopped before `acceptor::stop`, that after a late client
the acceptor never accepts again, and that joined threads are idle;
`AtMostOneLateClient` and `QuietAfterJoin` rest on it. The proof has one lemma
for each group of parts (`TypeStep`, `SlotsStep`, `FlowingStep`, `StoppedStep`),
each with one step per action, and frame lemmas for the actions that leave a
group alone. `PoolStep` maps `Start` to an arrival, `StartPending` to an
admission and `Stop` to an end of service.

**FlowServiceProofs** (any servers, any limit of a body, TLS passed through or
not, clients that expect "100 Continue" or not):

| theorem | states |
|---|---|
| `FlowInvariant`, `FlowTypes` | `[]IInv`, `[]TypeOK` |
| `OneAtATime` | `[]OneOperation` |
| `FlowStopsOnce` | `[]StopsOnceAndQuiet` |
| `FlowIsHandedOver` | `[]HandsOverAtRest` |
| `RequestsReachTheirServer` | `[]RightServer` |
| `TlsIsNotDropped` | `[]NoDowngrade` |
| `TimeoutsAreNotStale` | `[]NoStaleExpiry` |

The invariant has four parts. `Core` says that there is one token: while `pc`
awaits operation `op` of connection `c`, that operation is either with the
reactor and only expiries of `c` are queued (`Outstanding`), or its completion is
queued once among such expiries (`Completed`), or its handler is queued last,
behind expiries only, with the timer off (`Answered`); otherwise nothing is in
progress (`Quiet`). Reads and writes have no expiry queued while their timer is
armed, handshakes never. Because the handler is posted behind everything queued
before it, and nothing can be queued after it, it runs alone (`Alone`): this is
why a service may be replaced, and connections destroyed, inside a handler, and
the point at which `CallHandler`, the mutant that calls handlers at once, breaks
it. `Core` also carries what is true of the sockets (`Fits`: connected implies
open, and an open socket without a connection has a peer that is gone).
`Servers` relates `named`, `target`, `host` and `remote` to the step and to a
queued handler of `connect`; `Secure` says that `client_handshake` is only
reached with TLS established to the server or with `error` set, and that `error`
is set only on the way to the error response; `Bodies` bounds the reads. Lemmas
treat the reactor and the completions of `Connections` once (`CompletesStep`,
`ExpiresStep`, `PeerStep`, `PostStep`, `TimeoutStep`, `ConnectStep`,
`HandshakeStep`), and what handlers end with once (`Starts`, `Posts`, `Leaves`,
`Stops`).

**RelaysProofs** (any batches of frames, any number of chunks, interceptors that
inject messages and close frames, block and switch at any time):

| theorem | states |
|---|---|
| `RelaysInvariant`, `RelaysTypes` | `[]IInv`, `[]TypeOK` |
| `OneOperation` | `[]OneOperationPerLoop` |
| `RelayStopsOnce` | `[]StopsOnceAndQuiet` |
| `OneCloseFrame` | `[]CloseSentOnce` |
| `MessagesStayWhole` | `[]MessagesIntact` |
| `CloseStateKept` | `FirstCloseKept` |

Here two loops share two connections and one run queue, so the one token of a
flow becomes a set: `Awaited` is what the loops, or the connection attempt, wait
for, and `Tokens` says that each such operation is with the reactor or once in
the run queue, and that nothing else is. `Timers` says that a timer is armed only
for a read or a connection attempt in progress, and that an expiry runs before
the handler of the operation it belongs to, so that none outlives its service.
`Phases` says that a service runs as long as one of its loops does; with `Tokens`
this makes the second of two `finished` calls the only one that stops. `Closing`
ties a close frame to the state of the loop that sent it, which never goes back to
reading, and `Whole` says that without fragments and switches every message that
was begun has been ended between two handlers (`Resting`). The proof knows
nothing of the two services where it treats the run queue (`CompletionQueues`,
`ExpiryQueues`, `TaskRuns`, `SocketsChange`): what a service does is to take one
awaited operation and to add one (`AwaitedMoves`). A handler of the WebSocket
service is followed on the record it computes; each part of it ends in one of two
outcomes, `Answers` with a close frame or `Over`. `InjectAll` and the loop over a
batch are folds, whose length is not bounded: that a set the steps do not leave
also holds the result (`FramesStay`, `MessagesStay`) is shown from `FoldExists`
and `FoldStays`, by induction over sets of numbers (`SetInduction`), which
follows from the library's theorem on least elements.

**ServerStoreProofs** (any threads, hosts and bounds): `StoreInvariant`,
`StoreTypes`, `GivenCertificatesFit` (`[]CoversServer`, with its exception), `NoneStaysForEver`
(`[]QueueCovers`), `SerialsDiffer` (`[]UniqueSerials`), `AuthorityStays`
(`[]AuthorityPersists`). `Files` ties the phase of the start to what the two
files may hold, so that a start that was cut off is refused or repeated.
`Serials` says that without faults the number on disk, or with the one thread
that has truncated the file, is the number of certificates issued. `Cache` says
that a certificate in the map has the key's name among its names, and that only
the writer may hold a key that is not queued yet.

**ServerLifecycleProofs** (any number of signals, with or without the command
service and spurious wakeups): `LifecycleInvariant`, `CleanExit`
(`[]ExitIsClean`), `HandlersEndFirst` (`[]HandlersOutlived`), `StopBeforeCleanup`
(`[]NotBeforeStop`). `Phases` ties the place of the main thread to the two flags,
the io_contexts and the existence of the signal sets: in particular
`needs_cleanup_` is set exactly while the threads run, so that the second of two
calls of `cleanup` finds nothing to do and no call is missed. `Handlers` says
that a set waits only while nothing of it is queued, that the server's handler
runs only beside running threads and after it has cleared `is_running_`, and that
a handler of the logs command is queued only while its set exists, unless the
wait has returned by itself. `Kept` bounds the signals a set keeps by those that
were sent; the types need it.

**OwnershipProofs** (any sets of pointers, objects, results, values, holders and
callables; pointers finite):

| theorem | states |
|---|---|
| `PointerInvariant`, `CountsAreOwners` | `[]PointerInv`, `[]ReferencesCounted` |
| `ResultsInvariant`, `ResultsAreKept` | `[]ResultsInv`, `[]ResultsHold` |
| `InvocableInvariant`, `CallablesHaveOneOwner` | `[]InvocableInv`, `[]OneOwner` |

For pointers, counting is done with the cardinality of the set of owners, so each
step needs how that set gains or loses one element; a lemma does this for a change
of one pointer and for an exchange between two, and the operations instantiate it.
For results, `StoresKept` says of a storage, of what each object means and of what
is torn that they agree; destroying, constructing and taking from an object each
keep it, and the operations of `result`, `result<void>` and the chains between
them are such steps in a row (`ResultsSpec` has the steps of both kinds). For
callbacks, `Sane` says that a holder has a manager and an invoker exactly when it
has a callable, that no two holders have the same one, and that a callable lasts,
once, exactly as long as it is held (one kept as bits from its first use). It is a
predicate of a record of all holders and of the boxes that are being filled, since
a conversion leaves the boxes out of step until its end. Each part of an operation
(`Relocated`, `Disposed`, filling a box) maps sane records to sane ones, which
composes to moves, swaps and conversions; `Settled` adds that the temporary of a
swap is gone.

**HelpersProofs** has four parts.

| theorem | states |
|---|---|
| `UuidInvariant`, `UuidTypes` | `[]UuidInv`, `[]UuidTypeOK` |
| `SoundIdsStayUnique` | `[]SoundIdsUnique` |
| `OnePiece` | `OnePieceIsRead` |
| `InterceptorInvariant`, `FaithfulRuns` | `[]InterceptorInv`, `[]RunsWhatIsAttached` |
| `OptionInvariant`, `CommandLineIsMeant` | `[]OptionInv`, `[]ParsedAsMeant` |

*Uuids* (any clock, counts, sequences and threads). An id that was stamped is
`Before` the present: until the clock is set back a reading has passed, and while
the sequence has not come round the id was stamped with another sequence, at most
`turns` steps behind the one in use, or with this one at a time not later than the
last reading, or, if it has a count, than the last timestamp. Two ids of a kind
are `Apart` if this tells them apart; the invariant says so of every two that
were returned or are about to be formatted, and needs the latter because the
mutex is released before. `NextResidue` has the arithmetic: the part of the
sequence that a UUID keeps goes round as the whole one does, since 2^14 divides
2^16 (`UuidAssumption`). That the sequence advances more often than the clock is
set back, and may come round, is what makes the exception of `SoundIdsUnique`
necessary: without it the invariant is not inductive, and TLC finds an id
returned twice. So it does between a reading and a count.

*Client Hellos* (any lengths): one that comes in one read is collected byte for
byte. `hello_split` shows that the premise is needed.

*Interceptors* (any events, hubs, threads). `Maps` says that the maps and the
lookup agree and that ids are new; `Faith` that what a run has called, and where
its iterator stands, leave out nothing that has been attached all along. The step
of an iterator is the least id behind it, which a lemma shows to exist.

*Options* (any options and command lines). `OptionAssumption` asks that no two
options have the same name or the same letter, that each has one of them
(`add_option` refuses one that has none), and that `help` is a flag among them: so
they are in `program/options_factory.cpp:43-308`. While arguments are read,
`ReadUpTo` says that each option has the value of the last of its uses before
this one, that the required ones met are those used, and that whatever was read
is legal. The parser walks from argument to argument, the specification
looks at all of them at once; `Parsing` relates the two: the next argument is
one that is read as an option (`IsOption`, a recursive function, shown by
`IsOptionDefined` to be what its recursion says), and no end of the options
was met before.

**LibraryProofs** has what is read from the network, and the composition.

| theorem | states |
|---|---|
| `ParserInvariant` | `[]ParserInv` |
| `OutputStaysLegal`, `WholeFramesArriveAsSent` | `[]OutputLegal`, `[]ArrivesAsSent` |
| `TargetInvariant`, `TargetTypes` | `[]TargetInv`, `[]TargetTypeOK` |
| `PlainTargetIsUnderstood` | `[]TargetUnderstood` |
| `BodyInvariant`, `BodiesAreReadAsSent` | `[]BodyInv`, `[]ReadAsSent` |
| `HelloTypes` | `[]HelloTypeOK` |
| `LibraryTypes` | `[]LibraryTypeOK` |
| `LibraryKeepsItsPromises` | the ten invariants of the table in section 3 that hold, together, for `LibrarySpec` |

*WebSocket parser* (any number of frames, contents and damage). `OutputSound`
says that what was forwarded is a legal sequence, and that the effective opcode of
the output tells whether a message is open in it; it holds whatever the peer
sends. The other parts need frames that were not misread: then what is still on
the wire is the end of what was sent (`WireSound`). `LegalSound` says that with
whole and legal frames the parser is between two messages and in no error, and
`ForwardSound` that what was forwarded is what was sent, frame by frame. The
compression flag, which the parser carries from frame to frame, makes them
inductive: it is unset up to the header and the frame's own behind it, until a
control frame has disturbed it (`NoControls`).

*Targets* (any hosts, ports, users, paths and searches). `RequestAssumption`
states the grammar a client writes by: a host holds no delimiter but the colons
of an address, a path begins with a slash and holds no search, a search begins
with its delimiter. The lemmas say where `Find` stops in a text that is joined
of such parts (`FindIs`, `Piece`, `Middle`) and so what each of the parsers
makes of it (`NetlocParsed`, `OriginParsed`, `AuthorityParsed`,
`AbsoluteParsed`); `Reached` says what validation must have made of a target,
and `AuthorityWritten` and `AbsoluteWritten` that this is written as it
should be. `TargetTypes` needs none of this: whatever the text, what is parsed
has a form, and a port or none.

*Bodies* (any chunks, sizes, limit and faults, and any way to cut the stream).
`BodyAssumption` asks that sizes are spelled differently and that a chunk
which is sent is not empty, since the empty one ends the body. The invariant is
that what is held in a segment, has arrived and has not arrived, put together,
is a suffix of what was sent: at a size, at the bytes of a chunk, or at the line
after it (`AtSize`, `AtData`, `AtSuffix`). For this the stream is taken apart
twice, into what follows each chunk (`Stream`) and what has been read before it
(`Grown`); both are shown to exist for every message (`StreamExists`,
`GrownExists`). `UntilReads` and `UpToReads` say what the two reads of a
`buffer_segment` do with a text that is only partly there: take what there is and
keep it, or take exactly the line, or the bytes, that were asked for. That a
carriage return may be the last byte of one read and its line feed the first of the
next is a case of the former.

*Composition*. `LibraryComponents` shows that `LibrarySpec` implies the
specification of each part, so that every theorem above is one of the
composition, the specification that TLC checks.

The operators over sequences that the models take from the community modules are
recursive functions or folds. An induction over them is done by hand: the set of
numbers for which a formula holds contains zero and each successor
(`SetInduction`), as for `FlattenSeqIs`, `JoinsTyped`, `Tails` and
`IsOptionDefined`.

Only model-checked: all liveness properties (`EventuallyServed`,
`ShutdownTerminates`, `FlowEnds`, `RelayEnds`, `StopCommandEnds`) and the fairness
part of `ImplementsPool`, since TLAPS does not treat fairness. Every invariant and
every action property that a passing run checks is a theorem.

## 6. What is not modelled

* Contents: headers, cookies, TLS parameters, the fields of a Client Hello,
  certificates beside their names, the text of messages. They decide what a
  handler does only through the choices of the models.
* OpenSSL, zlib, Asio and the operating system, except for what the code relies
  on: outcomes of operations, the run queue, reference counts, signals.
* Data races as such. Where the code reads shared data without a lock the models
  let the reader see a wrong result (`Search` while a writer is active, an
  iterator on an erased entry); that it may also crash is not expressed. One
  operation of an interceptor map counts as atomic. The race on `next_` of the
  io_context pool is not modelled.
* The negotiation of WebSocket extensions; random and name-based uuids, which
  keep no state; the properties file.
* `stop_all` and the synchronous reads of a connection, which nothing calls.
* The example interceptors, `help`, `stats`, console output and string helpers:
  text without control flow of its own.
