----------------------------- MODULE Connections -----------------------------
(***************************************************************************)
(* base_connection, client_connection, server_connection and               *)
(* timeout_service: the asynchronous operations of the connections of one  *)
(* flow, the timer each connection has, and the run queue of the           *)
(* io_context that executes their completions.  The services extend this   *)
(* module: their handlers start operations and are run as "handler" tasks. *)
(*                                                                         *)
(* One thread runs the io_context, so a task runs to its end.  A wait that *)
(* was cancelled runs with operation_aborted and does nothing              *)
(* (timeout_service::on_timeout); such tasks are left out.  A wait that    *)
(* has expired is in the queue and cannot be cancelled any more.  Time is  *)
(* abstract: an armed timer may expire at any moment.  The bytes are       *)
(* abstract: a read delivers something, a write delivers everything.       *)
(***************************************************************************)
EXTENDS Integers, Sequences, FiniteSets

CONSTANT Conns      \* the connections of the flow

VARIABLES
    conn,           \* state of each connection
    tasks           \* the run queue of the io_context

connVars == <<conn, tasks>>

Ops     == {"read", "write", "connect", "handshake"}
Results == {"ok", "more", "eof", "aborted", "failed"}

Connection ==
    [peer      : {"alive", "closed", "reset"},  \* the other end ("closed": sends no more)
     socket    : {"closed", "open", "shut"},    \* "shut": shutdown_both was called
     connected : BOOLEAN,                       \* connected_
     timer     : {"off", "armed"},
     pending   : SUBSET Ops]                    \* outstanding operations

Task == [kind : {"completion", "handler", "expiry"}, op : Ops, conn : Conns, result : Results]

Completion(op, c, r) == [kind |-> "completion", op |-> op, conn |-> c, result |-> r]
Expiry(c)            == [kind |-> "expiry", op |-> "read", conn |-> c, result |-> "ok"]

(* Mutant: the posted task has lost what it is to run. *)
HandlerOfNothing(t) == [kind |-> "handler", conn |-> t.conn]

(* The user's handler, posted with the result of the operation. *)
Handler(t) == [t EXCEPT !.kind = "handler"]

ConnTypeOK == conn \in [Conns -> Connection] /\ tasks \in Seq(Task)

(* How a service finds a connection: no operation outstanding, the timer   *)
(* off.  A connection that is not connected may still have a socket that   *)
(* nobody has closed; then its peer has ended it, or a timeout has.        *)
AtRest(k) ==
    /\ k.timer = "off" /\ k.pending = {}
    /\ k.connected => k.socket = "open"
    /\ ~k.connected /\ k.socket = "open" => k.peer # "alive"

(* How a service hands the connections of a flow to the next one; only the *)
(* server may not have been connected yet.                                 *)
HandedOver(conns, ofClient) ==
    /\ \A c \in Conns : AtRest(conns[c])
    /\ conns[ofClient].socket # "closed"

Queued(kind, c, ops) ==
    \E i \in DOMAIN tasks : tasks[i].kind = kind /\ tasks[i].conn = c /\ tasks[i].op \in ops

ExpiryQueued(c) == Queued("expiry", c, Ops)

(* An operation of ops is in progress: its handler has yet to run. *)
InProgress(c, ops) ==
    \/ conn[c].pending \intersect ops # {}
    \/ Queued("completion", c, ops) \/ Queued("handler", c, ops)

(***************************************************************************)
(* What the calls of a handler do to a connection k.                       *)
(***************************************************************************)

(* Mutant: cancel_timeout leaves the wait in place. *)
NotDisarmed(k) == k

(* set_timeout and cancel_timeout. *)
Armed(k)    == [k EXCEPT !.timer = "armed"]
Disarmed(k) == [k EXCEPT !.timer = "off"]

(* Mutant: the read has no timeout. *)
UntimedReadStarted(k) == [k EXCEPT !.pending = @ \union {"read"}]

(* read_async and read_until_async; write_async and write_untimed_async. *)
ReadStarted(k)         == [Armed(k) EXCEPT !.pending = @ \union {"read"}]
WriteStarted(k)        == [Armed(k) EXCEPT !.pending = @ \union {"write"}]
UntimedWriteStarted(k) == [k EXCEPT !.pending = @ \union {"write"}]

(* establish_tls_async: the handshake has no timeout. *)
HandshakeStarted(k) == [k EXCEPT !.pending = @ \union {"handshake"}]

CanBeShutdown(k) == k.socket # "closed" /\ k.connected

ShutDown(k) == IF CanBeShutdown(k) THEN [k EXCEPT !.socket = "shut", !.connected = FALSE] ELSE k

(* disconnect.  What TLS has established is left as it is. *)
Disconnected(k) == [ShutDown(Disarmed(k)) EXCEPT !.socket = "closed"]

(* has_been_closed peeks at the socket; only the end of the stream counts. *)
HasBeenClosed(k) == k.peer = "closed"

(* connect_async when there is no connection to use: a connection that is  *)
(* not connected keeps its socket.                                         *)
ConnectStarted(k) ==
    LET fresh == IF k.connected THEN Disconnected(k) ELSE k
    IN [Armed(fresh) EXCEPT !.pending = @ \union {"connect"}]

(***************************************************************************)
(* The operating system and the reactor.                                   *)
(***************************************************************************)

(* The peer sends no more, or its end of the connection is gone. *)
PeerCloses(c) ==
    /\ conn[c].peer = "alive"
    /\ conn' = [conn EXCEPT ![c].peer = "closed"]
    /\ UNCHANGED tasks

PeerResets(c) ==
    /\ conn[c].peer # "reset"
    /\ conn' = [conn EXCEPT ![c].peer = "reset"]
    /\ UNCHANGED tasks

(* What an outstanding operation may come to.  A shut socket still delivers *)
(* what it had received.  A socket that is open refuses to be connected     *)
(* again.  "more": the name is resolved, or an endpoint has failed and      *)
(* another one is left.                                                     *)
ReadOutcomes(k) ==
    CASE k.socket = "closed" -> {"aborted"}
      [] k.socket = "shut"   -> {"ok", "eof"}
      [] k.socket = "open"   -> CASE k.peer = "alive"  -> {"ok"}
                                  [] k.peer = "closed" -> {"eof"}
                                  [] k.peer = "reset"  -> {"failed"}

WriteOutcomes(k) ==
    CASE k.socket = "closed" -> {"aborted"}
      [] k.socket = "shut"   -> {"failed"}
      [] k.socket = "open"   -> IF k.peer = "reset" THEN {"failed"} ELSE {"ok"}

ConnectOutcomes(k)   == IF k.socket = "closed" THEN {"ok", "more", "failed"} ELSE {"more", "failed"}
HandshakeOutcomes(k) == IF k.socket = "open" /\ k.peer = "alive" THEN {"ok", "failed"} ELSE {"failed"}

Outcomes(op, k) ==
    CASE op = "read"      -> ReadOutcomes(k)
      [] op = "write"     -> WriteOutcomes(k)
      [] op = "connect"   -> ConnectOutcomes(k)
      [] op = "handshake" -> HandshakeOutcomes(k)

Completes(op, c, r) ==
    /\ op \in conn[c].pending /\ r \in Outcomes(op, conn[c])
    /\ conn' = [conn EXCEPT ![c].pending = @ \ {op}]
    /\ tasks' = Append(tasks, Completion(op, c, r))

TimerExpires(c) ==
    /\ conn[c].timer = "armed"
    /\ conn' = [conn EXCEPT ![c].timer = "off"]
    /\ tasks' = Append(tasks, Expiry(c))

(***************************************************************************)
(* The completions the connections run themselves.  The user's handler is  *)
(* posted, not called.                                                     *)
(***************************************************************************)

Runs(kind, op) == tasks # <<>> /\ Head(tasks).kind = kind /\ Head(tasks).op = op

(* Mutant: the handler is called at once, before what is queued. *)
CallHandler == tasks' = <<Handler(Head(tasks))>> \o Tail(tasks)

PostHandler == tasks' = Append(Tail(tasks), Handler(Head(tasks)))

(* An operation that failed marks the connection as not connected. *)
Marked(k, t) == [k EXCEPT !.connected = @ /\ t.result = "ok"]

OnRead ==
    /\ Runs("completion", "read")
    /\ LET t == Head(tasks) IN conn' = [conn EXCEPT ![t.conn] = Marked(Disarmed(@), t)]
    /\ PostHandler

(* on_write leaves the timer alone if the write is untimed. *)
OnWrite(untimed) ==
    /\ Runs("completion", "write")
    /\ LET t == Head(tasks)
           k == conn[t.conn]
       IN conn' = [conn EXCEPT ![t.conn] = Marked(IF untimed THEN k ELSE Disarmed(k), t)]
    /\ PostHandler

(* on_resolve and on_connect. *)
OnConnect ==
    /\ Runs("completion", "connect")
    /\ LET t == Head(tasks)
           k == Disarmed(conn[t.conn])
       IN \/ /\ t.result = "ok"
             /\ conn' = [conn EXCEPT ![t.conn] =
                           [k EXCEPT !.socket = "open", !.peer = "alive", !.connected = TRUE]]
             /\ PostHandler
          \/ /\ t.result = "more"
             /\ conn' = [conn EXCEPT ![t.conn] = ConnectStarted(k)]
             /\ tasks' = Tail(tasks)
          \/ /\ t.result = "failed"
             /\ conn' = [conn EXCEPT ![t.conn] = k]
             /\ PostHandler

(* timeout_service::on_timeout and base_connection::on_timeout: the socket *)
(* is shut down only if the connection counts as connected.                *)
OnTimeout ==
    /\ tasks # <<>> /\ Head(tasks).kind = "expiry"
    /\ conn' = [conn EXCEPT ![Head(tasks).conn] = ShutDown(Disarmed(@))]
    /\ tasks' = Tail(tasks)

(***************************************************************************)
(* Properties every use of the connections must have.                      *)
(***************************************************************************)

(* A timeout never hits a read or write it was not set for: when one of    *)
(* them arms the timer, no earlier expiry is waiting in the queue.  This is *)
(* what posting the user's handler, instead of calling it, gives.          *)
(* (on_resolve and on_connect arm the timer for the next endpoint at once, *)
(* so an expiry that is already queued may hit that attempt.)              *)
NoStaleExpiry ==
    \A c \in Conns :
        conn[c].timer = "armed" /\ ~InProgress(c, {"connect"}) => ~ExpiryQueued(c)

(* Nothing refers to the connections: completions capture a raw pointer to *)
(* their connection, so none may be outstanding when the flow is destroyed.*)
Quiet == tasks = <<>> /\ \A c \in Conns : conn[c].pending = {} /\ conn[c].timer = "off"
==============================================================================
