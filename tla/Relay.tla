--------------------------------- MODULE Relay ---------------------------------
(***************************************************************************)
(* What tunnel_service and websocket_service have in common: two loops,    *)
(* one for each connection of the flow, that read from that connection and *)
(* write to the other one, and the peers and the reactor around them.      *)
(* Only the reads are timed.                                               *)
(***************************************************************************)
EXTENDS Connections

CONSTANTS
    client, server,     \* the two connections of the flow
    MaxChunks           \* bound: how often a peer sends something

ASSUME RelayAssumption ==
    Conns = {client, server} /\ client # server /\ MaxChunks \in Nat

VARIABLES
    phase,          \* of the service: "start", "connecting", "running", "stopped"
    loop,           \* of the loop that reads from each connection
    chunks,         \* what each peer has left to send
    stops           \* history: calls of connection_handler::stop

relayVars == <<phase, loop, chunks, stops>>

Other(c) == IF c = client THEN server ELSE client

(* The flow as the previous service left it. *)
RelayInit ==
    /\ conn \in [Conns -> [peer : {"alive", "closed", "reset"}, socket : {"closed", "open", "shut"},
                          connected : BOOLEAN, timer : {"off"}, pending : {{}}]]
    /\ HandedOver(conn, client)
    /\ tasks = <<>>
    /\ phase = "start"
    /\ loop = [c \in Conns |-> "unstarted"]
    /\ chunks \in [Conns -> 0 .. MaxChunks]
    /\ stops = 0

RelayTypeOK ==
    /\ ConnTypeOK
    /\ phase \in {"start", "connecting", "running", "stopped"}
    /\ loop \in [Conns -> {"unstarted", "writing", "reading", "closing", "finished"}]
    /\ chunks \in [Conns -> 0 .. MaxChunks]
    /\ stops \in Nat

(* base_service::stop: connection_flow::disconnect and on_finished_. *)
Stop ==
    /\ conn' = [c \in Conns |-> Disconnected(conn[c])]
    /\ phase' = "stopped"
    /\ stops' = stops + 1

(***************************************************************************)
(* The peers, the reactor and the completions of the connections.          *)
(***************************************************************************)

(* The peer of c sends something, or what it has sent before is delivered. *)
PeerSends(c) ==
    /\ chunks[c] > 0
    /\ chunks' = [chunks EXCEPT ![c] = @ - 1]
    /\ Completes("read", c, "ok")
    /\ UNCHANGED <<phase, loop, stops>>

(* A read ends because the peer or the proxy has ended the connection. *)
ReadEnds(c) ==
    /\ \E r \in Results \ {"ok"} : Completes("read", c, r)
    /\ UNCHANGED relayVars

(* The peer of c takes what is written. *)
PeerTakes(c) == Completes("write", c, "ok") /\ UNCHANGED relayVars

WriteEnds(c) ==
    /\ \E r \in Results \ {"ok"} : Completes("write", c, r)
    /\ UNCHANGED relayVars

(* A connection attempt makes progress or comes to its result. *)
Connects(r) == Completes("connect", server, r) /\ UNCHANGED relayVars

PeerLeaves(c) == (PeerCloses(c) \/ PeerResets(c)) /\ UNCHANGED relayVars

Expires(c) == TimerExpires(c) /\ UNCHANGED relayVars

RunConnection == (OnRead \/ OnWrite(TRUE) \/ OnConnect \/ OnTimeout) /\ UNCHANGED relayVars

Environment ==
    \/ RunConnection
    \/ \E r \in Results : Connects(r)
    \/ \E c \in Conns :
          \/ PeerSends(c) \/ ReadEnds(c) \/ PeerTakes(c) \/ WriteEnds(c)
          \/ PeerLeaves(c) \/ Expires(c)

(* The io_context thread runs what is ready, the operating system          *)
(* completes operations on sockets that either side has ended and reports  *)
(* the result of a connection attempt, an armed timer expires, and what is *)
(* written to a peer is eventually taken.                                  *)
RelayFairness ==
    /\ WF_<<connVars, relayVars>>(RunConnection)
    /\ SF_<<connVars, relayVars>>(\E r \in {"ok", "failed"} : Connects(r))
    /\ \A c \in Conns :
          /\ WF_<<connVars, relayVars>>(ReadEnds(c))
          /\ WF_<<connVars, relayVars>>(WriteEnds(c))
          /\ WF_<<connVars, relayVars>>(Expires(c))
          /\ WF_<<connVars, relayVars>>(PeerTakes(c))

(***************************************************************************)
(* Properties of both services.                                            *)
(***************************************************************************)

(* The service stops once, and only when neither a loop, nor the reactor,  *)
(* nor the run queue still holds a pointer to the connections that the     *)
(* stop destroys.                                                          *)
StopsOnceAndQuiet ==
    /\ stops <= 1
    /\ phase = "stopped" => stops = 1 /\ Quiet

(* A loop has exactly one operation in progress, on the connection it      *)
(* should be waiting for: no byte is read while the previous one is being  *)
(* written, and no loop is forgotten.                                      *)
OneOperationPerLoop ==
    phase = "running" => \A c \in Conns :
        /\ InProgress(c, {"read"}) <=> loop[c] = "reading"
        /\ InProgress(Other(c), {"write"}) <=> loop[c] \in {"writing", "closing"}

(* Once the peers have nothing more to send, the service is torn down: no  *)
(* loop waits for the other one, or for a timer that is not set.           *)
RelayEnds == <>(phase = "stopped")
==============================================================================
