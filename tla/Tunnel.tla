-------------------------------- MODULE Tunnel --------------------------------
(***************************************************************************)
(* tunnel_service and its two tunnel_loops: bytes are relayed between the  *)
(* client and the server, each direction writing what was read from its    *)
(* source to its destination.                                              *)
(***************************************************************************)
EXTENDS Relay

(* initiate_tunnel: both loops start with a write of what is buffered. *)
Initiate ==
    /\ phase' = "running"
    /\ loop' = [c \in Conns |-> "writing"]
    /\ conn' = [c \in Conns |-> UntimedWriteStarted(conn[c])]
    /\ UNCHANGED <<chunks, stops>>

(* start.  After a CONNECT the server is not connected yet; a client whose *)
(* read has failed in on_read_client_hello is not connected any more, and  *)
(* its socket is shut if the read had timed out.                           *)
TunnelStart ==
    /\ phase = "start"
    /\ \/ conn[server].connected /\ Initiate
       \/ /\ ~conn[server].connected
          /\ phase' = "connecting"
          /\ conn' = [conn EXCEPT ![server] = ConnectStarted(@)]
          /\ UNCHANGED <<loop, chunks, stops>>
    /\ UNCHANGED tasks

(* on_connect_server. *)
OnConnectServer ==
    /\ Runs("handler", "connect")
    /\ tasks' = Tail(tasks)
    /\ IF Head(tasks).result = "ok" THEN Initiate ELSE Stop /\ UNCHANGED <<loop, chunks>>

(* Mutant: on_finish stops the service when one loop is finished. *)
FinishAtFirst(c) ==
    /\ loop' = [loop EXCEPT ![c] = "finished"]
    /\ IF phase # "stopped" THEN Stop ELSE UNCHANGED <<conn, phase, stops>>

(* finish of the loop that reads from c; on_finish stops the service when  *)
(* both loops are finished.                                                *)
Finish(c) ==
    /\ loop' = [loop EXCEPT ![c] = "finished"]
    /\ IF loop[Other(c)] = "finished" THEN Stop ELSE UNCHANGED <<conn, phase, stops>>

(* Mutant: the loop reads on while it writes. *)
LoopReadAhead ==
    /\ Runs("handler", "read")
    /\ LET t == Head(tasks) IN
          IF t.result = "ok"
            THEN /\ loop' = [loop EXCEPT ![t.conn] = "writing"]
                 /\ conn' = [conn EXCEPT ![Other(t.conn)] = UntimedWriteStarted(@),
                                         ![t.conn] = ReadStarted(@)]
                 /\ UNCHANGED <<phase, stops>>
            ELSE Finish(t.conn)
    /\ tasks' = Tail(tasks)
    /\ UNCHANGED chunks

(* tunnel_loop::on_read. *)
LoopRead ==
    /\ Runs("handler", "read")
    /\ LET t == Head(tasks) IN
          IF t.result = "ok"
            THEN /\ loop' = [loop EXCEPT ![t.conn] = "writing"]
                 /\ conn' = [conn EXCEPT ![Other(t.conn)] = UntimedWriteStarted(@)]
                 /\ UNCHANGED <<phase, stops>>
            ELSE Finish(t.conn)
    /\ tasks' = Tail(tasks)
    /\ UNCHANGED chunks

(* tunnel_loop::on_write. *)
LoopWrite ==
    /\ Runs("handler", "write")
    /\ LET c == Other(Head(tasks).conn) IN
          IF Head(tasks).result = "ok"
            THEN /\ loop' = [loop EXCEPT ![c] = "reading"]
                 /\ conn' = [conn EXCEPT ![c] = ReadStarted(@)]
                 /\ UNCHANGED <<phase, stops>>
            ELSE Finish(c)
    /\ tasks' = Tail(tasks)
    /\ UNCHANGED chunks

tunnelVars == <<connVars, relayVars>>

TunnelNext == TunnelStart \/ OnConnectServer \/ LoopRead \/ LoopWrite \/ Environment

TunnelSpec == RelayInit /\ [][TunnelNext]_tunnelVars
==============================================================================
