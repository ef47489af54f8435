----------------------------- MODULE FlowService -----------------------------
(***************************************************************************)
(* connection_handler and the services it switches between, for the life   *)
(* of one flow: http_service reads a request from the client, connects to  *)
(* the server the request names, forwards the request and the response,    *)
(* and goes on with the next request, with a tunnel or a WebSocket service *)
(* (where this module ends), or, after a CONNECT, with tls_service, which  *)
(* establishes TLS with the server, then with the client, and returns to   *)
(* http_service.                                                           *)
(*                                                                         *)
(* What a message says is chosen when it has been parsed: the host it      *)
(* names, its method, how its body ends, whether the connection is kept.   *)
(* Interceptors act through the same choices.                              *)
(***************************************************************************)
EXTENDS Connections

CONSTANTS
    client, server,     \* the two connections of the flow
    Hosts,              \* the servers a request may name (host and port)
    NoHost,             \* no server
    MaxBody,            \* options.body_size_limit, in reads that deliver a part of a body
    PassTlsThrough,     \* options.ssl_passthrough_strict
    ClientsExpect       \* clients send "Expect: 100-continue"

ASSUME FlowAssumption ==
    /\ Conns = {client, server} /\ client # server
    /\ NoHost \notin Hosts
    /\ MaxBody \in Nat
    /\ PassTlsThrough \in BOOLEAN /\ ClientsExpect \in BOOLEAN

VARIABLES
    pc,         \* what the current service is doing
    error,      \* flow_.error holds a proxy error to be reported over HTTP
    named,      \* the server the current request names
    target,     \* flow_.target_host_ and target_port_
    host,       \* flow_.server.host_ and port_
    remote,     \* history: the server that the socket of flow_.server was connected to
    tls,        \* tls_established_
    body,       \* how the body of the current response ends
    reads,      \* parts of the current body that have been read
    stops       \* history: calls of connection_handler::stop

messageVars == <<named, body, reads>>
serverVars  == <<target, host>>
secureVars  == <<remote, tls>>
serviceVars == <<pc, error, messageVars, serverVars, secureVars, stops>>
vars == <<connVars, serviceVars>>

(* Where a service waits for an operation, and for which one.              *)
Awaits ==
    [request_head     |-> <<client, "read">>,
     request_body     |-> <<client, "read">>,
     connect          |-> <<server, "connect">>,
     forward_request  |-> <<server, "write">>,
     response_head    |-> <<server, "read">>,
     response_body    |-> <<server, "read">>,
     forward_response |-> <<client, "write">>,
     connect_response |-> <<client, "write">>,
     error_response   |-> <<client, "write">>,
     client_hello     |-> <<client, "read">>,
     tls_connect      |-> <<server, "connect">>,
     server_handshake |-> <<server, "handshake">>,
     client_handshake |-> <<client, "handshake">>]

(* "continued": handle_request_impl has answered Expect and returned.      *)
Pcs == DOMAIN Awaits \union {"continued", "tunnel", "websocket", "stopped"}

(* connection_manager has started the handler, and http_service is reading. *)
Init ==
    /\ conn = [c \in Conns |->
                 LET k == [peer |-> "alive", socket |-> IF c = client THEN "open" ELSE "closed",
                           connected |-> c = client, timer |-> "off",
                           pending |-> {}]
                 IN IF c = client THEN ReadStarted(k) ELSE k]
    /\ tasks = <<>>
    /\ pc = "request_head"
    /\ error = FALSE
    /\ named = NoHost /\ target = NoHost /\ host = NoHost /\ remote = NoHost
    /\ tls = [c \in Conns |-> FALSE]
    /\ body = "none" /\ reads = 0
    /\ stops = 0

TypeOK ==
    /\ ConnTypeOK
    /\ pc \in Pcs
    /\ error \in BOOLEAN
    /\ {named, target, host, remote} \subseteq Hosts \union {NoHost}
    /\ tls \in [Conns -> BOOLEAN]
    /\ body \in {"none", "delimited", "until_eof"}
    /\ reads \in 0 .. MaxBody
    /\ stops \in Nat

(***************************************************************************)
(* What a handler ends with.  K is the state of the connections at that    *)
(* point of the handler.                                                   *)
(***************************************************************************)

(* The handler of the operation that pc awaits. *)
Handles(where) == pc = where /\ Runs("handler", Awaits[where][2])
Result == Head(tasks).result
Rest   == tasks' = Tail(tasks)

Reads(K, c, where)  == pc' = where /\ conn' = [K EXCEPT ![c] = ReadStarted(@)] /\ Rest /\ UNCHANGED stops
Writes(K, c, where) == pc' = where /\ conn' = [K EXCEPT ![c] = WriteStarted(@)] /\ Rest /\ UNCHANGED stops

(* base_service::stop: connection_flow::disconnect and on_finished_. *)
Stop(K) ==
    /\ pc' = "stopped"
    /\ conn' = [c \in Conns |-> Disconnected(K[c])]
    /\ stops' = stops + 1
    /\ Rest

(* Mutant: the error response is not waited for. *)
SendErrorAndStop(K) ==
    /\ pc' = "stopped"
    /\ conn' = [c \in Conns |-> Disconnected(IF c = client THEN WriteStarted(K[c]) ELSE K[c])]
    /\ stops' = stops + 1
    /\ Rest

(* send_error_response. *)
SendError(K) == Writes(K, client, "error_response")

(* connection_handler::switch_service: the new service starts at once. *)
StartHttp(K) == IF error THEN SendError(K) ELSE Reads(K, client, "request_head")
StartTls(K)  == Reads(K, client, "client_hello")
HandOver(to) == pc' = to /\ Rest /\ UNCHANGED <<conn, stops>>

(* Mutant: the server that is asked for is not compared. *)
IsConnectedToAny(k, h) == k.connected /\ h \in Hosts

IsConnectedTo(k, h) == k.connected /\ host = h

(* base_service::set_server: a server that is connected but not to h is    *)
(* disconnected.                                                           *)
SetServer(h) == target' = IF IsConnectedTo(conn[server], h) THEN target ELSE h

AfterSetServer(h) ==
    IF IsConnectedTo(conn[server], h) \/ ~conn[server].connected
      THEN conn ELSE [conn EXCEPT ![server] = Disconnected(@)]

(* Mutant: no return after the existing connection was reported. *)
ConnectServerTwice(K, h, where) ==
    /\ pc' = where
    /\ conn' = [K EXCEPT ![server] = ConnectStarted(@)]
    /\ IF IsConnectedTo(K[server], h) /\ ~HasBeenClosed(K[server])
         THEN tasks' = Append(Tail(tasks), Handler(Completion("connect", server, "ok")))
         ELSE Rest
    /\ host' = h
    /\ UNCHANGED stops

(* connect_server_async to h: a connection that is there already is used,  *)
(* and its handler posted.                                                 *)
ConnectServer(K, h, where) ==
    /\ pc' = where
    /\ IF IsConnectedTo(K[server], h) /\ ~HasBeenClosed(K[server])
         THEN /\ conn' = K
              /\ tasks' = Append(Tail(tasks), Handler(Completion("connect", server, "ok")))
              /\ host' = host
         ELSE /\ conn' = [K EXCEPT ![server] = ConnectStarted(@)]
              /\ Rest
              /\ host' = h
    /\ UNCHANGED stops

(***************************************************************************)
(* http_service: the request.                                              *)
(***************************************************************************)

(* handle_request.  The last three alternatives need a valid target, and   *)
(* set_server refuses to connect the proxy to itself.                      *)
HandleRequest ==
    \/ /\ SendError(conn)                                   \* validate_target
       /\ UNCHANGED <<messageVars, serverVars>>
    \/ /\ ClientsExpect                                     \* a synchronous write
       /\ \/ /\ "ok" \in WriteOutcomes(conn[client])
             /\ pc' = "continued"
             /\ conn' = [conn EXCEPT ![client] = Disarmed(@)]
             /\ Rest /\ UNCHANGED stops
          \/ "failed" \in WriteOutcomes(conn[client]) /\ Stop(conn)
       /\ UNCHANGED <<messageVars, serverVars>>
    \/ \E h \in Hosts :
          /\ SetServer(h)
          /\ named' = h /\ body' = "none" /\ reads' = 0
          /\ \/ ~IsConnectedTo(conn[server], h) /\ SendError(AfterSetServer(h)) /\ UNCHANGED host
             \/ Writes(AfterSetServer(h), client, "connect_response") /\ UNCHANGED host
             \/ Writes(AfterSetServer(h), client, "forward_response") /\ UNCHANGED host
             \/ ConnectServer(AfterSetServer(h), target', "connect")

(* read_request_body with what is in the buffer. *)
ReadRequestBody ==
    \/ HandleRequest
    \/ SendError(conn) /\ UNCHANGED <<messageVars, serverVars>>
    \/ /\ reads < MaxBody /\ reads' = reads + 1
       /\ Reads(conn, client, "request_body")
       /\ UNCHANGED <<named, body, serverVars>>

(* async_read_until reports no bytes with an error, so a failed read ends  *)
(* the service.                                                            *)
OnReadRequestHead ==
    /\ Handles("request_head")
    /\ IF Result = "ok" THEN ReadRequestBody ELSE Stop(conn) /\ UNCHANGED <<messageVars, serverVars>>
    /\ UNCHANGED <<error, secureVars>>

OnReadRequestBody ==
    /\ Handles("request_body")
    /\ IF Result = "ok" THEN ReadRequestBody ELSE SendError(conn) /\ UNCHANGED <<messageVars, serverVars>>
    /\ UNCHANGED <<error, secureVars>>

OnConnectServer ==
    /\ Handles("connect")
    /\ IF Result = "ok" THEN Writes(conn, server, "forward_request") ELSE SendError(conn)
    /\ UNCHANGED <<error, messageVars, serverVars, secureVars>>

OnForwardRequest ==
    /\ Handles("forward_request")
    /\ IF Result = "ok" THEN Reads(conn, server, "response_head") ELSE SendError(conn)
    /\ UNCHANGED <<error, messageVars, serverVars, secureVars>>

(***************************************************************************)
(* http_service: the response.                                             *)
(***************************************************************************)

(* read_response_body, when the body ends as in b, r parts of it have been *)
(* read, and the last read has delivered "data" or only the end ("eof").   *)
(* http_parser::read_body takes an empty buffer for the end of a body that *)
(* goes until the end of the stream.                                       *)
ReadResponseBody(b, r, empty, eof) ==
    \/ /\ IF b = "until_eof" THEN empty ELSE TRUE
       /\ Writes(conn, client, "forward_response") /\ reads' = 0
    \/ /\ b = "until_eof" => ~empty
       /\ ~eof /\ r < MaxBody /\ reads' = r + 1
       /\ Reads(conn, server, "response_body")
    \/ SendError(conn) /\ reads' = r        \* malformed, too large or incomplete

OnReadResponseHead ==
    /\ Handles("response_head")
    /\ IF Result = "ok"
         THEN \E b \in {"none", "delimited", "until_eof"}, empty \in BOOLEAN :
                 body' = b /\ ReadResponseBody(b, 0, empty, FALSE)
         ELSE SendError(conn) /\ UNCHANGED <<body, reads>>
    /\ UNCHANGED <<error, named, serverVars, secureVars>>

(* An error other than the end of the stream is answered with an error. *)
OnReadResponseBody ==
    /\ Handles("response_body")
    /\ CASE Result = "ok"  -> ReadResponseBody(body, reads, FALSE, FALSE)
         [] Result = "eof" -> ReadResponseBody(body, reads, TRUE, TRUE)
         [] OTHER          -> SendError(conn) /\ UNCHANGED reads
    /\ UNCHANGED <<error, named, body, serverVars, secureVars>>

(* on_forward_response and handle_response. *)
OnForwardResponse ==
    /\ Handles("forward_response")
    /\ \/ Stop(conn)                    \* the write failed, or "Connection: close"
       \/ /\ Result = "ok"
          /\ StartHttp(conn) \/ HandOver("tunnel") \/ HandOver("websocket")
    /\ UNCHANGED <<error, messageVars, serverVars, secureVars>>

(* on_send_connect_response does not look at the result of the write. *)
OnSendConnectResponse ==
    /\ Handles("connect_response")
    /\ \/ Stop(conn)
       \/ StartHttp(conn)
       \/ HandOver("tunnel")
       \/ ~PassTlsThrough /\ StartTls(conn)
    /\ UNCHANGED <<error, messageVars, serverVars, secureVars>>

OnWriteErrorResponse ==
    /\ Handles("error_response")
    /\ Stop(conn)
    /\ UNCHANGED <<error, messageVars, serverVars, secureVars>>

(***************************************************************************)
(* tls_service.                                                            *)
(***************************************************************************)

OnReadClientHello ==
    /\ Handles("client_hello")
    /\ \/ HandOver("tunnel") /\ UNCHANGED <<reads, host>>   \* an error, or no Client Hello
       \/ /\ Result = "ok"
          /\ \/ /\ reads < MaxBody /\ reads' = reads + 1
                /\ Reads(conn, client, "client_hello") /\ UNCHANGED host
             \/ ConnectServer(conn, target, "tls_connect") /\ reads' = 0
    /\ UNCHANGED <<error, named, body, target, secureVars>>

(* establish_tls_with_client: without a certificate the service stops. *)
EstablishTls(c, where) ==
    \/ Stop(conn)
    \/ /\ pc' = where
       /\ conn' = [conn EXCEPT ![c] = HandshakeStarted(@)]
       /\ Rest /\ UNCHANGED stops

(* A failure to connect to the server, or to establish TLS with it, is     *)
(* reported once TLS is established with the client.                       *)
OnTlsConnectServer ==
    /\ Handles("tls_connect")
    /\ \/ Result = "ok" /\ EstablishTls(server, "server_handshake") /\ UNCHANGED error
       \/ Result # "ok" /\ EstablishTls(client, "client_handshake") /\ error' = TRUE
    /\ UNCHANGED <<messageVars, serverVars, secureVars>>

(* Mutant: the failure of the handshake is not kept for http_service. *)
OnEstablishTlsIgnoringErrors ==
    /\ Handles("server_handshake")
    /\ EstablishTls(client, "client_handshake")
    /\ UNCHANGED <<error, messageVars, serverVars, secureVars>>

OnEstablishTlsWithServer ==
    /\ Handles("server_handshake")
    /\ EstablishTls(client, "client_handshake")
    /\ error' = (error \/ Result # "ok")
    /\ UNCHANGED <<messageVars, serverVars, secureVars>>

(* The handler is only called with success (see HandshakeCompletes). *)
OnEstablishTlsWithClient ==
    /\ Handles("client_handshake")
    /\ \/ StartHttp(conn)
       \/ ~error /\ HandOver("tunnel")
       \/ error /\ Stop(conn)
    /\ UNCHANGED <<error, messageVars, serverVars, secureVars>>

(***************************************************************************)
(* The connections.                                                        *)
(***************************************************************************)

RunConnection ==
    /\ OnRead \/ OnWrite(FALSE) \/ OnTimeout
    /\ UNCHANGED serviceVars

(* on_connect; tls_established_ keeps its value. *)
ConnectCompletes ==
    /\ OnConnect
    /\ remote' = IF Result = "ok" THEN host ELSE remote
    /\ UNCHANGED <<pc, error, messageVars, serverVars, tls, stops>>

(* server_connection::on_handshake posts its handler; client_connection's  *)
(* on_handshake posts it only after a success.                             *)
HandshakeCompletes ==
    /\ Runs("completion", "handshake")
    /\ LET c  == Head(tasks).conn
           ok == Result = "ok"
       IN /\ tls' = [tls EXCEPT ![c] = @ \/ ok]
          /\ conn' = [conn EXCEPT ![c].connected = @ /\ (c = client => ok)]
          /\ IF c = client /\ ~ok THEN Rest ELSE PostHandler
    /\ UNCHANGED <<pc, error, messageVars, serverVars, remote, stops>>

(* The operating system; a peer may leave whenever its end is connected.   *)
Environment(c) ==
    /\ \/ conn[c].socket # "closed" /\ (PeerCloses(c) \/ PeerResets(c))
       \/ TimerExpires(c)
       \/ \E op \in Ops, r \in Results : Completes(op, c, r)
    /\ UNCHANGED serviceVars

Services ==
    \/ OnReadRequestHead \/ OnReadRequestBody \/ OnConnectServer \/ OnForwardRequest
    \/ OnReadResponseHead \/ OnReadResponseBody \/ OnForwardResponse
    \/ OnSendConnectResponse \/ OnWriteErrorResponse
    \/ OnReadClientHello \/ OnTlsConnectServer
    \/ OnEstablishTlsWithServer \/ OnEstablishTlsWithClient

(* Once pc is "tunnel" or "websocket", the service this module ends with   *)
(* has the connections; only their peers still change here.                *)
Next ==
    \/ Services
    \/ RunConnection \/ ConnectCompletes \/ HandshakeCompletes
    \/ \E c \in Conns : Environment(c)

Spec == Init /\ [][Next]_vars

(* An operation ends because a peer or the proxy has ended the connection, *)
(* or the operating system gives up a connection attempt.                  *)
Ends(c, op) ==
    /\ \E r \in {"eof", "failed", "aborted"} : Completes(op, c, r)
    /\ UNCHANGED serviceVars

Expires(c) == TimerExpires(c) /\ UNCHANGED serviceVars

(* The io_context thread runs what is ready and an armed timer expires.    *)
(* Reads and connection attempts get strong fairness, because a shut       *)
(* socket has received a finite amount, and a name has finitely many       *)
(* endpoints.                                                              *)
Fairness ==
    /\ WF_vars(Services) /\ WF_vars(RunConnection)
    /\ WF_vars(ConnectCompletes) /\ WF_vars(HandshakeCompletes)
    /\ \A c \in Conns : WF_vars(Expires(c)) /\ SF_vars(Ends(c, "read")) /\ WF_vars(Ends(c, "write"))
    /\ SF_vars(Ends(server, "connect"))

FairSpec == Spec /\ Fairness

(***************************************************************************)
(* Properties.                                                             *)
(***************************************************************************)

(* A service has exactly one operation in progress, the one its current    *)
(* step waits for: no handler runs in a step that did not start it, a new  *)
(* service never meets one of its predecessor, and none is forgotten.      *)
(* (Only the handler of a failed handshake with the client is not called,  *)
(* although on_establish_tls_with_client has a case for it.)               *)
OneOperation ==
    /\ \A c \in Conns, op \in Ops :
          InProgress(c, {op}) => pc \in DOMAIN Awaits /\ Awaits[pc] = <<c, op>>
    /\ pc \in DOMAIN Awaits \ {"client_handshake"} =>
          InProgress(Awaits[pc][1], {Awaits[pc][2]})

(* The flow is stopped once, and nothing still refers to the connections   *)
(* that connection_manager destroys then.                                  *)
StopsOnceAndQuiet ==
    /\ stops <= 1
    /\ pc = "stopped" => stops = 1 /\ Quiet

(* switch_service hands the flow to a tunnel (or a WebSocket service) with *)
(* no operation, handler or timeout of the previous service left.          *)
HandsOverAtRest ==
    pc \in {"tunnel", "websocket"} => Quiet /\ HandedOver(conn, client)

(* A request is only written to a connection with the server it names,     *)
(* however often the connection is reused, replaced or lost between two    *)
(* requests of the same client.                                            *)
RightServer == pc = "forward_request" => remote = named

(* Once tls_service has established TLS with the client and returned to    *)
(* http_service, no request is forwarded in the clear.                     *)
NoDowngrade == pc = "forward_request" /\ tls[client] => tls[server]

(* "Read until EOF, which is rare but allowed by the standard."            *)
(* (http_parser.cpp): a response whose body goes until the end of the      *)
(* stream is forwarded after the server has ended the stream.              *)
WholeBodies ==
    pc = "forward_response" /\ body = "until_eof" => conn[server].peer # "alive"

Finished == {"stopped", "tunnel", "websocket"}

(* A flow whose client is gone does not stay with the proxy: for good it   *)
(* is stopped, or with another service, or it is one of those that nothing *)
(* continues: it has answered "Expect: 100-continue", or waits for a TLS   *)
(* handshake, which has no timeout.                                        *)
FlowEnds ==
    conn[client].peer = "reset"
        ~> [](pc \in Finished \union {"continued", "server_handshake", "client_handshake"})
==============================================================================
