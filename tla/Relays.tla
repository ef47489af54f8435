-------------------------------- MODULE Relays --------------------------------
(***************************************************************************)
(* The two services that relay between the connections of a flow: a flow   *)
(* that is not over after its HTTP part ends in one of them.               *)
(***************************************************************************)
EXTENDS Tunnel, WebSocket

VARIABLE service    \* which of the two the flow was handed to

vars == <<webSocketVars, service>>

(* The tunnel alone may have to connect to the server. *)
Init ==
    /\ service \in {"tunnel", "websocket"}
    /\ RelayInit /\ WebSocketInit
    /\ service = "websocket" => \A c \in Conns : conn[c].connected

TunnelStep    == service = "tunnel" /\ TunnelNext /\ UNCHANGED pipelineVars
WebSocketStep == service = "websocket" /\ WebSocketNext

Next == (TunnelStep \/ WebSocketStep) /\ UNCHANGED service

Spec == Init /\ [][Next]_vars

TypeOK == RelayTypeOK /\ WebSocketTypeOK /\ service \in {"tunnel", "websocket"}

(* A handler that is ready is run. *)
Of(name, action) == service = name /\ action /\ UNCHANGED service

Fairness ==
    /\ WF_vars(Of("tunnel", TunnelStart /\ UNCHANGED pipelineVars))
    /\ WF_vars(Of("tunnel", OnConnectServer /\ UNCHANGED pipelineVars))
    /\ WF_vars(Of("tunnel", LoopRead /\ UNCHANGED pipelineVars))
    /\ WF_vars(Of("tunnel", LoopWrite /\ UNCHANGED pipelineVars))
    /\ WF_vars(Of("websocket", WebSocketStart))
    /\ WF_vars(Of("websocket", OnSourceRead))
    /\ WF_vars(Of("websocket", OnDestinationWrite))
    /\ RelayFairness
==============================================================================
