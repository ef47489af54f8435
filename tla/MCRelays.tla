------------------------------- MODULE MCRelays -------------------------------
(* The two relaying services for TLC. *)
EXTENDS Relays

Raw(op, fin) == [op |-> op, fin |-> fin, rsv1 |-> FALSE, masked |-> FALSE,
                 length |-> "short", body |-> "plain"]

(* The first and the last frame of a message, messages and a ping, a close *)
(* frame before a message, and a frame the parser refuses after one.       *)
SomeBatches ==
    {<<Raw("binary", FALSE)>>, <<Raw("text", TRUE), Raw("ping", TRUE), Raw("text", TRUE)>>,
     <<Raw("pong", TRUE), Raw("continuation", TRUE)>>,
     <<Raw("close", TRUE), Raw("text", TRUE)>>, <<Raw("text", TRUE), Raw("ping", FALSE)>>}

CloseFrames == {<<Raw("close", TRUE)>>}

FewBatches == {<<Raw("close", TRUE)>>, <<Raw("text", TRUE), Raw("ping", FALSE)>>}

(* What is the same for a tunnel, or costs a WebSocket too much, is fixed. *)
MCInit ==
    /\ Init
    /\ service = "tunnel" =>
          ~pipe.intercept /\ \A c \in Conns : chunks[c] = MaxChunks
    /\ service = "websocket" =>
          \A c \in Conns : conn[c].peer = "alive" /\ chunks[c] = 1

MCSpec == MCInit /\ [][Next]_vars

MCFairSpec == MCSpec /\ Fairness
==============================================================================
