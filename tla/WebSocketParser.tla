---------------------------- MODULE WebSocketParser ----------------------------
(***************************************************************************)
(* One direction of a WebSocket connection: a peer sends frames, the       *)
(* parser takes them in its four stages as their bytes arrive, and what    *)
(* the manager completes is serialized for the other peer, as the service  *)
(* does when it does not intercept (it answers pings, but drops pongs).    *)
(***************************************************************************)
EXTENDS WebSocketFrames, Naturals, FiniteSets

CONSTANT MaxFrames      \* bound: frames the peer sends

ASSUME FramesAssumption == MaxFrames \in Nat

VARIABLES
    dest,           \* destination_ of the parser
    deflate,        \* permessage-deflate was negotiated
    parser,         \* effective opcodes and flags of the extension
    stage,          \* state_
    wire,           \* frames sent by the peer that the parser has not finished with
    status,         \* "ok", "error" (a result that is not ok) or "close" (should_close)
    misread,        \* history: a masking key came out as 0
    arrived,        \* history: frames the peer has sent
    forwarded       \* history: frames serialized for the other peer

parserVars == <<dest, deflate, parser, stage, wire, status, misread, arrived, forwarded>>

ParserInit ==
    /\ dest \in {"client", "server"}
    /\ deflate \in BOOLEAN
    /\ parser = InitialParser
    /\ stage = "header"
    /\ wire = <<>>
    /\ status = "ok"
    /\ misread = FALSE
    /\ arrived = <<>>
    /\ forwarded = <<>>

ParserTypeOK ==
    /\ dest \in {"client", "server"} /\ deflate \in BOOLEAN
    /\ parser \in Parser
    /\ stage \in {"header", "payload_length", "mask_key", "payload"}
    /\ wire \in Seq(Frame) /\ arrived \in Seq(Frame) /\ forwarded \in Seq(Frame)
    /\ status \in {"ok", "error", "close"}
    /\ misread \in BOOLEAN
    /\ stage # "header" => wire # <<>>

(***************************************************************************)
(* The peer.  What it may send next follows from the message it is in the  *)
(* middle of; at any point it may also send one frame that is wrong.       *)
(***************************************************************************)

IsData(f) == ~IsControl(f.op)

(* The last data frame among these is at i. *)
LastData(frames, i) == IsData(frames[i]) /\ \A j \in i + 1..Len(frames) : ~IsData(frames[j])

(* The last message of these frames is not finished. *)
Unfinished(frames) == \E i \in DOMAIN frames : LastData(frames, i) /\ ~frames[i].fin

Legal(frames, f) ==
    /\ f.masked = (dest = "server")
    /\ f.length \in {"short", "long"}
    /\ f.op # "reserved"
    /\ IsControl(f.op) => f.fin /\ ~f.rsv1 /\ f.length = "short" /\ f.body # "packed"
    /\ ~IsControl(f.op) => (f.op = "continuation" <=> Unfinished(frames))
    /\ f.op = "continuation" =>
          /\ ~f.rsv1
          /\ \A i \in DOMAIN frames :
                LastData(frames, i) /\ "garbled" \notin {f.body, frames[i].body} => f.body = frames[i].body
    /\ f.op \in Messages => (f.body = "packed" => f.rsv1) /\ (f.rsv1 => f.body # "plain")
    /\ f.rsv1 => deflate

AllLegal(frames) == \A i \in DOMAIN frames : Legal(SubSeq(frames, 1, i - 1), frames[i])

(* One thing is wrong with the frame. *)
Damaged(f) ==
    {[f EXCEPT !.masked = ~@], [f EXCEPT !.length = "padded"], [f EXCEPT !.rsv1 = ~@],
     [f EXCEPT !.op = "reserved"]}
        \union (IF IsControl(f.op) THEN {[f EXCEPT !.fin = FALSE], [f EXCEPT !.length = "long"],
                                         [f EXCEPT !.length = "one"]} ELSE {})

PeerSendsFrame ==
    /\ Len(arrived) < MaxFrames /\ AllLegal(arrived)
    /\ \E g \in [op : Opcodes, fin : BOOLEAN, rsv1 : BOOLEAN, masked : {dest = "server"},
                 length : {"short"}, body : {"plain", "packed"}] :
          /\ Legal(arrived, g)
          /\ \E f \in {g} \union Damaged(g) :
                /\ wire' = Append(wire, f)
                /\ arrived' = Append(arrived, f)
    /\ UNCHANGED <<dest, deflate, parser, stage, status, misread, forwarded>>

(***************************************************************************)
(* frame_parser::parse.  Each stage needs its bytes to have arrived; a     *)
(* call that runs out of bytes leaves state_ for the next one.             *)
(***************************************************************************)

Fails(why) ==
    /\ status' = why
    /\ UNCHANGED <<dest, deflate, parser, stage, wire, misread, arrived, forwarded>>

ParseHeader ==
    /\ status = "ok" /\ stage = "header" /\ wire # <<>>
    /\ \/ HeaderRefused(parser, Head(wire)) /\ Fails("error")
       \/ /\ ~HeaderRefused(parser, Head(wire))
          /\ stage' = "payload_length"
          /\ UNCHANGED <<dest, deflate, parser, wire, status, misread, arrived, forwarded>>

ParsePayloadLength ==
    /\ status = "ok" /\ stage = "payload_length"
    /\ LET f == Head(wire) IN
       \/ LengthRefused(f) /\ Fails("error")
       \/ ~LengthRefused(f) /\ HookCloses(f, deflate) /\ Fails("close")
       \/ ~LengthRefused(f) /\ ~HookCloses(f, deflate) /\ MaskRefused(f, dest) /\ Fails("error")
       \/ /\ ~LengthRefused(f) /\ ~HookCloses(f, deflate) /\ ~MaskRefused(f, dest)
          /\ parser' = HeaderHook(parser, f, deflate)
          /\ stage' = "mask_key"
          /\ UNCHANGED <<dest, deflate, wire, status, misread, arrived, forwarded>>

(* The key is read as if it had eight bytes: its shifts by 32 bits and more *)
(* are undefined for an int.  Where they are taken modulo 32 the key comes  *)
(* out right, where they give 0 the payload stays masked.                  *)
ParseMaskKey ==
    /\ status = "ok" /\ stage = "mask_key"
    /\ stage' = "payload"
    /\ \/ UNCHANGED <<wire, misread>>
       \/ Head(wire).masked /\ wire' = [wire EXCEPT ![1].body = "garbled"] /\ misread' = TRUE
    /\ UNCHANGED <<dest, deflate, parser, status, arrived, forwarded>>

(* The parser is done with its frame; what the manager made of it goes on. *)
RelayFrame(p, out) ==
    /\ stage' = "header" /\ wire' = Tail(wire)
    /\ parser'    = IF out = <<>> THEN p ELSE Serialized(p, Head(out))
    /\ forwarded' = IF out = <<>> THEN forwarded
                    ELSE Append(forwarded, OnWire(p, Head(out), dest, deflate))
    /\ status'    = IF Head(wire).op = "close" THEN "close" ELSE status
    /\ UNCHANGED <<dest, deflate, misread, arrived>>

(* The payload, the hooks of the extension, the manager and the service. *)
ParsePayload ==
    /\ status = "ok" /\ stage = "payload"
    /\ LET f == Head(wire)
           p == Effective(CompleteHook(parser, f, deflate), f)
       IN \/ MayFailToInflate(parser, f) /\ Fails("close")
          \/ CloseRefused(f) /\ Fails("error")
          \/ /\ ~CloseRefused(f)
             /\ \E body \in Contents(parser, f) :
                   LET all == Completed(parser, f, body)
                       out == IF all # <<>> /\ Head(all).op = "pong" THEN <<>> ELSE all
                   IN IF out # <<>> /\ Unexpected(p, Head(out)) THEN Fails("error")
                      ELSE RelayFrame(p, out)

ParserNext == PeerSendsFrame \/ ParseHeader \/ ParsePayloadLength \/ ParseMaskKey \/ ParsePayload

ParserSpec == ParserInit /\ [][ParserNext]_parserVars

(***************************************************************************)
(* Properties.                                                             *)
(***************************************************************************)

Fragmented == \E i \in DOMAIN arrived : ~arrived[i].fin

(* The frames that have arrived and are not on the wire any more. *)
Parsed == Len(arrived) - Len(wire)

(* Of the first k of them, those that are passed on. *)
Passed(k) == {j \in 1..k : arrived[j].op # "pong"}

(* What goes out is again a stream the protocol allows: fragments follow    *)
(* their first frame, only that one is marked as compressed, and control    *)
(* frames are whole.                                                       *)
OutputLegal == AllLegal(forwarded)

(* A peer that keeps to the protocol and sends no message in fragments is   *)
(* not cut off, whatever its opcodes and its compression, and each frame    *)
(* arrives as it was sent.  A message in fragments and a key that was       *)
(* misread may end the connection and lose the message, and a compressed    *)
(* message after a control frame is taken for a plain one.                  *)
ArrivesAsSent ==
    AllLegal(arrived) /\ ~Fragmented /\ ~misread =>
       /\ status # "error"
       /\ status = "close" => \E k \in DOMAIN arrived : arrived[k].op = "close"
       /\ (deflate => \A k \in 1..Parsed : ~IsControl(arrived[k].op))
          => /\ Len(forwarded) = Cardinality(Passed(Parsed))
             /\ \A k \in Passed(Parsed) :
                   LET f == forwarded[Cardinality(Passed(k))]
                   IN  f.op = arrived[k].op /\ f.body = IF deflate THEN "packed" ELSE "plain"
==============================================================================
