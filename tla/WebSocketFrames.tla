---------------------------- MODULE WebSocketFrames ----------------------------
(***************************************************************************)
(* frame_parser, websocket_manager and permessage_deflate: what reading a  *)
(* frame does to the state of the parser of one direction, which completed *)
(* frame the manager makes of it, and what serializing one puts on the     *)
(* wire.  A payload is only "plain" or "packed" (deflated): what deflate   *)
(* makes of the bytes is left to zlib.  "garbled" is neither.               *)
(***************************************************************************)
EXTENDS Sequences

(* "reserved" stands for the data opcodes the protocol leaves undefined; the *)
(* parser takes them, since no opcode of four bits is above opcode::max.   *)
Messages == {"text", "binary"}
Controls == {"close", "ping", "pong"}
Opcodes  == Messages \union Controls \union {"continuation", "reserved"}

IsControl(op) == op \in Controls

(* "short": up to 125 bytes; "one": a single byte; "padded": an extended   *)
(* length that would have fitted a shorter encoding.                       *)
Lengths == {"short", "one", "long", "padded"}
Bodies  == {"plain", "packed", "garbled"}

Frame == [op : Opcodes, fin : BOOLEAN, rsv1 : BOOLEAN, masked : BOOLEAN,
          length : Lengths, body : Bodies]

(* effIn and effOut: effective_opcode_in_ and effective_opcode_out_.       *)
(* compressible and compressed: the two optional flags of the extension.   *)
Parser == [effIn : Opcodes \union {"none"}, effOut : Messages \union {"none"},
           compressible : {"unset", "yes", "no"}, compressed : {"unset", "yes", "no"}]

InitialParser == [effIn |-> "none", effOut |-> "none",
                  compressible |-> "no", compressed |-> "unset"]

YesNo(b) == IF b THEN "yes" ELSE "no"

(***************************************************************************)
(* frame_parser::parse, stage by stage.                                    *)
(***************************************************************************)

HeaderRefused(p, f) ==
    \/ IsControl(f.op) /\ ~f.fin
    \/ p.effIn # "none" /\ f.op # "continuation"
    \/ IsControl(f.op) /\ f.length \in {"long", "padded"}

LengthRefused(f) == f.length = "padded"

(* Only a parser that reads from the client expects a mask. *)
MaskRefused(f, dest) == f.masked # (dest = "server")

(* permessage_deflate::on_inbound_frame_header. *)
HookCloses(f, deflate) == deflate /\ f.rsv1 /\ (IsControl(f.op) \/ f.op = "continuation")

HeaderHook(p, f, deflate) ==
    IF ~deflate THEN p
    ELSE [p EXCEPT !.compressible = YesNo(~IsControl(f.op)),
                   !.compressed   = IF @ = "unset" THEN YesNo(f.rsv1) ELSE @]

(* permessage_deflate::on_inbound_frame_payload. *)
Inflates(p) == p.compressed = "yes" /\ p.compressible = "yes"

(* The marker that ends a deflated message is appended to every frame; only *)
(* a message of one frame is certain to come out as it went in.            *)
InflatesCleanly(f) == f.body = "packed" /\ f.fin /\ f.op # "continuation"

Contents(p, f) ==
    IF ~Inflates(p) THEN {f.body}
    ELSE IF InflatesCleanly(f) THEN {"plain"} ELSE {"plain", "garbled"}

MayFailToInflate(p, f) == Inflates(p) /\ ~InflatesCleanly(f)

(* Mutant: the message after a compressed one is taken to be compressed. *)
CompleteHookKeeping(p, f, deflate) ==
    IF deflate /\ f.fin /\ p.compressible # "yes" THEN [p EXCEPT !.compressible = "unset"] ELSE p

(* permessage_deflate::on_inbound_frame_complete. *)
CompleteHook(p, f, deflate) ==
    IF ~deflate \/ ~f.fin THEN p
    ELSE IF p.compressible # "yes" THEN [p EXCEPT !.compressible = "unset"]
    ELSE [p EXCEPT !.compressed = "unset"]

(* The effective opcode, and the type the frame is returned with: the last *)
(* frame of a fragmented message stays a continuation.                     *)
Effective(p, f) ==
    IF IsControl(f.op) THEN p
    ELSE IF f.fin THEN [p EXCEPT !.effIn = "none"]
    ELSE [p EXCEPT !.effIn = IF @ = "none" THEN f.op ELSE @]

ReturnedType(p, f) ==
    IF ~IsControl(f.op) /\ ~f.fin /\ p.effIn # "none" THEN p.effIn ELSE f.op

(* websocket_manager::parse and process_close_frame. *)
CloseRefused(f) == f.op = "close" /\ f.length = "one"

(* The manager makes nothing of a frame with another type. *)
Completed(p, f, body) ==
    LET op == ReturnedType(p, f)
    IN IF op \in Messages \union Controls
         THEN <<[op |-> op, fin |-> f.fin, body |-> body]>> ELSE <<>>

(***************************************************************************)
(* frame_parser::serialize and serialize_frame.                            *)
(***************************************************************************)

(* unexpected_opcode. *)
Unexpected(p, m) == m.op \in Messages /\ p.effOut \notin {"none", m.op}

(* Mutant: the end of a message is forgotten. *)
SerializedForgetful(p, m) ==
    IF m.op \in Messages /\ p.effOut = "none" THEN [p EXCEPT !.effOut = m.op] ELSE p

Serialized(p, m) ==
    IF m.op \notin Messages THEN p
    ELSE [p EXCEPT !.effOut = IF m.fin THEN "none" ELSE m.op]

WireType(p, m) == IF m.op \in Messages /\ p.effOut # "none" THEN "continuation" ELSE m.op

(* permessage_deflate::on_outbound_frame sets rsv1 on the first frame of   *)
(* every message and deflates the payload of all of them.                  *)
OnWire(p, m, dest, deflate) ==
    LET op     == WireType(p, m)
        packs  == deflate /\ ~IsControl(op)
    IN [op |-> op, fin |-> m.fin, rsv1 |-> packs /\ op # "continuation",
        masked |-> dest = "server", length |-> "short",
        body |-> IF ~packs THEN m.body ELSE IF m.body = "plain" THEN "packed" ELSE "garbled"]
==============================================================================
