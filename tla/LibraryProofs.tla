----------------------------- MODULE LibraryProofs -----------------------------
(***************************************************************************)
(* What is read from the network and written to it again: the frames of a  *)
(* WebSocket connection, the target of a request and the body of a         *)
(* message.  Every frame that websocket_service relays is legal and        *)
(* arrives as it was sent, every target reaches the host, port and path    *)
(* that are meant, and every body is read as it was sent, for any frames,  *)
(* hosts, ports, paths and chunks, however the stream is cut.  The last    *)
(* theorems are those of the composition, MCLibrary.                       *)
(***************************************************************************)
EXTENDS MCLibrary, OwnershipProofs, HelpersProofs, WellFoundedInduction, TLAPS
(* The stages before the header of a frame is complete ... *)
Early == {"header", "payload_length"}
(* ... and after. *)
Late == {"mask_key", "payload"}

(* No contents are garbled when they are sent, and they are compressed     *)
(* only where the extension is in use, and never in a frame of control.    *)
BodiesSound ==
    /\ \A i \in DOMAIN arrived : arrived[i].body # "garbled" /\ (~deflate => arrived[i].body = "plain")
    /\ \A i \in DOMAIN wire : ~deflate \/ IsControl(wire[i].op) => wire[i].body # "packed"

(* The frame that is read, and the flags of the extension for it. *)
ReadSound ==
    /\ parser.effIn \notin Controls
    /\ stage # "header" => wire # <<>> /\ (IsControl(Head(wire).op) => Head(wire).fin)
    /\ deflate /\ stage \in Late => parser.compressible = YesNo(~IsControl(Head(wire).op))
    /\ ~deflate => parser.compressed = "unset"

(* What has been forwarded is legal, fragments of a message are open       *)
(* exactly when the effective opcode of the output says so, and every data *)
(* frame is compressed as was agreed.                                      *)
OutputSound ==
    /\ AllLegal(forwarded)
    /\ parser.effOut # "none" <=> Unfinished(forwarded)
    /\ \A i \in DOMAIN forwarded :
          IsData(forwarded[i]) => forwarded[i].body # (IF deflate THEN "plain" ELSE "packed")

(* What is still on the wire is the end of what was sent. *)
WireSound ==
    /\ Len(wire) <= Len(arrived)
    /\ \A i \in DOMAIN wire : wire[i] = arrived[Parsed + i]

(* If all frames are legal and none is fragmented, no frame is held up and *)
(* none is refused.                                                        *)
LegalSound ==
    /\ parser.effIn = "none" /\ parser.effOut = "none"
    /\ status # "error"
    /\ status = "close" => \E k \in DOMAIN arrived : arrived[k].op = "close"
    /\ stage \in Early => parser.compressed # "yes"
    /\ stage \in Late /\ parser.compressed = "yes" => Head(wire).rsv1

(* No frame of control has been read, where the extension is in use: its   *)
(* flag is reset by none.                                                  *)
NoControls == deflate => \A k \in 1..Parsed : ~IsControl(arrived[k].op)

(* What has been forwarded is what was sent, but for the frames that are   *)
(* answered here.                                                          *)
ForwardSound ==
    /\ deflate /\ stage \in Early => parser.compressed = "unset"
    /\ deflate /\ stage \in Late => parser.compressed = YesNo(Head(wire).rsv1)
    /\ Len(forwarded) = Cardinality(Passed(Parsed))
    /\ \A k \in Passed(Parsed) :
           LET f == forwarded[Cardinality(Passed(k))]
           IN  f.op = arrived[k].op /\ f.body = IF deflate THEN "packed" ELSE "plain"

(* The peer keeps to the protocol, with one frame for each message. *)
Keeps == AllLegal(arrived) /\ ~Fragmented

(* The inductive invariant of the WebSocket parser. *)
ParserInv ==
    /\ ParserTypeOK
    /\ BodiesSound
    /\ ReadSound
    /\ OutputSound
    /\ ~misread => WireSound
    /\ Keeps /\ ~misread => LegalSound
    /\ Keeps /\ ~misread /\ NoControls => ForwardSound

-----------------------------------------------------------------------------
(* Frames at the end of a sequence.                                        *)

LEMMA AppendedFrame ==
    ASSUME NEW s \in Seq(Frame), NEW e \in Frame
    PROVE  /\ Append(s, e) \in Seq(Frame)
           /\ Len(Append(s, e)) = Len(s) + 1
           /\ DOMAIN Append(s, e) = 1..Len(s) + 1 /\ DOMAIN s = 1..Len(s)
           /\ \A i \in 1..Len(s) : Append(s, e)[i] = s[i]
           /\ Append(s, e)[Len(s) + 1] = e
  OBVIOUS

(* A prefix of a sequence is one of the longer sequence. *)
LEMMA PrefixOfAppended ==
    ASSUME NEW s \in Seq(Frame), NEW e \in Frame, NEW i \in 1..Len(s) + 1
    PROVE  SubSeq(Append(s, e), 1, i - 1) = SubSeq(s, 1, i - 1)
  <1>1. i - 1 \in 0..Len(s)
    OBVIOUS
  <1>2. SubSeq(Append(s, e), 1, i - 1) = [k \in 1..i - 1 |-> Append(s, e)[k]]
    BY AppendedFrame, <1>1
  <1>3. SubSeq(s, 1, i - 1) = [k \in 1..i - 1 |-> s[k]]
    BY <1>1
  <1>4. \A k \in 1..i - 1 : Append(s, e)[k] = s[k]
    BY AppendedFrame
  <1>5. QED
    BY <1>2, <1>3, <1>4

(* The longest prefix is the sequence. *)
LEMMA WholePrefix ==
    ASSUME NEW s \in Seq(Frame)
    PROVE  SubSeq(s, 1, Len(s)) = s
  OBVIOUS

(* A sequence grows legally by a legal frame. *)
LEMMA LegalAppended ==
    ASSUME NEW s \in Seq(Frame), NEW e \in Frame
    PROVE  AllLegal(Append(s, e)) <=> AllLegal(s) /\ Legal(s, e)
  <1>1. \A i \in 1..Len(s) : SubSeq(Append(s, e), 1, i - 1) = SubSeq(s, 1, i - 1) /\ Append(s, e)[i] = s[i]
    BY PrefixOfAppended, AppendedFrame
  <1>2. SubSeq(Append(s, e), 1, (Len(s) + 1) - 1) = s /\ Append(s, e)[Len(s) + 1] = e
    <2>1. SubSeq(Append(s, e), 1, (Len(s) + 1) - 1) = SubSeq(s, 1, (Len(s) + 1) - 1)
      BY PrefixOfAppended
    <2>2. (Len(s) + 1) - 1 = Len(s)
      OBVIOUS
    <2>3. QED
      BY <2>1, <2>2, WholePrefix, AppendedFrame
  <1>3. AllLegal(Append(s, e)) <=>
           (\A i \in 1..Len(s) + 1 : Legal(SubSeq(Append(s, e), 1, i - 1), Append(s, e)[i]))
    BY AppendedFrame DEF AllLegal
  <1>4. 1..Len(s) + 1 = 1..Len(s) \union {Len(s) + 1}
    OBVIOUS
  <1>5. AllLegal(s) <=> \A i \in 1..Len(s) : Legal(SubSeq(s, 1, i - 1), s[i])
    BY DEF AllLegal
  <1>6. QED
    BY <1>1, <1>2, <1>3, <1>4, <1>5

(* The last data frame decides whether a message is unfinished. *)
LEMMA UnfinishedAppended ==
    ASSUME NEW s \in Seq(Frame), NEW e \in Frame
    PROVE  Unfinished(Append(s, e)) <=> IF IsData(e) THEN ~e.fin ELSE Unfinished(s)
  <1>1. \A i \in 1..Len(s) : LastData(Append(s, e), i) <=> LastData(s, i) /\ ~IsData(e)
    BY AppendedFrame DEF LastData
  <1>2. LastData(Append(s, e), Len(s) + 1) <=> IsData(e)
    BY AppendedFrame DEF LastData
  <1>3. QED
    BY <1>1, <1>2, AppendedFrame DEF Unfinished

(* The judgement does not change while the parser is the same.             *)
LEMMA JudgedAlike ==
    ASSUME UNCHANGED <<dest, deflate>>
    PROVE  /\ \A s : Unfinished(s)' <=> Unfinished(s)
           /\ \A s : AllLegal(s)' <=> AllLegal(s)
  <1>1. \A t, i : LastData(t, i)' <=> LastData(t, i)
    BY DEF LastData, IsData
  <1>2. \A t : Unfinished(t)' <=> Unfinished(t)
    BY <1>1 DEF Unfinished
  <1>3. \A t, f : Legal(t, f)' <=> Legal(t, f)
    BY <1>1, <1>2 DEF Legal
  <1>4. QED
    BY <1>2, <1>3 DEF AllLegal

(* What has been written is judged as before.                              *)
LEMMA WrittenAlike ==
    ASSUME UNCHANGED <<dest, deflate, forwarded>>, parser'.effOut = parser.effOut, OutputSound
    PROVE  OutputSound'
  <1> PICK s : s = forwarded
    OBVIOUS
  <1>1. (AllLegal(forwarded)' <=> AllLegal(s)') /\ (Unfinished(forwarded)' <=> Unfinished(s)')
    BY s = forwarded'
  <1>2. (AllLegal(forwarded)' <=> AllLegal(s)) /\ (Unfinished(forwarded)' <=> Unfinished(s))
    BY <1>1, JudgedAlike
  <1>3. AllLegal(forwarded)' /\ (parser'.effOut # "none" <=> Unfinished(forwarded)')
    BY <1>2 DEF OutputSound
  <1>4. \A i \in DOMAIN forwarded : IsData(forwarded'[i]) <=> IsData(forwarded[i])
    BY DEF IsData
  <1>5. QED
    BY <1>3, <1>4 DEF OutputSound, IsData

-----------------------------------------------------------------------------
(* What is written. *)

Message == [op : Messages \union Controls, fin : BOOLEAN, body : Bodies]

(* What is serialized is a frame. *)
LEMMA WrittenFrame ==
    ASSUME NEW p \in Parser, NEW m \in Message, deflate \in BOOLEAN
    PROVE  OnWire(p, m, dest, deflate) \in Frame
  BY DEF OnWire, WireType, Frame, Message, Bodies, Opcodes, Lengths, Controls, Messages, IsControl

(* What is serialized without an error is legal after what was forwarded,  *)
(* and compressed as agreed.                                               *)
LEMMA WrittenIsLegal ==
    ASSUME deflate \in BOOLEAN, forwarded \in Seq(Frame), OutputSound,
           NEW p \in Parser, p.effOut = parser.effOut,
           NEW m \in Message,
           m.op \in Controls => m.fin,
           ~deflate \/ m.op \in Controls => m.body # "packed",
           ~Unexpected(p, m)
    PROVE  LET e == OnWire(p, m, dest, deflate)
           IN  /\ Legal(forwarded, e)
               /\ IsData(e) => e.body # (IF deflate THEN "plain" ELSE "packed")
  <1> DEFINE e == OnWire(p, m, dest, deflate)
             packs == deflate /\ ~IsControl(e.op)
  <1>1. /\ e.op = WireType(p, m) /\ e.fin = m.fin /\ e.rsv1 = (packs /\ e.op # "continuation")
        /\ e.masked = (dest = "server") /\ e.length = "short"
        /\ e.body = IF ~packs THEN m.body ELSE IF m.body = "plain" THEN "packed" ELSE "garbled"
    BY DEF OnWire
  <1> HIDE DEF e
  <1>2. /\ m.op \in Messages \union Controls /\ m.fin \in BOOLEAN /\ m.body \in Bodies
        /\ p.effOut \in Messages \union {"none"}
    BY DEF Message, Parser
  <1>3. e.op \in Controls <=> m.op \in Controls
    BY <1>1, <1>2 DEF WireType, Messages, Controls
  <1>4. e.op = "continuation" <=> m.op \in Messages /\ p.effOut # "none"
    BY <1>1, <1>2 DEF WireType, Messages, Controls
  <1>5. e.op # "reserved" /\ (e.op \in Messages \union Controls => e.op = m.op)
    BY <1>1, <1>2 DEF WireType, Messages, Controls
  <1>6. IsData(e) => e.body # (IF deflate THEN "plain" ELSE "packed")
    BY <1>1, <1>2, <1>3 DEF IsData, IsControl
  <1>7. IsControl(e.op) => e.fin /\ ~e.rsv1 /\ e.length = "short" /\ e.body # "packed"
    BY <1>1, <1>2, <1>3 DEF IsControl
  <1>8. ~IsControl(e.op) => (e.op = "continuation" <=> Unfinished(forwarded))
    BY <1>2, <1>3, <1>4 DEF OutputSound, IsControl, Messages, Controls
  <1>9. e.op = "continuation" =>
          /\ ~e.rsv1
          /\ \A i \in DOMAIN forwarded : LastData(forwarded, i) /\ "garbled" \notin {e.body, forwarded[i].body}
                => e.body = forwarded[i].body
    <2> SUFFICES ASSUME e.op = "continuation" PROVE
          /\ ~e.rsv1
          /\ \A i \in DOMAIN forwarded : LastData(forwarded, i) /\ "garbled" \notin {e.body, forwarded[i].body}
                => e.body = forwarded[i].body
      OBVIOUS
    <2>1. ~e.rsv1
      BY <1>1
    <2>2. e.body \in Bodies /\ e.body # (IF deflate THEN "plain" ELSE "packed")
      BY <1>1, <1>2, <1>6 DEF IsData, IsControl, Controls, Bodies
    <2>3. ASSUME NEW i \in DOMAIN forwarded, LastData(forwarded, i)
          PROVE  forwarded[i].body \in Bodies /\ forwarded[i].body # (IF deflate THEN "plain" ELSE "packed")
      <3>1. forwarded[i] \in Frame
        OBVIOUS
      <3>2. QED
        BY <2>3, <3>1 DEF OutputSound, LastData, Frame
    <2>4. QED
      BY <2>1, <2>2, <2>3 DEF Bodies
  <1>10. /\ e.op \in Messages => (e.body = "packed" => e.rsv1) /\ (e.rsv1 => e.body # "plain")
         /\ e.rsv1 => deflate
    BY <1>1, <1>2, <1>6 DEF IsData, IsControl, Messages, Controls
  <1>11. Legal(forwarded, e)
    BY <1>1, <1>5, <1>7, <1>8, <1>9, <1>10 DEF Legal
  <1>12. QED
    BY <1>6, <1>11 DEF e

-----------------------------------------------------------------------------
(* The state of the extension and the opcodes.                             *)

LEMMA HeaderHookTyped ==
    ASSUME NEW p \in Parser, NEW f \in Frame, deflate \in BOOLEAN
    PROVE  LET q == HeaderHook(p, f, deflate)
           IN  /\ q \in Parser /\ q.effIn = p.effIn /\ q.effOut = p.effOut
               /\ ~deflate => q = p
               /\ deflate => /\ q.compressible = YesNo(~IsControl(f.op))
                             /\ q.compressed = IF p.compressed = "unset" THEN YesNo(f.rsv1) ELSE p.compressed
  BY DEF HeaderHook, Parser, YesNo

(* What completing a frame does to the effective opcode of the input and   *)
(* to the flags of the extension.                                          *)
LEMMA CompletedTyped ==
    ASSUME NEW p \in Parser, NEW f \in Frame, deflate \in BOOLEAN
    PROVE  LET q == Effective(CompleteHook(p, f, deflate), f)
           IN  /\ q \in Parser /\ q.effOut = p.effOut
               /\ p.effIn \notin Controls => q.effIn \notin Controls
               /\ f.fin /\ p.effIn = "none" => q.effIn = "none"
               /\ q.compressed \in {p.compressed, "unset"}
               /\ deflate /\ f.fin /\ p.compressible = "yes" => q.compressed = "unset"
  <1> DEFINE c == CompleteHook(p, f, deflate)
             q == Effective(c, f)
  <1>1. /\ c \in Parser /\ c.effOut = p.effOut /\ c.effIn = p.effIn /\ c.compressed \in {p.compressed, "unset"}
        /\ deflate /\ f.fin /\ p.compressible = "yes" => c.compressed = "unset"
    BY DEF CompleteHook, Parser
  <1> HIDE DEF c
  <1>2. f.op \in Opcodes /\ c.effIn \in Opcodes \union {"none"}
    BY <1>1 DEF Frame, Parser
  <1>3. q \in Parser /\ q.effOut = c.effOut /\ q.compressed = c.compressed
    BY <1>1, <1>2 DEF Effective, Parser
  <1>4. p.effIn \notin Controls => q.effIn \notin Controls
    BY <1>1, <1>2 DEF Effective, Parser, IsControl, Controls
  <1>5. f.fin /\ p.effIn = "none" => q.effIn = "none"
    BY <1>1, <1>2 DEF Effective, Parser
  <1>6. QED
    BY <1>1, <1>3, <1>4, <1>5 DEF c

(* What serializing a message does to the effective opcode of the output. *)
LEMMA SerializedTyped ==
    ASSUME NEW p \in Parser, NEW m \in Message
    PROVE  LET q == Serialized(p, m)
           IN  /\ q \in Parser /\ q.effIn = p.effIn /\ q.compressed = p.compressed
               /\ m.op \notin Messages => q.effOut = p.effOut
               /\ m.op \in Messages => (q.effOut # "none" <=> ~m.fin)
  BY DEF Serialized, Parser, Message, Messages

(* The message that is made of a frame. *)
LEMMA CompletedIsMessage ==
    ASSUME NEW p \in Parser, NEW f \in Frame, NEW b \in Bodies, p.effIn \notin Controls
    PROVE  LET all == Completed(p, f, b)
           IN  /\ all = <<>> \/ (all # <<>> /\ Head(all) \in Message)
               /\ all # <<>> => /\ Head(all).fin = f.fin /\ Head(all).body = b
                                /\ Head(all).op \in Controls <=> f.op \in Controls
               /\ f.op \in Controls \/ (f.op \in Messages /\ f.fin) => all # <<>> /\ Head(all).op = f.op
  <1> DEFINE op == ReturnedType(p, f)
             m == [op |-> op, fin |-> f.fin, body |-> b]
  <1>1. f.op \in Opcodes /\ f.fin \in BOOLEAN /\ p.effIn \in Opcodes \union {"none"}
    BY DEF Frame, Parser
  <1>2. op \in Opcodes /\ (op \in Controls <=> f.op \in Controls) /\ (IsControl(f.op) \/ f.fin => op = f.op)
    BY <1>1 DEF ReturnedType, IsControl, Opcodes, Controls
  <1>3. Completed(p, f, b) = IF op \in Messages \union Controls THEN <<m>> ELSE <<>>
    BY DEF Completed
  <1>4. m.op = op /\ m.fin = f.fin /\ m.body = b /\ (op \in Messages \union Controls => m \in Message)
    BY <1>1 DEF Message
  <1>5. f.op \in Controls \/ (f.op \in Messages /\ f.fin) => op = f.op
    BY <1>2 DEF IsControl
  <1> HIDE DEF m, op
  <1>6. <<m>> # <<>> /\ Head(<<m>>) = m
    OBVIOUS
  <1>7. QED
    BY <1>2, <1>3, <1>4, <1>5, <1>6 DEF Messages, Controls

-----------------------------------------------------------------------------
(* What a peer that keeps to the protocol sends.                           *)

Proper(f) ==
    /\ f.op \in Messages \union Controls /\ f.fin
    /\ f.masked = (dest = "server")
    /\ f.length \in {"short", "long"}
    /\ f.op \in Controls => ~f.rsv1 /\ f.length = "short"
    /\ f.op \in Messages => f.body = IF f.rsv1 THEN "packed" ELSE "plain"
    /\ f.rsv1 => deflate

(* Without fragments nothing is unfinished.                                *)
LEMMA ProperFrames ==
    ASSUME arrived \in Seq(Frame), BodiesSound, Keeps, NEW i \in DOMAIN arrived
    PROVE  Proper(arrived[i])
  <1> DEFINE f == arrived[i]
             s == SubSeq(arrived, 1, i - 1)
  <1>1. f \in Frame /\ i \in 1..Len(arrived)
    OBVIOUS
  <1>2. \A j \in DOMAIN s : s[j] = arrived[j] /\ j \in DOMAIN arrived
    BY <1>1
  <1>3. ~Unfinished(s)
    BY <1>2 DEF Unfinished, Keeps, Fragmented
  <1>4. Legal(s, f) /\ f.fin
    BY DEF Keeps, AllLegal, Fragmented
  <1>5. f.body # "garbled"
    BY DEF BodiesSound
  <1> HIDE DEF f, s
  <1>6. f.op \in Opcodes /\ f.body \in Bodies
    BY <1>1 DEF Frame
  <1>7. f.op # "reserved" /\ f.op # "continuation"
    BY <1>3, <1>4, <1>6 DEF Legal, IsControl, Controls
  <1>8. Proper(f)
    BY <1>4, <1>5, <1>6, <1>7 DEF Legal, IsControl, Opcodes, Bodies, Proper
  <1>9. QED
    BY <1>8 DEF f

(* The frame the parser is at. *)
LEMMA AtFrame ==
    ASSUME ParserTypeOK, wire # <<>>
    PROVE  /\ Len(wire) \in Nat \ {0} /\ 1 \in DOMAIN wire /\ Head(wire) = wire[1]
           /\ Head(wire) \in Frame
           /\ Tail(wire) \in Seq(Frame) /\ Len(Tail(wire)) = Len(wire) - 1
           /\ \A i \in DOMAIN Tail(wire) : Tail(wire)[i] = wire[i + 1] /\ i + 1 \in DOMAIN wire
  BY DEF ParserTypeOK

(* The frame on the wire that is read next is one the peer sent, and as    *)
(* proper as all of them.                                                  *)
LEMMA ProperHead ==
    ASSUME ParserTypeOK, BodiesSound, wire # <<>>, Keeps, WireSound
    PROVE  /\ Parsed \in 0..Len(arrived) - 1 /\ Parsed + 1 \in DOMAIN arrived
           /\ Head(wire) = arrived[Parsed + 1]
           /\ Proper(Head(wire))
  <1>1. /\ Len(wire) \in Nat \ {0} /\ Len(arrived) \in Nat /\ Len(wire) <= Len(arrived)
        /\ DOMAIN arrived = 1..Len(arrived) /\ arrived \in Seq(Frame)
    BY AtFrame DEF WireSound, ParserTypeOK
  <1>2. Parsed \in 0..Len(arrived) - 1 /\ Parsed + 1 \in DOMAIN arrived
    BY <1>1 DEF Parsed
  <1>3. Head(wire) = arrived[Parsed + 1]
    BY AtFrame DEF WireSound
  <1>4. QED
    BY <1>1, <1>2, <1>3, ProperFrames
-----------------------------------------------------------------------------
(* The steps. *)

LEMMA ParserStart == ParserInit => ParserInv
  <1> SUFFICES ASSUME ParserInit PROVE ParserInv
    OBVIOUS
  <1> USE DEF ParserInit, InitialParser
  <1>1. ParserTypeOK
    <2>1. parser \in Parser
      BY DEF Parser
    <2>2. misread \in BOOLEAN
      OBVIOUS
    <2>3. wire \in Seq(Frame) /\ arrived \in Seq(Frame) /\ forwarded \in Seq(Frame)
      OBVIOUS
    <2>4. QED
      BY <2>1, <2>2, <2>3 DEF ParserTypeOK
  <1>2. BodiesSound /\ ReadSound /\ WireSound
    BY DEF BodiesSound, ReadSound, WireSound, Controls, Late, Parsed
  <1>3. OutputSound
    BY DEF OutputSound, AllLegal, Unfinished
  <1>4. LegalSound
    BY DEF LegalSound, Early, Late
  <1>5. Parsed = 0
    BY DEF Parsed
  <1>6. Passed(0) = {} /\ Cardinality({}) = 0
    BY FS_EmptySet DEF Passed
  <1>7. ForwardSound
    BY <1>5, <1>6 DEF ForwardSound, Early, Late
  <1>8. QED
    BY <1>1, <1>2, <1>3, <1>4, <1>7 DEF ParserInv

(* Whether the peer keeps to the protocol depends on what it sent. *)
LEMMA KeepsAlike ==
    ASSUME UNCHANGED <<dest, deflate, arrived>>
    PROVE  Keeps' <=> Keeps
  <1> PICK s : s = arrived
    OBVIOUS
  <1>1. AllLegal(arrived)' <=> AllLegal(s)'
    BY s = arrived'
  <1>2. AllLegal(arrived)' <=> AllLegal(arrived)
    BY <1>1, JudgedAlike
  <1>3. QED
    BY <1>2 DEF Keeps, Fragmented

(* Nothing happens to the frames.                                          *)
LEMMA FramesAlike ==
    ASSUME ParserInv, UNCHANGED <<dest, deflate, wire, arrived, misread>>
    PROVE  /\ BodiesSound'
           /\ ~misread' => WireSound'
           /\ Keeps' <=> Keeps
           /\ NoControls' <=> NoControls
           /\ Parsed' = Parsed
           /\ \A k : Passed(k)' = Passed(k)
  <1>1. BodiesSound'
    BY DEF ParserInv, BodiesSound
  <1>2. Parsed' = Parsed
    BY DEF Parsed
  <1>3. ~misread' => WireSound'
    BY <1>2 DEF ParserInv, WireSound
  <1>4. NoControls' <=> NoControls
    BY <1>2 DEF NoControls
  <1>5. \A k : Passed(k)' = Passed(k)
    BY DEF Passed
  <1>6. QED
    BY <1>1, <1>2, <1>3, <1>4, <1>5, KeepsAlike

(* What has been passed on, the parser's own state apart.                  *)
Delivered ==
    /\ Len(forwarded) = Cardinality(Passed(Parsed))
    /\ \A k \in Passed(Parsed) :
           LET f == forwarded[Cardinality(Passed(k))]
           IN  f.op = arrived[k].op /\ f.body = IF deflate THEN "packed" ELSE "plain"

(* What was delivered stays delivered while nothing is forwarded or read. *)
LEMMA DeliveredAlike ==
    ASSUME ParserInv, UNCHANGED <<dest, deflate, wire, arrived, misread, forwarded>>, Delivered
    PROVE  Delivered'
  <1>1. \A k : Passed(k)' = Passed(k) /\ Parsed' = Parsed
    BY FramesAlike
  <1>2. Passed(Parsed)' = Passed(Parsed)
    BY <1>1 DEF Passed
  <1>3. QED
    BY <1>1, <1>2 DEF Delivered

(* An error is only met where the peer or the network is at fault. *)
LEMMA FailsKeeps ==
    ASSUME ParserInv, NEW why \in {"error", "close"}, Fails(why), Keeps => misread
    PROVE  ParserInv'
  <1> USE DEF Fails
  <1>1. ParserTypeOK'
    BY DEF ParserInv, ParserTypeOK
  <1>2. ReadSound'
    BY DEF ParserInv, ReadSound
  <1>3. OutputSound'
    BY WrittenAlike DEF ParserInv
  <1>4. BodiesSound' /\ (~misread' => WireSound') /\ (Keeps' <=> Keeps)
    BY FramesAlike
  <1>5. QED
    BY <1>1, <1>2, <1>3, <1>4 DEF ParserInv

(* parse_header keeps the invariant. *)
LEMMA HeaderKeeps == ASSUME ParserInv, ParseHeader PROVE ParserInv'
  <1>1. wire # <<>> /\ stage = "header"
    BY DEF ParseHeader
  <1>2. CASE HeaderRefused(parser, Head(wire)) /\ Fails("error")
    <2>1. ASSUME Keeps, ~misread PROVE FALSE
      <3>1. Proper(Head(wire)) /\ parser.effIn = "none"
        BY <1>1, <2>1, ProperHead DEF ParserInv, LegalSound
      <3>2. QED
        BY <1>2, <3>1 DEF Proper, HeaderRefused, IsControl
    <2>2. QED
      BY <1>2, <2>1, FailsKeeps
  <1>3. CASE /\ ~HeaderRefused(parser, Head(wire)) /\ stage' = "payload_length"
             /\ UNCHANGED <<dest, deflate, parser, wire, status, misread, arrived, forwarded>>
    <2>1. ParserTypeOK'
      BY <1>1, <1>3 DEF ParserInv, ParserTypeOK
    <2>2. ReadSound'
      BY <1>1, <1>3 DEF ParserInv, ReadSound, HeaderRefused, Late
    <2>3. OutputSound'
      BY <1>3, WrittenAlike DEF ParserInv
    <2>4. BodiesSound' /\ (~misread' => WireSound') /\ (Keeps' <=> Keeps) /\ (NoControls' <=> NoControls)
      BY <1>3, FramesAlike
    <2>5. LegalSound => LegalSound'
      BY <1>1, <1>3 DEF LegalSound, Early, Late
    <2>6. ASSUME ForwardSound PROVE ForwardSound'
      <3>1. Delivered'
        BY <1>3, <2>6, DeliveredAlike DEF ForwardSound, Delivered
      <3>2. QED
        BY <1>1, <1>3, <2>6, <3>1 DEF ForwardSound, Delivered, Early, Late
    <2>7. QED
      BY <1>3, <2>1, <2>2, <2>3, <2>4, <2>5, <2>6 DEF ParserInv
  <1>4. QED
    BY <1>2, <1>3 DEF ParseHeader

(* parse_payload_length keeps the invariant. *)
LEMMA LengthKeeps == ASSUME ParserInv, ParsePayloadLength PROVE ParserInv'
  <1> DEFINE f == Head(wire)
  <1>1. stage = "payload_length" /\ wire # <<>> /\ f \in Frame
    BY AtFrame DEF ParsePayloadLength, ParserInv, ParserTypeOK
  <1>2. ASSUME NEW why \in {"error", "close"}, Fails(why),
               LengthRefused(f) \/ HookCloses(f, deflate) \/ MaskRefused(f, dest)
        PROVE  ParserInv'
    <2>1. ASSUME Keeps, ~misread PROVE FALSE
      <3>1. Proper(f)
        BY <1>1, <2>1, ProperHead DEF ParserInv
      <3>2. QED
        BY <1>2, <3>1 DEF Proper, LengthRefused, HookCloses, MaskRefused, IsControl, Messages, Controls
    <2>2. QED
      BY <1>2, <2>1, FailsKeeps
  <1>3. CASE /\ parser' = HeaderHook(parser, f, deflate) /\ stage' = "mask_key"
             /\ UNCHANGED <<dest, deflate, wire, status, misread, arrived, forwarded>>
    <2>1. /\ parser' \in Parser /\ parser'.effIn = parser.effIn /\ parser'.effOut = parser.effOut
          /\ ~deflate => parser' = parser
          /\ deflate => /\ parser'.compressible = YesNo(~IsControl(f.op))
                        /\ parser'.compressed = IF parser.compressed = "unset" THEN YesNo(f.rsv1) ELSE parser.compressed
      <3>1. parser \in Parser /\ deflate \in BOOLEAN
        BY DEF ParserInv, ParserTypeOK
      <3>2. QED
        BY <1>1, <1>3, <3>1, HeaderHookTyped
    <2>2. ParserTypeOK'
      BY <1>1, <1>3, <2>1 DEF ParserInv, ParserTypeOK
    <2>3. ReadSound'
      BY <1>1, <1>3, <2>1 DEF ParserInv, ReadSound, Late
    <2>4. OutputSound'
      BY <1>3, <2>1, WrittenAlike DEF ParserInv
    <2>5. BodiesSound' /\ (~misread' => WireSound') /\ (Keeps' <=> Keeps) /\ (NoControls' <=> NoControls)
      BY <1>3, FramesAlike
    <2>6. LegalSound => LegalSound'
      BY <1>1, <1>3, <2>1 DEF ParserInv, ReadSound, LegalSound, Early, Late, YesNo
    <2>7. ASSUME ForwardSound PROVE ForwardSound'
      <3>1. Delivered'
        BY <1>3, <2>7, DeliveredAlike DEF ForwardSound, Delivered
      <3>2. QED
        BY <1>1, <1>3, <2>1, <2>7, <3>1 DEF ForwardSound, Delivered, Early, Late, YesNo
    <2>8. QED
      BY <1>3, <2>2, <2>3, <2>4, <2>5, <2>6, <2>7 DEF ParserInv
  <1>4. QED
    BY <1>2, <1>3 DEF ParsePayloadLength

(* A payload that stays masked changes nothing else about its frame.       *)
LEMMA Misread ==
    ASSUME ParserTypeOK, wire # <<>>
    PROVE  LET w == [wire EXCEPT ![1].body = "garbled"]
           IN  /\ w \in Seq(Frame) /\ w # <<>> /\ DOMAIN w = DOMAIN wire
               /\ \A i \in DOMAIN w : w[i].op = wire[i].op /\ w[i].body \in {wire[i].body, "garbled"}
               /\ Head(w).op = Head(wire).op /\ Head(w).fin = Head(wire).fin
  <1> DEFINE g == [wire[1] EXCEPT !.body = "garbled"]
             w == [wire EXCEPT ![1] = g]
  <1>1. Len(wire) \in Nat \ {0} /\ 1 \in DOMAIN wire /\ Head(wire) = wire[1] /\ wire[1] \in Frame
    BY AtFrame
  <1>2. g \in Frame /\ g.op = wire[1].op /\ g.fin = wire[1].fin /\ g.body = "garbled"
    BY <1>1 DEF Frame, Bodies
  <1>3. w = [wire EXCEPT ![1].body = "garbled"]
    OBVIOUS
  <1> HIDE DEF g
  <1>4. w \in Seq(Frame) /\ DOMAIN w = DOMAIN wire /\ Len(w) = Len(wire)
    BY <1>1, <1>2 DEF ParserTypeOK
  <1>5. w[1] = g /\ \A i \in DOMAIN wire : i # 1 => w[i] = wire[i]
    BY <1>1
  <1> HIDE DEF w
  <1>6. w # <<>> /\ Head(w) = w[1]
    BY <1>1, <1>4
  <1>7. \A i \in DOMAIN w : w[i].op = wire[i].op /\ w[i].body \in {wire[i].body, "garbled"}
    BY <1>2, <1>4, <1>5
  <1>8. QED
    BY <1>1, <1>2, <1>3, <1>4, <1>5, <1>6, <1>7

(* parse_mask_key, where the hooks of the extensions see the header, keeps *)
(* the invariant.                                                          *)
LEMMA MaskKeyKeeps == ASSUME ParserInv, ParseMaskKey PROVE ParserInv'
  <1>1. /\ stage = "mask_key" /\ stage' = "payload" /\ wire # <<>>
        /\ UNCHANGED <<dest, deflate, parser, status, arrived, forwarded>>
    BY DEF ParseMaskKey, ParserInv, ParserTypeOK
  <1>2. OutputSound'
    BY <1>1, WrittenAlike DEF ParserInv
  <1>3. CASE UNCHANGED <<wire, misread>>
    <2>1. ParserTypeOK'
      BY <1>1, <1>3 DEF ParserInv, ParserTypeOK
    <2>2. ReadSound'
      BY <1>1, <1>3 DEF ParserInv, ReadSound, Late
    <2>3. BodiesSound' /\ (~misread' => WireSound') /\ (Keeps' <=> Keeps) /\ (NoControls' <=> NoControls)
      BY <1>1, <1>3, FramesAlike
    <2>4. LegalSound => LegalSound'
      BY <1>1, <1>3 DEF LegalSound, Early, Late
    <2>5. ASSUME ForwardSound PROVE ForwardSound'
      <3>1. Delivered'
        BY <1>1, <1>3, <2>5, DeliveredAlike DEF ForwardSound, Delivered
      <3>2. QED
        BY <1>1, <1>3, <2>5, <3>1 DEF ForwardSound, Delivered, Early, Late
    <2>6. QED
      BY <1>2, <1>3, <2>1, <2>2, <2>3, <2>4, <2>5 DEF ParserInv
  <1>4. CASE wire' = [wire EXCEPT ![1].body = "garbled"] /\ misread' = TRUE
    <2>1. /\ wire' \in Seq(Frame) /\ wire' # <<>> /\ DOMAIN wire' = DOMAIN wire
          /\ \A i \in DOMAIN wire' : wire'[i].op = wire[i].op /\ wire'[i].body \in {wire[i].body, "garbled"}
          /\ Head(wire').op = Head(wire).op /\ Head(wire').fin = Head(wire).fin
      BY <1>1, <1>4, Misread DEF ParserInv
    <2>2. ParserTypeOK'
      BY <1>1, <1>4, <2>1 DEF ParserInv, ParserTypeOK
    <2>3. BodiesSound'
      BY <1>1, <2>1 DEF ParserInv, BodiesSound, IsControl
    <2>4. ReadSound'
      BY <1>1, <2>1 DEF ParserInv, ReadSound, IsControl, Late
    <2>5. QED
      BY <1>2, <1>4, <2>2, <2>3, <2>4 DEF ParserInv
  <1>5. QED
    BY <1>3, <1>4 DEF ParseMaskKey

-----------------------------------------------------------------------------
(* What the peer may send. *)

LEMMA SentBody ==
    ASSUME ParserTypeOK, BodiesSound, NEW g \in Frame, Legal(arrived, g), g.body \in {"plain", "packed"}
    PROVE  ~deflate \/ IsControl(g.op) => g.body = "plain"
  <1>1. CASE IsControl(g.op)
    BY <1>1 DEF Legal
  <1>2. CASE ~deflate /\ g.op = "continuation"
    <2>1. PICK i \in DOMAIN arrived : LastData(arrived, i)
      BY <1>2 DEF Legal, IsControl, Controls, Unfinished
    <2>2. arrived[i].body = "plain"
      BY <1>2 DEF BodiesSound
    <2>3. QED
      BY <1>2, <2>1, <2>2 DEF Legal
  <1>3. CASE ~deflate /\ ~IsControl(g.op) /\ g.op # "continuation"
    <2>1. g.op \in Messages /\ (g.rsv1 => deflate)
      BY <1>3 DEF Legal, Frame, Opcodes, IsControl
    <2>2. QED
      BY <1>3, <2>1 DEF Legal, IsControl
  <1>4. QED
    BY <1>1, <1>2, <1>3

(* A frame that is damaged on its way keeps its contents. *)
LEMMA DamagedFrame ==
    ASSUME NEW g \in Frame, NEW f \in {g} \union Damaged(g)
    PROVE  f \in Frame /\ f.body = g.body /\ f.op \in {g.op, "reserved"}
  <1>1. CASE f = g
    BY <1>1
  <1>2. CASE f = [g EXCEPT !.masked = ~@] \/ f = [g EXCEPT !.rsv1 = ~@] \/ f = [g EXCEPT !.fin = FALSE]
    BY <1>2 DEF Frame
  <1>3. CASE \E l \in {"padded", "long", "one"} : f = [g EXCEPT !.length = l]
    BY <1>3 DEF Frame, Lengths
  <1>4. CASE f = [g EXCEPT !.op = "reserved"]
    BY <1>4 DEF Frame, Opcodes
  <1>5. QED
    BY <1>1, <1>2, <1>3, <1>4 DEF Damaged

(* A frame that is sent keeps the invariant. *)
LEMMA SendKeeps == ASSUME ParserInv, PeerSendsFrame PROVE ParserInv'
  <1>1. PICK g \in [op : Opcodes, fin : BOOLEAN, rsv1 : BOOLEAN, masked : {dest = "server"},
                    length : {"short"}, body : {"plain", "packed"}] :
             /\ Legal(arrived, g)
             /\ \E f \in {g} \union Damaged(g) : wire' = Append(wire, f) /\ arrived' = Append(arrived, f)
    BY DEF PeerSendsFrame
  <1> PICK f \in {g} \union Damaged(g) : wire' = Append(wire, f) /\ arrived' = Append(arrived, f)
    BY <1>1
  <1>2. AllLegal(arrived) /\ UNCHANGED <<dest, deflate, parser, stage, status, misread, forwarded>>
    BY DEF PeerSendsFrame
  <1>3. g \in Frame /\ g.body \in {"plain", "packed"}
    BY DEF Frame, Lengths, Bodies
  <1>4. /\ f \in Frame /\ f.body \in {"plain", "packed"}
        /\ ~deflate \/ IsControl(f.op) => f.body = "plain"
    <2>1. f \in Frame /\ f.body = g.body /\ f.op \in {g.op, "reserved"}
      BY <1>3, DamagedFrame
    <2>2. ~deflate \/ IsControl(g.op) => g.body = "plain"
      BY <1>1, <1>3, SentBody DEF ParserInv
    <2>3. QED
      BY <1>3, <2>1, <2>2 DEF IsControl, Controls
  <1>5. /\ wire \in Seq(Frame) /\ arrived \in Seq(Frame)
        /\ wire' \in Seq(Frame) /\ arrived' \in Seq(Frame)
        /\ Len(wire') = Len(wire) + 1 /\ Len(arrived') = Len(arrived) + 1
        /\ DOMAIN wire = 1..Len(wire) /\ DOMAIN arrived = 1..Len(arrived)
        /\ DOMAIN wire' = 1..Len(wire) + 1 /\ DOMAIN arrived' = 1..Len(arrived) + 1
        /\ \A i \in 1..Len(wire) : wire'[i] = wire[i]
        /\ \A i \in 1..Len(arrived) : arrived'[i] = arrived[i]
        /\ wire'[Len(wire) + 1] = f /\ arrived'[Len(arrived) + 1] = f
    <2>1. wire \in Seq(Frame) /\ arrived \in Seq(Frame)
      BY DEF ParserInv, ParserTypeOK
    <2>2. /\ wire' \in Seq(Frame) /\ Len(wire') = Len(wire) + 1
          /\ DOMAIN wire = 1..Len(wire) /\ DOMAIN wire' = 1..Len(wire) + 1
          /\ \A i \in 1..Len(wire) : wire'[i] = wire[i]
          /\ wire'[Len(wire) + 1] = f
      BY <1>4, <2>1, AppendedFrame
    <2>3. /\ arrived' \in Seq(Frame) /\ Len(arrived') = Len(arrived) + 1
          /\ DOMAIN arrived = 1..Len(arrived) /\ DOMAIN arrived' = 1..Len(arrived) + 1
          /\ \A i \in 1..Len(arrived) : arrived'[i] = arrived[i]
          /\ arrived'[Len(arrived) + 1] = f
      BY <1>4, <2>1, AppendedFrame
    <2>4. QED
      BY <2>1, <2>2, <2>3
  <1>6. wire' # <<>> /\ (wire # <<>> => Head(wire') = Head(wire))
    BY <1>5
  <1>7. ParserTypeOK'
    BY <1>2, <1>5, <1>6 DEF ParserInv, ParserTypeOK
  <1>8. BodiesSound'
    <2>1. \A i \in 1..Len(wire) + 1 : ~deflate \/ IsControl(wire'[i].op) => wire'[i].body # "packed"
      BY <1>4, <1>5 DEF ParserInv, BodiesSound
    <2>2. ASSUME NEW i \in 1..Len(arrived) + 1
          PROVE  arrived'[i].body # "garbled" /\ (~deflate => arrived'[i].body = "plain")
      <3>1. CASE i \in 1..Len(arrived)
        <4>1. arrived[i].body # "garbled" /\ (~deflate => arrived[i].body = "plain")
          BY <1>5, <3>1 DEF ParserInv, BodiesSound
        <4>2. QED
          BY <1>5, <3>1, <4>1
      <3>2. CASE i = Len(arrived) + 1
        BY <1>4, <1>5, <3>2
      <3>3. i \in 1..Len(arrived) \/ i = Len(arrived) + 1
        <4>1. \A k \in Nat : \A j \in 1..k + 1 : j \in 1..k \/ j = k + 1
          OBVIOUS
        <4>2. Len(arrived) \in Nat
          BY <1>5
        <4>3. QED
          BY <4>1, <4>2
      <3>4. QED
        BY <3>1, <3>2, <3>3
    <2>3. QED
      BY <1>2, <1>5, <2>1, <2>2 DEF BodiesSound
  <1>9. ReadSound'
    BY <1>2, <1>6 DEF ParserInv, ReadSound, Late
  <1>10. OutputSound'
    BY <1>2, WrittenAlike DEF ParserInv
  <1>11. Parsed' = Parsed /\ Len(wire) \in Nat /\ Len(arrived) \in Nat
    BY <1>5 DEF Parsed
  <1>12. Keeps' => Keeps
    BY <1>2, <1>5 DEF Keeps, Fragmented
  <1>13. ASSUME WireSound
         PROVE  WireSound' /\ Parsed <= Len(arrived)
    <2>1. Len(wire) <= Len(arrived) /\ \A i \in 1..Len(wire) : wire[i] = arrived[Parsed + i]
      BY <1>5, <1>13 DEF WireSound
    <2>2. Parsed \in 0..Len(arrived) /\ Parsed + Len(wire) = Len(arrived)
      BY <1>11, <2>1 DEF Parsed
    <2>3. \A i \in 1..Len(wire) : Parsed + i \in 1..Len(arrived) /\ wire'[i] = arrived'[Parsed + i]
      BY <1>5, <1>11, <2>1, <2>2
    <2>4. wire'[Len(wire) + 1] = arrived'[Parsed + (Len(wire) + 1)]
      BY <1>5, <1>11, <2>2
    <2>5. \A i \in 1..Len(wire) + 1 : wire'[i] = arrived'[Parsed + i]
      <3>1. \A i \in 1..Len(wire) + 1 : i \in 1..Len(wire) \/ i = Len(wire) + 1
        BY <1>11
      <3>2. QED
        BY <2>3, <2>4, <3>1
    <2>6. QED
      BY <1>5, <1>11, <2>1, <2>2, <2>5 DEF WireSound
  <1>14. LegalSound => LegalSound'
    <2>1. stage \in Late => Head(wire') = Head(wire)
      BY <1>6 DEF ParserInv, ParserTypeOK, Late
    <2>2. (\E k \in DOMAIN arrived : arrived[k].op = "close") => \E k \in DOMAIN arrived' : arrived'[k].op = "close"
      BY <1>5
    <2>3. QED
      BY <1>2, <2>1, <2>2 DEF LegalSound
  <1>15. ASSUME WireSound, NoControls', ForwardSound \/ ~NoControls
         PROVE  ForwardSound'
    <2>1. Parsed \in Int /\ \A k \in 1..Parsed : k \in 1..Len(arrived) /\ arrived'[k] = arrived[k]
      <3>1. Parsed \in Int /\ Parsed <= Len(arrived)
        BY <1>11, <1>13, <1>15 DEF Parsed
      <3>2. QED
        BY <1>5, <1>11, <3>1
    <2>2. NoControls
      BY <1>2, <1>11, <1>15, <2>1 DEF NoControls
    <2>3. \A k \in 0..Parsed : Passed(k)' = Passed(k)
      BY <2>1 DEF Passed
    <2>4. Passed(Parsed)' = Passed(Parsed) /\ \A k \in Passed(Parsed) : k \in 1..Parsed
      BY <1>11, <2>1 DEF Passed
    <2>5. ForwardSound
      BY <1>15, <2>2
    <2>6. Delivered'
      BY <1>2, <1>11, <2>1, <2>3, <2>4, <2>5 DEF ForwardSound, Delivered
    <2>7. stage \in Late => Head(wire') = Head(wire)
      BY <1>6 DEF ParserInv, ParserTypeOK, Late
    <2>8. QED
      BY <1>2, <2>5, <2>6, <2>7 DEF ForwardSound, Delivered
  <1>16. QED
    BY <1>2, <1>7, <1>8, <1>9, <1>10, <1>12, <1>13, <1>14, <1>15 DEF ParserInv

-----------------------------------------------------------------------------
(* A frame is parsed and its message, out, goes on.                        *)
PassedOn(content, p, out) ==
    /\ stage = "payload" /\ wire # <<>> /\ content \in Contents(parser, Head(wire))
    /\ p = Effective(CompleteHook(parser, Head(wire), deflate), Head(wire))
    /\ LET all == Completed(parser, Head(wire), content)
       IN  out = IF all # <<>> /\ Head(all).op = "pong" THEN <<>> ELSE all
    /\ out # <<>> => ~Unexpected(p, Head(out))
    /\ RelayFrame(p, out)

(* What is inflated was deflated, and never a control frame.               *)
LEMMA ContentsOfFrame ==
    ASSUME ParserInv, stage = "payload", NEW content \in Contents(parser, Head(wire))
    PROVE  /\ content \in Bodies
           /\ ~deflate \/ IsControl(Head(wire).op) => content # "packed"
           /\ deflate /\ IsControl(Head(wire).op) => ~Inflates(parser)
  <1>1. wire # <<>> /\ 1 \in DOMAIN wire /\ Head(wire) = wire[1] /\ Head(wire) \in Frame
    BY AtFrame DEF ParserInv, ParserTypeOK
  <1>2. ~deflate \/ IsControl(Head(wire).op) => Head(wire).body # "packed" /\ ~Inflates(parser)
    BY <1>1 DEF ParserInv, BodiesSound, ReadSound, Inflates, YesNo, Late
  <1>3. QED
    BY <1>1, <1>2 DEF Contents, Frame, Bodies

(* The state of the parser after a frame is complete ... *)
LEMMA PassedOnTyped ==
    ASSUME ParserInv, NEW content, NEW p, NEW out, PassedOn(content, p, out)
    PROVE  /\ p \in Parser /\ p.effOut = parser.effOut
           /\ p.effIn \notin Controls
           /\ Head(wire).fin /\ parser.effIn = "none" => p.effIn = "none"
           /\ p.compressed \in {parser.compressed, "unset"}
           /\ deflate /\ Head(wire).fin /\ parser.compressible = "yes" => p.compressed = "unset"
  <1>1. parser \in Parser /\ deflate \in BOOLEAN /\ Head(wire) \in Frame /\ parser.effIn \notin Controls
    BY AtFrame DEF ParserInv, ParserTypeOK, PassedOn, ReadSound
  <1>2. QED
    BY <1>1, CompletedTyped DEF PassedOn

(* ... the message it was complete with ... *)
LEMMA PassedOnMessage ==
    ASSUME ParserInv, NEW content, NEW p, NEW out, PassedOn(content, p, out), out # <<>>
    PROVE  /\ Head(out) \in Message /\ Head(out).fin = Head(wire).fin /\ Head(out).body = content
           /\ Head(out).op \in Controls <=> Head(wire).op \in Controls
           /\ Head(out).op # "pong"
  <1>1. parser \in Parser /\ Head(wire) \in Frame /\ parser.effIn \notin Controls /\ content \in Bodies
    BY AtFrame, ContentsOfFrame DEF ParserInv, ParserTypeOK, PassedOn, ReadSound
  <1>2. out = Completed(parser, Head(wire), content) /\ Head(out).op # "pong"
    BY DEF PassedOn
  <1>3. QED
    BY <1>1, <1>2, CompletedIsMessage

(* ... and the parser after it was serialized. *)
LEMMA PassedOnReader ==
    ASSUME ParserInv, NEW content, NEW p, NEW out, PassedOn(content, p, out)
    PROVE  /\ parser' \in Parser /\ parser'.effIn = p.effIn /\ parser'.compressed = p.compressed
           /\ out = <<>> \/ Head(out).op \notin Messages => parser'.effOut = p.effOut
           /\ out # <<>> /\ Head(out).op \in Messages => (parser'.effOut # "none" <=> ~Head(out).fin)
  <1>1. p \in Parser /\ (out # <<>> => Head(out) \in Message)
    BY PassedOnTyped, PassedOnMessage
  <1>2. parser' = IF out = <<>> THEN p ELSE Serialized(p, Head(out))
    BY DEF PassedOn, RelayFrame
  <1>3. CASE out = <<>>
    BY <1>1, <1>2, <1>3
  <1>4. CASE out # <<>>
    BY <1>1, <1>2, <1>4, SerializedTyped
  <1>5. QED
    BY <1>3, <1>4

(* What is forwarded stays legal. *)
LEMMA PassedOnOutput ==
    ASSUME ParserInv, NEW content, NEW p, NEW out, PassedOn(content, p, out)
    PROVE  forwarded' \in Seq(Frame) /\ OutputSound'
  <1>1. /\ UNCHANGED <<dest, deflate>> /\ deflate \in BOOLEAN /\ forwarded \in Seq(Frame) /\ OutputSound
        /\ parser'.effOut = IF out = <<>> \/ Head(out).op \notin Messages THEN parser.effOut ELSE parser'.effOut
    <2>1. deflate \in BOOLEAN /\ forwarded \in Seq(Frame) /\ OutputSound
      BY DEF ParserInv, ParserTypeOK
    <2>2. UNCHANGED <<dest, deflate>>
      BY DEF PassedOn, RelayFrame
    <2>3. out = <<>> \/ Head(out).op \notin Messages => parser'.effOut = parser.effOut
      <3>1. p.effOut = parser.effOut
        BY PassedOnTyped
      <3>2. out = <<>> \/ Head(out).op \notin Messages => parser'.effOut = p.effOut
        BY PassedOnReader
      <3>3. QED
        BY <3>1, <3>2, Zenon
    <2>4. QED
      BY <2>1, <2>2, <2>3, Zenon
  <1>2. CASE out = <<>>
    <2>1. forwarded' = forwarded
      BY <1>2 DEF PassedOn, RelayFrame
    <2>2. QED
      BY <1>1, <1>2, <2>1, WrittenAlike
  <1>3. CASE out # <<>>
    <2> DEFINE m == Head(out)
               e == OnWire(p, m, dest, deflate)
    <2>1. /\ p \in Parser /\ p.effOut = parser.effOut
          /\ m \in Message /\ m.fin = Head(wire).fin /\ m.body = content
          /\ m.op \in Controls <=> Head(wire).op \in Controls
      BY <1>3, PassedOnTyped, PassedOnMessage
    <2>2. /\ m.op \in Controls => m.fin
          /\ ~deflate \/ m.op \in Controls => m.body # "packed"
          /\ ~Unexpected(p, m)
      BY <1>3, <2>1, ContentsOfFrame DEF PassedOn, ParserInv, ReadSound, IsControl
    <2>3. forwarded' = Append(forwarded, e)
      BY <1>3 DEF PassedOn, RelayFrame
    <2>4. e \in Frame
      BY <1>1, <2>1, WrittenFrame
    <2>5. Legal(forwarded, e) /\ (IsData(e) => e.body # (IF deflate THEN "plain" ELSE "packed"))
      BY <1>1, <2>1, <2>2, WrittenIsLegal
    <2>6. e.fin = m.fin /\ (IsData(e) <=> m.op \in Messages)
      BY <2>1 DEF OnWire, WireType, IsData, IsControl, Message, Messages, Controls
    <2>7. PICK w \in Frame : w = e
      BY <2>4
    <2> HIDE DEF e, m
    <2>8. PICK s \in Seq(Frame) : s = forwarded
      BY <1>1
    <2>9. AllLegal(Append(s, w)) /\ (Unfinished(Append(s, w)) <=> IF IsData(w) THEN ~w.fin ELSE Unfinished(s))
      BY <1>1, <2>5, <2>7, <2>8, LegalAppended, UnfinishedAppended DEF OutputSound
    <2>10. PICK t : t = Append(s, w)
      OBVIOUS
    <2>11. AllLegal(forwarded)' /\ (Unfinished(forwarded)' <=> Unfinished(t))
      <3>1. t = forwarded'
        BY <2>3, <2>7, <2>8, <2>10
      <3>2. (AllLegal(forwarded)' <=> AllLegal(t)') /\ (Unfinished(forwarded)' <=> Unfinished(t)')
        BY <3>1
      <3>3. QED
        BY <1>1, <2>9, <2>10, <3>2, JudgedAlike
    <2>12. parser'.effOut # "none" <=> Unfinished(t)
      <3>1. CASE IsData(w)
        BY <1>3, <2>6, <2>7, <2>9, <2>10, <3>1, PassedOnReader DEF m
      <3>2. CASE ~IsData(w)
        BY <1>1, <2>6, <2>7, <2>8, <2>9, <2>10, <3>2 DEF OutputSound, m
      <3>3. QED
        BY <3>1, <3>2
    <2>13. \A i \in DOMAIN forwarded' :
              IsData(forwarded'[i]) => forwarded'[i].body # (IF deflate THEN "plain" ELSE "packed")
      <3>1. forwarded' = t
        BY <2>3, <2>7, <2>8, <2>10
      <3>2. DOMAIN t = 1..Len(s) + 1 /\ DOMAIN s = 1..Len(s) /\ t[Len(s) + 1] = w /\ \A i \in 1..Len(s) : t[i] = s[i]
        BY <2>10, AppendedFrame
      <3>3. QED
        BY <1>1, <2>5, <2>7, <2>8, <3>1, <3>2 DEF OutputSound
    <2>14. forwarded' \in Seq(Frame)
      BY <1>1, <2>3, <2>4, AppendedFrame
    <2>15. QED
      BY <1>1, <2>11, <2>12, <2>13, <2>14 DEF OutputSound, IsData
  <1>4. QED
    BY <1>2, <1>3

(* The state that is read with keeps its types. *)
LEMMA PassedOnRead ==
    ASSUME ParserInv, NEW content, NEW p, NEW out, PassedOn(content, p, out)
    PROVE  ParserTypeOK' /\ BodiesSound' /\ ReadSound'
  <1>1. /\ stage' = "header" /\ wire' = Tail(wire) /\ UNCHANGED <<dest, deflate, misread, arrived>>
        /\ status' = IF Head(wire).op = "close" THEN "close" ELSE status
    BY DEF PassedOn, RelayFrame
  <1>2. /\ Tail(wire) \in Seq(Frame)
        /\ \A i \in DOMAIN Tail(wire) : Tail(wire)[i] = wire[i + 1] /\ i + 1 \in DOMAIN wire
    BY AtFrame DEF ParserInv, PassedOn
  <1>3. parser' \in Parser /\ parser'.effIn \notin Controls /\ parser'.compressed \in {parser.compressed, "unset"}
    BY PassedOnTyped, PassedOnReader
  <1>4. forwarded' \in Seq(Frame)
    BY PassedOnOutput
  <1>5. ParserTypeOK'
    BY <1>1, <1>2, <1>3, <1>4 DEF ParserInv, ParserTypeOK
  <1>6. BodiesSound'
    BY <1>1, <1>2 DEF ParserInv, BodiesSound
  <1>7. ReadSound'
    BY <1>1, <1>3 DEF ParserInv, ReadSound, Late
  <1>8. QED
    BY <1>5, <1>6, <1>7

(* One frame less is on the wire. *)
LEMMA PassedOnWire ==
    ASSUME ParserInv, NEW content, NEW p, NEW out, PassedOn(content, p, out), WireSound
    PROVE  WireSound' /\ Parsed' = Parsed + 1 /\ Parsed \in 0..Len(arrived) - 1
  <1>1. /\ Len(wire) \in Nat \ {0} /\ Len(arrived) \in Nat /\ Len(Tail(wire)) = Len(wire) - 1
        /\ Tail(wire) \in Seq(Frame) /\ DOMAIN Tail(wire) = 1..Len(Tail(wire)) /\ DOMAIN wire = 1..Len(wire)
        /\ \A i \in DOMAIN Tail(wire) : Tail(wire)[i] = wire[i + 1] /\ i + 1 \in DOMAIN wire
    <2>1. wire # <<>> /\ ParserTypeOK
      BY DEF PassedOn, ParserInv
    <2>2. QED
      BY <2>1, AtFrame DEF ParserTypeOK
  <1>2. wire' = Tail(wire) /\ arrived' = arrived
    BY DEF PassedOn, RelayFrame
  <1>3. Len(wire) <= Len(arrived)
    BY DEF WireSound
  <1>4. Parsed' = Parsed + 1 /\ Parsed \in 0..Len(arrived) - 1
    BY <1>1, <1>2, <1>3 DEF Parsed
  <1>5. \A i \in DOMAIN Tail(wire) : wire[i + 1] = arrived[Parsed + (i + 1)] /\ Parsed + (i + 1) = (Parsed + 1) + i
    <2>1. \A j \in DOMAIN wire : wire[j] = arrived[Parsed + j]
      BY DEF WireSound
    <2>2. \A n \in Int, i \in Int : n + (i + 1) = (n + 1) + i
      OBVIOUS
    <2>3. Parsed \in Int /\ \A i \in DOMAIN Tail(wire) : i \in Int /\ i + 1 \in DOMAIN wire
      BY <1>1, <1>4
    <2>4. QED
      BY <2>1, <2>2, <2>3
  <1>6. \A i \in DOMAIN wire' : wire'[i] = arrived'[Parsed' + i]
    BY <1>1, <1>2, <1>4, <1>5
  <1>7. Len(wire') <= Len(arrived')
    BY <1>1, <1>2, <1>3
  <1>8. QED
    BY <1>4, <1>6, <1>7 DEF WireSound

(* Legal frames leave the parser ready for the next one. *)
LEMMA PassedOnLegal ==
    ASSUME ParserInv, NEW content, NEW p, NEW out, PassedOn(content, p, out), Keeps, ~misread
    PROVE  LegalSound'
  <1> DEFINE f == Head(wire)
  <1>1. /\ wire # <<>> /\ stage = "payload" /\ stage' = "header" /\ arrived' = arrived
        /\ status' = IF f.op = "close" THEN "close" ELSE status
    BY DEF PassedOn, RelayFrame
  <1>2. /\ Proper(f) /\ Parsed + 1 \in DOMAIN arrived /\ f = arrived[Parsed + 1]
        /\ LegalSound /\ ReadSound
    BY <1>1, ProperHead DEF ParserInv
  <1>3. parser'.effIn = "none"
    BY <1>2, PassedOnTyped, PassedOnReader DEF LegalSound, Proper
  <1>4. parser'.effOut = "none"
    <2>1. CASE out = <<>> \/ Head(out).op \notin Messages
      BY <1>2, <2>1, PassedOnTyped, PassedOnReader DEF LegalSound
    <2>2. CASE out # <<>> /\ Head(out).op \in Messages
      BY <1>2, <2>2, PassedOnMessage, PassedOnReader DEF Proper
    <2>3. QED
      BY <2>1, <2>2
  <1>5. status' # "error" /\ (status' = "close" => \E k \in DOMAIN arrived' : arrived'[k].op = "close")
    BY <1>1, <1>2 DEF LegalSound
  <1>6. parser'.compressed # "yes"
    <2>1. CASE parser.compressed = "yes"
      <3>1. f.rsv1 /\ deflate /\ ~IsControl(f.op) /\ f.fin
        BY <1>1, <1>2, <2>1 DEF LegalSound, Late, Proper, IsControl
      <3>2. parser.compressible = "yes"
        BY <1>1, <1>2, <3>1 DEF ReadSound, Late, YesNo
      <3>3. QED
        BY <3>1, <3>2, PassedOnTyped, PassedOnReader
    <2>2. CASE parser.compressed # "yes"
      BY <2>2, PassedOnTyped, PassedOnReader
    <2>3. QED
      BY <2>1, <2>2
  <1>7. QED
    BY <1>1, <1>3, <1>4, <1>5, <1>6 DEF LegalSound, Late

(* How many of the first frames are passed on.                             *)
LEMMA PassedCounts ==
    ASSUME NEW n \in Nat
    PROVE  /\ IsFiniteSet(Passed(n)) /\ Cardinality(Passed(n)) \in Nat
           /\ Passed(n) \subseteq 1..n
           /\ Passed(n + 1) = IF arrived[n + 1].op # "pong" THEN Passed(n) \union {n + 1} ELSE Passed(n)
           /\ arrived[n + 1].op # "pong" => Cardinality(Passed(n + 1)) = Cardinality(Passed(n)) + 1
           /\ \A k \in Passed(n) : Cardinality(Passed(k)) \in 1..Cardinality(Passed(n))
  <1>1. Passed(n) \subseteq 1..n
    BY DEF Passed
  <1>2. IsFiniteSet(1..n)
    BY FS_Interval
  <1>3. IsFiniteSet(Passed(n)) /\ Cardinality(Passed(n)) \in Nat
    BY <1>1, <1>2, FS_Subset, FS_CardinalityType
  <1>4. 1..n + 1 = 1..n \union {n + 1}
    OBVIOUS
  <1>5. Passed(n + 1) = IF arrived[n + 1].op # "pong" THEN Passed(n) \union {n + 1} ELSE Passed(n)
    BY <1>4 DEF Passed
  <1>6. n + 1 \notin Passed(n)
    BY <1>1
  <1>7. arrived[n + 1].op # "pong" => Cardinality(Passed(n + 1)) = Cardinality(Passed(n)) + 1
    BY <1>3, <1>5, <1>6, FS_AddElement
  <1>8. ASSUME NEW k \in Passed(n)
        PROVE  Cardinality(Passed(k)) \in 1..Cardinality(Passed(n))
    <2>1. k \in 1..n /\ Passed(k) \subseteq Passed(n) /\ k \in Passed(k)
      BY DEF Passed
    <2>2. IsFiniteSet(Passed(k)) /\ Cardinality(Passed(k)) \in Nat /\ Cardinality(Passed(k)) <= Cardinality(Passed(n))
      BY <1>3, <2>1, FS_Subset, FS_CardinalityType
    <2>3. Cardinality(Passed(k)) # 0
      BY <2>1, <2>2, FS_EmptySet
    <2>4. QED
      BY <1>3, <2>2, <2>3
  <1>9. QED
    BY <1>1, <1>3, <1>5, <1>7, <1>8

(* The frame that is forwarded is the one that was read. *)
LEMMA PassedOnForward ==
    ASSUME ParserInv, NEW content, NEW p, NEW out, PassedOn(content, p, out), Keeps, ~misread, NoControls'
    PROVE  ForwardSound'
  <1> DEFINE f == Head(wire)
             n == Parsed
             all == Completed(parser, f, content)
  <1>1. /\ wire # <<>> /\ stage = "payload" /\ stage' = "header" /\ UNCHANGED <<dest, deflate, arrived>>
        /\ content \in Contents(parser, f) /\ ParserTypeOK /\ BodiesSound /\ ReadSound /\ WireSound /\ LegalSound
    BY DEF PassedOn, RelayFrame, ParserInv
  <1>2. Proper(f) /\ f = arrived[n + 1] /\ n \in Nat /\ f \in Frame
    BY <1>1, AtFrame, ProperHead
  <1>3. Parsed' = n + 1
    BY <1>1, PassedOnWire
  <1>4. ForwardSound /\ (deflate => ~IsControl(f.op))
    <2>1. deflate => \A k \in 1..n + 1 : ~IsControl(arrived[k].op)
      BY <1>1, <1>3 DEF NoControls
    <2>2. n + 1 \in 1..n + 1 /\ \A k \in 1..n : k \in 1..n + 1
      BY <1>2
    <2>3. NoControls
      BY <2>1, <2>2 DEF NoControls
    <2>4. QED
      BY <1>2, <2>1, <2>2, <2>3 DEF ParserInv
  <1>5. deflate => parser'.compressed = "unset"
    <2>1. deflate => parser.compressible = "yes" /\ f.fin
      BY <1>1, <1>2, <1>4 DEF ReadSound, YesNo, Late, Proper
    <2>2. QED
      BY <2>1, PassedOnTyped, PassedOnReader
  <1>6. \A k : Passed(k)' = Passed(k)
    BY <1>1 DEF Passed
  <1>7. /\ Passed(n) \subseteq 1..n /\ Cardinality(Passed(n)) \in Nat
        /\ Passed(n + 1) = IF f.op # "pong" THEN Passed(n) \union {n + 1} ELSE Passed(n)
        /\ f.op # "pong" => Cardinality(Passed(n + 1)) = Cardinality(Passed(n)) + 1
        /\ \A k \in Passed(n) : Cardinality(Passed(k)) \in 1..Cardinality(Passed(n))
    BY <1>2, PassedCounts
  <1>8. /\ Len(forwarded) = Cardinality(Passed(n))
        /\ \A k \in Passed(n) :
              /\ forwarded[Cardinality(Passed(k))].op = arrived[k].op
              /\ forwarded[Cardinality(Passed(k))].body = IF deflate THEN "packed" ELSE "plain"
    BY <1>4 DEF ForwardSound
  <1>9. all # <<>> /\ Head(all).op = f.op
    <2>1. parser \in Parser /\ parser.effIn \notin Controls /\ content \in Bodies
      BY <1>1, ContentsOfFrame DEF ParserTypeOK, ReadSound
    <2>2. f.op \in Controls \/ (f.op \in Messages /\ f.fin)
      BY <1>2 DEF Proper
    <2>3. QED
      BY <1>2, <2>1, <2>2, CompletedIsMessage
  <1> HIDE DEF n, all
  <1>10. out = IF f.op = "pong" THEN <<>> ELSE all
    BY <1>9 DEF PassedOn, all
  <1>11. CASE f.op = "pong"
    <2>1. forwarded' = forwarded
      BY <1>10, <1>11 DEF PassedOn, RelayFrame
    <2>2. Passed(n + 1) = Passed(n)
      BY <1>7, <1>11
    <2>3. QED
      BY <1>1, <1>3, <1>5, <1>6, <1>8, <2>1, <2>2 DEF ForwardSound, Late
  <1>12. CASE f.op # "pong"
    <2> DEFINE m == Head(out)
               e == OnWire(p, m, dest, deflate)
    <2>1. out # <<>> /\ m.op = f.op /\ m.body = content /\ m \in Message
      BY <1>9, <1>10, <1>12, PassedOnMessage
    <2>2. forwarded' = Append(forwarded, e)
      BY <2>1 DEF PassedOn, RelayFrame
    <2>3. p.effOut = "none" /\ p \in Parser /\ deflate \in BOOLEAN
      BY <1>1, PassedOnTyped DEF LegalSound, ParserTypeOK
    <2>4. e.op = f.op /\ e.body = IF ~(deflate /\ ~IsControl(f.op)) THEN content
                                  ELSE IF content = "plain" THEN "packed" ELSE "garbled"
      BY <2>1, <2>3 DEF OnWire, WireType
    <2>5. content = "plain"
      <3>1. CASE deflate
        <4>1. ~IsControl(f.op) /\ f.op \in Messages /\ f.fin /\ f.body = IF f.rsv1 THEN "packed" ELSE "plain"
          BY <1>2, <1>4, <3>1 DEF Proper, IsControl
        <4>2. parser.compressed = YesNo(f.rsv1) /\ parser.compressible = "yes"
          BY <1>1, <1>4, <3>1, <4>1 DEF ForwardSound, ReadSound, Late, YesNo
        <4>3. Inflates(parser) <=> f.rsv1
          BY <4>2 DEF Inflates, YesNo
        <4>4. QED
          BY <1>1, <4>1, <4>3 DEF Contents, InflatesCleanly, Messages
      <3>2. CASE ~deflate
        <4>1. ~Inflates(parser)
          BY <1>1, <3>2 DEF ReadSound, Inflates
        <4>2. f.body = "plain"
          BY <1>1, <1>2, <3>2, ProperHead DEF BodiesSound
        <4>3. QED
          BY <1>1, <4>1, <4>2 DEF Contents
      <3>3. QED
        BY <3>1, <3>2
    <2>6. e \in Frame
      BY <2>1, <2>3, WrittenFrame
    <2>7. e.op = arrived[n + 1].op /\ e.body = IF deflate THEN "packed" ELSE "plain"
      BY <1>2, <1>4, <2>4, <2>5 DEF n
    <2> HIDE DEF e, m
    <2>8. /\ forwarded \in Seq(Frame) /\ Len(forwarded') = Len(forwarded) + 1
          /\ forwarded'[Len(forwarded) + 1] = e /\ \A i \in 1..Len(forwarded) : forwarded'[i] = forwarded[i]
      <3>1. forwarded \in Seq(Frame)
        BY <1>1 DEF ParserTypeOK
      <3>2. QED
        BY <2>2, <2>6, <3>1, AppendedFrame
    <2>9. Len(forwarded') = Cardinality(Passed(n + 1))
      BY <1>7, <1>8, <1>12, <2>8
    <2>10. \A k \in Passed(n + 1) :
              /\ forwarded'[Cardinality(Passed(k))].op = arrived[k].op
              /\ forwarded'[Cardinality(Passed(k))].body = IF deflate THEN "packed" ELSE "plain"
      <3>1. ASSUME NEW k \in Passed(n)
            PROVE  forwarded'[Cardinality(Passed(k))] = forwarded[Cardinality(Passed(k))]
        BY <1>7, <1>8, <2>8
      <3>2. forwarded'[Cardinality(Passed(n + 1))] = e
        BY <1>7, <1>8, <1>12, <2>8
      <3>3. \A k \in Passed(n + 1) : k \in Passed(n) \/ k = n + 1
        BY <1>7, <1>12
      <3>4. QED
        BY <1>8, <2>7, <3>1, <3>2, <3>3
    <2>11. QED
      BY <1>1, <1>3, <1>5, <1>6, <2>9, <2>10 DEF ForwardSound, Late
  <1>13. QED
    BY <1>11, <1>12

(* parse_payload, with the rest of the frame: completion, the loop of the  *)
(* service and serialization.                                              *)
LEMMA PayloadKeeps == ASSUME ParserInv, ParsePayload PROVE ParserInv'
  <1> DEFINE f == Head(wire)
             p == Effective(CompleteHook(parser, f, deflate), f)
             GoesOn ==
                \E content \in Contents(parser, f) :
                   LET all == Completed(parser, f, content)
                       out == IF all # <<>> /\ Head(all).op = "pong" THEN <<>> ELSE all
                   IN IF out # <<>> /\ Unexpected(p, Head(out)) THEN Fails("error") ELSE RelayFrame(p, out)
  <1>1. wire # <<>> /\ stage = "payload" /\ f \in Frame
    BY AtFrame DEF ParsePayload, ParserInv, ParserTypeOK
  <1>2. ASSUME NEW why \in {"error", "close"}, Fails(why), MayFailToInflate(parser, f) \/ CloseRefused(f)
        PROVE  ParserInv'
    <2>1. ASSUME Keeps, ~misread PROVE FALSE
      <3>1. Proper(f) /\ LegalSound
        BY <1>1, <2>1, ProperHead DEF ParserInv
      <3>2. ~CloseRefused(f)
        BY <3>1 DEF Proper, CloseRefused
      <3>3. ~MayFailToInflate(parser, f)
        BY <1>1, <3>1 DEF LegalSound, Late, Proper, MayFailToInflate, Inflates, InflatesCleanly, Messages, Controls
      <3>4. QED
        BY <1>2, <3>2, <3>3
    <2>2. QED
      BY <1>2, <2>1, FailsKeeps
  <1>3. ASSUME NEW content \in Contents(parser, f), NEW out, out # <<>>, Unexpected(p, Head(out)), Fails("error")
        PROVE  ParserInv'
    <2>1. ASSUME Keeps, ~misread PROVE FALSE
      <3>1. parser \in Parser /\ deflate \in BOOLEAN /\ LegalSound
        BY <2>1 DEF ParserInv, ParserTypeOK
      <3>2. p.effOut = parser.effOut
        BY <1>1, <3>1, CompletedTyped
      <3>3. QED
        BY <1>3, <3>1, <3>2 DEF LegalSound, Unexpected
    <2>2. QED
      BY <1>3, <2>1, FailsKeeps
  <1>4. ASSUME NEW content, NEW out, PassedOn(content, p, out)
        PROVE  ParserInv'
    <2>1. ParserTypeOK' /\ BodiesSound' /\ ReadSound' /\ OutputSound'
      BY <1>4, PassedOnRead, PassedOnOutput
    <2>2. UNCHANGED <<dest, deflate, arrived, misread>>
      BY <1>4 DEF PassedOn, RelayFrame
    <2>3. Keeps' => Keeps
      BY <2>2, KeepsAlike
    <2>4. WireSound => WireSound'
      BY <1>4, PassedOnWire
    <2>5. Keeps /\ ~misread => LegalSound'
      BY <1>4, PassedOnLegal
    <2>6. Keeps /\ ~misread /\ NoControls' => ForwardSound'
      BY <1>4, PassedOnForward
    <2>7. QED
      BY <2>1, <2>2, <2>3, <2>4, <2>5, <2>6 DEF ParserInv
  <1>5. CASE \/ MayFailToInflate(parser, f) /\ Fails("close")
             \/ CloseRefused(f) /\ Fails("error")
    BY <1>2, <1>5
  <1>6. CASE GoesOn
    <2>1. PICK content \in Contents(parser, f) :
                LET all == Completed(parser, f, content)
                    out == IF all # <<>> /\ Head(all).op = "pong" THEN <<>> ELSE all
                IN IF out # <<>> /\ Unexpected(p, Head(out)) THEN Fails("error") ELSE RelayFrame(p, out)
      BY <1>6
    <2> DEFINE all == Completed(parser, f, content)
               out == IF all # <<>> /\ Head(all).op = "pong" THEN <<>> ELSE all
    <2>2. CASE out # <<>> /\ Unexpected(p, Head(out))
      <3>1. Fails("error")
        BY <2>1, <2>2
      <3>2. QED
        BY <1>3, <2>2, <3>1
    <2>3. CASE ~(out # <<>> /\ Unexpected(p, Head(out)))
      <3>1. RelayFrame(p, out)
        BY <2>1, <2>3
      <3>2. PassedOn(content, p, out)
        BY <1>1, <2>3, <3>1 DEF PassedOn
      <3>3. QED
        BY <1>4, <3>2
    <2>4. QED
      BY <2>2, <2>3
  <1>7. \/ MayFailToInflate(parser, f) /\ Fails("close")
        \/ CloseRefused(f) /\ Fails("error")
        \/ GoesOn
    BY DEF ParsePayload
  <1> HIDE DEF GoesOn
  <1>8. QED
    BY <1>5, <1>6, <1>7

(* The inductive invariant of websocket::frame_parser and permessage-      *)
(* deflate.                                                                *)
THEOREM ParserInvariant == ParserSpec => []ParserInv
  <1>1. ASSUME ParserInv, UNCHANGED parserVars PROVE ParserInv'
    <2>1. /\ UNCHANGED <<dest, deflate, parser, stage, wire, status, misread, arrived, forwarded>>
      BY <1>1 DEF parserVars
    <2>2. ParserTypeOK'
      BY <1>1, <2>1 DEF ParserInv, ParserTypeOK
    <2>3. ReadSound' /\ OutputSound'
      BY <1>1, <2>1, WrittenAlike DEF ParserInv, ReadSound
    <2>4. BodiesSound' /\ (~misread' => WireSound') /\ (Keeps' <=> Keeps) /\ (NoControls' <=> NoControls)
      BY <1>1, <2>1, FramesAlike
    <2>5. LegalSound => LegalSound'
      BY <2>1 DEF LegalSound
    <2>6. ASSUME ForwardSound PROVE ForwardSound'
      <3>1. Delivered'
        BY <1>1, <2>1, <2>6, DeliveredAlike DEF ForwardSound, Delivered
      <3>2. QED
        BY <2>1, <2>6, <3>1 DEF ForwardSound, Delivered
    <2>7. QED
      BY <1>1, <2>1, <2>2, <2>3, <2>4, <2>5, <2>6 DEF ParserInv
  <1>2. ParserInv /\ [ParserNext]_parserVars => ParserInv'
    BY <1>1, SendKeeps, HeaderKeeps, LengthKeeps, MaskKeyKeeps, PayloadKeeps DEF ParserNext
  <1>3. QED
    BY <1>2, ParserStart, PTL DEF ParserSpec

(* What goes out is again a stream the protocol allows. *)
THEOREM OutputStaysLegal == ParserSpec => []OutputLegal
  <1>1. ParserInv => OutputLegal
    BY DEF ParserInv, OutputSound, OutputLegal
  <1>2. QED
    BY <1>1, ParserInvariant, PTL

(* Frames of a peer that keeps to the protocol arrive as they were sent,   *)
(* in order and with their contents, as long as no message is in           *)
(* fragments, no masking key was misread, and, with permessage-deflate, no *)
(* control frame has come before.                                          *)
THEOREM WholeFramesArriveAsSent == ParserSpec => []ArrivesAsSent
  <1>1. ParserInv => ArrivesAsSent
    <2> SUFFICES ASSUME ParserInv, AllLegal(arrived) /\ ~Fragmented /\ ~misread
                 PROVE  /\ status # "error"
                        /\ status = "close" => \E k \in DOMAIN arrived : arrived[k].op = "close"
                        /\ NoControls => Delivered
      BY DEF ArrivesAsSent, NoControls, Delivered
    <2>1. LegalSound /\ (NoControls => ForwardSound)
      BY DEF ParserInv, Keeps
    <2>2. ForwardSound => Delivered
      BY DEF ForwardSound, Delivered
    <2>3. QED
      BY <2>1, <2>2 DEF LegalSound
  <1>2. QED
    BY <1>1, ParserInvariant, PTL

-----------------------------------------------------------------------------

(* Texts. *)

Word == STRING \union Bytes \union {":", "/", "@", "?", "*", "http", "https"}

(* A text: its words are the parts it is cut into. *)
Text == Seq(Word)

(* Strings are words. *)
LEMMA TextOfStrings ==
    ASSUME NEW s \in Seq(STRING)
    PROVE  s \in Text
  <1>1. STRING \subseteq Word
    BY DEF Word
  <1>2. \A S, T : S \subseteq T => \A t \in Seq(S) : t \in Seq(T)
    OBVIOUS
  <1>3. QED
    BY <1>1, <1>2 DEF Text

(* Two texts with the same words are one. *)
LEMMA SameText ==
    ASSUME NEW s \in Text, NEW t \in Text, Len(s) = Len(t), \A i \in 1..Len(s) : s[i] = t[i]
    PROVE  s = t
  BY DEF Text

(* What stands where in a text of two parts. *)
LEMMA Joined ==
    ASSUME NEW a \in Text, NEW b \in Text
    PROVE  /\ a \o b \in Text /\ Len(a \o b) = Len(a) + Len(b)
           /\ Len(a) \in Nat /\ Len(b) \in Nat
           /\ \A i \in 1..Len(a) : (a \o b)[i] = a[i]
           /\ \A i \in 1..Len(b) : (a \o b)[Len(a) + i] = b[i]
  BY DEF Text

(* What stands where in a part of a text. *)
LEMMA Slice ==
    ASSUME NEW t \in Text, NEW m \in 1..Len(t) + 1, NEW n \in m - 1..Len(t)
    PROVE  /\ SubSeq(t, m, n) \in Text /\ Len(SubSeq(t, m, n)) = n - m + 1
           /\ \A i \in 1..n - m + 1 : SubSeq(t, m, n)[i] = t[m + i - 1]
  BY DEF Text

(* A part of a text that agrees with another, word by word. *)
LEMMA Piece ==
    ASSUME NEW t \in Text, NEW b \in Text, NEW n \in Nat, n + Len(b) =< Len(t),
           \A i \in 1..Len(b) : t[n + i] = b[i]
    PROVE  SubSeq(t, n + 1, n + Len(b)) = b
  <1> DEFINE s == SubSeq(t, n + 1, n + Len(b))
  <1>1. Len(b) \in Nat /\ Len(t) \in Nat
    BY DEF Text
  <1>2. n + 1 \in 1..Len(t) + 1 /\ n + Len(b) \in n + 1 - 1..Len(t)
    BY <1>1
  <1>3. /\ s \in Text /\ Len(s) = n + Len(b) - (n + 1) + 1
        /\ \A i \in 1..n + Len(b) - (n + 1) + 1 : s[i] = t[n + 1 + i - 1]
    BY <1>2, Slice
  <1>4. n + Len(b) - (n + 1) + 1 = Len(b) /\ \A i \in 1..Len(b) : n + 1 + i - 1 = n + i
    BY <1>1
  <1> HIDE DEF s
  <1>5. Len(s) = Len(b) /\ \A i \in 1..Len(b) : s[i] = t[n + i]
    BY <1>3, <1>4
  <1>6. s = b
    BY <1>3, <1>5, SameText
  <1>7. QED
    BY <1>6 DEF s

(* A text of three parts. *)
Consists(t, a, b, c) == t = (a \o b) \o c

(* What stands in the middle of a text. *)
LEMMA Middle ==
    ASSUME NEW a \in Text, NEW b \in Text, NEW c \in Text, NEW t \in Text,
           Consists(t, a, b, c)
    PROVE  /\ Len(a) \in Nat /\ Len(b) \in Nat /\ Len(c) \in Nat
           /\ Len(t) = Len(a) + Len(b) + Len(c)
           /\ Part(t, Len(a) + 1, Len(a) + Len(b) + 1) = b
           /\ Behind(t, Len(a) + Len(b) + 1) = c
           /\ \A i \in 1..Len(a) : t[i] = a[i]
           /\ \A i \in 1..Len(b) : t[Len(a) + i] = b[i]
           /\ \A i \in 1..Len(c) : t[Len(a) + Len(b) + i] = c[i]
  <1>1. PICK u \in Text : u = a \o b
    BY Joined
  <1>2. t = u \o c
    BY <1>1 DEF Consists
  <1>3. /\ Len(a) \in Nat /\ Len(b) \in Nat /\ Len(c) \in Nat
        /\ Len(u) = Len(a) + Len(b) /\ Len(t) = Len(a) + Len(b) + Len(c)
        /\ \A i \in 1..Len(a) : u[i] = a[i]
        /\ \A i \in 1..Len(b) : u[Len(a) + i] = b[i]
        /\ \A i \in 1..Len(u) : t[i] = u[i]
        /\ \A i \in 1..Len(c) : t[Len(u) + i] = c[i]
    <2>1. /\ Len(a) \in Nat /\ Len(b) \in Nat
          /\ Len(u) = Len(a) + Len(b)
          /\ \A i \in 1..Len(a) : u[i] = a[i]
          /\ \A i \in 1..Len(b) : u[Len(a) + i] = b[i]
      BY <1>1, Joined
    <2>2. /\ Len(c) \in Nat /\ Len(t) = Len(u) + Len(c)
          /\ \A i \in 1..Len(u) : t[i] = u[i]
          /\ \A i \in 1..Len(c) : t[Len(u) + i] = c[i]
      BY <1>2, Joined
    <2>3. QED
      BY <2>1, <2>2
  <1>4. /\ \A i \in 1..Len(a) : t[i] = a[i]
        /\ \A i \in 1..Len(b) : t[Len(a) + i] = b[i]
    <2>1. \A i \in 1..Len(a) : i \in 1..Len(u)
      BY <1>3
    <2>2. \A i \in 1..Len(b) : Len(a) + i \in 1..Len(u)
      BY <1>3
    <2>3. QED
      BY <1>3, <2>1, <2>2
  <1>5. \A i \in 1..Len(c) : t[Len(a) + Len(b) + i] = c[i]
    BY <1>3
  <1>6. Part(t, Len(a) + 1, Len(a) + Len(b) + 1) = b
    <2>1. Len(a) + Len(b) =< Len(t)
      BY <1>3
    <2>2. SubSeq(t, Len(a) + 1, Len(a) + Len(b)) = b
      BY <1>3, <1>4, <2>1, Piece
    <2>3. Len(a) + Len(b) + 1 - 1 = Len(a) + Len(b)
      BY <1>3
    <2>4. QED
      BY <2>2, <2>3 DEF Part
  <1>7. Behind(t, Len(a) + Len(b) + 1) = c
    <2>1. PICK n \in Nat : n = Len(a) + Len(b)
      BY <1>3
    <2>2. n + Len(c) = Len(t) /\ \A i \in 1..Len(c) : t[n + i] = c[i]
      BY <1>3, <1>5, <2>1
    <2>3. n + Len(c) =< Len(t)
      BY <1>3, <2>2
    <2>4. SubSeq(t, n + 1, n + Len(c)) = c
      BY <2>2, <2>3, Piece
    <2>5. QED
      BY <2>1, <2>2, <2>4 DEF Behind
  <1>8. QED
    BY <1>2, <1>3, <1>4, <1>5, <1>6, <1>7

(* The first of the words. *)
LEMMA FindIs ==
    ASSUME NEW t \in Text, NEW words, NEW from \in Nat, NEW k \in from..Len(t) + 1,
           \A i \in from..k - 1 : t[i] \notin words,
           k <= Len(t) => t[k] \in words
    PROVE  Find(t, words, from) = k
  <1> DEFINE S == {i \in from..Len(t) : t[i] \in words} \union {Len(t) + 1}
  <1>1. Len(t) \in Nat
    BY DEF Text
  <1>2. k \in S
    BY <1>1
  <1>3. \A i \in S : i \in Int /\ k =< i
    BY <1>1
  <1> HIDE DEF S
  <1>4. Min(S) \in S /\ Min(S) =< k
    BY <1>2, <1>3 DEF Min
  <1>5. Min(S) = k
    BY <1>3, <1>4
  <1>6. QED
    BY <1>5 DEF Find, S

(* Find returns the first place of a word, or the place after the end. *)
LEMMA FindIn ==
    ASSUME NEW t \in Text, NEW words, NEW from \in Nat, from =< Len(t) + 1
    PROVE  /\ Find(t, words, from) \in from..Len(t) + 1
           /\ Find(t, words, from) <= Len(t) => t[Find(t, words, from)] \in words
           /\ \A i \in from..Len(t) : t[i] \in words => Find(t, words, from) =< i
  <1> DEFINE S == {i \in from..Len(t) : t[i] \in words} \union {Len(t) + 1}
  <1>1. Len(t) \in Nat
    BY DEF Text
  <1>2. S \subseteq Nat /\ Len(t) + 1 \in S
    BY <1>1
  <1>3. \A i \in S : from =< i /\ i =< Len(t) + 1 /\ (i <= Len(t) => t[i] \in words)
    BY <1>1
  <1>4. \A i \in from..Len(t) : t[i] \in words => i \in S
    OBVIOUS
  <1> HIDE DEF S
  <1>5. PICK l \in S : \A i \in S : l =< i
    BY <1>2, LeastNat
  <1>6. Min(S) \in S /\ \A i \in S : Min(S) =< i
    BY <1>2, <1>5 DEF Min
  <1>7. Find(t, words, from) = Min(S)
    BY DEF Find, S
  <1>8. PICK k \in S : k = Min(S)
    BY <1>6
  <1>9. k \in from..Len(t) + 1 /\ (k <= Len(t) => t[k] \in words)
    <2>1. k \in Nat
      BY <1>2
    <2>2. from =< k /\ k =< Len(t) + 1 /\ (k <= Len(t) => t[k] \in words)
      BY <1>3
    <2>3. QED
      BY <1>1, <2>1, <2>2
  <1>10. \A i \in from..Len(t) : t[i] \in words => k =< i
    BY <1>4, <1>6, <1>8
  <1>11. QED
    BY <1>7, <1>8, <1>9, <1>10

(* Three texts are the same, whichever two of them are joined first. *)
Regrouped(a, b, c) == (a \o b) \o c = a \o (b \o c)

(* k stands in the first, the second or the third of three ranges. *)
InOneOf(k, x, y, z) ==
    \/ k \in 1..x
    \/ \E j \in 1..y : k = x + j
    \/ \E j \in 1..z : k = x + y + j

(* Joining does not depend on which texts are joined first. *)
LEMMA Associative ==
    ASSUME NEW a \in Text, NEW b \in Text, NEW c \in Text
    PROVE  Regrouped(a, b, c)
  <1>1. PICK u \in Text : u = a \o b
    BY Joined
  <1>2. PICK t \in Text : t = u \o c
    BY Joined
  <1>3. PICK v \in Text : v = b \o c
    BY Joined
  <1>4. PICK w \in Text : w = a \o v
    BY Joined
  <1>5. /\ Len(a) \in Nat /\ Len(b) \in Nat /\ Len(c) \in Nat
        /\ Len(t) = Len(a) + Len(b) + Len(c)
        /\ \A i \in 1..Len(a) : t[i] = a[i]
        /\ \A i \in 1..Len(b) : t[Len(a) + i] = b[i]
        /\ \A i \in 1..Len(c) : t[Len(a) + Len(b) + i] = c[i]
    <2>1. Consists(t, a, b, c)
      BY <1>1, <1>2 DEF Consists
    <2>2. QED
      BY <2>1, Middle
  <1>6. /\ Len(v) = Len(b) + Len(c)
        /\ \A i \in 1..Len(b) : v[i] = b[i]
        /\ \A i \in 1..Len(c) : v[Len(b) + i] = c[i]
    BY <1>3, Joined
  <1>7. /\ Len(w) = Len(a) + Len(v)
        /\ \A i \in 1..Len(a) : w[i] = a[i]
        /\ \A i \in 1..Len(v) : w[Len(a) + i] = v[i]
    BY <1>4, Joined
  <1>8. \A i \in 1..Len(t) : t[i] = w[i]
    <2>1. SUFFICES ASSUME NEW i \in 1..Len(t) PROVE t[i] = w[i]
      OBVIOUS
    <2>2. \A x, y, z \in Nat : \A k \in 1..x + y + z : InOneOf(k, x, y, z)
      <3>1. \A x, y, z \in Nat : \A k \in 1..x + y + z :
              \/ k \in 1..x
              \/ k - x \in 1..y /\ k = x + (k - x)
              \/ k - x - y \in 1..z /\ k = x + y + (k - x - y)
        OBVIOUS
      <3>2. QED
        BY <3>1 DEF InOneOf
    <2>3. i \in 1..Len(a) + Len(b) + Len(c) /\ Len(a) \in Nat /\ Len(b) \in Nat /\ Len(c) \in Nat
      BY <1>5
    <2>4. CASE i \in 1..Len(a)
      BY <1>5, <1>7, <2>4
    <2>5. CASE \E j \in 1..Len(b) : i = Len(a) + j
      <3>1. PICK j \in 1..Len(b) : i = Len(a) + j
        BY <2>5
      <3>2. j \in 1..Len(b) + Len(c)
        BY <1>5, <3>1
      <3>3. t[Len(a) + j] = b[j] /\ v[j] = b[j] /\ w[Len(a) + j] = v[j]
        BY <1>5, <1>6, <1>7, <3>1, <3>2
      <3>4. QED
        BY <3>1, <3>3
    <2>6. CASE \E j \in 1..Len(c) : i = Len(a) + Len(b) + j
      <3>1. PICK j \in 1..Len(c) : i = Len(a) + Len(b) + j
        BY <2>6
      <3>2. Len(b) + j \in 1..Len(v) /\ i = Len(a) + (Len(b) + j)
        BY <1>6, <2>3, <3>1
      <3>3. t[Len(a) + Len(b) + j] = c[j] /\ v[Len(b) + j] = c[j]
        BY <1>5, <1>6, <3>1
      <3>4. w[Len(a) + (Len(b) + j)] = v[Len(b) + j]
        BY <1>7, <3>2
      <3>5. QED
        BY <3>1, <3>2, <3>3, <3>4
    <2>7. \/ i \in 1..Len(a)
          \/ \E j \in 1..Len(b) : i = Len(a) + j
          \/ \E j \in 1..Len(c) : i = Len(a) + Len(b) + j
      <3>1. InOneOf(i, Len(a), Len(b), Len(c))
        BY <2>2, <2>3
      <3>2. QED
        BY <3>1, Zenon DEF InOneOf
    <2>8. QED
      BY <2>1, <2>4, <2>5, <2>6, <2>7
  <1>9. t = w
    <2>1. Len(t) = Len(w)
      BY <1>5, <1>6, <1>7
    <2>2. QED
      BY <1>8, <2>1, SameText
  <1>10. (a \o b) \o c = a \o (b \o c)
    BY <1>1, <1>2, <1>3, <1>4, <1>9, Zenon
  <1>11. QED
    BY <1>10, Zenon DEF Regrouped

(* The empty text adds nothing. *)
LEMMA Empty ==
    ASSUME NEW a \in Text
    PROVE  <<>> \in Text /\ Len(<<>>) = 0 /\ <<>> \o a = a /\ a \o <<>> = a
  BY DEF Text

(* Texts of one word and of two. *)
LEMMA Words ==
    ASSUME NEW S
    PROVE  /\ \A a \in S : <<a>> \in Seq(S) /\ Len(<<a>>) = 1 /\ <<a>>[1] = a
           /\ \A a, b \in S : /\ <<a, b>> \in Seq(S) /\ Len(<<a, b>>) = 2
                            /\ <<a, b>>[1] = a /\ <<a, b>>[2] = b
  OBVIOUS

(* What parse_netloc needs of the text of a host. *)
Hosted(host, port) ==
    /\ host \in Text /\ host # <<>> /\ port \in Ports \union {"none"}
    /\ \A i \in DOMAIN host :
          /\ host[i] \notin {"/", "@", "?"}
          /\ host[i] = ":" => ~(i + 1 = Len(host) /\ host[i + 1] \in Ports)
    /\ port = "none" \/ \A i \in DOMAIN host : host[i] # ":"

(* The text of a host and a port: no delimiter but the colons, and the first *)
(* colon separates the port where there is one.                              *)
LEMMA HostWords ==
    ASSUME NEW host, NEW port, Hosted(host, port)
    PROVE  LET t == HostText(host, port)
           IN /\ t \in Text /\ t # <<>> /\ Len(host) \in Nat \ {0} /\ Len(t) >= Len(host)
              /\ \A i \in 1..Len(host) : t[i] = host[i]
              /\ \A i \in 1..Len(t) : t[i] \notin {"/", "@", "?"}
              /\ port = "none" => t = host
              /\ port # "none" =>
                    /\ Len(t) = Len(host) + 2
                    /\ t[Len(host) + 1] = ":" /\ t[Len(host) + 2] = port
                    /\ \A i \in 1..Len(host) : t[i] # ":"
  <1>1. /\ host \in Text /\ Len(host) \in Nat \ {0} /\ DOMAIN host = 1..Len(host)
    BY DEF Hosted, Text
  <1>2. \A i \in 1..Len(host) : host[i] \notin {"/", "@", "?"}
    BY <1>1 DEF Hosted
  <1>3. CASE port = "none"
    BY <1>1, <1>2, <1>3, Empty DEF HostText
  <1>4. CASE port # "none"
    <2>1. port \in STRING /\ port \in Ports
      BY <1>4, RequestAssumption DEF Hosted
    <2>2. PICK c \in Text : c = <<":", port>> /\ Len(c) = 2 /\ c[1] = ":" /\ c[2] = port
      <3>1. \A a, b \in Word : /\ <<a, b>> \in Seq(Word) /\ Len(<<a, b>>) = 2
                             /\ <<a, b>>[1] = a /\ <<a, b>>[2] = b
        BY Words
      <3>2. ":" \in Word /\ port \in Word
        BY <2>1 DEF Word
      <3>3. /\ <<":", port>> \in Seq(Word) /\ Len(<<":", port>>) = 2
            /\ <<":", port>>[1] = ":" /\ <<":", port>>[2] = port
        BY <3>1, <3>2, Zenon
      <3>4. QED
        BY <3>3, Zenon DEF Text
    <2>3. PICK t \in Text : t = host \o c
      BY <1>1, Joined
    <2>4. /\ Len(t) = Len(host) + 2
          /\ \A i \in 1..Len(host) : t[i] = host[i]
          /\ \A i \in 1..2 : t[Len(host) + i] = c[i]
      <3>1. /\ Len(t) = Len(host) + Len(c)
            /\ \A i \in 1..Len(host) : t[i] = host[i]
            /\ \A i \in 1..Len(c) : t[Len(host) + i] = c[i]
        BY <1>1, <2>3, Joined
      <3>2. QED
        BY <2>2, <3>1
    <2>5. t[Len(host) + 1] = ":" /\ t[Len(host) + 2] = port
      BY <2>2, <2>4
    <2>6. \A i \in 1..Len(host) : t[i] # ":"
      BY <1>1, <1>4, <2>4 DEF Hosted
    <2>7. port \notin {"/", "@", "?", ":"}
      BY <2>1, RequestAssumption
    <2>8. \A n \in Nat : \A i \in 1..n + 2 : i \in 1..n \/ i = n + 1 \/ i = n + 2
      OBVIOUS
    <2>9. \A i \in 1..Len(t) : t[i] \notin {"/", "@", "?"}
      BY <1>1, <1>2, <2>4, <2>5, <2>7, <2>8
    <2>10. t # <<>> /\ Len(t) >= Len(host)
      BY <1>1, <2>4, Empty
    <2>11. HostText(host, port) = t
      BY <1>4, <2>2, <2>3 DEF HostText
    <2>12. QED
      BY <1>1, <1>4, <2>4, <2>5, <2>6, <2>9, <2>10, <2>11
  <1>5. QED
    BY <1>3, <1>4

(* One word is a port, or it is none. *)
LEMMA PortIs ==
    ASSUME NEW p \in Ports
    PROVE  ParsePort(<<p>>) = p
  BY DEF ParsePort

(* What is read as a port is one word. *)
LEMMA NotPort ==
    ASSUME NEW t \in Text, ParsePort(t) # "none"
    PROVE  Len(t) = 1 /\ t[1] \in Ports
  BY DEF ParsePort

(* A netloc without a user. *)
IsNetloc(netloc, host, port) ==
    /\ {"username", "password", "host", "port"} \subseteq DOMAIN netloc
    /\ netloc.username = <<>> /\ netloc.password = <<>> /\ netloc.host = host /\ netloc.port = port

(* The first colon of a host separates the port, where there is one. *)
LEMMA HostColon ==
    ASSUME NEW host, NEW port, Hosted(host, port)
    PROVE  LET t     == HostText(host, port)
               colon == Find(t, {":"}, 1)
           IN /\ ParsePort(Behind(t, colon + 1)) = port
              /\ (IF port = "none" THEN Behind(t, 1) ELSE Part(t, 1, colon)) = host
  <1>1. PICK t \in Text : t = HostText(host, port)
    BY HostWords
  <1>2. /\ t # <<>> /\ Len(host) \in Nat \ {0} /\ Len(t) >= Len(host)
        /\ \A i \in 1..Len(host) : t[i] = host[i]
        /\ \A i \in 1..Len(t) : t[i] \notin {"/", "@", "?"}
        /\ port = "none" => t = host
        /\ port # "none" =>
              /\ Len(t) = Len(host) + 2
              /\ t[Len(host) + 1] = ":" /\ t[Len(host) + 2] = port
              /\ \A i \in 1..Len(host) : t[i] # ":"
    BY <1>1, HostWords
  <1>3. Len(t) \in Nat \ {0} /\ host \in Text /\ 1 \in Nat /\ Len(t) + 1 \in 1..Len(t) + 1
    BY <1>2 DEF Text, Hosted
  <1>4. PICK colon \in 1..Len(t) + 1 :
           /\ colon = Find(t, {":"}, 1)
           /\ port # "none" => colon = Len(host) + 1
           /\ colon <= Len(t) => t[colon] = ":"
    <2>1. CASE port = "none"
      <3>1. Find(t, {":"}, 1) \in 1..Len(t) + 1 /\ (Find(t, {":"}, 1) <= Len(t) => t[Find(t, {":"}, 1)] = ":")
        BY <1>3, FindIn
      <3>2. QED
        BY <2>1, <3>1
    <2>2. CASE port # "none"
      <3>1. /\ Len(host) + 1 \in 1..Len(t) + 1
            /\ \A i \in 1..Len(host) + 1 - 1 : t[i] \notin {":"}
            /\ t[Len(host) + 1] \in {":"}
        BY <1>2, <1>3, <2>2
      <3>2. Find(t, {":"}, 1) = Len(host) + 1
        BY <1>3, <3>1, FindIs
      <3>3. QED
        BY <3>1, <3>2
    <2>3. QED
      BY <2>1, <2>2
  <1>5. ParsePort(Behind(t, colon + 1)) = port
    <2>1. CASE port = "none"
      <3>1. SUFFICES ASSUME ParsePort(Behind(t, colon + 1)) # "none" PROVE FALSE
        BY <2>1
      <3>2. CASE colon = Len(t) + 1
        <4>1. Behind(t, colon + 1) = <<>>
          BY <1>3, <3>2 DEF Behind, Text
        <4>2. Len(<<>>) # 1
          OBVIOUS
        <4>3. QED
          BY <3>1, <4>1, <4>2 DEF ParsePort
      <3>3. CASE colon \in 1..Len(t)
        <4>1. colon + 1 \in 1..Len(t) + 1 /\ Len(t) \in colon + 1 - 1..Len(t)
          BY <1>3, <3>3
        <4> DEFINE s == SubSeq(t, colon + 1, Len(t))
        <4>2. /\ s \in Text /\ Len(s) = Len(t) - (colon + 1) + 1
              /\ \A i \in 1..Len(t) - (colon + 1) + 1 : s[i] = t[colon + 1 + i - 1]
          BY <4>1, Slice
        <4>3. Len(s) = 1 /\ s[1] \in Ports
          BY <3>1, <4>2, NotPort DEF Behind
        <4> HIDE DEF s
        <4>4. colon + 1 = Len(t) /\ 1 \in 1..Len(t) - (colon + 1) + 1 /\ colon + 1 + 1 - 1 = colon + 1
          <5>1. Len(t) - (colon + 1) + 1 = 1
            BY <4>2, <4>3
          <5>9. colon \in Nat /\ Len(t) \in Nat
            BY <1>3
          <5>2. \A x, y \in Nat : y - (x + 1) + 1 = 1 => x + 1 = y /\ x + 1 + 1 - 1 = x + 1
            OBVIOUS
          <5>3. QED
            BY <5>9, <5>1, <5>2
        <4>7. s[1] = t[colon + 1]
          BY <4>2, <4>4
        <4>5. host = t /\ DOMAIN host = 1..Len(t) /\ t[colon] = ":"
          BY <1>2, <1>3, <1>4, <2>1, <3>3 DEF Text
        <4>6. QED
          BY <3>3, <4>3, <4>4, <4>5, <4>7 DEF Hosted
      <3>4. QED
        BY <1>3, <1>4, <3>2, <3>3
    <2>2. CASE port # "none"
      <3>1. port \in Ports
        BY <2>2 DEF Hosted
      <3>2. PICK b \in Text : b = <<port>> /\ Len(b) = 1 /\ b[1] = port
        <4>1. port \in Word
          BY <3>1, RequestAssumption DEF Word
        <4>2. QED
          BY <4>1, Words DEF Text
      <3>3. PICK n \in Nat : n = Len(host) + 1
        BY <1>2
      <3>4. n + Len(b) = Len(t) /\ n + Len(b) =< Len(t) /\ \A i \in 1..Len(b) : t[n + i] = b[i]
        BY <1>2, <1>3, <2>2, <3>2, <3>3
      <3>5. SubSeq(t, n + 1, n + Len(b)) = b
        BY <3>4, Piece
      <3>6. Behind(t, colon + 1) = b
        BY <1>4, <2>2, <3>3, <3>4, <3>5 DEF Behind
      <3>7. QED
        BY <3>1, <3>2, <3>6, PortIs
    <2>3. QED
      BY <2>1, <2>2
  <1>6. (IF port = "none" THEN Behind(t, 1) ELSE Part(t, 1, colon)) = host
    <2>1. 0 \in Nat /\ 0 + Len(host) =< Len(t) /\ \A i \in 1..Len(host) : t[0 + i] = host[i]
      BY <1>2, <1>3
    <2>2. SubSeq(t, 0 + 1, 0 + Len(host)) = host
      BY <1>3, <2>1, Piece
    <2>3. 0 + 1 = 1 /\ 0 + Len(host) = Len(host) /\ Len(host) + 1 - 1 = Len(host)
      BY <1>2
    <2>4. QED
      BY <1>2, <1>4, <2>2, <2>3 DEF Behind, Part
  <1>7. QED
    BY <1>1, <1>4, <1>5, <1>6

(* parse_netloc reads the host and the port that were written. *)
LEMMA NetlocParsed ==
    ASSUME NEW host, NEW port, Hosted(host, port)
    PROVE  IsNetloc(ParseNetloc(HostText(host, port)), host, port)
  <1>1. PICK t \in Text : t = HostText(host, port)
    BY HostWords
  <1>2. /\ t # <<>> /\ Len(host) \in Nat \ {0} /\ Len(t) >= Len(host)
        /\ \A i \in 1..Len(host) : t[i] = host[i]
        /\ \A i \in 1..Len(t) : t[i] \notin {"/", "@", "?"}
        /\ port = "none" => t = host
        /\ port # "none" =>
              /\ Len(t) = Len(host) + 2
              /\ t[Len(host) + 1] = ":" /\ t[Len(host) + 2] = port
              /\ \A i \in 1..Len(host) : t[i] # ":"
    BY <1>1, HostWords
  <1>3. Len(t) \in Nat \ {0} /\ host \in Text /\ 1 \in Nat /\ Len(t) + 1 \in 1..Len(t) + 1
    BY <1>2 DEF Text, Hosted
  <1>4. At(t, 1) # "/"
    BY <1>2, <1>3 DEF At, Found
  <1>5. Find(t, {"@"}, 1) = Len(t) + 1
    <2>1. \A i \in 1..Len(t) + 1 - 1 : t[i] \notin {"@"}
      BY <1>2, <1>3
    <2>2. ~(Len(t) + 1 <= Len(t))
      BY <1>3
    <2>3. QED
      BY <1>3, <2>1, <2>2, FindIs
  <1>6. ~Found(t, Len(t) + 1)
    BY <1>3 DEF Found
  <1>7. /\ ParsePort(Behind(t, Find(t, {":"}, 1) + 1)) = port
        /\ (IF port = "none" THEN Behind(t, 1) ELSE Part(t, 1, Find(t, {":"}, 1))) = host
    BY <1>1, HostColon
  <1>8. ParseNetloc(t) = [username |-> <<>>, password |-> <<>>, port |-> port, host |-> host]
    <2> DEFINE start == IF At(t, 1) = "/" /\ At(t, 2) = "/" THEN 3 ELSE 1
               stop    == Find(t, {"@"}, start)
               pass  == Find(t, {":"}, start)
               begin == IF Found(t, stop) THEN stop ELSE start
               found == Find(t, {":"}, begin)
               given == ParsePort(Behind(t, found + 1))
    <2>1. ParseNetloc(t) =
            [username |-> IF Found(t, stop) THEN Part(t, start, stop) ELSE <<>>,
             password |-> IF Found(t, stop) /\ pass < stop THEN Part(t, pass + 1, stop) ELSE <<>>,
             port     |-> given,
             host     |-> IF given = "none" THEN Behind(t, begin) ELSE Part(t, begin, found)]
      BY DEF ParseNetloc
    <2>2. start = 1
      BY <1>4
    <2> HIDE DEF start
    <2>3. ~Found(t, stop)
      BY <1>5, <1>6, <2>2
    <2> HIDE DEF stop
    <2>4. begin = 1
      BY <2>2, <2>3
    <2> HIDE DEF begin
    <2>5. found = Find(t, {":"}, 1)
      BY <2>4
    <2> HIDE DEF found
    <2>6. given = port
      BY <1>7, <2>5
    <2> HIDE DEF given
    <2>7. (IF given = "none" THEN Behind(t, begin) ELSE Part(t, begin, found)) = host
      BY <1>7, <2>4, <2>5, <2>6
    <2>8. QED
      BY <2>1, <2>3, <2>6, <2>7
  <1>9. QED
    BY <1>1, <1>8 DEF IsNetloc

(* A url is read as it was meant. *)
IsUrl(u, form, scheme, host, port, path, search) ==
    /\ {"form", "scheme", "netloc", "path", "search"} \subseteq DOMAIN u
    /\ u.form = form /\ u.scheme = scheme /\ u.path = path /\ u.search = search
    /\ IsNetloc(u.netloc, host, port)

(* A path without a search, and a search with a delimiter of its own. *)
Pathed(path, search) ==
    /\ \A i \in DOMAIN path : path[i] # "?"
    /\ search # <<>> => search[1] = "?"

(* A URL with a path and a search. *)
Having(u, path, search) == [u EXCEPT !.path = path, !.search = search]

(* The path and the search from a place on are what stands there. *)
LEMMA WithPathIs ==
    ASSUME NEW a \in Text, NEW path \in Text, NEW search \in Text, NEW t \in Text,
           Consists(t, a, path, search), Pathed(path, search)
    PROVE  /\ Find(t, {"?"}, Len(a) + 1) = Len(a) + Len(path) + 1
           /\ \A u : WithPath(u, t, Len(a) + 1) = Having(u, path, search)
  <1>1. /\ Len(a) \in Nat /\ Len(path) \in Nat /\ Len(search) \in Nat
        /\ Len(t) = Len(a) + Len(path) + Len(search)
        /\ Part(t, Len(a) + 1, Len(a) + Len(path) + 1) = path
        /\ Behind(t, Len(a) + Len(path) + 1) = search
        /\ \A i \in 1..Len(path) : t[Len(a) + i] = path[i]
        /\ \A i \in 1..Len(search) : t[Len(a) + Len(path) + i] = search[i]
    BY Middle
  <1>2. Find(t, {"?"}, Len(a) + 1) = Len(a) + Len(path) + 1
    <2>1. \A i \in 1..Len(path) : t[Len(a) + i] # "?"
      <3>1. DOMAIN path = 1..Len(path)
        BY DEF Pathed, Text
      <3>2. QED
        BY <1>1, <3>1 DEF Pathed
    <2>2. \A x, y \in Nat : \A i \in x + 1..x + y + 1 - 1 : \E j \in 1..y : i = x + j
      <3>1. \A x, y \in Nat : \A i \in x + 1..x + y + 1 - 1 : i - x \in 1..y /\ i = x + (i - x)
        OBVIOUS
      <3>2. QED
        BY <3>1
    <2>3. \A i \in Len(a) + 1..Len(a) + Len(path) + 1 - 1 : t[i] \notin {"?"}
      <3>1. SUFFICES ASSUME NEW i \in Len(a) + 1..Len(a) + Len(path) + 1 - 1 PROVE t[i] # "?"
        OBVIOUS
      <3>2. PICK j \in 1..Len(path) : i = Len(a) + j
        BY <1>1, <2>2
      <3>3. QED
        BY <2>1, <3>2
    <2>4. Len(a) + Len(path) + 1 <= Len(t) => t[Len(a) + Len(path) + 1] \in {"?"}
      <3>1. Len(a) + Len(path) + 1 <= Len(t) => 1 \in 1..Len(search)
        BY <1>1
      <3>2. 1 \in 1..Len(search) => search # <<>>
        BY Empty
      <3>3. QED
        BY <1>1, <3>1, <3>2 DEF Pathed
    <2>5. Len(a) + 1 \in Nat /\ Len(a) + Len(path) + 1 \in Len(a) + 1..Len(t) + 1
      BY <1>1
    <2>6. PICK from \in Nat : from = Len(a) + 1
      BY <2>5
    <2>7. PICK k \in from..Len(t) + 1 : k = Len(a) + Len(path) + 1
      BY <2>5, <2>6
    <2>8. (\A i \in from..k - 1 : t[i] \notin {"?"}) /\ (k <= Len(t) => t[k] \in {"?"})
      BY <2>3, <2>4, <2>6, <2>7
    <2>9. Find(t, {"?"}, from) = k
      BY <2>8, FindIs
    <2>10. QED
      BY <2>6, <2>7, <2>9
  <1>3. QED
    BY <1>1, <1>2 DEF WithPath, Having

(* The origin form: the path and the search. *)
LEMMA OriginParsed ==
    ASSUME NEW path \in Text, NEW search \in Text, Pathed(path, search), path # <<>>, path[1] = "/",
           NEW connect \in BOOLEAN
    PROVE  IsUrl(ParseTarget(path \o search, connect), "origin", <<>>, <<>>, "none", path, search)
  <1>1. PICK t \in Text : t = path \o search
    BY Joined
  <1>2. t = (<<>> \o path) \o search /\ <<>> \in Text /\ Len(<<>>) + 1 = 1
    BY <1>1, Empty
  <1>3. \A u : WithPath(u, t, 1) = Having(u, path, search)
    <2>1. PICK a \in Text : a = <<>>
      BY <1>2
    <2>2. Consists(t, a, path, search) /\ Len(a) + 1 = 1
      BY <1>2, <2>1 DEF Consists
    <2>3. \A u : WithPath(u, t, Len(a) + 1) = Having(u, path, search)
      BY <2>2, WithPathIs
    <2>4. QED
      BY <2>2, <2>3
  <1>4. t[1] = "/"
    <2>1. 1 \in 1..Len(path)
      BY DEF Text
    <2>2. QED
      BY <1>1, <2>1, Joined
  <1>5. t # <<"*">>
    BY <1>4
  <1>6. ParseTarget(t, connect) = WithPath(EmptyUrl("origin"), t, 1)
    BY <1>4, <1>5 DEF ParseTarget
  <1>7. ParseTarget(t, connect) = Having(EmptyUrl("origin"), path, search)
    BY <1>3, <1>6
  <1>8. QED
    BY <1>1, <1>7 DEF IsUrl, IsNetloc, EmptyUrl, NoNetloc, Having

(* The authority form: the host and the port, or no port where none is given. *)
LEMMA AuthorityParsed ==
    ASSUME NEW host, NEW port, Hosted(host, port), host # <<"*">>
    PROVE  LET u == ParseTarget(HostText(host, port), TRUE)
           IN /\ u.form = "authority" /\ u.netloc.port = port
              /\ port # "none" => IsUrl(u, "authority", <<>>, host, port, <<>>, <<>>)
  <1>1. PICK t \in Text : t = HostText(host, port)
    BY HostWords
  <1>2. /\ t # <<>> /\ Len(host) \in Nat \ {0} /\ Len(t) >= Len(host)
        /\ \A i \in 1..Len(t) : t[i] \notin {"/", "@", "?"}
        /\ port = "none" => t = host
        /\ port # "none" => Len(t) = Len(host) + 2
    BY <1>1, HostWords
  <1>3. Len(t) \in Nat \ {0}
    BY <1>2 DEF Text
  <1>4. t # <<"*">>
    <2>1. Len(<<"*">>) = 1
      OBVIOUS
    <2>2. port # "none" => Len(t) # 1
      BY <1>2
    <2>3. QED
      BY <1>2, <2>1, <2>2
  <1>5. t[1] # "/"
    BY <1>2, <1>3
  <1>6. ParseTarget(t, TRUE) = ParseAuthority(t)
    BY <1>4, <1>5 DEF ParseTarget
  <1>7. /\ ParsePort(Behind(t, Find(t, {":"}, 1) + 1)) = port
        /\ port # "none" => Part(t, 1, Find(t, {":"}, 1)) = host
    BY <1>1, HostColon
  <1>8. ParseAuthority(t) = [EmptyUrl("authority") EXCEPT
                                !.netloc = [[NoNetloc EXCEPT !.host = Part(t, 1, Find(t, {":"}, 1))] EXCEPT
                                              !.port = port]]
    BY <1>7 DEF ParseAuthority, EmptyUrl, NoNetloc
  <1>9. /\ ParseAuthority(t).form = "authority"
        /\ ParseAuthority(t).netloc = [[NoNetloc EXCEPT !.host = Part(t, 1, Find(t, {":"}, 1))] EXCEPT
                                              !.port = port]
        /\ ParseAuthority(t).path = <<>> /\ ParseAuthority(t).search = <<>> /\ ParseAuthority(t).scheme = <<>>
        /\ {"form", "scheme", "netloc", "path", "search"} \subseteq DOMAIN ParseAuthority(t)
    BY <1>8 DEF EmptyUrl
  <1>11. /\ ParseAuthority(t).netloc.port = port
        /\ ParseAuthority(t).netloc.host = Part(t, 1, Find(t, {":"}, 1))
        /\ ParseAuthority(t).netloc.username = <<>> /\ ParseAuthority(t).netloc.password = <<>>
        /\ {"username", "password", "host", "port"} \subseteq DOMAIN ParseAuthority(t).netloc
    BY <1>9 DEF NoNetloc
  <1>10. QED
    BY <1>1, <1>6, <1>7, <1>9, <1>11 DEF IsUrl, IsNetloc

(* What stands before the host. *)
Scheme(scheme) == <<scheme, ":", "/", "/">>

(* Its words. *)
LEMMA SchemeWords ==
    ASSUME NEW scheme \in STRING
    PROVE  /\ Scheme(scheme) \in Text /\ Len(Scheme(scheme)) = 4
           /\ Scheme(scheme)[1] = scheme /\ Scheme(scheme)[2] = ":"
           /\ Scheme(scheme)[3] = "/" /\ Scheme(scheme)[4] = "/"
  <1>1. ":" \in Word /\ "/" \in Word /\ scheme \in Word
    BY DEF Word
  <1>2. \A S : \A a, b, c \in S :
           /\ <<a, b, c, c>> \in Seq(S) /\ Len(<<a, b, c, c>>) = 4
           /\ <<a, b, c, c>>[1] = a /\ <<a, b, c, c>>[2] = b
           /\ <<a, b, c, c>>[3] = c /\ <<a, b, c, c>>[4] = c
    OBVIOUS
  <1>3. QED
    BY <1>1, <1>2 DEF Scheme, Text

(* The absolute form: a scheme, a netloc, a path and a search. *)
LEMMA AbsoluteParsed ==
    ASSUME NEW scheme \in STRING \ {":", "/"},
           NEW host, NEW port, Hosted(host, port),
           NEW path \in Text, NEW search \in Text, Pathed(path, search), path # <<>>, path[1] = "/"
    PROVE  IsUrl(ParseTarget(((Scheme(scheme) \o HostText(host, port)) \o path) \o search, FALSE),
                 "absolute", <<scheme>>, host, port, path, search)
  <1>1. PICK p \in Text : p = Scheme(scheme)
    BY SchemeWords
  <1>2. Len(p) = 4 /\ p[1] = scheme /\ p[2] = ":" /\ p[3] = "/" /\ p[4] = "/"
    BY <1>1, SchemeWords
  <1>3. PICK h \in Text : h = HostText(host, port)
    BY HostWords
  <1>4. Len(h) \in Nat /\ h # <<>> /\ \A i \in 1..Len(h) : h[i] \notin {"/", "@", "?"}
    BY <1>3, HostWords DEF Text
  <1>5. PICK a \in Text : a = p \o h
    BY Joined
  <1>6. Len(a) = Len(h) + 4
    <2>1. Len(a) = Len(p) + Len(h)
      BY <1>5, Joined
    <2>2. QED
      BY <1>2, <1>4, <2>1
  <1>7. PICK t \in Text : Consists(t, a, path, search)
    <2>1. PICK b \in Text : b = a \o path
      BY Joined
    <2>2. PICK t \in Text : t = b \o search
      BY Joined
    <2>3. QED
      BY <2>1, <2>2 DEF Consists
  <1>8. t = ((Scheme(scheme) \o HostText(host, port)) \o path) \o search
    BY <1>1, <1>3, <1>5, <1>7 DEF Consists
  <1>9. PICK r \in Text : r = path \o search
    BY Joined
  <1>10. Consists(t, p, h, r)
    <2>1. (a \o path) \o search = a \o (path \o search)
      <3>1. Regrouped(a, path, search)
        BY Associative
      <3>2. QED
        BY <3>1, Zenon DEF Regrouped
    <2>2. QED
      BY <1>5, <1>7, <1>9, <2>1 DEF Consists
  <1>11. /\ \A i \in 1..4 : t[i] = p[i]
         /\ \A i \in 1..Len(h) : t[4 + i] = h[i]
         /\ Part(t, 4 + 1, 4 + Len(h) + 1) = h
    <2>1. /\ \A i \in 1..Len(p) : t[i] = p[i]
          /\ \A i \in 1..Len(h) : t[Len(p) + i] = h[i]
          /\ Part(t, Len(p) + 1, Len(p) + Len(h) + 1) = h
      BY <1>10, Middle
    <2>2. QED
      BY <1>2, <2>1
  <1>12. t[1] = scheme /\ t[2] = ":" /\ t[3] = "/" /\ t[4] = "/"
    BY <1>2, <1>11
  <1>13. Len(path) \in Nat \ {0} /\ Len(search) \in Nat
    BY DEF Text
  <1>14. Len(t) = Len(h) + 4 + Len(path) + Len(search) /\ t[Len(h) + 5] = "/"
    <2>1. Len(t) = Len(a) + Len(path) + Len(search) /\ \A i \in 1..Len(path) : t[Len(a) + i] = path[i]
      BY <1>7, Middle
    <2>2. t[Len(a) + 1] = path[1]
      BY <1>13, <2>1
    <2>3. Len(a) + 1 = Len(h) + 5
      BY <1>4, <1>6
    <2>4. QED
      BY <1>6, <2>1, <2>2, <2>3
  <1>15. ParseTarget(t, FALSE) = ParseAbsolute(t)
    <2>1. t # <<"*">>
      <3>1. Len(<<"*">>) = 1
        OBVIOUS
      <3>2. Len(t) # 1
        BY <1>4, <1>13, <1>14
      <3>3. QED
        BY <3>1, <3>2
    <2>2. t[1] # "/"
      BY <1>12
    <2>3. QED
      BY <2>1, <2>2 DEF ParseTarget
  <1>16. Find(t, {":"}, 1) = 2
    <2>1. 1 \in Nat /\ 2 \in 1..Len(t) + 1 /\ \A i \in 1..2 - 1 : i = 1
      BY <1>4, <1>13, <1>14
    <2>2. (\A i \in 1..2 - 1 : t[i] \notin {":"}) /\ (2 <= Len(t) => t[2] \in {":"})
      BY <1>12, <2>1
    <2>3. QED
      BY <2>1, <2>2, FindIs
  <1>17. Find(t, {"/"}, 5) = Len(h) + 5
    <2>1. PICK k \in 5..Len(t) + 1 : k = Len(h) + 5
      BY <1>4, <1>13, <1>14
    <2>2. \A i \in 5..k - 1 : t[i] \notin {"/"}
      <3>1. SUFFICES ASSUME NEW i \in 5..k - 1 PROVE t[i] # "/"
        OBVIOUS
      <3>2. i - 4 \in 1..Len(h) /\ 4 + (i - 4) = i
        BY <1>4, <2>1
      <3>3. t[4 + (i - 4)] = h[i - 4] /\ h[i - 4] # "/"
        BY <1>4, <1>11, <3>2
      <3>4. QED
        BY <3>2, <3>3
    <2>3. t[k] \in {"/"}
      BY <1>14, <2>1
    <2>4. QED
      BY <2>1, <2>2, <2>3, FindIs
  <1>18. Find(t, {"?"}, 5) > Len(h) + 5
    <2>1. 5 =< Len(t) + 1 /\ 5 \in Nat
      BY <1>4, <1>13, <1>14
    <2>2. PICK d \in 5..Len(t) + 1 : d = Find(t, {"?"}, 5) /\ (d <= Len(t) => t[d] \in {"?"})
      BY <2>1, FindIn
    <2>3. CASE d > Len(h) + 5
      BY <2>2, <2>3
    <2>4. CASE d = Len(h) + 5
      BY <1>4, <1>13, <1>14, <2>2, <2>4
    <2>5. CASE d < Len(h) + 5
      <3>1. d - 4 \in 1..Len(h) /\ 4 + (d - 4) = d /\ d <= Len(t)
        BY <1>4, <1>13, <1>14, <2>5
      <3>2. t[4 + (d - 4)] = h[d - 4] /\ h[d - 4] # "?"
        BY <1>4, <1>11, <3>1
      <3>3. QED
        BY <2>2, <3>1, <3>2
    <2>6. QED
      BY <1>4, <2>2, <2>3, <2>4, <2>5
  <1>19. IsNetloc(ParseNetloc(h), host, port)
    BY <1>3, NetlocParsed
  <1>20. \A u : WithNetloc(u, t, 5) = Having([u EXCEPT !.netloc = ParseNetloc(h)], path, search)
    <2>1. Len(h) + 5 \in Nat /\ Find(t, {"?"}, 5) \in Nat
      <3>1. 5 =< Len(t) + 1 /\ 5 \in Nat /\ Len(t) \in Nat
        BY <1>4, <1>13, <1>14
      <3>2. Find(t, {"?"}, 5) \in 5..Len(t) + 1
        BY <3>1, FindIn
      <3>3. QED
        BY <1>4, <3>1, <3>2
    <2>2. PICK d \in Nat : d = Find(t, {"?"}, 5)
      BY <2>1
    <2>3. PICK s \in Nat : s = Len(h) + 5
      BY <2>1
    <2>4. d > s /\ s = Find(t, {"/"}, 5)
      BY <1>17, <1>18, <2>2, <2>3
    <2>5. Min({d, s}) = s
      BY <2>4 DEF Min
    <2>6. Part(t, 5, s) = h
      <3>1. 4 + 1 = 5 /\ 4 + Len(h) + 1 = Len(h) + 5
        BY <1>4
      <3>2. QED
        BY <1>11, <2>3, <3>1
    <2>7. Found(t, s)
      BY <1>4, <1>13, <1>14, <2>3 DEF Found
    <2>8. \A v : WithPath(v, t, s) = Having(v, path, search)
      <3>1. s = Len(a) + 1
        BY <1>4, <1>6, <2>3
      <3>2. QED
        BY <1>7, <3>1, WithPathIs
    <2>9. ~(d < s)
      BY <2>4
    <2>10. ASSUME NEW u
           PROVE  WithNetloc(u, t, 5) = WithPath([u EXCEPT !.netloc = ParseNetloc(h)], t, s)
      BY <2>2, <2>4, <2>5, <2>6, <2>7, <2>9 DEF WithNetloc
    <2>11. QED
      BY <2>8, <2>10
  <1>21. PICK u : u = [EmptyUrl("absolute") EXCEPT !.scheme = <<scheme>>]
    OBVIOUS
  <1>22. ParseAbsolute(t) = WithNetloc(u, t, 5)
    <2>1. Found(t, 2) /\ At(t, 3) = "/" /\ At(t, 4) = "/"
      BY <1>4, <1>12, <1>13, <1>14 DEF Found, At
    <2>2. Part(t, 1, 2) = <<scheme>>
      <3>1. PICK b \in Text : b = <<scheme>> /\ Len(b) = 1 /\ b[1] = scheme
        <4>1. scheme \in Word
          BY DEF Word
        <4>2. QED
          BY <4>1, Words DEF Text
      <3>2. 0 \in Nat /\ 0 + Len(b) =< Len(t) /\ \A i \in 1..Len(b) : t[0 + i] = b[i]
        BY <1>4, <1>12, <1>13, <1>14, <3>1
      <3>3. SubSeq(t, 0 + 1, 0 + Len(b)) = b
        BY <3>2, Piece
      <3>4. QED
        BY <3>1, <3>3 DEF Part
    <2>3. 2 + 1 = 3 /\ 2 + 2 = 4 /\ 2 + 3 = 5
      OBVIOUS
    <2>4. QED
      BY <1>16, <1>21, <2>1, <2>2, <2>3 DEF ParseAbsolute
  <1>23. ParseTarget(t, FALSE) = Having([u EXCEPT !.netloc = ParseNetloc(h)], path, search)
    BY <1>15, <1>20, <1>22
  <1>24. IsUrl(ParseTarget(t, FALSE), "absolute", <<scheme>>, host, port, path, search)
    BY <1>19, <1>21, <1>23 DEF IsUrl, EmptyUrl, Having
  <1>25. QED
    BY <1>8, <1>24

(* What a request says, as lemmas about texts use it. *)
LEMMA RequestParts ==
    ASSUME NEW m \in Requests
    PROVE  /\ m.form \in {"origin", "absolute", "authority", "asterisk", "rootless"}
           /\ m.path \in Text /\ m.search \in Text /\ m.host \in Text
           /\ m.scheme \in STRING \ {":", "/"} /\ m.port \in Ports \union {"none"}
           /\ m.form \in {"origin", "absolute", "authority"} => m.host \notin {<<>>, <<"*">>}
           /\ m.form \in {"origin", "absolute", "authority"} /\ PlainTarget(m) => Hosted(m.host, m.port)
           /\ m.form \in {"origin", "absolute"} => Pathed(m.path, m.search)
           /\ m.form \in {"origin", "absolute"} /\ PlainTarget(m) => m.path # <<>> /\ m.path[1] = "/"
  <1>1. /\ m.path \in Text /\ m.search \in Text /\ m.host \in Text
    BY RequestAssumption, TextOfStrings
  <1>2. m.form \in {"origin", "absolute", "authority"} => m.host \notin {<<>>, <<"*">>}
    BY RequestAssumption
  <1>3. m.form \in {"origin", "absolute", "authority"} /\ PlainTarget(m) => Hosted(m.host, m.port)
    <2>1. SUFFICES ASSUME m.form \in {"origin", "absolute", "authority"}, PlainTarget(m)
                   PROVE  Hosted(m.host, m.port)
      OBVIOUS
    <2>2. \A i \in DOMAIN m.host :
            /\ m.host[i] \notin {"/", "@", "?"}
            /\ m.host[i] = ":" => ~(i + 1 = Len(m.host) /\ m.host[i + 1] \in Ports)
      BY <2>1, RequestAssumption
    <2>3. m.port \in Ports \union {"none"}
      BY RequestAssumption
    <2>4. m.port = "none" \/ \A i \in DOMAIN m.host : m.host[i] # ":"
      BY <2>1 DEF PlainTarget
    <2>5. QED
      BY <1>1, <1>2, <2>1, <2>2, <2>3, <2>4 DEF Hosted
  <1>4. m.form \in {"origin", "absolute"} => Pathed(m.path, m.search)
    BY RequestAssumption DEF Pathed
  <1>5. m.form \in {"origin", "absolute"} /\ PlainTarget(m) => m.path # <<>> /\ m.path[1] = "/"
    BY RequestAssumption DEF PlainTarget
  <1>6. /\ m.form \in {"origin", "absolute", "authority", "asterisk", "rootless"}
        /\ m.scheme \in STRING \ {":", "/"} /\ m.port \in Ports \union {"none"}
    BY RequestAssumption
  <1>7. QED
    BY <1>1, <1>2, <1>3, <1>4, <1>5, <1>6

(* The url that parse_target is to make of a request. *)
Read(u, m) ==
    /\ m.form = "asterisk" => u.form = "asterisk"
    /\ m.form = "origin" => IsUrl(u, "origin", <<>>, <<>>, "none", m.path, m.search)
    /\ m.form = "authority" => m.port # "none" /\ IsUrl(u, "authority", <<>>, m.host, m.port, <<>>, <<>>)
    /\ m.form = "absolute" => IsUrl(u, "absolute", <<m.scheme>>, m.host, m.port, m.path, m.search)

(* http_parser::read_request_line reads every target that is written       *)
(* plainly as what it means, and refuses an authority only without a port. *)
LEMMA ReadAsMeant ==
    ASSUME NEW m \in Requests, PlainTarget(m)
    PROVE  LET u == ParseTarget(TargetText(m), m.form = "authority")
           IN IF u.form = "authority" /\ u.netloc.port = "none"
              THEN m.form = "authority" /\ m.port = "none" ELSE Read(u, m)
  <1> DEFINE u == ParseTarget(TargetText(m), m.form = "authority")
  <1>1. CASE m.form = "asterisk"
    <2>1. TargetText(m) = <<"*">>
      BY <1>1 DEF TargetText
    <2>2. u = EmptyUrl("asterisk")
      BY <2>1 DEF ParseTarget
    <2> HIDE DEF u
    <2>3. u.form = "asterisk"
      BY <2>2 DEF EmptyUrl
    <2>4. QED
      BY <1>1, <2>3 DEF Read, u
  <1>2. CASE m.form = "origin"
    <2>1. TargetText(m) = m.path \o m.search
      BY <1>2 DEF TargetText
    <2>2. m.path \in Text /\ m.search \in Text /\ Pathed(m.path, m.search) /\ m.path # <<>> /\ m.path[1] = "/"
      BY <1>2, RequestParts
    <2>3. IsUrl(ParseTarget(m.path \o m.search, FALSE), "origin", <<>>, <<>>, "none", m.path, m.search)
      BY <2>2, OriginParsed
    <2>4. IsUrl(u, "origin", <<>>, <<>>, "none", m.path, m.search)
      BY <1>2, <2>1, <2>3
    <2> HIDE DEF u
    <2>5. u.form = "origin"
      BY <2>4 DEF IsUrl
    <2>6. QED
      BY <1>2, <2>4, <2>5 DEF Read, u
  <1>3. CASE m.form = "authority"
    <2>1. TargetText(m) = HostText(m.host, m.port)
      BY <1>3 DEF TargetText
    <2>2. Hosted(m.host, m.port) /\ m.host # <<"*">>
      BY <1>3, RequestParts
    <2>3. /\ u.form = "authority" /\ u.netloc.port = m.port
          /\ m.port # "none" => IsUrl(u, "authority", <<>>, m.host, m.port, <<>>, <<>>)
      <3>1. u = ParseTarget(HostText(m.host, m.port), TRUE)
        BY <1>3, <2>1
      <3> HIDE DEF u
      <3>2. QED
        BY <2>2, <3>1, AuthorityParsed
    <2> HIDE DEF u
    <2>4. QED
      BY <1>3, <2>3 DEF Read, u
  <1>4. CASE m.form = "absolute"
    <2>1. TargetText(m) = (((Scheme(m.scheme) \o <<>>) \o HostText(m.host, m.port)) \o m.path) \o m.search
      BY <1>4 DEF TargetText, AbsoluteText, UserText, Scheme, PlainTarget
    <2>2. Scheme(m.scheme) \o <<>> = Scheme(m.scheme)
      <3>1. Scheme(m.scheme) \in Text
        BY RequestParts, SchemeWords
      <3>2. QED
        BY <3>1, Empty
    <2>3. /\ m.scheme \in STRING \ {":", "/"} /\ Hosted(m.host, m.port)
          /\ m.path \in Text /\ m.search \in Text /\ Pathed(m.path, m.search) /\ m.path # <<>> /\ m.path[1] = "/"
      BY <1>4, RequestParts
    <2>4. IsUrl(ParseTarget(((Scheme(m.scheme) \o HostText(m.host, m.port)) \o m.path) \o m.search, FALSE),
                 "absolute", <<m.scheme>>, m.host, m.port, m.path, m.search)
      BY <2>3, AbsoluteParsed
    <2>5. IsUrl(u, "absolute", <<m.scheme>>, m.host, m.port, m.path, m.search)
      BY <1>4, <2>1, <2>2, <2>4
    <2> HIDE DEF u
    <2>6. u.form = "absolute"
      BY <2>5 DEF IsUrl
    <2>7. QED
      BY <1>4, <2>5, <2>6 DEF Read, u
  <1>5. m.form # "rootless"
    BY DEF PlainTarget
  <1>6. QED
    BY <1>1, <1>2, <1>3, <1>4, <1>5, RequestParts

(* The text of a host and a port is a text, and it is not empty. *)
LEMMA HostTexts ==
    ASSUME NEW host \in Text, host # <<>>, NEW port \in Ports \union {"none"}
    PROVE  HostText(host, port) \in Text /\ HostText(host, port) # <<>>
  <1>1. CASE port = "none"
    <2>1. HostText(host, port) = host
      BY <1>1, Empty DEF HostText
    <2>2. QED
      BY <2>1
  <1>2. CASE port # "none"
    <2>1. PICK c \in Text : c = <<":", port>>
      <3>1. ":" \in Word /\ port \in Word
        BY <1>2, RequestAssumption DEF Word
      <3>2. QED
        BY <3>1, Words DEF Text
    <2>2. HostText(host, port) = host \o c
      BY <1>2, <2>1 DEF HostText
    <2>3. host \o c \in Text /\ Len(host \o c) = Len(host) + Len(c) /\ Len(host) \in Nat \ {0} /\ Len(c) \in Nat
      <3>1. Len(host) # 0
        BY DEF Text
      <3>2. QED
        BY <3>1, Joined
    <2>4. Len(host \o c) # 0
      BY <2>3
    <2>5. host \o c # <<>>
      BY <2>4, Empty
    <2>6. QED
      BY <2>2, <2>3, <2>5
  <1>3. QED
    BY <1>1, <1>2

(* What the host and the port are written as. *)
LEMMA NetlocWritten ==
    ASSUME NEW host \in Text, host # <<>>, NEW port \in Ports \union {"none"},
           NEW netloc, IsNetloc(netloc, host, port)
    PROVE  NetlocString(netloc) = HostText(host, port)
  <1>1. NetlocString(netloc) = <<>> \o HostText(host, port)
    BY DEF NetlocString, IsNetloc
  <1>2. QED
    BY <1>1, HostTexts, Empty

(* A url with a scheme is written in full. *)
LEMMA AbsoluteWritten ==
    ASSUME NEW m \in Requests, m.form = "absolute", PlainTarget(m), NEW port \in Ports \union {"none"},
           NEW u, IsUrl(u, "origin", <<m.scheme>>, m.host, port, m.path, m.search)
    PROVE  AbsoluteString(u) = AbsoluteText(m, port)
  <1>1. m.scheme \in STRING /\ m.host \in Text /\ m.host # <<>>
    BY RequestParts
  <1>2. NetlocString(u.netloc) = HostText(m.host, port)
    BY <1>1, NetlocWritten DEF IsUrl
  <1>3. HostText(m.host, port) # <<>>
    BY <1>1, HostTexts
  <1>4. <<m.scheme>> \o <<":", "/", "/">> = Scheme(m.scheme)
    <2>1. m.scheme \in Word /\ ":" \in Word /\ "/" \in Word
      BY <1>1 DEF Word
    <2>2. PICK a \in Text : a = <<m.scheme>> /\ Len(a) = 1 /\ a[1] = m.scheme
      <3>1. PICK s \in Word : s = m.scheme
        BY <2>1
      <3>2. <<s>> \in Text /\ Len(<<s>>) = 1 /\ <<s>>[1] = s
        BY Words DEF Text
      <3>3. QED
        BY <3>1, <3>2
    <2>3. PICK b \in Text : b = <<":", "/", "/">> /\ Len(b) = 3 /\ b[1] = ":" /\ b[2] = "/" /\ b[3] = "/"
      <3>1. \A S : \A x, y \in S : /\ <<x, y, y>> \in Seq(S) /\ Len(<<x, y, y>>) = 3
                                 /\ <<x, y, y>>[1] = x /\ <<x, y, y>>[2] = y /\ <<x, y, y>>[3] = y
        OBVIOUS
      <3>2. PICK x \in Word, y \in Word : x = ":" /\ y = "/"
        BY <2>1
      <3>3. /\ <<x, y, y>> \in Text /\ Len(<<x, y, y>>) = 3
            /\ <<x, y, y>>[1] = x /\ <<x, y, y>>[2] = y /\ <<x, y, y>>[3] = y
        BY <3>1 DEF Text
      <3>4. QED
        BY <3>2, <3>3
    <2>4. PICK c \in Text : c = a \o b
      BY Joined
    <2>5. /\ Len(c) = Len(a) + Len(b)
          /\ \A i \in 1..Len(a) : c[i] = a[i]
          /\ \A i \in 1..Len(b) : c[Len(a) + i] = b[i]
      BY <2>4, Joined
    <2>6. Len(c) = 4 /\ c[1] = a[1] /\ c[1 + 1] = b[1] /\ c[1 + 2] = b[2] /\ c[1 + 3] = b[3]
      BY <2>2, <2>3, <2>5
    <2>7. PICK d \in Text : /\ d = Scheme(m.scheme) /\ Len(d) = 4 /\ d[1] = m.scheme
                           /\ d[2] = ":" /\ d[3] = "/" /\ d[4] = "/"
      BY <1>1, SchemeWords
    <2>8. \A i \in 1..4 : i = 1 \/ i = 1 + 1 \/ i = 1 + 2 \/ i = 1 + 3
      OBVIOUS
    <2>9. \A i \in 1..Len(c) : c[i] = d[i]
      BY <2>2, <2>3, <2>6, <2>7, <2>8
    <2>10. c = d
      BY <2>6, <2>7, <2>9, SameText
    <2>11. QED
      BY <2>2, <2>3, <2>4, <2>7, <2>10
  <1>5. Scheme(m.scheme) \o <<>> = Scheme(m.scheme)
    BY <1>1, SchemeWords, Empty
  <1>6. AbsoluteString(u) = ((Scheme(m.scheme) \o HostText(m.host, port)) \o m.path) \o m.search
    <2>1. u.scheme = <<m.scheme>> /\ u.path = m.path /\ u.search = m.search
      BY DEF IsUrl
    <2>2. u.scheme # <<>>
      BY <2>1
    <2>3. AbsoluteString(u) = (((u.scheme \o <<":", "/", "/">>) \o NetlocString(u.netloc)) \o u.path) \o u.search
      BY <1>2, <1>3, <2>2 DEF AbsoluteString
    <2>4. QED
      BY <1>2, <1>4, <2>1, <2>3
  <1>7. AbsoluteText(m, port) = (((Scheme(m.scheme) \o <<>>) \o HostText(m.host, port)) \o m.path) \o m.search
    BY DEF AbsoluteText, UserText, Scheme, PlainTarget
  <1>8. QED
    BY <1>5, <1>6, <1>7

(* A url of the authority form is written as its netloc. *)
LEMMA AuthorityWritten ==
    ASSUME NEW host \in Text, host # <<>>, NEW port \in Ports \union {"none"},
           NEW u, IsUrl(u, "authority", <<>>, host, port, <<>>, <<>>)
    PROVE  Printed(u) = HostText(host, port)
  <1>1. NetlocString(u.netloc) = HostText(host, port)
    BY NetlocWritten DEF IsUrl
  <1>2. AbsoluteString(u) = ((<<>> \o HostText(host, port)) \o <<>>) \o <<>>
    BY <1>1 DEF AbsoluteString, IsUrl
  <1>3. AbsoluteString(u) = HostText(host, port)
    BY <1>2, HostTexts, Empty
  <1>4. QED
    BY <1>3 DEF Printed, IsUrl

(* The url that validate_target is to make of it. *)
Reached(u, m, port) ==
    /\ m.form = "origin" => /\ u.form = "origin" /\ u.path = m.path /\ u.search = m.search
                            /\ IsNetloc(u.netloc, m.host, port)
    /\ m.form = "authority" => port = m.port /\ IsUrl(u, "authority", <<>>, m.host, port, <<>>, <<>>)
    /\ m.form = "absolute" => IsUrl(u, "origin", <<m.scheme>>, m.host, port, m.path, m.search)

(* A target that is not refused reaches what is meant. *)
Forwarded ==
    PlainTarget(asked) =>
    /\ handling = "parsed" => Read(target, asked)
    /\ handling = "refused" => \/ asked.form = "origin" /\ host_header = <<>>
                               \/ asked.form = "authority" /\ asked.port = "none"
    /\ handling = "valid" /\ asked.form # "asterisk" =>
          /\ Reached(target, asked, Effectively(asked))
          /\ asked.form # "authority" => host_header = HostText(asked.host, asked.port)

(* The inductive invariant of a target: it has been read as meant, and is  *)
(* then validated.                                                         *)
TargetInv ==
    /\ asked \in Requests /\ secured \in BOOLEAN
    /\ handling \in {"received", "parsed", "valid", "refused"}
    /\ handling \in {"received", "parsed"} => host_header \in {<<>>, HostText(asked.host, asked.port)}
    /\ Forwarded

(* Every request means some port. *)
LEMMA PortReached ==
    ASSUME NEW m \in Requests, secured \in BOOLEAN
    PROVE  Effectively(m) \in Ports
  BY RequestAssumption DEF Effectively

(* What the invariant says of a request is what the property asks for. *)
LEMMA ReachedIsUnderstood ==
    ASSUME TargetInv
    PROVE  TargetUnderstood
  <1>1. SUFFICES ASSUME PlainTarget(asked) PROVE
           /\ handling = "refused" => \/ asked.form = "origin" /\ host_header = <<>>
                                      \/ asked.form = "authority" /\ asked.port = "none"
           /\ handling = "valid" /\ asked.form # "asterisk" =>
                 /\ target.netloc.host = asked.host /\ target.netloc.port = Effectively(asked)
                 /\ asked.form = "authority" => Printed(target) = HostText(asked.host, asked.port)
                 /\ asked.form # "authority" =>
                       /\ Printed(target) = asked.path \o asked.search
                       /\ host_header = HostText(asked.host, asked.port)
                 /\ asked.form = "absolute" =>
                       AbsoluteString(target) = AbsoluteText(asked, Effectively(asked))
    BY DEF TargetUnderstood
  <1>2. handling = "refused" => \/ asked.form = "origin" /\ host_header = <<>>
                                \/ asked.form = "authority" /\ asked.port = "none"
    BY <1>1 DEF TargetInv, Forwarded
  <1>3. SUFFICES ASSUME handling = "valid", asked.form # "asterisk" PROVE
           /\ target.netloc.host = asked.host /\ target.netloc.port = Effectively(asked)
           /\ asked.form = "authority" => Printed(target) = HostText(asked.host, asked.port)
           /\ asked.form # "authority" =>
                 /\ Printed(target) = asked.path \o asked.search
                 /\ host_header = HostText(asked.host, asked.port)
           /\ asked.form = "absolute" =>
                 AbsoluteString(target) = AbsoluteText(asked, Effectively(asked))
    BY <1>2
  <1>4. /\ Reached(target, asked, Effectively(asked))
        /\ asked.form # "authority" => host_header = HostText(asked.host, asked.port)
    BY <1>1, <1>3 DEF TargetInv, Forwarded
  <1>5. PICK port \in Ports : port = Effectively(asked)
    BY PortReached DEF TargetInv
  <1>6. asked \in Requests /\ asked.form \in {"origin", "absolute", "authority"}
    BY <1>1, <1>3, RequestParts DEF TargetInv, PlainTarget
  <1>7. CASE asked.form = "origin"
    <2>1. target.form = "origin" /\ target.path = asked.path /\ target.search = asked.search
          /\ target.netloc.host = asked.host /\ target.netloc.port = port
      BY <1>4, <1>5, <1>7 DEF Reached, IsNetloc
    <2>2. Printed(target) = asked.path \o asked.search
      BY <2>1 DEF Printed
    <2>3. QED
      BY <1>4, <1>5, <1>7, <2>1, <2>2
  <1>8. CASE asked.form = "authority"
    <2>1. IsUrl(target, "authority", <<>>, asked.host, port, <<>>, <<>>)
      BY <1>4, <1>5, <1>8 DEF Reached
    <2>2. asked.host \in Text /\ asked.host # <<>> /\ port \in Ports \union {"none"}
      BY <1>6, <1>8, RequestParts
    <2>3. Printed(target) = HostText(asked.host, port)
      BY <2>1, <2>2, AuthorityWritten
    <2>4. asked.port = port
      BY <1>4, <1>5, <1>8 DEF Reached
    <2>5. QED
      BY <1>5, <1>8, <2>1, <2>3, <2>4 DEF IsUrl, IsNetloc
  <1>9. CASE asked.form = "absolute"
    <2>1. IsUrl(target, "origin", <<asked.scheme>>, asked.host, port, asked.path, asked.search)
      BY <1>4, <1>5, <1>9 DEF Reached
    <2>2. target.form = "origin" /\ target.path = asked.path /\ target.search = asked.search
          /\ target.netloc.host = asked.host /\ target.netloc.port = port
      BY <2>1 DEF IsUrl, IsNetloc
    <2>3. Printed(target) = asked.path \o asked.search
      BY <2>2 DEF Printed
    <2>4. AbsoluteString(target) = AbsoluteText(asked, port)
      BY <1>1, <1>6, <1>9, <2>1, AbsoluteWritten
    <2>5. QED
      BY <1>4, <1>5, <1>9, <2>2, <2>3, <2>4
  <1>10. QED
    BY <1>6, <1>7, <1>8, <1>9

(* At first nothing has been read. *)
LEMMA TargetInvInit ==
    ASSUME TargetInit
    PROVE  TargetInv
  BY DEF TargetInit, TargetInv, Forwarded

(* Reading a target keeps the invariant. *)
LEMMA ReadTargetKeeps ==
    ASSUME TargetInv, ReadTarget
    PROVE  TargetInv'
  <1>1. PICK m \in Requests : m = asked
    BY DEF TargetInv
  <1>2. asked' = m /\ secured' = secured /\ host_header' = host_header
    BY <1>1 DEF ReadTarget
  <1>3. target' = ParseTarget(TargetText(m), m.form = "authority")
    BY <1>1 DEF ReadTarget
  <1>4. handling' = IF target'.form = "authority" /\ target'.netloc.port = "none" THEN "refused" ELSE "parsed"
    BY DEF ReadTarget
  <1>5. PlainTarget(m) => IF target'.form = "authority" /\ target'.netloc.port = "none"
                          THEN m.form = "authority" /\ m.port = "none" ELSE Read(target', m)
    BY <1>3, ReadAsMeant
  <1>6. Forwarded'
    BY <1>2, <1>4, <1>5 DEF Forwarded
  <1>7. host_header' \in {<<>>, HostText(m.host, m.port)} /\ secured' \in BOOLEAN
    BY <1>1, <1>2 DEF TargetInv, ReadTarget
  <1>8. QED
    BY <1>2, <1>4, <1>6, <1>7 DEF TargetInv

(* Validating a target, which adds the host header or takes the host from  *)
(* it, keeps the invariant.                                                *)
LEMMA ValidateTargetKeeps ==
    ASSUME TargetInv, ValidateTarget
    PROVE  TargetInv'
  <1>1. PICK m \in Requests : m = asked
    BY DEF TargetInv
  <1>2. PICK h : h = HostText(m.host, m.port)
    OBVIOUS
  <1>3. asked' = m /\ secured' = secured /\ secured \in BOOLEAN /\ host_header \in {<<>>, h}
    BY <1>1, <1>2 DEF ValidateTarget, TargetInv
  <1>10. PlainTarget(m) => Read(target, m)
    BY <1>1 DEF ValidateTarget, TargetInv, Forwarded
  <1> DEFINE origin == target.form = "origin" /\ target.netloc.host = <<>>
             hosted == IF origin THEN [target EXCEPT !.netloc = ParseNetloc(host_header)]
                       ELSE IF target.form = "absolute" THEN [target EXCEPT !.form = "origin"]
                       ELSE target
             scheme == IF target.form = "authority" \/ hosted.scheme # <<>> THEN hosted.scheme
                       ELSE IF secured THEN <<"https">> ELSE <<"http">>
             port   == IF hosted.netloc.port # "none" THEN hosted.netloc.port
                       ELSE IF scheme = <<"https">> \/ secured THEN "443" ELSE "80"
  <1>4. /\ handling = "parsed"
        /\ origin /\ host_header = <<>> => handling' = "refused" /\ target' = target /\ host_header' = host_header
        /\ ~(origin /\ host_header = <<>>) =>
              /\ handling' = "valid"
              /\ target' = [hosted EXCEPT !.scheme = scheme, !.netloc.port = port]
              /\ host_header' = IF target.form = "absolute" /\ host_header = <<>>
                                THEN HostText(target.netloc.host, target.netloc.port)
                                ELSE host_header
    BY DEF ValidateTarget
  <1>5. ASSUME PlainTarget(m)
        PROVE  /\ handling' = "refused" => m.form = "origin" /\ host_header' = <<>>
               /\ handling' = "valid" /\ m.form # "asterisk" =>
                    /\ Reached(target', m, Effectively(m))
                    /\ m.form # "authority" => host_header' = h
    <2>1. Read(target, m)
      BY <1>10, <1>5
    <2>2. m.form \in {"asterisk", "origin", "authority", "absolute"}
      BY <1>5, RequestParts DEF PlainTarget
    <2>3. m.port \in Ports \union {"none"}
      BY RequestParts
    <2>4. CASE m.form = "asterisk"
      <3>1. ~origin
        BY <2>1, <2>4 DEF Read
      <3> HIDE DEF origin, hosted, scheme, port
      <3>2. handling' = "valid"
        BY <1>4, <3>1
      <3>3. QED
        BY <2>4, <3>2
    <2>5. CASE m.form = "origin"
      <3>1. IsUrl(target, "origin", <<>>, <<>>, "none", m.path, m.search)
        BY <2>1, <2>5 DEF Read
      <3>2. origin
        BY <3>1 DEF IsUrl, IsNetloc
      <3>3. CASE host_header = <<>>
        <4> HIDE DEF origin, hosted, scheme, port
        <4>1. handling' = "refused" /\ host_header' = <<>>
          BY <1>4, <3>2, <3>3
        <4>2. QED
          BY <2>5, <4>1
      <3>4. CASE host_header # <<>>
        <4>1. host_header = h
          BY <1>3, <3>4
        <4>2. PICK n : n = ParseNetloc(h)
          OBVIOUS
        <4>3. IsNetloc(n, m.host, m.port)
          BY <1>2, <1>5, <2>5, <4>2, NetlocParsed, RequestParts
        <4>4. hosted = [target EXCEPT !.netloc = n]
          BY <3>2, <4>1, <4>2
        <4> HIDE DEF origin, hosted
        <4>5. /\ {"form", "scheme", "netloc", "path", "search"} \subseteq DOMAIN hosted
              /\ hosted.form = "origin" /\ hosted.scheme = <<>> /\ hosted.netloc = n
              /\ hosted.path = m.path /\ hosted.search = m.search
          BY <3>1, <4>4 DEF IsUrl
        <4>6. scheme = IF secured THEN <<"https">> ELSE <<"http">>
          BY <3>1, <4>5 DEF IsUrl
        <4>7. port = Effectively(m)
          BY <1>3, <2>3, <2>5, <4>3, <4>5, <4>6 DEF Effectively, IsNetloc
        <4> HIDE DEF scheme, port
        <4>8. /\ handling' = "valid" /\ target' = [hosted EXCEPT !.scheme = scheme, !.netloc.port = port]
              /\ host_header' = h
          BY <1>4, <3>1, <3>4, <4>1 DEF IsUrl
        <4>9. /\ target'.form = "origin" /\ target'.path = m.path /\ target'.search = m.search
              /\ target'.netloc = [n EXCEPT !.port = port]
          BY <4>5, <4>8
        <4>10. IsNetloc(target'.netloc, m.host, port)
          BY <4>3, <4>9 DEF IsNetloc
        <4>11. QED
          BY <2>5, <4>7, <4>8, <4>9, <4>10 DEF Reached
      <3>5. QED
        BY <3>3, <3>4
    <2>6. CASE m.form = "authority"
      <3>1. m.port # "none" /\ IsUrl(target, "authority", <<>>, m.host, m.port, <<>>, <<>>)
        BY <2>1, <2>6 DEF Read
      <3>2. ~origin /\ hosted = target
        BY <3>1 DEF IsUrl
      <3> HIDE DEF origin, hosted
      <3>3. scheme = <<>>
        BY <3>1, <3>2 DEF IsUrl
      <3>4. port = m.port /\ Effectively(m) = m.port
        BY <3>1, <3>2 DEF IsUrl, IsNetloc, Effectively
      <3> HIDE DEF scheme, port
      <3>5. handling' = "valid" /\ target' = [target EXCEPT !.scheme = <<>>, !.netloc.port = m.port]
        BY <1>4, <3>2, <3>3, <3>4
      <3>6. PICK n : n = target.netloc
        OBVIOUS
      <3>7. /\ {"form", "scheme", "netloc", "path", "search"} \subseteq DOMAIN target'
            /\ target'.form = "authority" /\ target'.path = <<>> /\ target'.search = <<>>
            /\ target'.scheme = <<>> /\ target'.netloc = [n EXCEPT !.port = m.port]
        BY <3>1, <3>5, <3>6 DEF IsUrl
      <3>8. IsNetloc(n, m.host, m.port)
        BY <3>1, <3>6 DEF IsUrl
      <3>9. IsNetloc(target'.netloc, m.host, m.port)
        BY <3>7, <3>8 DEF IsNetloc
      <3>10. IsUrl(target', "authority", <<>>, m.host, m.port, <<>>, <<>>)
        BY <3>7, <3>9 DEF IsUrl
      <3>11. QED
        BY <2>6, <3>4, <3>5, <3>10 DEF Reached
    <2>7. CASE m.form = "absolute"
      <3>1. IsUrl(target, "absolute", <<m.scheme>>, m.host, m.port, m.path, m.search)
        BY <2>1, <2>7 DEF Read
      <3>2. ~origin /\ hosted = [target EXCEPT !.form = "origin"]
        BY <3>1 DEF IsUrl
      <3> HIDE DEF origin, hosted
      <3>3. PICK n : n = target.netloc
        OBVIOUS
      <3>4. IsNetloc(n, m.host, m.port)
        BY <3>1, <3>3 DEF IsUrl
      <3>5. /\ {"form", "scheme", "netloc", "path", "search"} \subseteq DOMAIN hosted
            /\ hosted.form = "origin" /\ hosted.scheme = <<m.scheme>> /\ hosted.netloc = n
            /\ hosted.path = m.path /\ hosted.search = m.search
        BY <3>1, <3>2, <3>3 DEF IsUrl
      <3>6. scheme = <<m.scheme>>
        BY <3>1, <3>5 DEF IsUrl
      <3>7. port = Effectively(m)
        <4>1. <<m.scheme>> = <<"https">> <=> m.scheme = "https"
          OBVIOUS
        <4>2. n.port = m.port
          BY <3>4 DEF IsNetloc
        <4>3. QED
          BY <1>3, <2>3, <2>7, <3>5, <3>6, <4>1, <4>2 DEF Effectively
      <3> HIDE DEF scheme, port
      <3>8. handling' = "valid" /\ target' = [hosted EXCEPT !.scheme = <<m.scheme>>, !.netloc.port = port]
        BY <1>4, <3>2, <3>6
      <3>9. host_header' = h
        <4>1. target.form = "absolute" /\ target.netloc.host = m.host /\ target.netloc.port = m.port
          BY <3>1 DEF IsUrl, IsNetloc
        <4>2. host_header' = IF target.form = "absolute" /\ host_header = <<>>
                             THEN HostText(target.netloc.host, target.netloc.port) ELSE host_header
          BY <1>4, <3>2
        <4>3. QED
          BY <1>2, <1>3, <4>1, <4>2
      <3>10. /\ {"form", "scheme", "netloc", "path", "search"} \subseteq DOMAIN target'
             /\ target'.form = "origin" /\ target'.path = m.path /\ target'.search = m.search
             /\ target'.scheme = <<m.scheme>> /\ target'.netloc = [n EXCEPT !.port = port]
        BY <3>5, <3>8
      <3>11. IsNetloc(target'.netloc, m.host, port)
        BY <3>4, <3>10 DEF IsNetloc
      <3>12. IsUrl(target', "origin", <<m.scheme>>, m.host, port, m.path, m.search)
        BY <3>10, <3>11 DEF IsUrl
      <3>13. QED
        BY <2>7, <3>7, <3>8, <3>9, <3>12 DEF Reached
    <2>8. QED
      BY <2>2, <2>4, <2>5, <2>6, <2>7
  <1> HIDE DEF origin, hosted, scheme, port
  <1>6. handling' \in {"valid", "refused"}
    BY <1>4
  <1>7. Effectively(m)' = Effectively(m)
    BY <1>3 DEF Effectively
  <1>8. Forwarded'
    BY <1>2, <1>3, <1>5, <1>6, <1>7 DEF Forwarded
  <1>9. QED
    BY <1>3, <1>6, <1>8 DEF TargetInv

(* Any request, any host, path and search: the invariant of parsing and      *)
(* validation.                                                               *)
THEOREM TargetInvariant == TargetSpec => []TargetInv
  <1>1. TargetInit => TargetInv
    BY TargetInvInit
  <1>2. TargetInv /\ [TargetNext]_targetVars => TargetInv'
    <2>1. CASE UNCHANGED targetVars
      BY <2>1 DEF targetVars, TargetInv, Forwarded, Effectively
    <2>2. QED
      BY <2>1, ReadTargetKeeps, ValidateTargetKeeps DEF TargetNext
  <1>3. QED
    BY <1>1, <1>2, PTL DEF TargetSpec

(* A target in any of its forms reaches the host, port and path that are   *)
(* meant, or is refused where it names no host or a tunnel no port, unless *)
(* it has user information, is an address of colons with a port, or an     *)
(* absolute form without slashes or without a path (PlainTarget).          *)
THEOREM PlainTargetIsUnderstood == TargetSpec => []TargetUnderstood
  BY TargetInvariant, ReachedIsUnderstood, PTL

(* f[i] is the first i texts, joined. *)
Joins(s, k, f) ==
    f \in [0..k -> Text] /\ f[0] = <<>> /\ \A i \in 1..k : f[i] = f[i - 1] \o s[i]

(* Texts can be joined, one after the other.                               *)
LEMMA JoinsAll ==
    ASSUME NEW s \in Seq(Text), NEW n \in Nat, n =< Len(s)
    PROVE  \E f : Joins(s, n, f)
  <1> DEFINE T == {k \in Nat : k =< n => \E f : Joins(s, k, f)}
  <1>1. \A i \in 1..n : s[i] \in Text
    OBVIOUS
  <1>2. 0 \in T
    <2>1. <<>> \in Text
      BY DEF Text
    <2>2. Joins(s, 0, [i \in 0..0 |-> <<>>])
      BY <2>1 DEF Joins
    <2>3. QED
      BY <2>2
  <1>3. ASSUME NEW k \in Nat, k \in T PROVE k + 1 \in T
    <2>1. CASE k + 1 =< n
      <3>1. PICK f : Joins(s, k, f)
        BY <1>3, <2>1
      <3>2. f \in [0..k -> Text] /\ f[0] = <<>> /\ \A i \in 1..k : f[i] = f[i - 1] \o s[i]
        BY <3>1 DEF Joins
      <3> DEFINE g == [i \in 0..k + 1 |-> IF i = k + 1 THEN f[k] \o s[k + 1] ELSE f[i]]
      <3>3. f[k] \in Text /\ s[k + 1] \in Text
        BY <1>1, <2>1, <3>2
      <3>4. f[k] \o s[k + 1] \in Text
        BY <3>3, Joined
      <3>5. g \in [0..k + 1 -> Text]
        BY <3>2, <3>4
      <3>6. g[0] = <<>> /\ g[k + 1] = f[k] \o s[k + 1] /\ \A i \in 0..k : g[i] = f[i]
        BY <3>2
      <3> HIDE DEF g
      <3>7. \A i \in 1..k + 1 : g[i] = g[i - 1] \o s[i]
        <4>1. SUFFICES ASSUME NEW i \in 1..k + 1 PROVE g[i] = g[i - 1] \o s[i]
          OBVIOUS
        <4>2. CASE i = k + 1
          <5>1. i - 1 = k /\ g[k] = f[k]
            BY <3>6, <4>2
          <5>2. QED
            BY <3>6, <4>2, <5>1
        <4>3. CASE i \in 1..k
          <5>1. i - 1 \in 0..k /\ i \in 0..k
            BY <4>3
          <5>2. g[i] = f[i] /\ g[i - 1] = f[i - 1]
            BY <3>6, <5>1
          <5>3. QED
            BY <3>2, <4>3, <5>2
        <4>4. i = k + 1 \/ i \in 1..k
          OBVIOUS
        <4>5. QED
          BY <4>2, <4>3, <4>4
      <3>8. Joins(s, k + 1, g)
        BY <3>5, <3>6, <3>7 DEF Joins
      <3>9. QED
        BY <3>8
    <2>2. CASE ~(k + 1 =< n)
      BY <2>2
    <2>3. QED
      BY <2>1, <2>2
  <1> HIDE DEF T
  <1>4. Nat \subseteq T
    BY <1>2, <1>3, SetInduction
  <1>5. n \in T
    BY <1>4
  <1>6. QED
    BY <1>5 DEF T

(* FlattenSeq is what its recursion says: the last of them.                 *)
LEMMA FlattenSeqIs ==
    ASSUME NEW s \in Seq(Text), NEW f, Joins(s, Len(s), f)
    PROVE  FlattenSeq(s) = f[Len(s)]
  <1>1. PICK n \in Nat : n = Len(s)
    OBVIOUS
  <1>2. \A i \in 1..n : s[i] \in Text
    BY <1>1
  <1>3. f \in [0..n -> Text] /\ f[0] = <<>> /\ \A i \in 1..n : f[i] = f[i - 1] \o s[i]
    BY <1>1 DEF Joins
  <1>4. CASE n = 0
    <2>1. FlattenSeq(s) = s
      BY <1>1, <1>4 DEF FlattenSeq
    <2>2. s = <<>>
      <3>1. \A W : \A q \in Seq(W) : Len(q) = 0 => q = <<>>
        OBVIOUS
      <3>2. QED
        BY <1>1, <1>4, <3>1
    <2>3. QED
      BY <1>1, <1>3, <1>4, <2>1, <2>2
  <1>5. CASE n # 0
    <2> DEFINE Flattens(g) == g = [i \in 1..n |-> IF i = 1 THEN s[i] ELSE g[i - 1] \o s[i]]
               h == CHOOSE g : Flattens(g)
    <2>1. 1 \in 1..n /\ f[1] = s[1]
      <3>1. 1 \in 1..n /\ 1 - 1 = 0
        BY <1>5
      <3>2. f[1] = f[0] \o s[1] /\ s[1] \in Text
        BY <1>2, <1>3, <3>1
      <3>3. QED
        BY <1>3, <3>1, <3>2, Empty
    <2>2. \E g : Flattens(g)
      <3> DEFINE g == [i \in 1..n |-> f[i]]
      <3>1. \A i \in 1..n : f[i] = IF i = 1 THEN s[i] ELSE g[i - 1] \o s[i]
        <4>1. SUFFICES ASSUME NEW i \in 1..n, i # 1 PROVE f[i] = g[i - 1] \o s[i]
          BY <2>1
        <4>2. i - 1 \in 1..n
          BY <4>1
        <4>3. g[i - 1] = f[i - 1]
          BY <4>2
        <4>4. QED
          BY <1>3, <4>3
      <3>2. g = [i \in 1..n |-> IF i = 1 THEN s[i] ELSE g[i - 1] \o s[i]]
        BY <3>1
      <3> HIDE DEF g
      <3>3. Flattens(g)
        BY <3>2
      <3>4. QED
        BY <3>3
    <2>3. Flattens(h)
      BY <2>2
    <2>4. FlattenSeq(s) = h[n]
      BY <1>1, <1>5 DEF FlattenSeq
    <2> HIDE DEF h
    <2>5. \A i \in 1..n : h[i] = IF i = 1 THEN s[i] ELSE h[i - 1] \o s[i]
      <3>1. h = [i \in 1..n |-> IF i = 1 THEN s[i] ELSE h[i - 1] \o s[i]]
        BY <2>3
      <3>2. QED
        BY <3>1
    <2> DEFINE U == {k \in Nat : k \in 0..n - 1 => h[k + 1] = f[k + 1]}
    <2>6. 0 \in U
      <3>1. h[1] = s[1]
        BY <2>1, <2>5
      <3>2. QED
        BY <2>1, <3>1
    <2>7. ASSUME NEW k \in Nat, k \in U PROVE k + 1 \in U
      <3>1. CASE k + 1 \in 0..n - 1
        <4>1. PICK j \in 1..n : j = k + 1 + 1
          BY <3>1
        <4>2. j # 1 /\ j - 1 = k + 1 /\ k \in 0..n - 1
          BY <3>1, <4>1
        <4>3. h[j - 1] = f[j - 1]
          BY <2>7, <4>2
        <4>4. h[j] = h[j - 1] \o s[j]
          BY <2>5, <4>2
        <4>5. f[j] = f[j - 1] \o s[j]
          BY <1>3
        <4>6. h[j] = f[j]
          BY <4>3, <4>4, <4>5
        <4>7. QED
          BY <4>1, <4>6
      <3>2. CASE k + 1 \notin 0..n - 1
        BY <3>2
      <3>3. QED
        BY <3>1, <3>2
    <2> HIDE DEF U
    <2>8. Nat \subseteq U
      BY <2>6, <2>7, SetInduction
    <2>9. n - 1 \in U /\ n - 1 \in 0..n - 1 /\ n - 1 + 1 = n
      BY <1>5, <2>8
    <2>10. h[n] = f[n]
      BY <2>9 DEF U
    <2>11. QED
      BY <1>1, <2>4, <2>10
  <1>6. QED
    BY <1>4, <1>5

(***************************************************************************)
(* Bytes.                                                                  *)
(***************************************************************************)

LEMMA BytesAreText ==
    ASSUME NEW s \in Seq(Bytes)
    PROVE  s \in Text
  <1>1. Bytes \subseteq Word
    BY DEF Word
  <1>2. \A S, T : S \subseteq T => \A t \in Seq(S) : t \in Seq(T)
    OBVIOUS
  <1>3. QED
    BY <1>1, <1>2 DEF Text

(* Bytes joined to bytes are bytes.                                        *)
LEMMA BytesJoined ==
    ASSUME NEW a \in Seq(Bytes), NEW b \in Seq(Bytes)
    PROVE  a \o b \in Seq(Bytes)
  OBVIOUS

(* So are the parts of bytes that are cut.                                 *)
LEMMA BytesCut ==
    ASSUME NEW a \in Seq(Bytes), NEW k \in 0..Len(a)
    PROVE  SubSeq(a, 1, k) \in Seq(Bytes) /\ Rest(a, k) \in Seq(Bytes)
  BY DEF Rest

(* A text is cut in two. *)
LEMMA Cut ==
    ASSUME NEW x \in Text, NEW k \in 0..Len(x)
    PROVE  /\ SubSeq(x, 1, k) \in Text /\ Len(SubSeq(x, 1, k)) = k
           /\ Rest(x, k) \in Text /\ Len(Rest(x, k)) = Len(x) - k
           /\ SubSeq(x, 1, k) \o Rest(x, k) = x
  <1>1. Len(x) \in Nat /\ k \in Nat
    BY DEF Text
  <1>2. PICK a : a = SubSeq(x, 1, k)
    OBVIOUS
  <1>3. PICK b : b = SubSeq(x, k + 1, Len(x))
    OBVIOUS
  <1>4. a \in Text /\ Len(a) = k /\ \A i \in 1..k : a[i] = x[i]
    <2>1. 1 \in 1..Len(x) + 1 /\ k \in 1 - 1..Len(x) /\ k - 1 + 1 = k /\ \A i \in 1..k : 1 + i - 1 = i
      BY <1>1
    <2>2. /\ SubSeq(x, 1, k) \in Text /\ Len(SubSeq(x, 1, k)) = k - 1 + 1
          /\ \A i \in 1..k - 1 + 1 : SubSeq(x, 1, k)[i] = x[1 + i - 1]
      BY <2>1, Slice
    <2>3. QED
      BY <1>2, <2>1, <2>2
  <1>5. b \in Text /\ Len(b) = Len(x) - k /\ \A i \in 1..Len(x) - k : b[i] = x[k + i]
    <2>1. PICK m \in 1..Len(x) + 1 : m = k + 1
      BY <1>1
    <2>2. PICK n \in m - 1..Len(x) : n = Len(x)
      BY <1>1, <2>1
    <2>3. n - m + 1 = Len(x) - k /\ \A i \in 1..Len(x) - k : m + i - 1 = k + i
      BY <1>1, <2>1, <2>2
    <2>4. /\ SubSeq(x, m, n) \in Text /\ Len(SubSeq(x, m, n)) = n - m + 1
          /\ \A i \in 1..n - m + 1 : SubSeq(x, m, n)[i] = x[m + i - 1]
      BY Slice
    <2>5. b = SubSeq(x, m, n)
      BY <1>3, <2>1, <2>2
    <2>6. QED
      BY <2>3, <2>4, <2>5
  <1>6. PICK y \in Text : y = a \o b
    BY <1>4, <1>5, Joined
  <1>7. /\ Len(y) = Len(a) + Len(b)
        /\ \A i \in 1..Len(a) : y[i] = a[i]
        /\ \A i \in 1..Len(b) : y[Len(a) + i] = b[i]
    <2>1. a \in Text /\ b \in Text
      BY <1>4, <1>5
    <2>2. /\ Len(a \o b) = Len(a) + Len(b)
          /\ \A i \in 1..Len(a) : (a \o b)[i] = a[i]
          /\ \A i \in 1..Len(b) : (a \o b)[Len(a) + i] = b[i]
      BY <2>1, Joined
    <2>3. QED
      BY <1>6, <2>2
  <1>8. Len(y) = Len(x)
    BY <1>1, <1>4, <1>5, <1>7
  <1>9. \A i \in 1..Len(y) : y[i] = x[i]
    <2>1. SUFFICES ASSUME NEW i \in 1..Len(x) PROVE y[i] = x[i]
      BY <1>8
    <2>2. CASE i =< k
      BY <1>1, <1>4, <1>7, <2>2
    <2>3. CASE i > k
      <3>1. i - k \in 1..Len(x) - k /\ k + (i - k) = i
        BY <1>1, <2>3
      <3>2. y[k + (i - k)] = b[i - k] /\ b[i - k] = x[k + (i - k)]
        BY <1>4, <1>5, <1>7, <3>1
      <3>3. QED
        BY <3>1, <3>2
    <2>4. QED
      BY <1>1, <2>2, <2>3
  <1>10. y = x
    BY <1>8, <1>9, SameText
  <1>11. QED
    BY <1>2, <1>3, <1>4, <1>5, <1>6, <1>10 DEF Rest

(* A text of two parts. *)
Split(t, a, b) == t = a \o b

(* Where the bytes of the two parts stand.                                 *)
LEMMA SplitIs ==
    ASSUME NEW a \in Text, NEW b \in Text, NEW t \in Text, Split(t, a, b)
    PROVE  /\ Len(a) \in Nat /\ Len(b) \in Nat /\ Len(t) = Len(a) + Len(b)
           /\ \A i \in 1..Len(a) : t[i] = a[i]
           /\ \A i \in 1..Len(b) : t[Len(a) + i] = b[i]
  <1>1. /\ Len(a) \in Nat /\ Len(b) \in Nat /\ Len(a \o b) = Len(a) + Len(b)
        /\ \A i \in 1..Len(a) : (a \o b)[i] = a[i]
        /\ \A i \in 1..Len(b) : (a \o b)[Len(a) + i] = b[i]
    BY Joined
  <1>2. t = a \o b
    BY DEF Split
  <1>3. QED
    BY <1>1, <1>2

(* Texts that begin alike and go on alike. *)
LEMMA Aligned ==
    ASSUME NEW a \in Text, NEW x \in Text, NEW b \in Text, NEW y \in Text, NEW t \in Text,
           Split(t, a, x), Split(t, b, y), Len(a) = Len(b)
    PROVE  a = b /\ x = y
  <1>1. /\ Len(t) = Len(a) + Len(x) /\ Len(a) \in Nat /\ Len(x) \in Nat
        /\ \A i \in 1..Len(a) : t[i] = a[i]
        /\ \A i \in 1..Len(x) : t[Len(a) + i] = x[i]
    <2>1. Split(t, a, x)
      OBVIOUS
    <2>2. Len(t) = Len(a) + Len(x) /\ Len(a) \in Nat /\ Len(x) \in Nat
      BY <2>1, SplitIs
    <2>3. \A i \in 1..Len(a) : t[i] = a[i]
      BY <2>1, SplitIs
    <2>4. \A i \in 1..Len(x) : t[Len(a) + i] = x[i]
      BY <2>1, SplitIs
    <2>5. QED
      BY <2>2, <2>3, <2>4
  <1>2. /\ Len(t) = Len(b) + Len(y) /\ Len(y) \in Nat
        /\ \A i \in 1..Len(b) : t[i] = b[i]
        /\ \A i \in 1..Len(y) : t[Len(b) + i] = y[i]
    BY SplitIs
  <1>3. Len(x) = Len(y)
    BY <1>1, <1>2
  <1>4. a = b
    BY <1>1, <1>2, SameText
  <1>5. \A i \in 1..Len(x) : x[i] = y[i]
    BY <1>1, <1>2, <1>3
  <1>6. x = y
    BY <1>3, <1>5, SameText
  <1>7. QED
    BY <1>4, <1>6

(* A text that ends a line. *)
LEMMA EndsLine ==
    ASSUME NEW t \in Text
    PROVE  IsSuffix(CRLF, t) <=> (Len(t) >= 2 /\ t[Len(t) - 1] = "CR" /\ t[Len(t)] = "LF")
  <1>1. PICK n \in Nat : n = Len(t)
    BY DEF Text
  <1>2. PICK r : r = [i \in 1..n |-> t[n - i + 1]]
    OBVIOUS
  <1>3. PICK q : q = [i \in 1..2 |-> CRLF[2 - i + 1]]
    OBVIOUS
  <1>4. Len(CRLF) = 2 /\ CRLF[1] = "CR" /\ CRLF[2] = "LF"
    BY DEF CRLF
  <1>5. Reverse(t) = r /\ Reverse(CRLF) = q
    BY <1>1, <1>2, <1>3, <1>4 DEF Reverse
  <1>6. r \in Text /\ Len(r) = n /\ \A i \in 1..n : r[i] = t[n - i + 1]
    <2>1. \A i \in 1..n : n - i + 1 \in 1..Len(t)
      BY <1>1
    <2>2. \A i \in 1..n : t[n - i + 1] \in Word
      BY <2>1 DEF Text
    <2>3. QED
      BY <1>2, <2>2 DEF Text
  <1>7. q \in Text /\ Len(q) = 2 /\ q[1] = "LF" /\ q[2] = "CR"
    <2>1. "CR" \in Word /\ "LF" \in Word
      BY BodyAssumption DEF Word, Bytes
    <2>2. 2 - 1 + 1 = 2 /\ 2 - 2 + 1 = 1 /\ \A i \in 1..2 : i = 1 \/ i = 2
      OBVIOUS
    <2>3. \A i \in 1..2 : CRLF[2 - i + 1] \in Word
      BY <1>4, <2>1, <2>2
    <2>4. QED
      BY <1>3, <1>4, <2>2, <2>3 DEF Text
  <1>8. IsSuffix(CRLF, t) <=> 2 <= n /\ SubSeq(q, 1, 2) = SubSeq(r, 1, 2)
    BY <1>5, <1>6, <1>7 DEF IsSuffix, IsPrefix
  <1>9. SubSeq(q, 1, 2) = q
    <2>1. 2 \in 0..Len(q) /\ Rest(q, 2) = <<>>
      BY <1>7 DEF Rest, Text
    <2>2. SubSeq(q, 1, 2) \in Text /\ SubSeq(q, 1, 2) \o Rest(q, 2) = q
      BY <1>7, <2>1, Cut
    <2>3. QED
      BY <2>1, <2>2, Empty
  <1>10. ASSUME 2 <= n
         PROVE  q = SubSeq(r, 1, 2) <=> (t[n - 1] = "CR" /\ t[n] = "LF")
    <2>1. 2 \in 0..Len(r)
      BY <1>6, <1>10
    <2>2. PICK p : p = SubSeq(r, 1, 2)
      OBVIOUS
    <2>3. p \in Text /\ Len(p) = 2 /\ p \o Rest(r, 2) = r /\ Rest(r, 2) \in Text
      BY <1>6, <2>1, <2>2, Cut
    <2>4. \A i \in 1..2 : r[i] = p[i]
      <3>1. PICK z \in Text : z = Rest(r, 2)
        BY <2>3
      <3>2. Split(r, p, z)
        BY <2>3, <3>1 DEF Split
      <3>3. r \in Text /\ p \in Text
        BY <1>6, <2>3
      <3>4. \A i \in 1..Len(p) : r[i] = p[i]
        BY <3>1, <3>2, <3>3, SplitIs
      <3>5. QED
        BY <2>3, <3>4
    <2>5. 1 \in 1..n /\ 2 \in 1..n /\ n - 1 + 1 = n /\ n - 2 + 1 = n - 1
      BY <1>10
    <2>6. p[1] = t[n] /\ p[2] = t[n - 1]
      BY <1>6, <2>4, <2>5
    <2>7. q = p <=> (p[1] = "LF" /\ p[2] = "CR")
      <3>1. \A i \in 1..2 : i = 1 \/ i = 2
        OBVIOUS
      <3>2. ASSUME p[1] = "LF", p[2] = "CR" PROVE \A i \in 1..Len(q) : q[i] = p[i]
        BY <1>7, <3>1, <3>2
      <3>3. QED
        BY <1>7, <2>3, <3>2, SameText
    <2>8. QED
      BY <2>2, <2>6, <2>7
  <1>11. QED
    BY <1>1, <1>8, <1>9, <1>10

(* The line end is a text of two bytes.                                    *)
LEMMA LineEnd == CRLF \in Text /\ Len(CRLF) = 2 /\ CRLF[1] = "CR" /\ CRLF[2] = "LF"
  <1>1. "CR" \in Word /\ "LF" \in Word
    BY BodyAssumption DEF Word, Bytes
  <1>2. PICK x \in Word, y \in Word : x = "CR" /\ y = "LF"
    BY <1>1
  <1>3. <<x, y>> \in Text /\ Len(<<x, y>>) = 2 /\ <<x, y>>[1] = x /\ <<x, y>>[2] = y
    BY Words DEF Text
  <1>4. QED
    BY <1>2, <1>3 DEF CRLF

(* The first line end after a head of one byte at most. *)
Heading(h) == h \in Text /\ Len(h) =< 1 /\ \A i \in 1..Len(h) : h[i] # "CR"

(* Where the line ends, and that it does not end before.                   *)
LEMMA FirstLineEnd ==
    ASSUME NEW h, Heading(h), NEW w \in Text, Split(w, h, CRLF), NEW x \in Text, NEW t \in Text, Split(t, w, x)
    PROVE  /\ Len(h) \in {0, 1} /\ Len(w) = Len(h) + 2 /\ Len(t) >= Len(w)
           /\ t[Len(w) - 1] = "CR" /\ t[Len(w)] = "LF"
           /\ \A n \in 2..Len(w) - 1 : t[n - 1] # "CR"
  <1>1. h \in Text /\ Len(h) \in {0, 1} /\ \A i \in 1..Len(h) : h[i] # "CR"
    <2>1. h \in Text /\ Len(h) =< 1 /\ \A i \in 1..Len(h) : h[i] # "CR"
      BY DEF Heading
    <2>2. Len(h) \in Nat
      BY <2>1 DEF Text
    <2>3. \A n \in Nat : n =< 1 => n \in {0, 1}
      OBVIOUS
    <2>4. QED
      BY <2>1, <2>2, <2>3
  <1>2. /\ Len(w) = Len(h) + Len(CRLF)
        /\ \A i \in 1..Len(h) : w[i] = h[i]
        /\ \A i \in 1..Len(CRLF) : w[Len(h) + i] = CRLF[i]
    <2>1. PICK a \in Text : a = h
      BY <1>1
    <2>2. PICK b \in Text : b = CRLF
      BY LineEnd
    <2>3. Split(w, a, b)
      BY <2>1, <2>2
    <2>4. /\ Len(w) = Len(a) + Len(b)
          /\ \A i \in 1..Len(a) : w[i] = a[i]
          /\ \A i \in 1..Len(b) : w[Len(a) + i] = b[i]
      BY <2>3, SplitIs
    <2>5. QED
      BY <2>1, <2>2, <2>4
  <1>3. Len(w) = Len(h) + 2 /\ w[Len(h) + 1] = "CR" /\ w[Len(h) + 2] = "LF"
    <2>1. 1 \in 1..Len(CRLF) /\ 2 \in 1..Len(CRLF)
      BY LineEnd
    <2>2. QED
      BY <1>2, <2>1, LineEnd
  <1>4. Len(t) = Len(w) + Len(x) /\ Len(x) \in Nat /\ \A i \in 1..Len(w) : t[i] = w[i]
    BY SplitIs
  <1>5. Len(w) \in 1..Len(w) /\ Len(w) - 1 \in 1..Len(w) /\ Len(w) - 1 = Len(h) + 1 /\ Len(t) >= Len(w)
    BY <1>1, <1>3, <1>4
  <1>6. t[Len(w) - 1] = "CR" /\ t[Len(w)] = "LF"
    BY <1>3, <1>4, <1>5
  <1>7. ASSUME NEW n \in 2..Len(w) - 1 PROVE t[n - 1] # "CR"
    <2>1. n = 2 /\ Len(h) = 1 /\ n - 1 = 1 /\ 1 \in 1..Len(w) /\ 1 \in 1..Len(h)
      BY <1>1, <1>3
    <2>2. t[1] = w[1] /\ w[1] = h[1] /\ h[1] # "CR"
      BY <1>1, <1>2, <1>4, <2>1
    <2>3. QED
      BY <2>1, <2>2
  <1>8. QED
    BY <1>1, <1>3, <1>5, <1>6, <1>7


(* The first part of a first part is one of the whole.                    *)
LEMMA SplitLeft ==
    ASSUME NEW p \in Text, NEW q \in Text, NEW more \in Text,
           NEW in \in Text, NEW u \in Text, NEW z \in Text,
           Split(in, p, q), Split(u, in, more), Split(z, q, more)
    PROVE  Split(u, p, z)
  <1>1. (p \o q) \o more = p \o (q \o more)
    <2>1. Regrouped(p, q, more)
      BY Associative
    <2>2. QED
      BY <2>1, Zenon DEF Regrouped
  <1>2. in = p \o q /\ u = in \o more /\ z = q \o more
    BY DEF Split
  <1>3. u = p \o z
    BY <1>1, <1>2, Zenon
  <1>4. QED
    BY <1>3, Zenon DEF Split

(* ... and of what stands before it.                                       *)
LEMMA SplitRight ==
    ASSUME NEW c \in Text, NEW p \in Text, NEW z \in Text,
           NEW u \in Text, NEW d \in Text, NEW t \in Text,
           Split(t, c, u), Split(u, p, z), Split(d, c, p)
    PROVE  Split(t, d, z)
  <1>1. (c \o p) \o z = c \o (p \o z)
    <2>1. Regrouped(c, p, z)
      BY Associative
    <2>2. QED
      BY <2>1, Zenon DEF Regrouped
  <1>2. t = c \o u /\ u = p \o z /\ d = c \o p
    BY DEF Split
  <1>3. t = d \o z
    BY <1>1, <1>2, Zenon
  <1>4. QED
    BY <1>3, Zenon DEF Split

(* A place where the input is cut, and what is there before and after it.  *)
CutAt(c, in, more, t, k, d, z) ==
    /\ d = c \o SubSeq(in, 1, k) /\ Len(d) = Len(c) + k
    /\ Split(z, Rest(in, k), more) /\ Split(t, d, z)

(* What a segment and the input hold, when the input is cut after k bytes. *)
LEMMA HeldIs ==
    ASSUME NEW c \in Text, NEW in \in Text, NEW more \in Text, NEW u \in Text, NEW t \in Text,
           Split(u, in, more), Split(t, c, u), NEW k \in 0..Len(in)
    PROVE  \E d, z \in Text : CutAt(c, in, more, t, k, d, z)
  <1>1. PICK p \in Text : p = SubSeq(in, 1, k) /\ Len(p) = k
    BY Cut
  <1>2. PICK q \in Text : q = Rest(in, k)
    BY Cut
  <1>3. Split(in, p, q)
    <2>1. SubSeq(in, 1, k) \o Rest(in, k) = in
      BY Cut
    <2>2. QED
      BY <1>1, <1>2, <2>1, Zenon DEF Split
  <1>4. PICK d \in Text : Split(d, c, p)
    <2>1. c \o p \in Text
      BY Joined
    <2>2. QED
      BY <2>1 DEF Split
  <1>5. PICK z \in Text : Split(z, q, more)
    <2>1. q \o more \in Text
      BY Joined
    <2>2. QED
      BY <2>1 DEF Split
  <1>60. Split(u, p, z)
    BY <1>3, <1>5, SplitLeft
  <1>6. Split(t, d, z)
    BY <1>4, <1>60, SplitRight
  <1>7. Len(d) = Len(c) + Len(p)
    BY <1>4, SplitIs
  <1>8. d = c \o SubSeq(in, 1, k)
    BY <1>1, <1>4, Zenon DEF Split
  <1>9. Split(z, Rest(in, k), more) /\ Len(d) = Len(c) + k
    BY <1>1, <1>2, <1>5, <1>7
  <1>10. CutAt(c, in, more, t, k, d, z)
    BY <1>6, <1>8, <1>9 DEF CutAt
  <1>11. QED
    BY <1>10

(* read_until read all there is, or the head h of a line and no further.   *)
UntilRead(piece, in, more, c, h, w, x) ==
    LET r == Until(piece, in)
    IN  IF Len(c) + Len(in) < Len(w)
        THEN r = [segment |-> [piece EXCEPT !.committed = c \o in], in |-> <<>>]
        ELSE /\ r.segment = [piece EXCEPT !.complete = TRUE, !.committed = h]
             /\ r.segment.complete /\ r.segment.committed = h
             /\ Split(x, r.in, more)
             /\ \E k \in 0..Len(in) : r.in = Rest(in, k)

(* It does so however the line is cut.                                     *)
LEMMA UntilReads ==
    ASSUME NEW piece \in Pieces, ~piece.complete, NEW c \in Text, c = piece.committed,
           NEW in \in Text, NEW more \in Text, NEW u \in Text, NEW t \in Text,
           Split(u, in, more), Split(t, c, u),
           NEW h \in Text, Heading(h), NEW w \in Text, NEW x \in Text, Split(w, h, CRLF), Split(t, w, x),
           Len(c) < Len(w)
    PROVE  UntilRead(piece, in, more, c, h, w, x)
  <1> SUFFICES LET r == Until(piece, in)
               IN  IF Len(c) + Len(in) < Len(w)
                   THEN r = [segment |-> [piece EXCEPT !.committed = c \o in], in |-> <<>>]
                   ELSE /\ r.segment = [piece EXCEPT !.complete = TRUE, !.committed = h]
                        /\ r.segment.complete /\ r.segment.committed = h
                        /\ Split(x, r.in, more)
                        /\ \E k \in 0..Len(in) : r.in = Rest(in, k)
    BY Zenon DEF UntilRead
  <1>. {"complete", "committed", "pending", "last"} \subseteq DOMAIN piece
    BY DEF Pieces
  <1>5. /\ Len(h) \in {0, 1} /\ Len(w) = Len(h) + 2 /\ Len(t) >= Len(w)
        /\ t[Len(w) - 1] = "CR" /\ t[Len(w)] = "LF"
        /\ \A n \in 2..Len(w) - 1 : t[n - 1] # "CR"
    BY FirstLineEnd
  <1>6. Len(c) \in Nat /\ Len(in) \in Nat /\ Len(c) < Len(w) /\ Len(w) \in Nat
    BY <1>5 DEF Text
  <1>4. ASSUME NEW k \in 0..Len(in)
        PROVE  \E d, z \in Text : CutAt(c, in, more, t, k, d, z)
    BY HeldIs
  <1> DEFINE Taken(k) == piece.committed \o SubSeq(in, 1, k)
             ends == {k \in 1..Len(in) : IsSuffix(CRLF, Taken(k))}
             end == CHOOSE k \in ends : \A j \in ends : k =< j
  <1>7. ASSUME NEW k \in 1..Len(in)
        PROVE  k \in ends <=> (Len(c) + k >= 2 /\ t[Len(c) + k - 1] = "CR" /\ t[Len(c) + k] = "LF")
    <2>1. k \in 0..Len(in)
      OBVIOUS
    <2>2. PICK d \in Text, z \in Text : CutAt(c, in, more, t, k, d, z)
      BY <1>4, <2>1
    <2>3. Split(t, d, z) /\ Len(d) = Len(c) + k /\ d = c \o SubSeq(in, 1, k)
      BY <2>2 DEF CutAt
    <2>15. Split(t, d, z)
      BY <2>3
    <2>4. \A i \in 1..Len(d) : t[i] = d[i]
      BY <2>15, SplitIs
    <2>5. IsSuffix(CRLF, d) <=> (Len(d) >= 2 /\ d[Len(d) - 1] = "CR" /\ d[Len(d)] = "LF")
      BY EndsLine
    <2>7. Taken(k) = d
      BY <2>3
    <2> HIDE DEF Taken
    <2>8. k \in ends <=> IsSuffix(CRLF, d)
      BY <2>7
    <2> HIDE DEF ends
    <2>9. PICK n \in Nat : n = Len(d)
      BY DEF Text
    <2>6. n >= 2 => n \in 1..n /\ n - 1 \in 1..n
      OBVIOUS
    <2>10. n >= 2 => t[n] = d[n] /\ t[n - 1] = d[n - 1]
      BY <2>4, <2>6, <2>9
    <2>11. k \in ends <=> (n >= 2 /\ d[n - 1] = "CR" /\ d[n] = "LF")
      BY <2>5, <2>8, <2>9
    <2>12. n = Len(c) + k
      BY <2>3, <2>9
    <2>13. k \in ends <=> (n >= 2 /\ t[n - 1] = "CR" /\ t[n] = "LF")
      BY <2>10, <2>11
    <2>14. QED
      BY <2>12, <2>13
  <1>8. CASE Len(c) + Len(in) < Len(w)
    <2>1. ends = {}
      <3>1. ASSUME NEW k \in 1..Len(in) PROVE k \notin ends
        <4>1. PICK n \in Nat : n = Len(c) + k
          BY <1>6
        <4>2. n < Len(w)
          BY <1>6, <1>8, <4>1
        <4>3. n >= 2 => n \in 2..Len(w) - 1
          BY <1>6, <4>2
        <4>4. ~(n >= 2 /\ t[n - 1] = "CR")
          BY <1>5, <4>3
        <4> HIDE DEF ends
        <4>5. QED
          BY <1>7, <4>1, <4>4
      <3>2. QED
        BY <3>1
    <2>2. Until(piece, in) = [segment |-> [piece EXCEPT !.committed = piece.committed \o in], in |-> <<>>]
      BY <2>1 DEF Until
    <2>3. QED
      BY <1>8, <2>2
  <1>9. CASE ~(Len(c) + Len(in) < Len(w))
    <2>1. PICK e \in 1..Len(in) : e = Len(w) - Len(c)
      <3>1. \A a, b, n \in Nat : a < b /\ ~(a + n < b) => b - a \in 1..n
        OBVIOUS
      <3>2. Len(w) - Len(c) \in 1..Len(in)
        BY <1>6, <1>9, <3>1
      <3>3. QED
        BY <3>2
    <2>2. Len(c) + e = Len(w) /\ Len(w) >= 2
      BY <1>5, <1>6, <2>1
    <2>3. e \in ends
      <3> HIDE DEF ends
      <3>1. QED
        BY <1>5, <1>7, <2>2
    <2>4. ASSUME NEW k \in ends PROVE e =< k
      <3>1. k \in 1..Len(in)
        OBVIOUS
      <3>2. PICK n \in Nat : n = Len(c) + k
        BY <1>6, <3>1
      <3>3. n >= 2 /\ t[n - 1] = "CR"
        <4> HIDE DEF ends
        <4>1. QED
          BY <1>7, <2>4, <3>1, <3>2
      <3>4. n \notin 2..Len(w) - 1
        BY <1>5, <3>3
      <3>5. QED
        BY <1>6, <2>2, <3>1, <3>2, <3>3, <3>4
    <2>5. end = e
      <3>1. ends \subseteq Nat
        OBVIOUS
      <3> HIDE DEF ends
      <3>2. end \in ends /\ \A j \in ends : end =< j
        BY <2>3, <2>4
      <3> HIDE DEF end
      <3>3. QED
        BY <2>3, <2>4, <3>1, <3>2
    <2>17. e \in 0..Len(in)
      BY <2>1
    <2>6. PICK d \in Text, z \in Text : CutAt(c, in, more, t, e, d, z)
      BY <1>4, <2>17
    <2>7. Split(t, d, z) /\ Len(d) = Len(w)
      BY <2>2, <2>6 DEF CutAt
    <2>8. d = w /\ z = x
      BY <2>7, Aligned
    <2>20. d = c \o SubSeq(in, 1, e) /\ Split(z, Rest(in, e), more)
      BY <2>6 DEF CutAt
    <2>9. Taken(e) = w
      BY <2>8, <2>20
    <2>10. SubSeq(w, 1, Len(h)) = h
      <3>1. PICK a \in Text : a = h
        BY DEF Heading
      <3>2. Split(w, a, CRLF)
        BY <3>1
      <3>3. \A i \in 1..Len(a) : w[i] = a[i]
        BY <3>2, LineEnd, SplitIs
      <3>4. Len(a) =< Len(w) /\ Len(a) \in Nat
        BY <1>5, <3>1
      <3>5. 0 \in Nat /\ 0 + Len(a) =< Len(w) /\ \A i \in 1..Len(a) : w[0 + i] = a[i]
        <4>1. \A i \in 1..Len(a) : 0 + i = i
          BY <3>4
        <4>2. Len(w) \in Nat
          BY <1>6
        <4>3. QED
          BY <3>3, <3>4, <4>1, <4>2
      <3>6. SubSeq(w, 0 + 1, 0 + Len(a)) = a
        BY <3>5, Piece
      <3>7. 0 + 1 = 1 /\ 0 + Len(a) = Len(a)
        BY <3>4
      <3>8. QED
        BY <3>1, <3>6, <3>7
    <2>11. Len(piece.committed) + end - 2 = Len(h)
      <3> HIDE DEF ends, end
      <3>1. Len(w) = Len(h) + 2 /\ Len(h) \in Nat /\ Len(c) \in Nat /\ Len(c) + end = Len(w) /\ e \in Int /\ end = e
        BY <1>5, <1>6, <2>2, <2>5
      <3>2. Len(c) + end - 2 = Len(h)
        BY <3>1
      <3>3. QED
        BY <3>2
    <2>12. ends # {}
      BY <2>3
    <2>13. Until(piece, in) = [segment |-> [piece EXCEPT !.complete = TRUE,
                                                !.committed = SubSeq(Taken(end), 1, Len(piece.committed) + end - 2)],
                                 in |-> Rest(in, end)]
      <3> HIDE DEF Rest
      <3>1. QED
        BY <2>12 DEF Until
    <2>14. SubSeq(Taken(end), 1, Len(piece.committed) + end - 2) = h
      BY <2>5, <2>9, <2>10, <2>11
    <2> HIDE DEF Taken, ends, end
    <2>15. Until(piece, in) = [segment |-> [piece EXCEPT !.complete = TRUE, !.committed = h], in |-> Rest(in, e)]
      BY <2>5, <2>13, <2>14
    <2>21. PICK s : s = [piece EXCEPT !.complete = TRUE, !.committed = h]
      OBVIOUS
    <2>22. s.complete /\ s.committed = h
      BY <2>21
    <2>23. PICK q : q = Rest(in, e)
      OBVIOUS
    <2>24. Until(piece, in) = [segment |-> s, in |-> q]
      BY <2>15, <2>21, <2>23
    <2>16. Until(piece, in).segment = s /\ Until(piece, in).in = q
      BY <2>24
    <2>25. Split(x, q, more)
      BY <2>8, <2>20, <2>23
    <2>18. QED
      BY <1>9, <2>16, <2>17, <2>21, <2>22, <2>23, <2>25
  <1>10. QED
    BY <1>8, <1>9

(* What joins sequences over a set is one.                                 *)
LEMMA JoinsTyped ==
    ASSUME NEW S, NEW s \in Seq(Text), NEW n \in Nat, n =< Len(s), NEW f, Joins(s, n, f),
           \A i \in 1..n : s[i] \in Seq(S)
    PROVE  \A i \in 0..n : f[i] \in Seq(S)
  <1>1. f[0] = <<>> /\ \A i \in 1..n : f[i] = f[i - 1] \o s[i]
    BY DEF Joins
  <1> DEFINE T == {k \in Nat : k =< n => f[k] \in Seq(S)}
  <1>2. 0 \in T
    <2>1. <<>> \in Seq(S)
      OBVIOUS
    <2>2. QED
      BY <1>1, <2>1
  <1>3. ASSUME NEW k \in Nat, k \in T PROVE k + 1 \in T
    <2>1. SUFFICES ASSUME k + 1 =< n PROVE f[k + 1] \in Seq(S)
      OBVIOUS
    <2>2. PICK j \in 1..n : j = k + 1 /\ j - 1 = k
      BY <2>1
    <2>6. f[k] \in Seq(S)
      BY <1>3, <2>1
    <2>3. f[j] = f[j - 1] \o s[j] /\ s[j] \in Seq(S)
      BY <1>1
    <2>4. \A a, b \in Seq(S) : a \o b \in Seq(S)
      OBVIOUS
    <2>5. QED
      BY <2>2, <2>3, <2>4, <2>6
  <1> HIDE DEF T
  <1>4. Nat \subseteq T
    BY <1>2, <1>3, SetInduction
  <1>5. QED
    BY <1>4 DEF T

(* So is what is flattened.                                                *)
LEMMA FlattenTyped ==
    ASSUME NEW S, S \subseteq Word, NEW s \in Seq(Seq(S))
    PROVE  FlattenSeq(s) \in Seq(S)
  <1>1. s \in Seq(Text)
    <2>1. \A A, B : A \subseteq B => Seq(A) \subseteq Seq(B)
      OBVIOUS
    <2>2. Seq(S) \subseteq Text
      BY <2>1 DEF Text
    <2>3. QED
      BY <2>1, <2>2
  <1>2. PICK n \in Nat : n = Len(s)
    OBVIOUS
  <1>3. PICK f : Joins(s, n, f)
    BY <1>1, <1>2, JoinsAll
  <1>4. \A i \in 1..n : s[i] \in Seq(S)
    BY <1>2
  <1>5. n \in 0..n /\ n =< Len(s)
    BY <1>2
  <1>6. f[n] \in Seq(S)
    BY <1>1, <1>3, <1>4, <1>5, JoinsTyped
  <1>7. QED
    BY <1>1, <1>2, <1>3, <1>6, FlattenSeqIs

(* The longer they are joined the longer it gets.                          *)
LEMMA JoinsGrow ==
    ASSUME NEW s \in Seq(Text), NEW n \in Nat, n =< Len(s), NEW f, Joins(s, n, f)
    PROVE  \A i \in 0..n : Len(f[i]) \in Nat /\ Len(f[i]) =< Len(f[n])
  <1>1. f \in [0..n -> Text] /\ \A i \in 1..n : f[i] = f[i - 1] \o s[i]
    BY DEF Joins
  <1>2. \A i \in 1..n : Len(f[i - 1]) =< Len(f[i])
    <2>1. SUFFICES ASSUME NEW i \in 1..n PROVE Len(f[i - 1]) =< Len(f[i])
      OBVIOUS
    <2>2. f[i - 1] \in Text /\ s[i] \in Text /\ f[i] = f[i - 1] \o s[i]
      BY <1>1
    <2>3. /\ Len(f[i - 1] \o s[i]) = Len(f[i - 1]) + Len(s[i])
          /\ Len(f[i - 1]) \in Nat /\ Len(s[i]) \in Nat
      BY <2>2, Joined
    <2>4. \A a, b \in Nat : a =< a + b
      OBVIOUS
    <2>5. Len(f[i]) = Len(f[i - 1]) + Len(s[i])
      BY <2>2, <2>3, Zenon
    <2>6. QED
      BY <2>3, <2>4, <2>5
  <1>3. \A i \in 0..n : Len(f[i]) \in Nat
    BY <1>1 DEF Text
  <1> DEFINE T == {k \in Nat : k =< n => Len(f[n - k]) =< Len(f[n])}
  <1>4. 0 \in T
    <2>1. n - 0 = n /\ n \in 0..n
      OBVIOUS
    <2>2. QED
      BY <1>3, <2>1
  <1>5. ASSUME NEW k \in Nat, k \in T PROVE k + 1 \in T
    <2>1. SUFFICES ASSUME k + 1 =< n PROVE Len(f[n - (k + 1)]) =< Len(f[n])
      OBVIOUS
    <2>2. n - k \in 1..n /\ n - k - 1 = n - (k + 1) /\ n - k \in 0..n /\ n - (k + 1) \in 0..n /\ n \in 0..n
      BY <2>1
    <2>3. Len(f[n - (k + 1)]) =< Len(f[n - k]) /\ Len(f[n - k]) =< Len(f[n])
      BY <1>2, <1>5, <2>1, <2>2
    <2>4. QED
      BY <1>3, <2>2, <2>3
  <1> HIDE DEF T
  <1>6. Nat \subseteq T
    BY <1>4, <1>5, SetInduction
  <1>7. ASSUME NEW i \in 0..n PROVE Len(f[i]) =< Len(f[n])
    <2>1. n - i \in Nat /\ n - i =< n /\ n - (n - i) = i
      OBVIOUS
    <2>2. n - i \in T
      BY <1>6, <2>1
    <2>3. QED
      BY <2>1, <2>2 DEF T
  <1>8. QED
    BY <1>3, <1>7

(* What read_up_to_bytes leaves is a segment, and a rest of the input.     *)
LEMMA UpToTyped ==
    ASSUME NEW piece \in Pieces, NEW in \in Seq(Bytes), NEW bytes \in Nat, Len(piece.pending) =< bytes
    PROVE  UpTo(piece, in, bytes).segment \in Pieces /\ UpTo(piece, in, bytes).in \in Seq(Bytes)
  <1>1. PICK p \in Seq(Bytes) : p = piece.pending
    BY DEF Pieces
  <1>2. PICK c \in Seq(Bytes) : c = piece.committed
    BY DEF Pieces
  <1> DEFINE wanted == bytes - Len(p)
             taken == IF wanted =< Len(in) THEN wanted ELSE Len(in)
             held == p \o SubSeq(in, 1, taken)
  <1>3. taken \in 0..Len(in)
    BY <1>1
  <1>4. PICK k \in 0..Len(in) : k = taken
    BY <1>3
  <1>5. SubSeq(in, 1, k) \in Seq(Bytes) /\ Rest(in, k) \in Seq(Bytes)
    BY BytesCut
  <1>6. PICK q \in Seq(Bytes) : q = held
    BY <1>4, <1>5, BytesJoined
  <1>7. PICK r \in Seq(Bytes) : r = Rest(in, k)
    BY <1>5
  <1>8. PICK e \in Seq(Bytes) : e = c \o q
    BY BytesJoined
  <1>9. UpTo(piece, in, bytes) =
           IF bytes = 0 THEN [segment |-> [piece EXCEPT !.complete = TRUE], in |-> in]
           ELSE [segment |-> IF taken = wanted
                             THEN [complete |-> TRUE, committed |-> e, pending |-> <<>>, last |-> k]
                             ELSE [piece EXCEPT !.pending = q, !.last = k],
                 in |-> r]
    <2> HIDE DEF Rest
    <2>1. QED
      BY <1>1, <1>2, <1>4, <1>6, <1>7, <1>8 DEF UpTo
  <1> HIDE DEF held, taken, wanted
  <1>10. k \in Nat
    OBVIOUS
  <1>11. [piece EXCEPT !.complete = TRUE] \in Pieces
    BY DEF Pieces
  <1>12. [piece EXCEPT !.pending = q, !.last = k] \in Pieces
    BY <1>10 DEF Pieces
  <1>13. [complete |-> TRUE, committed |-> e, pending |-> <<>>, last |-> k] \in Pieces
    BY <1>10 DEF Pieces
  <1>14. QED
    BY <1>9, <1>11, <1>12, <1>13

(* A text is all of itself, and nothing is left behind it.                 *)
LEMMA WholeText ==
    ASSUME NEW in \in Text
    PROVE  SubSeq(in, 1, Len(in)) = in /\ Rest(in, Len(in)) = <<>>
  <1>1. PICK k \in 0..Len(in) : k = Len(in)
    BY DEF Text
  <1>2. PICK a \in Text, b \in Text : a = SubSeq(in, 1, k) /\ b = Rest(in, k)
    BY Cut
  <1>3. Len(b) = Len(in) - k /\ a \o b = in
    BY <1>2, Cut
  <1>4. Len(b) = 0
    BY <1>1, <1>3
  <1>5. \A W : \A q \in Seq(W) : Len(q) = 0 => q = <<>>
    OBVIOUS
  <1>6. b = <<>>
    BY <1>4, <1>5 DEF Text
  <1>7. a \o <<>> = a
    BY Empty
  <1>8. a = in
    BY <1>3, <1>6, <1>7, Zenon
  <1>9. QED
    BY <1>1, <1>2, <1>6, <1>8, Zenon

(* read_up_to_bytes read all there is, or the bytes e and no further.      *)
UpToRead(piece, in, more, c, p, e, y) ==
    LET r == UpTo(piece, in, Len(e))
    IN  IF Len(p) + Len(in) < Len(e)
        THEN r.in = <<>> /\ r.segment = [piece EXCEPT !.pending = p \o in, !.last = Len(in)]
        ELSE /\ r.segment.complete /\ r.segment.committed = c \o e /\ r.segment.pending = <<>>
             /\ Split(y, r.in, more)

(* It does so however they arrive.                                         *)
LEMMA UpToReads ==
    ASSUME NEW piece \in Pieces, ~piece.complete, NEW c \in Text, c = piece.committed,
           NEW p \in Text, p = piece.pending,
           NEW in \in Text, NEW more \in Text, NEW u \in Text, Split(u, in, more),
           NEW x \in Text, NEW e \in Text, NEW y \in Text, Split(x, p, u), Split(x, e, y),
           Len(p) < Len(e) \/ (Len(e) = 0 /\ p = <<>>)
    PROVE  UpToRead(piece, in, more, c, p, e, y)
  <1> SUFFICES LET r == UpTo(piece, in, Len(e))
               IN  IF Len(p) + Len(in) < Len(e)
                   THEN r.in = <<>> /\ r.segment = [piece EXCEPT !.pending = p \o in, !.last = Len(in)]
                   ELSE /\ r.segment.complete /\ r.segment.committed = c \o e /\ r.segment.pending = <<>>
                        /\ Split(y, r.in, more)
    BY Zenon DEF UpToRead
  <1>1. Len(p) \in Nat /\ Len(in) \in Nat /\ Len(e) \in Nat
    BY DEF Text
  <1> DEFINE wanted == Len(e) - Len(p)
             taken == IF wanted =< Len(in) THEN wanted ELSE Len(in)
             held == p \o SubSeq(in, 1, taken)
  <1>2. CASE Len(e) = 0
    <2>1. p = <<>> /\ ~(Len(p) + Len(in) < Len(e))
      BY <1>1, <1>2
    <2>2. e = <<>>
      <3>1. \A W : \A q \in Seq(W) : Len(q) = 0 => q = <<>>
        OBVIOUS
      <3>2. QED
        BY <1>2, <3>1 DEF Text
    <2>3. x = u /\ x = y
      <3>1. <<>> \o u = u /\ <<>> \o y = y
        BY Empty
      <3>2. QED
        BY <2>1, <2>2, <3>1, Zenon DEF Split
    <2>4. c \o e = c
      <3>1. c \o <<>> = c
        BY Empty
      <3>2. QED
        BY <2>2, <3>1
    <2>5. UpTo(piece, in, Len(e)) = [segment |-> [piece EXCEPT !.complete = TRUE], in |-> in]
      BY <1>2 DEF UpTo
    <2>6. /\ [piece EXCEPT !.complete = TRUE].complete
          /\ [piece EXCEPT !.complete = TRUE].committed = c
          /\ [piece EXCEPT !.complete = TRUE].pending = <<>>
      BY <2>1 DEF Pieces
    <2>7. PICK s : s = [piece EXCEPT !.complete = TRUE]
      OBVIOUS
    <2>8. UpTo(piece, in, Len(e)).segment = s /\ UpTo(piece, in, Len(e)).in = in
      BY <2>5, <2>7
    <2>9. s.complete /\ s.committed = c /\ s.pending = <<>>
      BY <2>6, <2>7
    <2>10. Split(y, in, more)
      BY <2>3
    <2>11. QED
      BY <2>1, <2>4, <2>8, <2>9, <2>10
  <1>3. CASE Len(e) # 0 /\ Len(p) + Len(in) < Len(e)
    <2>1. ~(wanted =< Len(in))
      BY <1>1, <1>3
    <2>2. taken = Len(in) /\ taken # wanted
      <3>1. taken = Len(in)
        BY <2>1
      <3>2. Len(in) # wanted
        BY <1>1, <2>1
      <3>3. QED
        BY <3>1, <3>2
    <2>3. held = p \o in /\ Rest(in, taken) = <<>>
      BY <2>2, WholeText
    <2>4. UpTo(piece, in, Len(e)) = [segment |-> [piece EXCEPT !.pending = held, !.last = taken], in |-> Rest(in, taken)]
      <3> HIDE DEF Rest
      <3>1. taken # wanted /\ Len(e) # 0
        BY <1>3, <2>2
      <3>2. QED
        BY <3>1 DEF UpTo
    <2> HIDE DEF held, taken, wanted
    <2>5. UpTo(piece, in, Len(e)) = [segment |-> [piece EXCEPT !.pending = p \o in, !.last = Len(in)], in |-> <<>>]
      BY <2>2, <2>3, <2>4
    <2>6. PICK s : s = [piece EXCEPT !.pending = p \o in, !.last = Len(in)]
      OBVIOUS
    <2>7. UpTo(piece, in, Len(e)).segment = s /\ UpTo(piece, in, Len(e)).in = <<>>
      BY <2>5, <2>6
    <2>8. QED
      BY <1>3, <2>6, <2>7
  <1>4. CASE Len(e) # 0 /\ ~(Len(p) + Len(in) < Len(e))
    <2>15. Len(p) < Len(e)
      BY <1>4
    <2>16. wanted \in 0..Len(in) /\ wanted =< Len(in)
      BY <1>1, <1>4, <2>15
    <2>1. PICK k \in 0..Len(in) : k = wanted
      BY <2>16
    <2>17. taken = wanted
      BY <2>16
    <2>18. Len(p) + wanted = Len(e)
      BY <1>1
    <2>2. taken = k /\ taken = wanted /\ Len(p) + k = Len(e)
      <3> HIDE DEF taken, wanted
      <3>1. QED
        BY <2>1, <2>17, <2>18
    <2>3. PICK d \in Text, z \in Text : CutAt(p, in, more, x, k, d, z)
      BY HeldIs
    <2>4. Split(x, d, z) /\ Len(d) = Len(e)
      BY <2>2, <2>3 DEF CutAt
    <2>5. d = e /\ z = y
      BY <2>4, Aligned
    <2>6. d = p \o SubSeq(in, 1, k) /\ Split(z, Rest(in, k), more)
      BY <2>3 DEF CutAt
    <2>7. held = e
      BY <2>2, <2>5, <2>6
    <2>8. UpTo(piece, in, Len(e)) =
             [segment |-> [complete |-> TRUE, committed |-> c \o held, pending |-> <<>>, last |-> taken], in |-> Rest(in, taken)]
      <3> HIDE DEF Rest
      <3>1. taken = wanted /\ Len(e) # 0
        BY <1>4, <2>2
      <3>2. QED
        BY <3>1 DEF UpTo
    <2> HIDE DEF held, taken, wanted
    <2>9. UpTo(piece, in, Len(e)) =
             [segment |-> [complete |-> TRUE, committed |-> c \o e, pending |-> <<>>, last |-> k], in |-> Rest(in, k)]
      BY <2>2, <2>7, <2>8
    <2>10. PICK s : s = [complete |-> TRUE, committed |-> c \o e, pending |-> <<>>, last |-> k]
      OBVIOUS
    <2>11. s.complete /\ s.committed = c \o e /\ s.pending = <<>>
      BY <2>10
    <2>12. UpTo(piece, in, Len(e)).segment = s /\ UpTo(piece, in, Len(e)).in = Rest(in, k)
      BY <2>9, <2>10
    <2>13. Split(y, Rest(in, k), more)
      BY <2>5, <2>6
    <2>14. QED
      BY <1>4, <2>11, <2>12, <2>13
  <1>5. QED
    BY <1>2, <1>3, <1>4

(***************************************************************************)
(* A message in chunks.                                                    *)
(***************************************************************************)

(* A message that is sent.                                                 *)
Sendable == [length : BodyLengths, chunks : Chunkings, fault : Faults]

(* The last chunk, which is empty.                                         *)
LastChunk(m) == Len(m.chunks) + 1

(* What the chunk at i is made of ...                                      *)
ChunkAt(m, i) == IF i > Len(m.chunks) THEN <<>> ELSE m.chunks[i]

(* ... what is wrong with it ...                                           *)
FaultAt(m, i) == IF i = 1 THEN m.fault ELSE "none"

(* ... how its size is written ...                                         *)
SizeText(m, i) == IF FaultAt(m, i) = "size" THEN <<"bad">> ELSE <<Digits[Len(ChunkAt(m, i)) + 1]>>

(* ... and what stands in the line after it.                               *)
SuffixText(m, i) == IF FaultAt(m, i) = "suffix" THEN <<"bad">> ELSE <<>>

(* The chunks and their parts are bytes, and what is in a line is a byte.  *)
LEMMA ChunkParts ==
    ASSUME NEW m \in Sendable
    PROVE  /\ Len(m.chunks) \in Nat /\ m.chunks \in Seq(Seq(Data))
           /\ \A i \in 1..LastChunk(m) :
                 /\ ChunkAt(m, i) \in Seq(Data) /\ ChunkAt(m, i) \in Seq(Bytes)
                 /\ Len(ChunkAt(m, i)) + 1 \in DOMAIN Digits
                 /\ Len(ChunkAt(m, i)) = 0 <=> i = LastChunk(m)
                 /\ SizeText(m, i) \in Seq(Bytes) /\ Heading(SizeText(m, i))
                 /\ SuffixText(m, i) \in Seq(Bytes) /\ Heading(SuffixText(m, i))
  <1>1. /\ m.chunks \in Seq(Seq(Data))
        /\ \A i \in DOMAIN m.chunks : Len(m.chunks[i]) \in 1..Len(Digits) - 1
    BY BodyAssumption DEF Sendable
  <1>2. PICK n \in Nat : n = Len(m.chunks) /\ DOMAIN m.chunks = 1..n
    BY <1>1
  <1>3. PICK l \in Nat : l = Len(Digits) /\ DOMAIN Digits = 1..l /\ l > 0
    BY BodyAssumption
  <1>4. Data \subseteq Bytes /\ "bad" \in Bytes /\ \A k \in 1..l : Digits[k] \in Bytes
    BY <1>3 DEF Bytes, Range
  <1>5. \A A, B : A \subseteq B => \A t \in Seq(A) : t \in Seq(B)
    OBVIOUS
  <1>6. ASSUME NEW i \in 1..LastChunk(m)
        PROVE  /\ ChunkAt(m, i) \in Seq(Data) /\ Len(ChunkAt(m, i)) + 1 \in 1..l
               /\ Len(ChunkAt(m, i)) = 0 <=> i = LastChunk(m)
    <2>1. CASE i = n + 1
      <3>1. ChunkAt(m, i) = <<>>
        BY <1>2, <2>1 DEF ChunkAt
      <3>2. <<>> \in Seq(Data) /\ Len(<<>>) = 0
        OBVIOUS
      <3>3. Len(ChunkAt(m, i)) = 0 /\ 0 + 1 \in 1..l /\ i = LastChunk(m)
        BY <1>2, <1>3, <2>1, <3>1, <3>2 DEF LastChunk
      <3>4. QED
        BY <3>1, <3>2, <3>3
    <2>2. CASE i \in 1..n
      <3>1. ChunkAt(m, i) = m.chunks[i]
        BY <1>2, <2>2 DEF ChunkAt
      <3>2. m.chunks[i] \in Seq(Data) /\ Len(m.chunks[i]) \in 1..l - 1
        BY <1>1, <1>2, <1>3, <2>2
      <3>3. Len(m.chunks[i]) + 1 \in 1..l /\ Len(m.chunks[i]) # 0
        BY <3>2
      <3>4. i # LastChunk(m)
        BY <1>2, <2>2 DEF LastChunk
      <3>5. QED
        BY <3>1, <3>2, <3>3, <3>4
    <2>3. QED
      BY <1>2, <2>1, <2>2 DEF LastChunk
  <1>7. /\ \A b : b \in Bytes /\ b # "CR" => <<b>> \in Seq(Bytes) /\ Heading(<<b>>)
        /\ <<>> \in Seq(Bytes) /\ Heading(<<>>)
    <2>1. ASSUME NEW b, b \in Bytes, b # "CR" PROVE <<b>> \in Seq(Bytes) /\ Heading(<<b>>)
      <3>1. <<b>> \in Seq(Bytes) /\ Len(<<b>>) = 1 /\ <<b>>[1] = b
        BY <2>1, Words
      <3>2. <<b>> \in Text
        BY <3>1, BytesAreText
      <3>3. \A i \in 1..1 : i = 1
        OBVIOUS
      <3>4. QED
        BY <2>1, <3>1, <3>2, <3>3 DEF Heading
    <2>2. <<>> \in Seq(Bytes) /\ Len(<<>>) = 0
      OBVIOUS
    <2>3. <<>> \in Text
      BY <2>2, BytesAreText
    <2>4. Heading(<<>>)
      BY <2>2, <2>3 DEF Heading
    <2>5. QED
      BY <2>1, <2>2, <2>4
  <1>8. "bad" # "CR" /\ \A k \in 1..l : Digits[k] # "CR"
    <2>1. \A k \in 1..l : Digits[k] \in Range(Digits)
      BY <1>3 DEF Range
    <2>2. "CR" \notin Range(Digits)
      BY BodyAssumption
    <2>3. QED
      BY <2>1, <2>2
  <1>9. ASSUME NEW i \in 1..LastChunk(m)
        PROVE  /\ SizeText(m, i) \in Seq(Bytes) /\ Heading(SizeText(m, i))
               /\ SuffixText(m, i) \in Seq(Bytes) /\ Heading(SuffixText(m, i))
    <2>1. PICK k \in 1..l : k = Len(ChunkAt(m, i)) + 1
      BY <1>6
    <2>2. SizeText(m, i) = <<"bad">> \/ SizeText(m, i) = <<Digits[k]>>
      BY <2>1 DEF SizeText
    <2>3. SuffixText(m, i) = <<"bad">> \/ SuffixText(m, i) = <<>>
      BY DEF SuffixText
    <2>4. <<Digits[k]>> \in Seq(Bytes) /\ Heading(<<Digits[k]>>)
      BY <1>4, <1>7, <1>8
    <2>5. <<"bad">> \in Seq(Bytes) /\ Heading(<<"bad">>)
      <3>1. PICK b : b = "bad"
        OBVIOUS
      <3>2. b \in Bytes /\ b # "CR"
        BY <1>4, <1>8, <3>1
      <3>3. <<b>> \in Seq(Bytes) /\ Heading(<<b>>)
        BY <1>7, <3>2
      <3>4. QED
        BY <3>1, <3>3
    <2>6. QED
      BY <1>7, <2>2, <2>3, <2>4, <2>5
  <1>10. QED
    BY <1>1, <1>2, <1>3, <1>4, <1>5, <1>6, <1>9

(* The size line and the line after the chunk.                             *)
SizeLine(m, i) == SizeText(m, i) \o CRLF

(* The line after a chunk.                                                 *)
SuffixLine(m, i) == SuffixText(m, i) \o CRLF

(* What follows the bytes of the chunk at i, if next follows the chunk.    *)
BehindData(m, i, next) == SuffixLine(m, i) \o next

(* What follows its size.                                                  *)
BehindSize(m, i, next) == ChunkAt(m, i) \o BehindData(m, i, next)

(* T[i] is what follows the first i - 1 chunks.                            *)
Stream(m, T) ==
    /\ T \in [1..LastChunk(m) + 1 -> Text]
    /\ T[1] = Encoded(m) /\ T[LastChunk(m) + 1] = Following
    /\ \A i \in 1..LastChunk(m) : T[i] = SizeLine(m, i) \o BehindSize(m, i, T[i + 1])

(* A text may be put together from either end, if it has four parts ...    *)
FromEither(a, d, f, t) == ((a \o d) \o f) \o t = a \o (d \o (f \o t))

(* It may.                                                                 *)
LEMMA FourParts ==
    ASSUME NEW a \in Text, NEW d \in Text, NEW f \in Text, NEW t \in Text
    PROVE  FromEither(a, d, f, t)
  <1>1. (a \o d) \in Text /\ f \o t \in Text
    BY Joined
  <1>2. ((a \o d) \o f) \o t = (a \o d) \o (f \o t)
    <2>1. Regrouped(a \o d, f, t)
      BY <1>1, Associative
    <2>2. QED
      BY <2>1, Zenon DEF Regrouped
  <1>3. (a \o d) \o (f \o t) = a \o (d \o (f \o t))
    <2>1. Regrouped(a, d, f \o t)
      BY <1>1, Associative
    <2>2. QED
      BY <2>1, Zenon DEF Regrouped
  <1>4. QED
    BY <1>2, <1>3, Zenon DEF FromEither

(* ... and if it has five.                                                 *)
InParts(a, d, f, r, t) == (((a \o d) \o f) \o r) \o t = a \o (d \o ((f \o r) \o t))

(* It may, too.                                                            *)
LEMMA FiveParts ==
    ASSUME NEW a \in Text, NEW d \in Text, NEW f \in Text, NEW r \in Text, NEW t \in Text
    PROVE  InParts(a, d, f, r, t)
  <1>1. (a \o d) \in Text
    BY Joined
  <1>2. FromEither(a \o d, f, r, t)
    BY <1>1, FourParts
  <1>3. f \o (r \o t) = (f \o r) \o t
    <2>1. Regrouped(f, r, t)
      BY Associative
    <2>2. QED
      BY <2>1, Zenon DEF Regrouped
  <1>4. (f \o r) \o t \in Text
    <2>1. f \o r \in Text
      BY Joined
    <2>2. QED
      BY <2>1, Joined
  <1>5. (a \o d) \o ((f \o r) \o t) = a \o (d \o ((f \o r) \o t))
    <2>1. Regrouped(a, d, (f \o r) \o t)
      BY <1>4, Associative
    <2>2. QED
      BY <2>1, Zenon DEF Regrouped
  <1>6. (((a \o d) \o f) \o r) \o t = (a \o d) \o (f \o (r \o t))
    BY <1>2, Zenon DEF FromEither
  <1>7. QED
    BY <1>3, <1>5, <1>6, Zenon DEF InParts

(* A chunk and what follows it.                                            *)
LEMMA ChunkIs ==
    ASSUME NEW m \in Sendable, NEW i \in 1..LastChunk(m), NEW t \in Text
    PROVE  /\ Chunk(ChunkAt(m, i), FaultAt(m, i)) \in Seq(Bytes)
           /\ Chunk(ChunkAt(m, i), FaultAt(m, i)) \o t = SizeLine(m, i) \o BehindSize(m, i, t)
  <1>1. PICK h \in Seq(Bytes) : h = SizeText(m, i)
    BY ChunkParts
  <1>2. PICK d \in Seq(Bytes) : d = ChunkAt(m, i)
    BY ChunkParts
  <1>3. PICK f \in Seq(Bytes) : f = SuffixText(m, i)
    BY ChunkParts
  <1>4. PICK r \in Seq(Bytes) : r = CRLF
    <2>1. "CR" \in Bytes /\ "LF" \in Bytes
      BY BodyAssumption DEF Bytes
    <2>2. \A a, b \in Bytes : <<a, b>> \in Seq(Bytes)
      BY Words
    <2>3. QED
      BY <2>1, <2>2 DEF CRLF
  <1>5. PICK a \in Seq(Bytes) : a = h \o r
    BY BytesJoined
  <1>6. PICK ad \in Seq(Bytes) : ad = a \o d
    BY BytesJoined
  <1>7. PICK adf \in Seq(Bytes) : adf = ad \o f
    BY BytesJoined
  <1>8. PICK c \in Seq(Bytes) : c = adf \o r
    BY BytesJoined
  <1>9. Chunk(ChunkAt(m, i), FaultAt(m, i)) = c
    BY <1>1, <1>2, <1>3, <1>4, <1>5, <1>6, <1>7, <1>8 DEF Chunk, SizeText, SuffixText
  <1>10. a \in Text /\ d \in Text /\ f \in Text /\ r \in Text
    BY BytesAreText
  <1>11. (((a \o d) \o f) \o r) \o t = a \o (d \o ((f \o r) \o t))
    <2>1. InParts(a, d, f, r, t)
      BY <1>10, FiveParts
    <2>2. QED
      BY <2>1, Zenon DEF InParts
  <1>12. c \o t = a \o (d \o ((f \o r) \o t))
    BY <1>6, <1>7, <1>8, <1>11, Zenon
  <1>13. SizeLine(m, i) = a /\ BehindSize(m, i, t) = d \o ((f \o r) \o t)
    BY <1>1, <1>2, <1>3, <1>4, <1>5, Zenon DEF SizeLine, BehindSize, BehindData, SuffixLine
  <1>14. QED
    BY <1>9, <1>12, <1>13, Zenon

(* Behind every one of the texts that are joined stands the rest.          *)
LEMMA Tails ==
    ASSUME NEW s \in Seq(Text), NEW n \in Nat, n =< Len(s), NEW f, Joins(s, n, f),
           NEW E \in Text, NEW F \in Text, Split(E, f[n], F)
    PROVE  \E T \in [1..n + 1 -> Text] :
              T[1] = E /\ T[n + 1] = F /\ \A i \in 1..n : Split(T[i], s[i], T[i + 1])
  <1>1. /\ f \in [0..n -> Text] /\ f[0] = <<>>
        /\ \A i \in 1..n : s[i] \in Text /\ Split(f[i], f[i - 1], s[i])
    <2>1. f \in [0..n -> Text] /\ f[0] = <<>> /\ \A i \in 1..n : f[i] = f[i - 1] \o s[i]
      BY DEF Joins
    <2>2. \A i \in 1..n : s[i] \in Text
      OBVIOUS
    <2>3. \A i \in 1..n : Split(f[i], f[i - 1], s[i])
      BY <2>1, Zenon DEF Split
    <2>4. QED
      BY <2>1, <2>2, <2>3
  <1>2. ASSUME NEW i \in 1..n, NEW z \in Text, Split(E, f[i], z)
        PROVE  \E y \in Text : Split(y, s[i], z) /\ Split(E, f[i - 1], y)
    <2>1. PICK a \in Text, b \in Text, c \in Text : a = f[i - 1] /\ b = f[i] /\ c = s[i]
      BY <1>1
    <2>2. Split(b, a, c) /\ Split(E, b, z)
      BY <1>1, <1>2, <2>1
    <2>3. PICK y \in Text : Split(y, c, z)
      <3>1. c \o z \in Text
        BY Joined
      <3>2. QED
        BY <3>1 DEF Split
    <2>4. Split(E, a, y)
      BY <2>2, <2>3, SplitLeft
    <2>5. QED
      BY <2>1, <2>3, <2>4
  <1> DEFINE K == {k \in Nat : k =< n => \E z \in Text : Split(E, f[n - k], z)}
  <1>3. 0 \in K
    <2>1. n - 0 = n
      OBVIOUS
    <2>2. QED
      BY <2>1
  <1>4. ASSUME NEW k \in Nat, k \in K PROVE k + 1 \in K
    <2>1. SUFFICES ASSUME k + 1 =< n PROVE \E z \in Text : Split(E, f[n - (k + 1)], z)
      OBVIOUS
    <2>2. PICK j \in 1..n : j = n - k /\ j - 1 = n - (k + 1)
      BY <2>1
    <2>3. PICK z \in Text : Split(E, f[j], z)
      BY <1>4, <2>1, <2>2
    <2>4. PICK y \in Text : Split(E, f[j - 1], y)
      BY <1>2, <2>3
    <2>5. QED
      BY <2>2, <2>4
  <1> HIDE DEF K
  <1>5. Nat \subseteq K
    BY <1>3, <1>4, SetInduction
  <1>6. ASSUME NEW i \in 0..n PROVE \E z \in Text : Split(E, f[i], z)
    <2>1. n - i \in Nat /\ n - i =< n /\ n - (n - i) = i
      OBVIOUS
    <2>2. n - i \in K
      BY <1>5, <2>1
    <2>3. QED
      BY <2>1, <2>2 DEF K
  <1> DEFINE Rear(i) == CHOOSE z \in Text : Split(E, f[i - 1], z)
             T == [i \in 1..n + 1 |-> Rear(i)]
  <1>7. ASSUME NEW i \in 1..n + 1 PROVE T[i] \in Text /\ Split(E, f[i - 1], T[i])
    <2>1. i - 1 \in 0..n
      OBVIOUS
    <2>2. \E z \in Text : Split(E, f[i - 1], z)
      BY <1>6, <2>1
    <2>3. Rear(i) \in Text /\ Split(E, f[i - 1], Rear(i))
      BY <2>2
    <2>4. T[i] = Rear(i)
      OBVIOUS
    <2>5. QED
      BY <2>3, <2>4
  <1>8. T \in [1..n + 1 -> Text]
    <2>1. ASSUME NEW i \in 1..n + 1 PROVE Rear(i) \in Text
      BY <1>7
    <2>2. QED
      BY <2>1
  <1> HIDE DEF T
  <1>9. ASSUME NEW i \in 1..n + 1, NEW z \in Text, Split(E, f[i - 1], z) PROVE T[i] = z
    <2>1. i - 1 \in 0..n
      OBVIOUS
    <2>2. PICK a \in Text : a = f[i - 1]
      BY <1>1, <2>1
    <2>3. PICK y \in Text : y = T[i]
      BY <1>7
    <2>4. Split(E, a, y) /\ Split(E, a, z) /\ Len(a) = Len(a)
      BY <1>7, <1>9, <2>2, <2>3
    <2>5. y = z
      BY <2>4, Aligned
    <2>6. QED
      BY <2>3, <2>5
  <1>10. T[1] = E
    <2>1. 1 \in 1..n + 1 /\ 1 - 1 = 0
      OBVIOUS
    <2>2. Split(E, <<>>, E)
      <3>1. <<>> \o E = E
        BY Empty
      <3>2. QED
        BY <3>1, Zenon DEF Split
    <2>3. Split(E, f[1 - 1], E)
      BY <1>1, <2>1, <2>2
    <2>4. QED
      BY <1>9, <2>1, <2>3
  <1>11. T[n + 1] = F
    <2>1. n + 1 \in 1..n + 1 /\ n + 1 - 1 = n
      OBVIOUS
    <2>2. Split(E, f[n + 1 - 1], F)
      BY <2>1
    <2>3. QED
      BY <1>9, <2>1, <2>2
  <1>12. ASSUME NEW i \in 1..n PROVE Split(T[i], s[i], T[i + 1])
    <2>1. i + 1 \in 1..n + 1 /\ i + 1 - 1 = i /\ i \in 1..n + 1
      OBVIOUS
    <2>2. T[i + 1] \in Text /\ Split(E, f[i], T[i + 1])
      BY <1>7, <2>1
    <2>3. PICK y \in Text : Split(y, s[i], T[i + 1]) /\ Split(E, f[i - 1], y)
      BY <1>2, <2>2
    <2>4. T[i] = y
      BY <1>9, <2>1, <2>3
    <2>5. QED
      BY <2>3, <2>4
  <1>13. QED
    BY <1>8, <1>10, <1>11, <1>12

(* What is sent is bytes.                                                  *)
LEMMA SentIsBytes ==
    ASSUME NEW m \in Sendable
    PROVE  /\ FlattenSeq(m.chunks) \in Seq(Data) /\ FlattenSeq(m.chunks) \in Seq(Bytes)
           /\ Following \in Seq(Bytes) /\ Encoded(m) \in Seq(Bytes)
  <1>1. Data \subseteq Bytes /\ "next" \in Bytes /\ "LF" \in Bytes /\ Bytes \subseteq Word /\ Data \subseteq Word
    BY BodyAssumption DEF Bytes, Word
  <1>2. \A A, B : A \subseteq B => \A t \in Seq(A) : t \in Seq(B)
    OBVIOUS
  <1>3. FlattenSeq(m.chunks) \in Seq(Data)
    BY <1>1, ChunkParts, FlattenTyped
  <1>4. FlattenSeq(m.chunks) \in Seq(Bytes)
    BY <1>1, <1>2, <1>3
  <1>5. Following \in Seq(Bytes)
    <2>1. \A a, b \in Bytes : <<a, b>> \in Seq(Bytes)
      BY Words
    <2>2. QED
      BY <1>1, <2>1 DEF Following
  <1> DEFINE s == [i \in 1..LastChunk(m) |-> Chunk(ChunkAt(m, i), FaultAt(m, i))]
  <1>6. s \in Seq(Seq(Bytes))
    <2>1. \A i \in 1..LastChunk(m) : Chunk(ChunkAt(m, i), FaultAt(m, i)) \in Seq(Bytes)
      <3>1. <<>> \in Text
        BY DEF Text
      <3>2. QED
        BY <3>1, ChunkIs
    <2>2. LastChunk(m) \in Nat
      BY ChunkParts DEF LastChunk
    <2>3. QED
      BY <2>1, <2>2
  <1>7. FlattenSeq(s) \in Seq(Bytes)
    <2> HIDE DEF s
    <2>1. QED
      BY <1>1, <1>6, FlattenTyped
  <1>8. FlattenSeq(s) \o Following \in Seq(Bytes)
    <2> HIDE DEF s
    <2>1. QED
      BY <1>5, <1>7, BytesJoined
  <1>9. FlattenSeq(m.chunks) \o Following \in Seq(Bytes) /\ FlattenSeq(m.chunks) \o <<>> \in Seq(Bytes)
    <2>1. <<>> \in Seq(Bytes)
      OBVIOUS
    <2>2. QED
      BY <1>4, <1>5, <2>1, BytesJoined
  <1>10. Encoded(m) = IF m.length = "chunked" THEN FlattenSeq(s) \o Following
                      ELSE FlattenSeq(m.chunks) \o (IF m.length = "given" THEN Following ELSE <<>>)
    BY DEF Encoded, ChunkAt, FaultAt, LastChunk
  <1> HIDE DEF s
  <1>11. QED
    BY <1>3, <1>4, <1>5, <1>8, <1>9, <1>10

(* A text of which held is read, in has arrived, and more is to come.      *)
Standing(t, held, in, more) == \E u \in Text : Split(u, in, more) /\ Split(t, held, u)

(* What comes may be cut, and its first part put behind what arrived.      *)
LEMMA Rearranged ==
    ASSUME NEW in \in Text, NEW more \in Text, NEW k \in 0..Len(more), NEW u \in Text, Split(u, in, more)
    PROVE  Split(u, in \o SubSeq(more, 1, k), Rest(more, k))
  <1>1. PICK a \in Text, b \in Text : a = SubSeq(more, 1, k) /\ b = Rest(more, k)
    BY Cut
  <1>2. a \o b = more
    BY <1>1, Cut
  <1>3. (in \o a) \o b = in \o (a \o b)
    <2>1. Regrouped(in, a, b)
      BY Associative
    <2>2. QED
      BY <2>1, Zenon DEF Regrouped
  <1>4. u = in \o more
    BY Zenon DEF Split
  <1>5. u = (in \o a) \o b
    BY <1>2, <1>3, <1>4, Zenon
  <1>6. Split(u, in \o a, b)
    BY <1>5, Zenon DEF Split
  <1>7. QED
    BY <1>1, <1>6, Zenon

(* It stands where it stood when some more arrives.                        *)
LEMMA StandingArrives ==
    ASSUME NEW t \in Text, NEW c \in Text, NEW in \in Text, NEW more \in Text, Standing(t, c, in, more),
           NEW k \in 0..Len(more)
    PROVE  Standing(t, c, in \o SubSeq(more, 1, k), Rest(more, k))
  <1>1. PICK u \in Text : Split(u, in, more) /\ Split(t, c, u)
    BY DEF Standing
  <1>2. Split(u, in, more)
    BY <1>1
  <1>3. Split(u, in \o SubSeq(more, 1, k), Rest(more, k))
    BY <1>2, Rearranged
  <1>4. QED
    BY <1>1, <1>3 DEF Standing

(* All that has arrived may be read.                                       *)
LEMMA StandingTaken ==
    ASSUME NEW t \in Text, NEW c \in Text, NEW in \in Text, NEW more \in Text, Standing(t, c, in, more)
    PROVE  Standing(t, c \o in, <<>>, more)
  <1>1. PICK u \in Text : Split(u, in, more) /\ Split(t, c, u)
    BY DEF Standing
  <1>2. (c \o in) \o more = c \o (in \o more)
    <2>1. Regrouped(c, in, more)
      BY Associative
    <2>2. QED
      BY <2>1, Zenon DEF Regrouped
  <1>3. t = c \o u /\ u = in \o more
    BY <1>1, Zenon DEF Split
  <1>4. t = (c \o in) \o more
    BY <1>2, <1>3, Zenon
  <1>5. Split(t, c \o in, more)
    BY <1>4, Zenon DEF Split
  <1>6. Split(more, <<>>, more)
    <2>1. <<>> \o more = more
      BY Empty
    <2>2. QED
      BY <2>1, Zenon DEF Split
  <1>7. QED
    BY <1>5, <1>6 DEF Standing

(* How long its parts are.                                                 *)
LEMMA StandingLength ==
    ASSUME NEW t \in Text, NEW c \in Text, NEW in \in Text, NEW more \in Text, Standing(t, c, in, more)
    PROVE  /\ Len(t) \in Nat /\ Len(c) \in Nat /\ Len(in) \in Nat /\ Len(more) \in Nat
           /\ Len(t) = Len(c) + Len(in) + Len(more)
  <1>1. PICK u \in Text : Split(u, in, more) /\ Split(t, c, u)
    BY DEF Standing
  <1>2. Split(u, in, more)
    BY <1>1
  <1>3. Split(t, c, u)
    BY <1>1
  <1>4. Len(u) = Len(in) + Len(more) /\ Len(in) \in Nat /\ Len(more) \in Nat
    BY <1>2, SplitIs
  <1>5. Len(t) = Len(c) + Len(u) /\ Len(c) \in Nat
    BY <1>3, SplitIs
  <1>6. QED
    BY <1>4, <1>5

(* Nothing of it is read at first.                                         *)
LEMMA StandingFresh ==
    ASSUME NEW t \in Text, NEW in \in Text, NEW more \in Text
    PROVE  Standing(t, <<>>, in, more) <=> Split(t, in, more)
  <1>1. <<>> \o t = t
    BY Empty
  <1>2. ASSUME Split(t, in, more) PROVE Standing(t, <<>>, in, more)
    <2>1. Split(t, <<>>, t)
      BY <1>1, Zenon DEF Split
    <2>2. QED
      BY <1>2, <2>1 DEF Standing
  <1>3. ASSUME Standing(t, <<>>, in, more) PROVE Split(t, in, more)
    <2>1. PICK u \in Text : Split(u, in, more) /\ Split(t, <<>>, u)
      BY <1>3 DEF Standing
    <2>2. <<>> \o u = u
      BY Empty
    <2>3. t = u
      BY <2>1, <2>2, Zenon DEF Split
    <2>4. QED
      BY <2>1, <2>3
  <1>4. QED
    BY <1>2, <1>3

(* read_until took all there is of t, or the line w with the head h and no *)
(* further: x follows the line.                                            *)
LineTaken(r, t, h, w, x, more) ==
    /\ r.segment \in Pieces /\ r.in \in Seq(Bytes)
    /\ ~r.segment.complete => /\ r.in = <<>> /\ Standing(t, r.segment.committed, r.in, more)
                              /\ Len(r.segment.committed) < Len(w)
    /\ r.segment.complete => r.segment.committed = h /\ Standing(x, <<>>, r.in, more)

(* A line is read as what stands in it, and what follows it is left.       *)
LEMMA LineReads ==
    ASSUME NEW piece \in Pieces, ~piece.complete,
           NEW in \in Seq(Bytes), NEW more \in Seq(Bytes), NEW t \in Text, NEW x \in Text,
           NEW h \in Seq(Bytes), Heading(h), NEW w \in Text, Split(w, h, CRLF), Split(t, w, x),
           Standing(t, piece.committed, in, more), Len(piece.committed) < Len(w)
    PROVE  LineTaken(Until(piece, in), t, h, w, x, more)
  <1> SUFFICES LET r == Until(piece, in)
               IN  /\ r.segment \in Pieces /\ r.in \in Seq(Bytes)
                   /\ ~r.segment.complete => /\ r.in = <<>> /\ Standing(t, r.segment.committed, r.in, more)
                                             /\ Len(r.segment.committed) < Len(w)
                   /\ r.segment.complete => r.segment.committed = h /\ Standing(x, <<>>, r.in, more)
    BY Zenon DEF LineTaken
  <1>1. PICK c \in Seq(Bytes) : c = piece.committed
    BY DEF Pieces
  <1>2. c \in Text /\ in \in Text /\ more \in Text /\ h \in Text
    BY BytesAreText
  <1>3. PICK u \in Text : Split(u, in, more) /\ Split(t, c, u)
    BY <1>1 DEF Standing
  <1>4. {"complete", "committed", "pending", "last"} \subseteq DOMAIN piece
    BY DEF Pieces
  <1>5. Len(c) < Len(w)
    BY <1>1
  <1>6. PICK r : r = Until(piece, in)
    OBVIOUS
  <1>7. IF Len(c) + Len(in) < Len(w)
        THEN r = [segment |-> [piece EXCEPT !.committed = c \o in], in |-> <<>>]
        ELSE /\ r.segment = [piece EXCEPT !.complete = TRUE, !.committed = h]
             /\ r.segment.complete /\ r.segment.committed = h
             /\ Split(x, r.in, more)
             /\ \E k \in 0..Len(in) : r.in = Rest(in, k)
    <2>1. Split(u, in, more)
      BY <1>3
    <2>2. Split(t, c, u)
      BY <1>3
    <2>3. UntilRead(piece, in, more, c, h, w, x)
      BY <1>1, <1>2, <1>5, <2>1, <2>2, UntilReads
    <2>4. QED
      BY <1>6, <2>3, Zenon DEF UntilRead
  <1>8. CASE Len(c) + Len(in) < Len(w)
    <2>1. PICK d \in Seq(Bytes) : d = c \o in
      BY BytesJoined
    <2>2. PICK s : s = [piece EXCEPT !.committed = d]
      OBVIOUS
    <2>3. s \in Pieces /\ s.committed = d /\ ~s.complete
      BY <2>2 DEF Pieces
    <2>4. r = [segment |-> s, in |-> <<>>]
      BY <1>7, <1>8, <2>1, <2>2
    <2>5. r.segment = s /\ r.in = <<>>
      BY <2>4
    <2>6. Standing(t, d, <<>>, more)
      <3>1. Standing(t, c, in, more)
        BY <1>1
      <3>2. Standing(t, c \o in, <<>>, more)
        BY <1>2, <3>1, StandingTaken
      <3>3. QED
        BY <2>1, <3>2
    <2>7. Len(d) = Len(c) + Len(in)
      BY <1>2, <2>1, Joined
    <2>8. <<>> \in Seq(Bytes)
      OBVIOUS
    <2>9. QED
      BY <1>6, <1>8, <2>3, <2>5, <2>6, <2>7, <2>8
  <1>9. CASE ~(Len(c) + Len(in) < Len(w))
    <2>1. PICK s : s = [piece EXCEPT !.complete = TRUE, !.committed = h]
      OBVIOUS
    <2>2. s \in Pieces /\ s.committed = h /\ s.complete
      BY <2>1 DEF Pieces
    <2>3. r.segment = s /\ Split(x, r.in, more) /\ \E k \in 0..Len(in) : r.in = Rest(in, k)
      BY <1>7, <1>9, <2>1
    <2>4. r.in \in Seq(Bytes)
      BY <2>3, BytesCut
    <2>5. Standing(x, <<>>, r.in, more)
      <3>1. r.in \in Text
        BY <2>4, BytesAreText
      <3>2. QED
        BY <1>2, <2>3, <3>1, StandingFresh
    <2>6. QED
      BY <1>6, <2>2, <2>3, <2>4, <2>5
  <1>10. QED
    BY <1>8, <1>9

(* read_up_to_bytes took all there is, or the bytes e and no further: e is *)
(* a chunk, or a body.                                                     *)
BytesTaken(r, c, e, x, y, more) ==
    /\ r.segment \in Pieces /\ r.in \in Seq(Bytes)
    /\ ~r.segment.complete => /\ r.in = <<>> /\ Standing(x, r.segment.pending, r.in, more)
                              /\ r.segment.committed = c
                              /\ Len(r.segment.pending) < Len(e)
    /\ r.segment.complete => /\ r.segment.committed = c \o e
                             /\ r.segment.pending = <<>>
                             /\ Standing(y, <<>>, r.in, more)

(* read_up_to_bytes takes them so.                                         *)
LEMMA BytesRead ==
    ASSUME NEW piece \in Pieces, ~piece.complete,
           NEW in \in Seq(Bytes), NEW more \in Seq(Bytes), NEW x \in Text, NEW y \in Text,
           NEW e \in Seq(Bytes), Split(x, e, y), Standing(x, piece.pending, in, more),
           Len(piece.pending) < Len(e) \/ (Len(e) = 0 /\ piece.pending = <<>>)
    PROVE  BytesTaken(UpTo(piece, in, Len(e)), piece.committed, e, x, y, more)
  <1> SUFFICES LET r == UpTo(piece, in, Len(e))
               IN  /\ r.segment \in Pieces /\ r.in \in Seq(Bytes)
                   /\ ~r.segment.complete => /\ r.in = <<>> /\ Standing(x, r.segment.pending, r.in, more)
                                             /\ r.segment.committed = piece.committed
                                             /\ Len(r.segment.pending) < Len(e)
                   /\ r.segment.complete => /\ r.segment.committed = piece.committed \o e
                                            /\ r.segment.pending = <<>>
                                            /\ Standing(y, <<>>, r.in, more)
    BY Zenon DEF BytesTaken
  <1>1. PICK c \in Seq(Bytes) : c = piece.committed
    BY DEF Pieces
  <1>2. PICK p \in Seq(Bytes) : p = piece.pending
    BY DEF Pieces
  <1>3. c \in Text /\ p \in Text /\ in \in Text /\ more \in Text /\ e \in Text
    BY BytesAreText
  <1>4. PICK u \in Text : Split(u, in, more) /\ Split(x, p, u)
    BY <1>2 DEF Standing
  <1>5. PICK r : r = UpTo(piece, in, Len(e))
    OBVIOUS
  <1>6. Len(p) < Len(e) \/ (Len(e) = 0 /\ p = <<>>)
    BY <1>2
  <1>7. r.segment \in Pieces /\ r.in \in Seq(Bytes)
    <2>1. Len(e) \in Nat /\ Len(piece.pending) =< Len(e)
      BY <1>2, <1>6
    <2>2. QED
      BY <1>5, <2>1, UpToTyped
  <1>8. IF Len(p) + Len(in) < Len(e)
        THEN r.in = <<>> /\ r.segment = [piece EXCEPT !.pending = p \o in, !.last = Len(in)]
        ELSE /\ r.segment.complete /\ r.segment.committed = c \o e /\ r.segment.pending = <<>>
             /\ Split(y, r.in, more)
    <2>1. Split(u, in, more)
      BY <1>4
    <2>2. Split(x, p, u)
      BY <1>4
    <2>3. UpToRead(piece, in, more, c, p, e, y)
      BY <1>1, <1>2, <1>3, <1>6, <2>1, <2>2, UpToReads
    <2>4. QED
      BY <1>5, <2>3, Zenon DEF UpToRead
  <1>9. CASE Len(p) + Len(in) < Len(e)
    <2>1. PICK d \in Seq(Bytes) : d = p \o in
      BY BytesJoined
    <2>2. PICK s : s = [piece EXCEPT !.pending = d, !.last = Len(in)]
      OBVIOUS
    <2>3. s.pending = d /\ s.committed = c /\ ~s.complete
      BY <1>1, <2>2 DEF Pieces
    <2>4. r.segment = s /\ r.in = <<>>
      BY <1>8, <1>9, <2>1, <2>2
    <2>6. Standing(x, d, <<>>, more)
      <3>1. Standing(x, p, in, more)
        BY <1>2
      <3>2. Standing(x, p \o in, <<>>, more)
        BY <1>3, <3>1, StandingTaken
      <3>3. QED
        BY <2>1, <3>2
    <2>7. Len(d) = Len(p) + Len(in)
      BY <1>3, <2>1, Joined
    <2>9. QED
      BY <1>1, <1>5, <1>7, <1>9, <2>3, <2>4, <2>6, <2>7
  <1>10. CASE ~(Len(p) + Len(in) < Len(e))
    <2>1. r.segment.complete /\ r.segment.committed = c \o e /\ r.segment.pending = <<>> /\ Split(y, r.in, more)
      BY <1>8, <1>10
    <2>2. Standing(y, <<>>, r.in, more)
      <3>1. r.in \in Text
        BY <1>7, BytesAreText
      <3>2. QED
        BY <1>3, <2>1, <3>1, StandingFresh
    <2>3. QED
      BY <1>1, <1>5, <1>7, <2>1, <2>2
  <1>11. QED
    BY <1>9, <1>10

(* B[i] is the body once the first i chunks are read.                      *)
Grown(m, B) ==
    /\ B \in [0..LastChunk(m) -> Seq(Bytes)]
    /\ B[0] = <<>> /\ B[LastChunk(m)] = FlattenSeq(m.chunks)
    /\ \A i \in 1..LastChunk(m) : B[i] = B[i - 1] \o ChunkAt(m, i)
    /\ \A i \in 0..LastChunk(m) : Len(B[i]) =< Len(B[LastChunk(m)])

(* A message in chunks has such parts.                                     *)
LEMMA StreamExists ==
    ASSUME NEW m \in Sendable, m.length = "chunked"
    PROVE  \E T : Stream(m, T)
  <1>1. PICK n \in Nat : n = LastChunk(m)
    BY ChunkParts DEF LastChunk
  <1> DEFINE s == [i \in 1..n |-> Chunk(ChunkAt(m, i), FaultAt(m, i))]
  <1>2. \A i \in 1..n : s[i] = Chunk(ChunkAt(m, i), FaultAt(m, i))
    OBVIOUS
  <1>3. \A i \in 1..n : s[i] \in Seq(Bytes) /\ s[i] \in Text
    <2>1. SUFFICES ASSUME NEW i \in 1..n PROVE s[i] \in Seq(Bytes) /\ s[i] \in Text
      OBVIOUS
    <2>2. <<>> \in Text
      BY DEF Text
    <2>3. Chunk(ChunkAt(m, i), FaultAt(m, i)) \in Seq(Bytes)
      BY <1>1, <2>2, ChunkIs
    <2>4. s[i] \in Seq(Bytes)
      BY <1>2, <2>3
    <2>5. QED
      BY <2>4, BytesAreText
  <1>4. s \in Seq(Text) /\ Len(s) = n
    BY <1>3
  <1>5. Encoded(m) = FlattenSeq(s) \o Following
    BY <1>1 DEF Encoded, ChunkAt, FaultAt, LastChunk
  <1> HIDE DEF s
  <1>6. PICK f : Joins(s, n, f)
    BY <1>4, JoinsAll
  <1>7. FlattenSeq(s) = f[n]
    BY <1>4, <1>6, FlattenSeqIs
  <1>8. PICK E \in Text, F \in Text : E = Encoded(m) /\ F = Following
    BY SentIsBytes, BytesAreText
  <1>9. Split(E, f[n], F)
    BY <1>5, <1>7, <1>8, Zenon DEF Split
  <1>10. PICK T \in [1..n + 1 -> Text] :
            T[1] = E /\ T[n + 1] = F /\ \A i \in 1..n : Split(T[i], s[i], T[i + 1])
    <2>1. n =< Len(s) /\ s \in Seq(Text)
      BY <1>4
    <2>2. QED
      BY <1>6, <1>9, <2>1, Tails
  <1>11. ASSUME NEW i \in 1..n PROVE T[i] = SizeLine(m, i) \o BehindSize(m, i, T[i + 1])
    <2>1. i + 1 \in 1..n + 1
      OBVIOUS
    <2>2. PICK t \in Text : t = T[i + 1]
      BY <2>1
    <2>3. Chunk(ChunkAt(m, i), FaultAt(m, i)) \o t = SizeLine(m, i) \o BehindSize(m, i, t)
      BY <1>1, ChunkIs
    <2>4. Split(T[i], Chunk(ChunkAt(m, i), FaultAt(m, i)), t)
      BY <1>2, <1>10, <2>2
    <2>5. QED
      BY <2>2, <2>3, <2>4, Zenon DEF Split
  <1>12. Stream(m, T)
    BY <1>1, <1>8, <1>10, <1>11 DEF Stream
  <1>13. QED
    BY <1>12

(* So has its body.                                                        *)
LEMMA GrownExists ==
    ASSUME NEW m \in Sendable
    PROVE  \E B : Grown(m, B)
  <1>1. PICK n \in Nat : n = Len(m.chunks)
    BY ChunkParts
  <1>2. PICK s : s = m.chunks
    OBVIOUS
  <1>3. s \in Seq(Seq(Data)) /\ Len(s) = n
    BY <1>1, <1>2, ChunkParts
  <1>4. Data \subseteq Bytes
    BY DEF Bytes
  <1>5. \A i \in 1..n : s[i] \in Seq(Bytes) /\ s[i] \in Text
    <2>1. \A A, C : A \subseteq C => \A t \in Seq(A) : t \in Seq(C)
      OBVIOUS
    <2>2. \A i \in 1..n : s[i] \in Seq(Data)
      BY <1>3
    <2>3. \A i \in 1..n : s[i] \in Seq(Bytes)
      BY <1>4, <2>1, <2>2
    <2>4. QED
      BY <2>3, BytesAreText
  <1>6. s \in Seq(Text)
    BY <1>3, <1>5
  <1>7. PICK f : Joins(s, n, f)
    BY <1>3, <1>6, JoinsAll
  <1>8. f[0] = <<>> /\ \A i \in 1..n : f[i] = f[i - 1] \o s[i]
    BY <1>7 DEF Joins
  <1>9. \A i \in 0..n : f[i] \in Seq(Bytes)
    BY <1>3, <1>5, <1>6, <1>7, JoinsTyped
  <1>10. \A i \in 0..n : Len(f[i]) \in Nat /\ Len(f[i]) =< Len(f[n])
    BY <1>3, <1>6, <1>7, JoinsGrow
  <1>11. FlattenSeq(s) = f[n]
    BY <1>3, <1>6, <1>7, FlattenSeqIs
  <1> DEFINE B == [i \in 0..n + 1 |-> IF i = n + 1 THEN f[n] ELSE f[i]]
  <1>12. B[0] = f[0] /\ B[n + 1] = f[n] /\ \A i \in 0..n : B[i] = f[i]
    OBVIOUS
  <1>13. B \in [0..n + 1 -> Seq(Bytes)]
    <2>1. n \in 0..n /\ \A i \in 0..n + 1 : i = n + 1 \/ i \in 0..n
      OBVIOUS
    <2>2. QED
      BY <1>9, <2>1
  <1> HIDE DEF B
  <1>14. ASSUME NEW i \in 1..n + 1 PROVE B[i] = B[i - 1] \o ChunkAt(m, i)
    <2>1. CASE i = n + 1
      <3>1. i - 1 = n /\ n \in 0..n /\ i > n
        BY <2>1
      <3>2. B[i] = f[n] /\ B[i - 1] = f[n] /\ ChunkAt(m, i) = <<>>
        BY <1>1, <1>12, <2>1, <3>1 DEF ChunkAt
      <3>3. PICK a \in Text : a = f[n]
        BY <1>9, <3>1, BytesAreText
      <3>4. a \o <<>> = a
        BY Empty
      <3>5. QED
        BY <3>2, <3>3, <3>4, Zenon
    <2>2. CASE i \in 1..n
      <3>1. i - 1 \in 0..n /\ i \in 0..n /\ ~(i > n)
        BY <2>2
      <3>2. B[i] = f[i] /\ B[i - 1] = f[i - 1] /\ ChunkAt(m, i) = s[i]
        BY <1>1, <1>2, <1>12, <3>1 DEF ChunkAt
      <3>3. f[i] = f[i - 1] \o s[i]
        BY <1>8, <2>2
      <3>4. QED
        BY <3>2, <3>3, Zenon
    <2>3. i = n + 1 \/ i \in 1..n
      OBVIOUS
    <2>4. QED
      BY <2>1, <2>2, <2>3
  <1>15. ASSUME NEW i \in 0..n + 1 PROVE Len(B[i]) =< Len(B[n + 1])
    <2>1. i = n + 1 \/ i \in 0..n
      OBVIOUS
    <2>2. n \in 0..n
      OBVIOUS
    <2>3. QED
      BY <1>10, <1>12, <2>1, <2>2
  <1>16. LastChunk(m) = n + 1
    BY <1>1 DEF LastChunk
  <1>17. B[0] = <<>> /\ B[n + 1] = FlattenSeq(m.chunks)
    BY <1>2, <1>8, <1>11, <1>12
  <1>18. Grown(m, B)
    BY <1>13, <1>14, <1>15, <1>16, <1>17, Zenon DEF Grown
  <1>19. QED
    BY <1>18

(* The parts of the chunk at i: its size and its line, what follows them,  *)
(* its bytes, what follows them, the line after it, what follows it, and   *)
(* the body before and after it.                                           *)
Laid(m, T, B, i, h, w, x, e, y, g, v, z, a, b) ==
    /\ h = SizeText(m, i) /\ Heading(h) /\ w = SizeLine(m, i) /\ Split(w, h, CRLF) /\ Len(w) = Len(h) + 2
    /\ x = BehindSize(m, i, T[i + 1]) /\ Split(T[i], w, x)
    /\ e = ChunkAt(m, i) /\ y = BehindData(m, i, T[i + 1]) /\ Split(x, e, y)
    /\ g = SuffixText(m, i) /\ Heading(g) /\ v = SuffixLine(m, i) /\ Split(v, g, CRLF) /\ Len(v) = Len(g) + 2
    /\ z = T[i + 1] /\ Split(y, v, z)
    /\ a = B[i - 1] /\ b = B[i] /\ b = a \o e /\ Len(b) = Len(a) + Len(e)
    /\ Len(b) =< Len(FlattenSeq(m.chunks))

(* Every chunk has these parts.                                            *)
LEMMA ChunksAreLaid ==
    ASSUME NEW m \in Sendable, NEW T, Stream(m, T), NEW B, Grown(m, B), NEW i \in 1..LastChunk(m)
    PROVE  \E h, e, g, a, b \in Seq(Bytes) : \E w, x, y, v, z \in Text :
              T[i] \in Text /\ Laid(m, T, B, i, h, w, x, e, y, g, v, z, a, b)
  <1>1. PICK n \in Nat : n = LastChunk(m)
    BY ChunkParts DEF LastChunk
  <1>2. i \in 1..n + 1 /\ i + 1 \in 1..n + 1 /\ i - 1 \in 0..n /\ i \in 0..n /\ n \in 0..n
    BY <1>1
  <1>3. T[i] \in Text /\ T[i + 1] \in Text /\ T[i] = SizeLine(m, i) \o BehindSize(m, i, T[i + 1])
    BY <1>1, <1>2 DEF Stream
  <1>4. /\ B[i - 1] \in Seq(Bytes) /\ B[i] \in Seq(Bytes) /\ B[i] = B[i - 1] \o ChunkAt(m, i)
        /\ B[n] = FlattenSeq(m.chunks) /\ Len(B[i]) =< Len(B[n])
    BY <1>1, <1>2 DEF Grown
  <1>5. PICK h \in Seq(Bytes) : h = SizeText(m, i) /\ Heading(h)
    BY ChunkParts
  <1>6. PICK e \in Seq(Bytes) : e = ChunkAt(m, i)
    BY ChunkParts
  <1>7. PICK g \in Seq(Bytes) : g = SuffixText(m, i) /\ Heading(g)
    BY ChunkParts
  <1>8. PICK z \in Text : z = T[i + 1]
    BY <1>3
  <1>9. PICK a \in Seq(Bytes), b \in Seq(Bytes) : a = B[i - 1] /\ b = B[i]
    BY <1>4
  <1>10. h \in Text /\ e \in Text /\ g \in Text /\ a \in Text /\ CRLF \in Text /\ Len(CRLF) = 2
    BY BytesAreText, LineEnd
  <1>11. PICK w \in Text : w = h \o CRLF
    BY <1>10, Joined
  <1>12. PICK v \in Text : v = g \o CRLF
    BY <1>10, Joined
  <1>13. PICK y \in Text : y = v \o z
    BY Joined
  <1>14. PICK x \in Text : x = e \o y
    BY <1>10, Joined
  <1>15. w = SizeLine(m, i)
    BY <1>5, <1>11, Zenon DEF SizeLine
  <1>16. v = SuffixLine(m, i)
    BY <1>7, <1>12, Zenon DEF SuffixLine
  <1>17. y = BehindData(m, i, T[i + 1])
    BY <1>8, <1>13, <1>16, Zenon DEF BehindData
  <1>18. x = BehindSize(m, i, T[i + 1])
    BY <1>6, <1>14, <1>17, Zenon DEF BehindSize
  <1>19. Split(T[i], w, x) /\ Split(w, h, CRLF) /\ Split(x, e, y) /\ Split(v, g, CRLF) /\ Split(y, v, z)
    BY <1>3, <1>11, <1>12, <1>13, <1>14, <1>15, <1>18, Zenon DEF Split
  <1>20. Len(w) = Len(h) + 2
    <2>1. Len(h \o CRLF) = Len(h) + Len(CRLF)
      BY <1>10, Joined
    <2>2. QED
      BY <1>10, <1>11, <2>1
  <1>21. Len(v) = Len(g) + 2
    <2>1. Len(g \o CRLF) = Len(g) + Len(CRLF)
      BY <1>10, Joined
    <2>2. QED
      BY <1>10, <1>12, <2>1
  <1>22. b = a \o e
    BY <1>4, <1>6, <1>9, Zenon
  <1>23. Len(b) = Len(a) + Len(e)
    <2>1. Len(a \o e) = Len(a) + Len(e)
      BY <1>10, Joined
    <2>2. QED
      BY <1>22, <2>1
  <1>24. Len(b) =< Len(FlattenSeq(m.chunks))
    BY <1>4, <1>9
  <1>25. Laid(m, T, B, i, h, w, x, e, y, g, v, z, a, b)
    BY <1>5, <1>6, <1>7, <1>8, <1>9, <1>15, <1>16, <1>17, <1>18, <1>19, <1>20, <1>21, <1>22, <1>23, <1>24,
       Zenon DEF Laid
  <1>26. QED
    BY <1>3, <1>25

(***************************************************************************)
(* Reading a body.                                                         *)
(***************************************************************************)

(* The body was read, or was refused, as it should be.                     *)
Finished ==
    /\ reader = "done" /\ ~Refusable
    /\ body.committed = FlattenSeq(sent.chunks) /\ Standing(Following, <<>>, input, coming)

(* The body is refused, and it should be.                                  *)
Refused == reader = "error" /\ Refusable

(* The size of the chunk at i is read ...                                  *)
AtSize(T, B, i) ==
    /\ reader \in {"waits", "reads"} /\ (i > 1 => sent.fault = "none")
    /\ ~progress.known /\ progress.read = Len(B[i - 1])
    /\ body.committed = B[i - 1] /\ body.pending = <<>> /\ ~body.complete
    /\ ~line.complete /\ Standing(T[i], line.committed, input, coming)
    /\ Len(line.committed) < Len(SizeLine(sent, i))

(* ... or its bytes ...                                                    *)
AtData(T, B, i) ==
    /\ reader \in {"waits", "reads"} /\ (i > 1 => sent.fault = "none") /\ FaultAt(sent, i) # "size"
    /\ progress.known /\ progress.read = Len(B[i - 1]) /\ progress.expected = Len(ChunkAt(sent, i))
    /\ Len(B[i]) =< BodyLimit
    /\ body.committed = B[i - 1] /\ ~body.complete
    /\ Standing(BehindSize(sent, i, T[i + 1]), body.pending, input, coming)
    /\ \/ Len(body.pending) < Len(ChunkAt(sent, i))
       \/ Len(ChunkAt(sent, i)) = 0 /\ body.pending = <<>> /\ reader = "reads"
    /\ line = Segment

(* ... or the line after it.                                               *)
AtSuffix(T, B, i) ==
    /\ reader \in {"waits", "reads"} /\ (i > 1 => sent.fault = "none") /\ FaultAt(sent, i) # "size"
    /\ progress.known /\ progress.read = Len(B[i - 1]) /\ progress.expected = Len(ChunkAt(sent, i))
    /\ Len(B[i]) =< BodyLimit
    /\ body.committed = B[i] /\ body.pending = <<>> /\ body.complete
    /\ ~line.complete /\ Standing(BehindData(sent, i, T[i + 1]), line.committed, input, coming)
    /\ Len(line.committed) < Len(SuffixLine(sent, i))

(* Where the reader of a body in chunks may be.                            *)
InChunks(T, B) ==
    \/ Finished \/ Refused
    \/ \E i \in 1..LastChunk(sent) : AtSize(T, B, i) \/ AtData(T, B, i) \/ AtSuffix(T, B, i)

(* A body of a length that is given is read.                               *)
InGiven ==
    \/ Finished \/ Refused
    \/ /\ reader \in {"waits", "reads"}
       /\ body.committed = <<>> /\ ~body.complete
       /\ Standing(FlattenSeq(sent.chunks) \o Following, body.pending, input, coming)
       /\ Len(body.pending) < Given \/ (Given = 0 /\ body.pending = <<>>)

(* The invariant of read_body: where the reader is in what was sent.       *)
BodyInv ==
    /\ BodyTypeOK /\ sent \in Sendable /\ (sent.fault = "none" \/ sent.length = "chunked")
    /\ reader = "waits" => input = <<>>
    /\ sent.length = "chunked" => \E T, B : Stream(sent, T) /\ Grown(sent, B) /\ InChunks(T, B)
    /\ sent.length = "given" => InGiven

(* An empty segment ...                                                    *)
LEMMA EmptySegment == Segment \in Pieces /\ ~Segment.complete /\ Segment.committed = <<>> /\ Segment.pending = <<>>
  BY DEF Segment, Pieces

(* ... of a new body.                                                      *)
LEMMA FirstByte ==
    ASSUME NEW m \in Sendable, NEW i \in 1..LastChunk(m)
    PROVE  Len(<<>>) < Len(SizeLine(m, i)) /\ Len(<<>>) < Len(SuffixLine(m, i))
  <1>1. Len(<<>>) = 0 /\ CRLF \in Text /\ Len(CRLF) = 2
    BY LineEnd
  <1>2. ASSUME NEW h \in Text PROVE Len(h \o CRLF) > 0
    <2>1. Len(h \o CRLF) = Len(h) + Len(CRLF) /\ Len(h) \in Nat
      BY <1>1, Joined
    <2>2. QED
      BY <1>1, <2>1
  <1>3. SizeText(m, i) \in Text /\ SuffixText(m, i) \in Text
    BY ChunkParts, BytesAreText
  <1>4. QED
    BY <1>1, <1>2, <1>3 DEF SizeLine, SuffixLine

(* A message's body begins.                                                *)
LEMMA BodyStarts == BodyInit => BodyInv
  <1> SUFFICES ASSUME BodyInit PROVE BodyInv
    OBVIOUS
  <1>1. PICK m \in Sendable : m = sent
    BY DEF BodyInit, Sendable
  <1>2. (m.fault = "none" \/ m.length = "chunked") /\ coming = Encoded(m) /\ input = <<>>
    BY <1>1 DEF BodyInit
  <1>3. reader = "waits" /\ progress = Unread /\ line = Segment
        /\ body \in {Segment, [Segment EXCEPT !.last = 1]}
    BY DEF BodyInit
  <1>4. body \in Pieces /\ ~body.complete /\ body.committed = <<>> /\ body.pending = <<>>
    <2>1. CASE body = Segment
      BY <2>1, EmptySegment
    <2>2. CASE body = [Segment EXCEPT !.last = 1]
      <3>1. <<>> \in Seq(Bytes) /\ 1 \in Nat
        OBVIOUS
      <3>2. PICK q \in Seq(Bytes) : q = <<>>
        BY <3>1
      <3>3. body = [complete |-> FALSE, committed |-> q, pending |-> q, last |-> 1]
        BY <2>2, <3>2 DEF Segment
      <3>4. QED
        BY <3>1, <3>2, <3>3 DEF Pieces
    <2>3. QED
      BY <1>3, <2>1, <2>2
  <1>5. coming \in Seq(Bytes) /\ input \in Seq(Bytes)
    <2>1. <<>> \in Seq(Bytes)
      OBVIOUS
    <2>2. QED
      BY <1>2, <2>1, SentIsBytes
  <1>6. BodyTypeOK
    BY <1>3, <1>4, <1>5, EmptySegment DEF BodyTypeOK, Unread
  <1>7. PICK c \in Text : c = coming /\ <<>> \in Text /\ Standing(c, <<>>, <<>>, c)
    <2>1. PICK c \in Text : c = coming
      BY <1>5, BytesAreText
    <2>2. <<>> \in Text
      BY DEF Text
    <2>3. Split(c, <<>>, c)
      <3>1. <<>> \o c = c
        BY Empty
      <3>2. QED
        BY <3>1, Zenon DEF Split
    <2>4. Standing(c, <<>>, <<>>, c)
      BY <2>2, <2>3, StandingFresh
    <2>5. QED
      BY <2>1, <2>2, <2>4
  <1>8. ASSUME m.length = "chunked"
        PROVE  \E T, B : Stream(sent, T) /\ Grown(sent, B) /\ InChunks(T, B)
    <2>1. PICK T : Stream(m, T)
      BY <1>8, StreamExists
    <2>2. PICK B : Grown(m, B)
      BY GrownExists
    <2>3. PICK i \in 1..LastChunk(m) : i = 1
      BY ChunkParts DEF LastChunk
    <2>4. T[i] = c /\ B[i - 1] = <<>>
      <3>1. i - 1 = 0
        BY <2>3
      <3>2. T[1] = Encoded(m)
        BY <2>1, Zenon DEF Stream
      <3>3. B[0] = <<>>
        BY <2>2, Zenon DEF Grown
      <3>4. QED
        BY <1>2, <1>7, <2>3, <3>1, <3>2, <3>3
    <2>5. Len(<<>>) < Len(SizeLine(m, i))
      BY FirstByte
    <2>6. ~(i > 1)
      BY <2>3
    <2>7. AtSize(T, B, i)
      <3>1. ~progress.known /\ progress.read = Len(B[i - 1])
        BY <1>3, <2>4 DEF Unread
      <3>2. Standing(T[i], line.committed, input, coming)
        BY <1>2, <1>3, <1>7, <2>4, EmptySegment, Zenon
      <3>3. QED
        BY <1>1, <1>3, <1>4, <2>4, <2>5, <2>6, <3>1, <3>2, EmptySegment DEF AtSize
    <2>8. InChunks(T, B)
      BY <1>1, <2>7 DEF InChunks
    <2>9. QED
      BY <1>1, <2>1, <2>2, <2>8
  <1>9. ASSUME m.length = "given" PROVE InGiven
    <2>1. Encoded(m) = FlattenSeq(m.chunks) \o Following
      BY <1>9 DEF Encoded
    <2>2. Standing(FlattenSeq(sent.chunks) \o Following, body.pending, input, coming)
      BY <1>1, <1>2, <1>4, <1>7, <2>1, Zenon
    <2>3. Given \in Nat
      <3>1. FlattenSeq(m.chunks) \in Seq(Bytes)
        BY SentIsBytes
      <3>2. QED
        BY <1>1, <3>1 DEF Given
    <2>4. Len(body.pending) < Given \/ (Given = 0 /\ body.pending = <<>>)
      BY <1>4, <2>3
    <2>5. QED
      BY <1>3, <1>4, <2>2, <2>4 DEF InGiven
  <1>10. QED
    BY <1>1, <1>2, <1>6, <1>8, <1>9 DEF BodyInv

(* Bytes arrive.                                                           *)
LEMMA BytesArrive ==
    ASSUME BodyInv, NEW n \in 1..Len(coming), Arrive(n)
    PROVE  BodyInv'
  <1>1. PICK m \in Sendable : m = sent /\ m = sent'
    BY DEF BodyInv, Arrive
  <1>2. BodyTypeOK /\ (m.fault = "none" \/ m.length = "chunked")
    BY <1>1 DEF BodyInv
  <1>3. PICK in \in Seq(Bytes), more \in Seq(Bytes) : in = input /\ more = coming
    BY <1>2 DEF BodyTypeOK
  <1>4. PICK k \in 0..Len(more) : k = n
    BY <1>3
  <1>5. /\ reader = "waits" /\ reader' = "reads"
        /\ input' = in \o SubSeq(more, 1, k) /\ coming' = Rest(more, k)
        /\ body' = body /\ line' = line /\ progress' = progress
    BY <1>3, <1>4 DEF Arrive
  <1>6. input' \in Seq(Bytes) /\ coming' \in Seq(Bytes)
    <2>1. SubSeq(more, 1, k) \in Seq(Bytes) /\ Rest(more, k) \in Seq(Bytes)
      BY BytesCut
    <2>2. QED
      BY <1>5, <2>1, BytesJoined
  <1>7. BodyTypeOK'
    BY <1>2, <1>5, <1>6 DEF BodyTypeOK
  <1>8. ASSUME NEW t \in Text, NEW c \in Text, Standing(t, c, input, coming)
        PROVE  Standing(t, c, input', coming')
    <2>1. in \in Text /\ more \in Text
      BY BytesAreText
    <2>2. Standing(t, c, in, more)
      BY <1>3, <1>8
    <2>3. Standing(t, c, in \o SubSeq(more, 1, k), Rest(more, k))
      BY <2>1, <2>2, StandingArrives
    <2>4. QED
      BY <1>5, <2>3, Zenon
  <1>9. line.committed \in Text /\ body.pending \in Text
    <2>1. line \in Pieces /\ body \in Pieces
      BY <1>2 DEF BodyTypeOK
    <2>2. line.committed \in Seq(Bytes) /\ body.pending \in Seq(Bytes)
      BY <2>1 DEF Pieces
    <2>3. QED
      BY <2>2, BytesAreText
  <1>10. ~Finished /\ ~Refused
    BY <1>5 DEF Finished, Refused
  <1>11. ASSUME m.length = "chunked"
         PROVE  (\E T, B : Stream(sent, T) /\ Grown(sent, B) /\ InChunks(T, B))'
    <2>1. PICK T, B : Stream(m, T) /\ Grown(m, B) /\ InChunks(T, B)
      BY <1>1, <1>11 DEF BodyInv
    <2>2. PICK i \in 1..LastChunk(m) : AtSize(T, B, i) \/ AtData(T, B, i) \/ AtSuffix(T, B, i)
      BY <1>1, <1>10, <2>1 DEF InChunks
    <2>3. PICK h \in Seq(Bytes), e \in Seq(Bytes), g \in Seq(Bytes), a \in Seq(Bytes), b \in Seq(Bytes),
               w \in Text, x \in Text, y \in Text, v \in Text, z \in Text :
            T[i] \in Text /\ Laid(m, T, B, i, h, w, x, e, y, g, v, z, a, b)
      BY <2>1, ChunksAreLaid
    <2>4. BehindSize(m, i, T[i + 1]) \in Text /\ BehindData(m, i, T[i + 1]) \in Text
      BY <2>3, Zenon DEF Laid
    <2>5. CASE AtSize(T, B, i)
      <3>1. Standing(T[i], line.committed, input, coming)
        BY <2>5 DEF AtSize
      <3>2. Standing(T[i], line.committed, input', coming')
        BY <1>8, <1>9, <2>3, <3>1
      <3>3. AtSize(T, B, i)'
        BY <1>1, <1>5, <2>5, <3>2 DEF AtSize
      <3>4. QED
        BY <1>1, <2>1, <3>3 DEF InChunks
    <2>6. CASE AtData(T, B, i)
      <3>1. Standing(BehindSize(m, i, T[i + 1]), body.pending, input, coming)
        BY <1>1, <2>6 DEF AtData
      <3>2. Standing(BehindSize(m, i, T[i + 1]), body.pending, input', coming')
        BY <1>8, <1>9, <2>4, <3>1
      <3>3. AtData(T, B, i)'
        BY <1>1, <1>5, <2>6, <3>2 DEF AtData
      <3>4. QED
        BY <1>1, <2>1, <3>3 DEF InChunks
    <2>7. CASE AtSuffix(T, B, i)
      <3>1. Standing(BehindData(m, i, T[i + 1]), line.committed, input, coming)
        BY <1>1, <2>7 DEF AtSuffix
      <3>2. Standing(BehindData(m, i, T[i + 1]), line.committed, input', coming')
        BY <1>8, <1>9, <2>4, <3>1
      <3>3. AtSuffix(T, B, i)'
        BY <1>1, <1>5, <2>7, <3>2 DEF AtSuffix
      <3>4. QED
        BY <1>1, <2>1, <3>3 DEF InChunks
    <2>8. QED
      BY <2>2, <2>5, <2>6, <2>7
  <1>12. ASSUME m.length = "given" PROVE InGiven'
    <2>1. InGiven
      BY <1>1, <1>12 DEF BodyInv
    <2>2. /\ body.committed = <<>> /\ ~body.complete
          /\ Standing(FlattenSeq(m.chunks) \o Following, body.pending, input, coming)
          /\ Len(body.pending) < Given \/ (Given = 0 /\ body.pending = <<>>)
      BY <1>1, <1>10, <2>1 DEF InGiven
    <2>3. FlattenSeq(m.chunks) \o Following \in Text
      <3>1. FlattenSeq(m.chunks) \o Following \in Seq(Bytes)
        BY SentIsBytes, BytesJoined
      <3>2. QED
        BY <3>1, BytesAreText
    <2>4. Standing(FlattenSeq(m.chunks) \o Following, body.pending, input', coming')
      BY <1>8, <1>9, <2>2, <2>3
    <2>5. Given' = Given
      BY <1>1 DEF Given
    <2>6. QED
      BY <1>1, <1>5, <2>2, <2>4, <2>5 DEF InGiven
  <1>13. QED
    BY <1>1, <1>2, <1>5, <1>7, <1>11, <1>12 DEF BodyInv

(* What a size that is read says.                                          *)
LEMMA SizeSays ==
    ASSUME NEW m \in Sendable, NEW i \in 1..LastChunk(m)
    PROVE  LET Size == {n \in 0..Len(Digits) - 1 : SizeText(m, i) = <<Digits[n + 1]>>}
           IN  /\ FaultAt(m, i) = "size" => Size = {}
               /\ FaultAt(m, i) # "size" => Size = {Len(ChunkAt(m, i))}
  <1> DEFINE Size == {n \in 0..Len(Digits) - 1 : SizeText(m, i) = <<Digits[n + 1]>>}
  <1>1. PICK l \in Nat : l = Len(Digits) /\ DOMAIN Digits = 1..l
    BY BodyAssumption
  <1>2. PICK e \in Nat : e = Len(ChunkAt(m, i)) /\ e + 1 \in 1..l
    <2>1. ChunkAt(m, i) \in Seq(Bytes) /\ Len(ChunkAt(m, i)) + 1 \in 1..l
      BY <1>1, ChunkParts
    <2>2. QED
      BY <2>1
  <1>3. \A p, q : <<p>> = <<q>> => p = q
    <2>1. \A p, q : <<p>> = <<q>> => <<p>>[1] = <<q>>[1]
      OBVIOUS
    <2>2. \A p : <<p>>[1] = p
      OBVIOUS
    <2>3. QED
      BY <2>1, <2>2
  <1>4. \A n \in 0..l - 1 : n + 1 \in 1..l
    BY <1>1
  <1>5. ASSUME FaultAt(m, i) = "size" PROVE Size = {}
    <2>1. PICK bad : bad = "bad"
      OBVIOUS
    <2>2. SizeText(m, i) = <<bad>>
      BY <1>5, <2>1 DEF SizeText
    <2>3. ASSUME NEW n \in 0..l - 1 PROVE Digits[n + 1] # bad
      <3>1. Digits[n + 1] \in Range(Digits)
        BY <1>1, <1>4 DEF Range
      <3>2. bad \notin Range(Digits)
        BY <2>1, BodyAssumption
      <3>3. QED
        BY <3>1, <3>2
    <2>4. ASSUME NEW n \in 0..l - 1 PROVE SizeText(m, i) # <<Digits[n + 1]>>
      BY <1>3, <2>2, <2>3
    <2>5. QED
      BY <1>1, <2>4
  <1>6. ASSUME FaultAt(m, i) # "size" PROVE Size = {e}
    <2>1. SizeText(m, i) = <<Digits[e + 1]>>
      BY <1>2, <1>6 DEF SizeText
    <2>2. ASSUME NEW n \in 0..l - 1, SizeText(m, i) = <<Digits[n + 1]>> PROVE n = e
      <3>1. Digits[n + 1] = Digits[e + 1]
        BY <1>3, <2>1, <2>2
      <3>2. n + 1 = e + 1
        BY <1>1, <1>2, <1>4, <3>1, BodyAssumption
      <3>3. QED
        BY <3>2
    <2>3. e \in 0..l - 1
      BY <1>2
    <2>4. QED
      BY <1>1, <2>1, <2>2, <2>3
  <1>7. QED
    BY <1>2, <1>5, <1>6

(* A size is read.                                                         *)
LEMMA SizeIsRead ==
    ASSUME BodyInv, ReadSize
    PROVE  BodyInv'
  <1>1. PICK m \in Sendable : m = sent /\ m = sent'
    BY DEF BodyInv, ReadSize
  <1>2. BodyTypeOK /\ (m.fault = "none" \/ m.length = "chunked") /\ m.length = "chunked"
    BY <1>1 DEF BodyInv, ReadSize
  <1>3. PICK in \in Seq(Bytes), more \in Seq(Bytes) : in = input /\ more = coming
    BY <1>2 DEF BodyTypeOK
  <1>4. reader = "reads" /\ ~progress.known /\ coming' = more /\ body' = body
    BY <1>3 DEF ReadSize
  <1>5. PICK T, B : Stream(m, T) /\ Grown(m, B) /\ InChunks(T, B)
    BY <1>1, <1>2 DEF BodyInv
  <1>6. PICK i \in 1..LastChunk(m) : AtSize(T, B, i)
    <2>1. ~Finished /\ ~Refused
      BY <1>4 DEF Finished, Refused
    <2>2. PICK i \in 1..LastChunk(m) : AtSize(T, B, i) \/ AtData(T, B, i) \/ AtSuffix(T, B, i)
      BY <1>1, <1>5, <2>1 DEF InChunks
    <2>3. QED
      BY <1>4, <2>2 DEF AtData, AtSuffix
  <1>7. PICK h \in Seq(Bytes), e \in Seq(Bytes), g \in Seq(Bytes), a \in Seq(Bytes), b \in Seq(Bytes),
             w \in Text, x \in Text, y \in Text, v \in Text, z \in Text :
          T[i] \in Text /\ Laid(m, T, B, i, h, w, x, e, y, g, v, z, a, b)
    BY <1>5, ChunksAreLaid
  <1>8. /\ (i > 1 => m.fault = "none")
        /\ progress.read = Len(a) /\ body.committed = a /\ body.pending = <<>> /\ ~body.complete
        /\ ~line.complete /\ Standing(T[i], line.committed, in, more) /\ Len(line.committed) < Len(w)
    BY <1>1, <1>3, <1>6, <1>7 DEF AtSize, Laid
  <1>9. PICK r : r = Until(line, in)
    OBVIOUS
  <1>10. /\ r.segment \in Pieces /\ r.in \in Seq(Bytes)
         /\ ~r.segment.complete => /\ r.in = <<>> /\ Standing(T[i], r.segment.committed, r.in, more)
                                   /\ Len(r.segment.committed) < Len(w)
         /\ r.segment.complete => r.segment.committed = h /\ Standing(x, <<>>, r.in, more)
    <2>1. line \in Pieces
      BY <1>2 DEF BodyTypeOK
    <2>2. PICK t \in Text : t = T[i]
      BY <1>7
    <2>3. Heading(h) /\ Split(w, h, CRLF) /\ Split(t, w, x)
      BY <1>7, <2>2 DEF Laid
    <2>4. Standing(t, line.committed, in, more) /\ Len(line.committed) < Len(w)
      BY <1>8, <2>2
    <2>5. ~line.complete
      BY <1>8
    <2>6. LineTaken(Until(line, in), t, h, w, x, more)
      BY <2>1, <2>3, <2>4, <2>5, LineReads
    <2>7. LineTaken(r, T[i], h, w, x, more)
      BY <1>9, <2>2, <2>6, Zenon
    <2>8. QED
      BY <2>7, Zenon DEF LineTaken
  <1>11. input' = r.in
    BY <1>3, <1>9 DEF ReadSize
  <1>12. CASE ~r.segment.complete
    <2>1. reader' = "waits" /\ line' = r.segment /\ progress' = progress
      BY <1>3, <1>9, <1>12 DEF ReadSize
    <2>2. BodyTypeOK'
      BY <1>2, <1>3, <1>4, <1>10, <1>11, <2>1 DEF BodyTypeOK
    <2>3. AtSize(T, B, i)'
      BY <1>1, <1>4, <1>7, <1>8, <1>10, <1>11, <1>12, <2>1 DEF AtSize, Laid
    <2>4. InChunks(T, B)'
      BY <1>1, <2>3 DEF InChunks
    <2>5. input' = <<>>
      BY <1>10, <1>11, <1>12
    <2>6. QED
      BY <1>1, <1>2, <1>5, <2>2, <2>4, <2>5 DEF BodyInv
  <1>13. CASE r.segment.complete
    <2>1. line' = Segment /\ r.segment.committed = SizeText(m, i)
      BY <1>3, <1>7, <1>9, <1>10, <1>13 DEF ReadSize, Laid
    <2> DEFINE Size == {n \in 0..Len(Digits) - 1 : r.segment.committed = <<Digits[n + 1]>>}
    <2>2. \/ Size = {} /\ reader' = "error" /\ progress' = progress
          \/ \E size \in Size :
               /\ reader' = IF progress.read + size > BodyLimit THEN "error" ELSE "reads"
               /\ progress' = [progress EXCEPT !.known = TRUE, !.expected = size]
      BY <1>3, <1>9, <1>13 DEF ReadSize
    <2>3. /\ FaultAt(m, i) = "size" => Size = {}
          /\ FaultAt(m, i) # "size" => Size = {Len(ChunkAt(m, i))}
      BY <2>1, SizeSays
    <2> HIDE DEF Size
    <2>4. CASE FaultAt(m, i) = "size"
      <3>1. reader' = "error" /\ progress' = progress
        BY <2>2, <2>3, <2>4
      <3>2. m.fault # "none"
        BY <2>4 DEF FaultAt
      <3>3. Refused'
        BY <1>1, <3>1, <3>2 DEF Refused, Refusable
      <3>4. BodyTypeOK'
        BY <1>2, <1>3, <1>4, <1>10, <1>11, <2>1, <3>1, EmptySegment DEF BodyTypeOK
      <3>5. InChunks(T, B)'
        BY <3>3 DEF InChunks
      <3>6. QED
        BY <1>1, <1>2, <1>5, <3>1, <3>4, <3>5 DEF BodyInv
    <2>5. CASE FaultAt(m, i) # "size"
      <3>1. PICK s \in Nat : s = Len(e) /\ s = Len(ChunkAt(m, i))
        BY <1>7 DEF Laid
      <3>2. /\ reader' = IF progress.read + s > BodyLimit THEN "error" ELSE "reads"
            /\ progress' = [progress EXCEPT !.known = TRUE, !.expected = s]
        BY <2>2, <2>3, <2>5, <3>1
      <3>3. progress \in [known : BOOLEAN, expected : Nat, read : Nat]
        BY <1>2 DEF BodyTypeOK
      <3>4. /\ progress' \in [known : BOOLEAN, expected : Nat, read : Nat]
            /\ progress'.known /\ progress'.expected = s /\ progress'.read = Len(a)
        BY <1>8, <3>2, <3>3
      <3>5. progress.read + s = Len(b)
        BY <1>7, <1>8, <3>1 DEF Laid
      <3>6. BodyTypeOK'
        BY <1>2, <1>3, <1>4, <1>10, <1>11, <2>1, <3>2, <3>4, EmptySegment DEF BodyTypeOK
      <3>7. CASE Len(b) > BodyLimit
        <4>1. reader' = "error"
          BY <3>2, <3>5, <3>7
        <4>2. Given > BodyLimit
          <5>1. Len(FlattenSeq(m.chunks)) \in Nat /\ Len(b) \in Nat /\ BodyLimit \in Nat
            BY SentIsBytes, BodyAssumption
          <5>2. Len(b) =< Len(FlattenSeq(m.chunks))
            BY <1>7 DEF Laid
          <5>3. QED
            BY <1>1, <3>7, <5>1, <5>2 DEF Given
        <4>3. Refused'
          BY <1>1, <4>1, <4>2 DEF Refused, Refusable, Given
        <4>4. InChunks(T, B)'
          BY <4>3 DEF InChunks
        <4>5. QED
          BY <1>1, <1>2, <1>5, <3>6, <4>1, <4>4 DEF BodyInv
      <3>8. CASE ~(Len(b) > BodyLimit)
        <4>1. reader' = "reads" /\ Len(b) =< BodyLimit
          BY <3>2, <3>5, <3>8, BodyAssumption
        <4>2. Standing(BehindSize(m, i, T[i + 1]), body'.pending, input', coming')
          <5>1. Standing(x, <<>>, r.in, more)
            BY <1>10, <1>13
          <5>2. x = BehindSize(m, i, T[i + 1])
            BY <1>7 DEF Laid
          <5>3. QED
            BY <1>4, <1>8, <1>11, <5>1, <5>2
        <4>3. \/ Len(body'.pending) < Len(ChunkAt(m, i))
              \/ Len(ChunkAt(m, i)) = 0 /\ body'.pending = <<>> /\ reader' = "reads"
          <5>1. body'.pending = <<>> /\ Len(<<>>) = 0
            BY <1>4, <1>8
          <5>2. QED
            BY <3>1, <4>1, <5>1
        <4>4. AtData(T, B, i)'
          <5>1. a = B[i - 1] /\ b = B[i]
            BY <1>7 DEF Laid
          <5>2. QED
            BY <1>1, <1>4, <1>8, <2>1, <2>5, <3>1, <3>4, <4>1, <4>2, <4>3, <5>1 DEF AtData
        <4>5. InChunks(T, B)'
          BY <1>1, <4>4 DEF InChunks
        <4>6. QED
          BY <1>1, <1>2, <1>5, <3>6, <4>1, <4>5 DEF BodyInv
      <3>9. QED
        BY <3>7, <3>8
    <2>6. QED
      BY <2>4, <2>5
  <1>14. QED
    BY <1>12, <1>13

(* The bytes of a chunk are read.                                          *)
LEMMA ChunkIsRead ==
    ASSUME BodyInv, ReadChunk
    PROVE  BodyInv'
  <1>1. PICK m \in Sendable : m = sent /\ m = sent'
    BY DEF BodyInv, ReadChunk
  <1>2. BodyTypeOK /\ (m.fault = "none" \/ m.length = "chunked") /\ m.length = "chunked"
    BY <1>1 DEF BodyInv, ReadChunk
  <1>3. PICK in \in Seq(Bytes), more \in Seq(Bytes) : in = input /\ more = coming
    BY <1>2 DEF BodyTypeOK
  <1>4. reader = "reads" /\ progress.known /\ ~body.complete
        /\ coming' = more /\ line' = line /\ progress' = progress
    BY <1>3 DEF ReadChunk
  <1>5. PICK T, B : Stream(m, T) /\ Grown(m, B) /\ InChunks(T, B)
    BY <1>1, <1>2 DEF BodyInv
  <1>6. PICK i \in 1..LastChunk(m) : AtData(T, B, i)
    <2>1. ~Finished /\ ~Refused
      BY <1>4 DEF Finished, Refused
    <2>2. PICK i \in 1..LastChunk(m) : AtSize(T, B, i) \/ AtData(T, B, i) \/ AtSuffix(T, B, i)
      BY <1>1, <1>5, <2>1 DEF InChunks
    <2>3. QED
      BY <1>4, <2>2 DEF AtSize, AtSuffix
  <1>7. PICK h \in Seq(Bytes), e \in Seq(Bytes), g \in Seq(Bytes), a \in Seq(Bytes), b \in Seq(Bytes),
             w \in Text, x \in Text, y \in Text, v \in Text, z \in Text :
          T[i] \in Text /\ Laid(m, T, B, i, h, w, x, e, y, g, v, z, a, b)
    BY <1>5, ChunksAreLaid
  <1>8. /\ e = ChunkAt(m, i) /\ x = BehindSize(m, i, T[i + 1]) /\ y = BehindData(m, i, T[i + 1])
        /\ v = SuffixLine(m, i) /\ a = B[i - 1] /\ b = B[i] /\ b = a \o e /\ Split(x, e, y)
    BY <1>7 DEF Laid
  <1>9. /\ (i > 1 => m.fault = "none") /\ FaultAt(m, i) # "size"
        /\ progress.read = Len(a) /\ progress.expected = Len(e) /\ Len(b) =< BodyLimit
        /\ body.committed = a /\ line = Segment
        /\ Standing(x, body.pending, in, more)
        /\ \/ Len(body.pending) < Len(e)
           \/ Len(e) = 0 /\ body.pending = <<>>
    BY <1>1, <1>3, <1>6, <1>8 DEF AtData
  <1>10. PICK r : r = UpTo(body, in, Len(e))
    OBVIOUS
  <1>11. /\ r.segment \in Pieces /\ r.in \in Seq(Bytes)
         /\ ~r.segment.complete => /\ r.in = <<>> /\ Standing(x, r.segment.pending, r.in, more)
                                   /\ r.segment.committed = a
                                   /\ Len(r.segment.pending) < Len(e)
         /\ r.segment.complete => /\ r.segment.committed = b
                                  /\ r.segment.pending = <<>>
                                  /\ Standing(y, <<>>, r.in, more)
    <2>1. body \in Pieces
      BY <1>2 DEF BodyTypeOK
    <2>2. Split(x, e, y)
      BY <1>8
    <2>3. Standing(x, body.pending, in, more)
      BY <1>9
    <2>4. Len(body.pending) < Len(e) \/ (Len(e) = 0 /\ body.pending = <<>>)
      BY <1>9
    <2>5. body.committed \o e = b
      BY <1>8, <1>9, Zenon
    <2>6. BytesTaken(r, body.committed, e, x, y, more)
      BY <1>4, <1>10, <2>1, <2>2, <2>3, <2>4, BytesRead
    <2>7. QED
      BY <1>9, <2>5, <2>6, Zenon DEF BytesTaken
  <1>12. body' = r.segment /\ input' = r.in /\ reader' = IF r.segment.complete THEN "reads" ELSE "waits"
    BY <1>3, <1>9, <1>10 DEF ReadChunk
  <1>13. BodyTypeOK'
    BY <1>2, <1>3, <1>4, <1>11, <1>12 DEF BodyTypeOK
  <1>14. CASE ~r.segment.complete
    <2>1. AtData(T, B, i)'
      BY <1>1, <1>4, <1>8, <1>9, <1>11, <1>12, <1>14 DEF AtData
    <2>2. InChunks(T, B)'
      BY <1>1, <2>1 DEF InChunks
    <2>3. input' = <<>>
      BY <1>11, <1>12, <1>14
    <2>4. QED
      BY <1>1, <1>2, <1>5, <1>13, <2>2, <2>3 DEF BodyInv
  <1>15. CASE r.segment.complete
    <2>1. reader' = "reads" /\ body'.complete /\ body'.committed = b /\ body'.pending = <<>>
      BY <1>11, <1>12, <1>15
    <2>2. line'.committed = <<>> /\ ~line'.complete
      BY <1>4, <1>9, EmptySegment
    <2>3. Standing(y, line'.committed, input', coming')
      BY <1>4, <1>11, <1>12, <1>15, <2>2
    <2>4. Len(line'.committed) < Len(v)
      BY <1>8, <2>2, FirstByte
    <2>5. AtSuffix(T, B, i)'
      BY <1>1, <1>4, <1>8, <1>9, <2>1, <2>2, <2>3, <2>4 DEF AtSuffix
    <2>6. InChunks(T, B)'
      BY <1>1, <2>5 DEF InChunks
    <2>7. QED
      BY <1>1, <1>2, <1>5, <1>13, <2>1, <2>6 DEF BodyInv
  <1>16. QED
    BY <1>14, <1>15

(* The line after a chunk is read.                                         *)
LEMMA SuffixIsRead ==
    ASSUME BodyInv, ReadSuffix
    PROVE  BodyInv'
  <1>1. PICK m \in Sendable : m = sent /\ m = sent'
    BY DEF BodyInv, ReadSuffix
  <1>2. BodyTypeOK /\ (m.fault = "none" \/ m.length = "chunked") /\ m.length = "chunked"
    BY <1>1 DEF BodyInv, ReadSuffix
  <1>3. PICK in \in Seq(Bytes), more \in Seq(Bytes) : in = input /\ more = coming
    BY <1>2 DEF BodyTypeOK
  <1>4. reader = "reads" /\ progress.known /\ body.complete /\ coming' = more
    BY <1>3 DEF ReadSuffix
  <1>5. PICK T, B : Stream(m, T) /\ Grown(m, B) /\ InChunks(T, B)
    BY <1>1, <1>2 DEF BodyInv
  <1>6. PICK i \in 1..LastChunk(m) : AtSuffix(T, B, i)
    <2>1. ~Finished /\ ~Refused
      BY <1>4 DEF Finished, Refused
    <2>2. PICK i \in 1..LastChunk(m) : AtSize(T, B, i) \/ AtData(T, B, i) \/ AtSuffix(T, B, i)
      BY <1>1, <1>5, <2>1 DEF InChunks
    <2>3. QED
      BY <1>4, <2>2 DEF AtSize, AtData
  <1>7. PICK h \in Seq(Bytes), e \in Seq(Bytes), g \in Seq(Bytes), a \in Seq(Bytes), b \in Seq(Bytes),
             w \in Text, x \in Text, y \in Text, v \in Text, z \in Text :
          T[i] \in Text /\ Laid(m, T, B, i, h, w, x, e, y, g, v, z, a, b)
    BY <1>5, ChunksAreLaid
  <1>8. /\ e = ChunkAt(m, i) /\ y = BehindData(m, i, T[i + 1]) /\ z = T[i + 1]
        /\ g = SuffixText(m, i) /\ v = SuffixLine(m, i) /\ a = B[i - 1] /\ b = B[i]
        /\ Len(b) = Len(a) + Len(e) /\ Heading(g) /\ Split(v, g, CRLF) /\ Split(y, v, z)
    BY <1>7 DEF Laid
  <1>9. /\ (i > 1 => m.fault = "none") /\ FaultAt(m, i) # "size"
        /\ progress.read = Len(a) /\ progress.expected = Len(e) /\ Len(b) =< BodyLimit
        /\ body.committed = b /\ body.pending = <<>>
        /\ ~line.complete /\ Standing(y, line.committed, in, more) /\ Len(line.committed) < Len(v)
    BY <1>1, <1>3, <1>6, <1>8 DEF AtSuffix
  <1>10. PICK r : r = Until(line, in)
    OBVIOUS
  <1>11. /\ r.segment \in Pieces /\ r.in \in Seq(Bytes)
         /\ ~r.segment.complete => /\ r.in = <<>> /\ Standing(y, r.segment.committed, r.in, more)
                                   /\ Len(r.segment.committed) < Len(v)
         /\ r.segment.complete => r.segment.committed = g /\ Standing(z, <<>>, r.in, more)
    <2>1. line \in Pieces
      BY <1>2 DEF BodyTypeOK
    <2>2. Heading(g) /\ Split(v, g, CRLF) /\ Split(y, v, z)
      BY <1>8
    <2>3. Standing(y, line.committed, in, more) /\ Len(line.committed) < Len(v)
      BY <1>9
    <2>4. ~line.complete
      BY <1>9
    <2>5. LineTaken(Until(line, in), y, g, v, z, more)
      BY <2>1, <2>2, <2>3, <2>4, LineReads
    <2>6. LineTaken(r, y, g, v, z, more)
      BY <1>10, <2>5, Zenon
    <2>7. QED
      BY <2>6, Zenon DEF LineTaken
  <1>12. input' = r.in
    BY <1>3, <1>10 DEF ReadSuffix
  <1>13. CASE ~r.segment.complete
    <2>1. reader' = "waits" /\ line' = r.segment /\ progress' = progress /\ body' = body
      BY <1>3, <1>10, <1>13 DEF ReadSuffix
    <2>2. BodyTypeOK'
      BY <1>2, <1>3, <1>4, <1>11, <1>12, <2>1 DEF BodyTypeOK
    <2>3. AtSuffix(T, B, i)'
      BY <1>1, <1>4, <1>8, <1>9, <1>11, <1>12, <1>13, <2>1 DEF AtSuffix
    <2>4. InChunks(T, B)'
      BY <1>1, <2>3 DEF InChunks
    <2>5. input' = <<>>
      BY <1>11, <1>12, <1>13
    <2>6. QED
      BY <1>1, <1>2, <1>5, <2>2, <2>4, <2>5 DEF BodyInv
  <1>14. CASE r.segment.complete /\ g # <<>>
    <2>1. reader' = "error" /\ line' = r.segment /\ progress' = progress /\ body' = body
      BY <1>3, <1>10, <1>11, <1>14 DEF ReadSuffix
    <2>2. m.fault # "none"
      BY <1>8, <1>14 DEF SuffixText, FaultAt
    <2>3. Refused'
      BY <1>1, <2>1, <2>2 DEF Refused, Refusable
    <2>4. BodyTypeOK'
      BY <1>2, <1>3, <1>4, <1>11, <1>12, <2>1 DEF BodyTypeOK
    <2>5. InChunks(T, B)'
      BY <2>3 DEF InChunks
    <2>6. QED
      BY <1>1, <1>2, <1>5, <2>1, <2>4, <2>5 DEF BodyInv
  <1>15. CASE r.segment.complete /\ g = <<>>
    <2>1. m.fault = "none"
      <3>1. FaultAt(m, i) # "suffix"
        <4>1. <<"bad">> # <<>>
          OBVIOUS
        <4>2. QED
          BY <1>8, <1>15, <4>1 DEF SuffixText
      <3>2. i = 1 \/ i > 1
        OBVIOUS
      <3>3. m.fault \in {"none", "size", "suffix"}
        BY DEF Sendable, Faults
      <3>4. QED
        BY <1>9, <3>1, <3>2, <3>3 DEF FaultAt
    <2>2. /\ line' = Segment
          /\ reader' = IF progress.expected = 0 THEN "done" ELSE "reads"
          /\ body' = IF progress.expected = 0 THEN body ELSE [body EXCEPT !.complete = FALSE]
          /\ progress' = [known |-> progress.expected = 0, expected |-> 0,
                          read |-> progress.read + progress.expected]
      BY <1>3, <1>10, <1>11, <1>15 DEF ReadSuffix
    <2>3. body \in Pieces /\ progress \in [known : BOOLEAN, expected : Nat, read : Nat]
      BY <1>2 DEF BodyTypeOK
    <2>4. PICK s \in Nat : s = Len(b) /\ s = progress.read + progress.expected
      <3>1. Len(b) \in Nat
        OBVIOUS
      <3>2. QED
        BY <1>8, <1>9, <3>1
    <2>5. progress' = [known |-> progress.expected = 0, expected |-> 0, read |-> s]
      BY <2>2, <2>4
    <2>6. progress' \in [known : BOOLEAN, expected : Nat, read : Nat] /\ progress'.read = s
      BY <2>5
    <2>7. body' \in Pieces /\ body'.committed = b /\ body'.pending = <<>>
      BY <1>9, <2>2, <2>3 DEF Pieces
    <2>8. BodyTypeOK'
      BY <1>2, <1>3, <1>4, <1>11, <1>12, <2>2, <2>6, <2>7, EmptySegment DEF BodyTypeOK
    <2>9. Standing(z, <<>>, input', coming')
      BY <1>4, <1>11, <1>12, <1>15
    <2>10. PICK l \in Nat : l = LastChunk(m)
      BY ChunkParts DEF LastChunk
    <2>11. Len(e) = 0 <=> i = l
      BY <1>8, <2>10, ChunkParts
    <2>12. CASE Len(e) = 0
      <3>1. reader' = "done" /\ i = l
        BY <1>9, <2>2, <2>11, <2>12
      <3>2. z = Following
        <4>1. T[l + 1] = Following
          BY <1>5, <2>10 DEF Stream
        <4>2. QED
          BY <1>8, <3>1, <4>1
      <3>3. b = FlattenSeq(m.chunks)
        <4>1. B[l] = FlattenSeq(m.chunks)
          BY <1>5, <2>10 DEF Grown
        <4>2. QED
          BY <1>8, <3>1, <4>1
      <3>4. ~Refusable'
        <4>1. Given' = Len(b)
          BY <1>1, <3>3 DEF Given
        <4>2. Len(b) \in Nat /\ BodyLimit \in Nat
          BY BodyAssumption
        <4>3. QED
          BY <1>1, <1>9, <2>1, <4>1, <4>2 DEF Refusable
      <3>5. Finished'
        BY <1>1, <2>7, <2>9, <3>1, <3>2, <3>3, <3>4 DEF Finished
      <3>6. InChunks(T, B)'
        BY <3>5 DEF InChunks
      <3>7. QED
        BY <1>1, <1>2, <1>5, <2>8, <3>1, <3>6 DEF BodyInv
    <2>13. CASE Len(e) # 0
      <3>1. reader' = "reads" /\ ~body'.complete /\ ~progress'.known
        <4>1. progress.expected # 0
          BY <1>9, <2>13
        <4>2. body' = [body EXCEPT !.complete = FALSE]
          BY <2>2, <4>1
        <4>3. ~body'.complete
          BY <2>3, <4>2 DEF Pieces
        <4>4. PICK p : p = progress.expected
          OBVIOUS
        <4>5. PICK known \in BOOLEAN : known = (p = 0)
          OBVIOUS
        <4>6. progress' = [known |-> known, expected |-> 0, read |-> s]
          BY <2>5, <4>4, <4>5, Zenon
        <4>7. progress'.known = known
          BY <4>6
        <4>8. QED
          BY <2>2, <4>1, <4>3, <4>4, <4>5, <4>7
      <3>2. PICK j \in 1..l : j = i + 1 /\ j - 1 = i
        <4>1. i \in 1..l /\ i # l
          BY <2>10, <2>11, <2>13
        <4>2. QED
          BY <4>1
      <3>3. T[j] = z /\ B[j - 1] = b
        BY <1>8, <3>2
      <3>4. line'.committed = <<>> /\ ~line'.complete
        BY <2>2, EmptySegment
      <3>5. Len(line'.committed) < Len(SizeLine(m, j))
        BY <2>10, <3>4, FirstByte
      <3>6. Standing(T[j], line'.committed, input', coming')
        BY <2>9, <3>3, <3>4
      <3>7. AtSize(T, B, j)'
        BY <1>1, <2>1, <2>4, <2>6, <2>7, <3>1, <3>3, <3>4, <3>5, <3>6 DEF AtSize
      <3>8. InChunks(T, B)'
        BY <1>1, <2>10, <3>7 DEF InChunks
      <3>9. QED
        BY <1>1, <1>2, <1>5, <2>8, <3>1, <3>8 DEF BodyInv
    <2>14. QED
      BY <2>12, <2>13
  <1>16. QED
    BY <1>13, <1>14, <1>15

(* A body of a given length is read.                                       *)
LEMMA GivenIsRead ==
    ASSUME BodyInv, ReadGiven
    PROVE  BodyInv'
  <1>1. PICK m \in Sendable : m = sent /\ m = sent'
    BY DEF BodyInv, ReadGiven
  <1>2. BodyTypeOK /\ m.length = "given" /\ m.fault = "none"
    BY <1>1 DEF BodyInv, ReadGiven
  <1>3. PICK in \in Seq(Bytes), more \in Seq(Bytes) : in = input /\ more = coming
    BY <1>2 DEF BodyTypeOK
  <1>4. reader = "reads" /\ coming' = more /\ line' = line /\ progress' = progress
    BY <1>3 DEF ReadGiven
  <1>5. PICK e \in Seq(Bytes), y \in Text, x \in Text :
          /\ e = FlattenSeq(m.chunks) /\ y = Following /\ x = e \o y
          /\ x = FlattenSeq(m.chunks) \o Following /\ Given = Len(e) /\ Given' = Len(e)
    <2>1. PICK e \in Seq(Bytes) : e = FlattenSeq(m.chunks)
      BY SentIsBytes
    <2>2. PICK y \in Text : y = Following
      BY SentIsBytes, BytesAreText
    <2>3. e \in Text
      BY BytesAreText
    <2>4. PICK x \in Text : x = e \o y
      BY <2>3, Joined
    <2>5. x = FlattenSeq(m.chunks) \o Following
      BY <2>1, <2>2, <2>4, Zenon
    <2>6. Given = Len(e) /\ Given' = Len(e)
      BY <1>1, <2>1 DEF Given
    <2>7. QED
      BY <2>1, <2>2, <2>4, <2>5, <2>6
  <1>6. /\ body.committed = <<>> /\ ~body.complete
        /\ Standing(x, body.pending, in, more)
        /\ Len(body.pending) < Len(e) \/ (Len(e) = 0 /\ body.pending = <<>>)
    <2>1. InGiven /\ ~Finished /\ ~Refused
      BY <1>1, <1>2, <1>4 DEF BodyInv, Finished, Refused
    <2>2. /\ body.committed = <<>> /\ ~body.complete
          /\ Standing(FlattenSeq(m.chunks) \o Following, body.pending, in, more)
          /\ Len(body.pending) < Given \/ (Given = 0 /\ body.pending = <<>>)
      BY <1>1, <1>3, <2>1 DEF InGiven
    <2>3. QED
      BY <1>5, <2>2
  <1>7. CASE Given > BodyLimit
    <2>1. reader' = "error" /\ body' = body /\ input' = in
      BY <1>3, <1>7 DEF ReadGiven
    <2>2. Refused'
      BY <1>5, <1>7, <2>1 DEF Refused, Refusable
    <2>3. BodyTypeOK'
      BY <1>2, <1>3, <1>4, <2>1 DEF BodyTypeOK
    <2>4. InGiven'
      BY <2>2 DEF InGiven
    <2>5. QED
      BY <1>1, <1>2, <2>1, <2>3, <2>4 DEF BodyInv
  <1>8. CASE ~(Given > BodyLimit)
    <2>1. PICK r : r = UpTo(body, in, Len(e))
      OBVIOUS
    <2>2. body' = r.segment /\ input' = r.in /\ reader' = IF r.segment.complete THEN "done" ELSE "waits"
      BY <1>3, <1>5, <1>8, <2>1 DEF ReadGiven
    <2>3. BytesTaken(r, body.committed, e, x, y, more)
      <3>1. body \in Pieces
        BY <1>2 DEF BodyTypeOK
      <3>2. Split(x, e, y)
        BY <1>5, Zenon DEF Split
      <3>3. Standing(x, body.pending, in, more)
        BY <1>6
      <3>4. Len(body.pending) < Len(e) \/ (Len(e) = 0 /\ body.pending = <<>>)
        BY <1>6
      <3>5. QED
        BY <1>6, <2>1, <3>1, <3>2, <3>3, <3>4, BytesRead
    <2>4. body.committed \o e = e
      <3>1. e \in Text
        BY BytesAreText
      <3>2. <<>> \o e = e
        BY <3>1, Empty
      <3>3. QED
        BY <1>6, <3>2, Zenon
    <2>5. /\ r.segment \in Pieces /\ r.in \in Seq(Bytes)
          /\ ~r.segment.complete => /\ r.in = <<>> /\ Standing(x, r.segment.pending, r.in, more)
                                    /\ r.segment.committed = <<>>
                                    /\ Len(r.segment.pending) < Len(e)
          /\ r.segment.complete => r.segment.committed = e /\ Standing(y, <<>>, r.in, more)
      BY <1>6, <2>3, <2>4, Zenon DEF BytesTaken
    <2>6. BodyTypeOK'
      BY <1>2, <1>3, <1>4, <2>2, <2>5 DEF BodyTypeOK
    <2>7. CASE ~r.segment.complete
      <3>1. /\ reader' = "waits" /\ body'.committed = <<>> /\ ~body'.complete
            /\ Standing(x, body'.pending, input', coming') /\ Len(body'.pending) < Given' /\ input' = <<>>
        BY <1>4, <1>5, <2>2, <2>5, <2>7
      <3>2. Standing(FlattenSeq(sent'.chunks) \o Following, body'.pending, input', coming')
        BY <1>1, <1>5, <3>1
      <3>3. InGiven'
        BY <3>1, <3>2 DEF InGiven
      <3>4. QED
        BY <1>1, <1>2, <2>6, <3>1, <3>3 DEF BodyInv
    <2>8. CASE r.segment.complete
      <3>1. reader' = "done" /\ body'.committed = e /\ Standing(y, <<>>, input', coming')
        BY <1>4, <2>2, <2>5, <2>8
      <3>2. ~Refusable'
        BY <1>1, <1>2, <1>5, <1>8 DEF Refusable
      <3>3. Finished'
        BY <1>1, <1>5, <3>1, <3>2 DEF Finished
      <3>4. InGiven'
        BY <3>3 DEF InGiven
      <3>5. QED
        BY <1>1, <1>2, <2>6, <3>1, <3>4 DEF BodyInv
    <2>9. QED
      BY <2>7, <2>8
  <1>9. QED
    BY <1>7, <1>8

(* A body of no given length is read.                                      *)
LEMMA AllIsRead ==
    ASSUME BodyInv, ReadAll
    PROVE  BodyInv'
  <1>1. PICK m \in Sendable : m = sent /\ m = sent'
    BY DEF BodyInv, ReadAll
  <1>2. BodyTypeOK /\ m.length = "all" /\ m.fault = "none"
    BY <1>1 DEF BodyInv, ReadAll
  <1>3. PICK in \in Seq(Bytes) : in = input
    BY <1>2 DEF BodyTypeOK
  <1>4. PICK out \in Seq(Bytes) : out = WithoutLineEnds(in)
    <2>1. Bytes \subseteq Word
      BY DEF Word
    <2> DEFINE s == [i \in DOMAIN in |-> IF in[i] \in {"CR", "LF"} THEN <<>> ELSE <<in[i]>>]
    <2>2. PICK n \in Nat : n = Len(in) /\ DOMAIN in = 1..n
      OBVIOUS
    <2>3. <<>> \in Seq(Bytes) /\ \A q \in Bytes : <<q>> \in Seq(Bytes)
      OBVIOUS
    <2>4. \A i \in 1..n : in[i] \in Bytes
      BY <2>2
    <2>5. s \in Seq(Seq(Bytes))
      <3>1. \A i \in 1..n : (IF in[i] \in {"CR", "LF"} THEN <<>> ELSE <<in[i]>>) \in Seq(Bytes)
        BY <2>3, <2>4
      <3>2. QED
        BY <2>2, <3>1
    <2>6. FlattenSeq(s) = WithoutLineEnds(in)
      BY DEF WithoutLineEnds
    <2> HIDE DEF s
    <2>7. FlattenSeq(s) \in Seq(Bytes)
      BY <2>1, <2>5, FlattenTyped
    <2>8. QED
      BY <2>6, <2>7
  <1>5. body \in Pieces /\ progress \in [known : BOOLEAN, expected : Nat, read : Nat] /\ line \in Pieces
        /\ coming \in Seq(Bytes)
    BY <1>2 DEF BodyTypeOK
  <1>6. /\ body' = [body EXCEPT !.committed = @ \o out] /\ input' = <<>>
        /\ progress' = [progress EXCEPT !.read = @ + body.last]
        /\ reader' \in {"error", "done", "waits"} /\ coming' = coming /\ line' = line
    BY <1>3, <1>4 DEF ReadAll
  <1>7. body' \in Pieces
    <2>1. PICK c \in Seq(Bytes) : c = body.committed
      BY <1>5 DEF Pieces
    <2>2. PICK d \in Seq(Bytes) : d = c \o out
      BY BytesJoined
    <2>3. body' = [body EXCEPT !.committed = d]
      BY <1>6, <2>1, <2>2
    <2>4. QED
      BY <1>5, <2>3 DEF Pieces
  <1>8. progress' \in [known : BOOLEAN, expected : Nat, read : Nat]
    <2>1. PICK q \in [known : BOOLEAN, expected : Nat, read : Nat] : q = progress
      BY <1>5, Zenon
    <2>2. PICK n \in Nat : n = body.last
      BY <1>5 DEF Pieces
    <2>3. progress' = [q EXCEPT !.read = @ + n]
      BY <1>6, <2>1, <2>2, Zenon
    <2>4. [q EXCEPT !.read = @ + n] \in [known : BOOLEAN, expected : Nat, read : Nat]
      OBVIOUS
    <2>5. QED
      BY ONLY <2>3, <2>4
  <1>9. BodyTypeOK'
    <2>1. <<>> \in Seq(Bytes)
      OBVIOUS
    <2>2. QED
      BY <1>5, <1>6, <1>7, <1>8, <2>1 DEF BodyTypeOK
  <1>10. QED
    BY <1>1, <1>2, <1>6, <1>9 DEF BodyInv

(* A body is where it should be, from its first byte to its last.          *)
THEOREM BodyInvariant == BodySpec => []BodyInv
  <1>1. BodyInit => BodyInv
    BY BodyStarts
  <1>2. BodyInv /\ [BodyNext]_bodyVars => BodyInv'
    <2>1. SUFFICES ASSUME BodyInv, [BodyNext]_bodyVars PROVE BodyInv'
      OBVIOUS
    <2>2. ASSUME NEW n \in 1..Len(coming), Arrive(n) PROVE BodyInv'
      BY <2>1, <2>2, BytesArrive
    <2>3. CASE ReadSize
      BY <2>1, <2>3, SizeIsRead
    <2>4. CASE ReadChunk
      BY <2>1, <2>4, ChunkIsRead
    <2>5. CASE ReadSuffix
      BY <2>1, <2>5, SuffixIsRead
    <2>6. CASE ReadGiven
      BY <2>1, <2>6, GivenIsRead
    <2>7. CASE ReadAll
      BY <2>1, <2>7, AllIsRead
    <2>8. CASE UNCHANGED bodyVars
      BY <2>1, <2>8 DEF bodyVars, BodyInv, BodyTypeOK, InChunks, InGiven, Finished, Refused, Refusable, Given,
         AtSize, AtData, AtSuffix
    <2>9. QED
      BY <2>1, <2>2, <2>3, <2>4, <2>5, <2>6, <2>7, <2>8 DEF BodyNext
  <1>3. QED
    BY <1>1, <1>2, PTL DEF BodySpec

(* However the stream is cut, a body whose end is told is read as it was   *)
(* sent, nothing of the message after it is taken, only a body that is     *)
(* malformed or too large is refused, and nobody waits once all is here.   *)
THEOREM BodiesAreReadAsSent == BodySpec => []ReadAsSent
  <1>1. ASSUME BodyInv PROVE ReadAsSent
    <2>1. PICK m \in Sendable : m = sent
      BY <1>1 DEF BodyInv
    <2>2. SUFFICES ASSUME m.length # "all" PROVE
            /\ reader = "done" => /\ ~Refusable
                                  /\ body.committed = FlattenSeq(sent.chunks)
                                  /\ input \o coming = Following
            /\ reader = "error" => Refusable
            /\ reader = "waits" => coming # <<>>
      BY <2>1 DEF ReadAsSent
    <2>3. m.length = "chunked" \/ m.length = "given"
      BY <2>2 DEF Sendable, BodyLengths
    <2>4. BodyTypeOK /\ (reader = "waits" => input = <<>>)
      BY <1>1 DEF BodyInv
    <2>5. input \in Text /\ coming \in Text /\ line.committed \in Text /\ body.pending \in Text
      <3>1. input \in Seq(Bytes) /\ coming \in Seq(Bytes) /\ line \in Pieces /\ body \in Pieces
        BY <2>4 DEF BodyTypeOK
      <3>2. line.committed \in Seq(Bytes) /\ body.pending \in Seq(Bytes)
        BY <3>1 DEF Pieces
      <3>3. QED
        BY <3>1, <3>2, BytesAreText
    <2>6. Following \in Text /\ Len(Following) = 2
      BY SentIsBytes, BytesAreText DEF Following
    <2>7. ASSUME Finished
          PROVE  reader = "done" /\ ~Refusable /\ body.committed = FlattenSeq(sent.chunks) /\ input \o coming = Following
      <3>1. Standing(Following, <<>>, input, coming)
        BY <2>7 DEF Finished
      <3>2. Split(Following, input, coming)
        BY <2>5, <2>6, <3>1, StandingFresh
      <3>3. input \o coming = Following
        BY <3>2, Zenon DEF Split
      <3>4. QED
        BY <2>7, <3>3 DEF Finished
    <2>8. Refused => reader = "error" /\ Refusable
      BY DEF Refused
    <2>9. ASSUME NEW t \in Text, NEW c \in Text, Standing(t, c, input, coming), Len(c) < Len(t), reader = "waits"
          PROVE  coming # <<>>
      <3>1. Len(t) = Len(c) + Len(input) + Len(coming) /\ Len(c) \in Nat /\ Len(t) \in Nat
        BY <2>5, <2>9, StandingLength
      <3>2. Len(input) = 0
        BY <2>4, <2>9
      <3>3. Len(coming) # 0
        BY <2>9, <3>1, <3>2
      <3>4. QED
        BY <3>3
    <2>10. ASSUME NEW t \in Text, NEW w \in Text, NEW x \in Text, Split(t, w, x), NEW n \in Nat, n < Len(w)
           PROVE  n < Len(t)
      <3>1. Len(t) = Len(w) + Len(x) /\ Len(w) \in Nat /\ Len(x) \in Nat
        BY <2>10, SplitIs
      <3>2. QED
        BY <2>10, <3>1
    <2>11. CASE m.length = "chunked"
      <3>1. PICK T, B : Stream(m, T) /\ Grown(m, B) /\ InChunks(T, B)
        BY <1>1, <2>1, <2>11 DEF BodyInv
      <3>2. CASE Finished \/ Refused
        BY <2>7, <2>8, <3>2
      <3>3. ASSUME NEW i \in 1..LastChunk(m), AtSize(T, B, i) \/ AtData(T, B, i) \/ AtSuffix(T, B, i)
            PROVE  reader \in {"waits", "reads"} /\ (reader = "waits" => coming # <<>>)
        <4>1. PICK h \in Seq(Bytes), e \in Seq(Bytes), g \in Seq(Bytes), a \in Seq(Bytes), b \in Seq(Bytes),
                   w \in Text, x \in Text, y \in Text, v \in Text, z \in Text :
                T[i] \in Text /\ Laid(m, T, B, i, h, w, x, e, y, g, v, z, a, b)
          BY <3>1, ChunksAreLaid
        <4>2. /\ w = SizeLine(m, i) /\ x = BehindSize(m, i, T[i + 1]) /\ e = ChunkAt(m, i)
              /\ y = BehindData(m, i, T[i + 1]) /\ v = SuffixLine(m, i)
              /\ Split(T[i], w, x) /\ Split(x, e, y) /\ Split(y, v, z) /\ e \in Text
          BY <4>1, BytesAreText DEF Laid
        <4>3. Len(line.committed) \in Nat /\ Len(body.pending) \in Nat
          BY <2>5 DEF Text
        <4>4. CASE AtSize(T, B, i)
          <5>1. /\ reader \in {"waits", "reads"} /\ Standing(T[i], line.committed, input, coming)
                /\ Len(line.committed) < Len(w)
            BY <2>1, <4>2, <4>4 DEF AtSize
          <5>2. Len(line.committed) < Len(T[i])
            BY <2>10, <4>1, <4>2, <4>3, <5>1
          <5>3. QED
            BY <2>5, <2>9, <4>1, <5>1, <5>2
        <4>5. CASE AtData(T, B, i)
          <5>1. /\ reader \in {"waits", "reads"} /\ Standing(x, body.pending, input, coming)
                /\ Len(body.pending) < Len(e) \/ reader = "reads"
            BY <2>1, <4>2, <4>5 DEF AtData
          <5>2. Len(body.pending) < Len(e) => Len(body.pending) < Len(x)
            BY <2>10, <4>2, <4>3
          <5>3. QED
            BY <2>5, <2>9, <5>1, <5>2
        <4>6. CASE AtSuffix(T, B, i)
          <5>1. /\ reader \in {"waits", "reads"} /\ Standing(y, line.committed, input, coming)
                /\ Len(line.committed) < Len(v)
            BY <2>1, <4>2, <4>6 DEF AtSuffix
          <5>2. Len(line.committed) < Len(y)
            BY <2>10, <4>2, <4>3, <5>1
          <5>3. QED
            BY <2>5, <2>9, <5>1, <5>2
        <4>7. QED
          BY <3>3, <4>4, <4>5, <4>6
      <3>4. QED
        BY <2>1, <3>1, <3>2, <3>3 DEF InChunks
    <2>12. CASE m.length = "given"
      <3>1. InGiven
        BY <1>1, <2>1, <2>12 DEF BodyInv
      <3>2. CASE Finished \/ Refused
        BY <2>7, <2>8, <3>2
      <3>3. CASE ~(Finished \/ Refused)
        <4>1. /\ reader \in {"waits", "reads"}
              /\ Standing(FlattenSeq(m.chunks) \o Following, body.pending, input, coming)
              /\ Len(body.pending) < Given \/ (Given = 0 /\ body.pending = <<>>)
          BY <2>1, <3>1, <3>3 DEF InGiven
        <4>2. PICK e \in Text : e = FlattenSeq(m.chunks)
          BY SentIsBytes, BytesAreText
        <4>3. PICK x \in Text : x = e \o Following
          BY <2>6, Joined
        <4>4. Standing(x, body.pending, input, coming)
          BY <4>1, <4>2, <4>3
        <4>5. Len(x) = Len(e) + 2 /\ Len(e) \in Nat /\ Given = Len(e)
          <5>1. Len(e \o Following) = Len(e) + Len(Following) /\ Len(e) \in Nat
            BY <2>6, Joined
          <5>2. QED
            BY <2>1, <2>6, <4>2, <4>3, <5>1 DEF Given
        <4>6. Len(body.pending) < Len(x)
          <5>1. Len(body.pending) \in Nat
            BY <2>5 DEF Text
          <5>2. body.pending = <<>> => Len(body.pending) = 0
            OBVIOUS
          <5>3. QED
            BY <4>1, <4>5, <5>1, <5>2
        <4>7. QED
          BY <2>5, <2>9, <4>1, <4>4, <4>6
      <3>4. QED
        BY <3>2, <3>3
    <2>13. QED
      BY <2>3, <2>11, <2>12
  <1>2. BodyInv => ReadAsSent
    BY <1>1
  <1>3. QED
    BY <1>2, BodyInvariant, PTL

-------------------------------------------------------------------------------

(* What is read as a port is a port or none.                               *)
LEMMA PortOrNone ==
    ASSUME NEW t
    PROVE  ParsePort(t) \in Ports \union {"none"}
  BY DEF ParsePort

(* The forms that a target can have.                                       *)
Forms == {"origin", "absolute", "authority", "asterisk"}

(* A record with the fields of a url, of a form and with a port or none.   *)
UrlTyped(u) ==
    /\ {"form", "scheme", "netloc", "path", "search"} \subseteq DOMAIN u
    /\ u.form \in Forms
    /\ "port" \in DOMAIN u.netloc /\ u.netloc.port \in Ports \union {"none"}

(* Any text gives a netloc with a port or none.                            *)
LEMMA NetlocTyped ==
    ASSUME NEW t
    PROVE  "port" \in DOMAIN ParseNetloc(t) /\ ParseNetloc(t).port \in Ports \union {"none"}
  BY PortOrNone DEF ParseNetloc

(* The empty url is typed.                                                 *)
LEMMA EmptyTyped ==
    ASSUME NEW f \in Forms
    PROVE  UrlTyped(EmptyUrl(f)) /\ "host" \in DOMAIN EmptyUrl(f).netloc
  BY DEF UrlTyped, EmptyUrl, NoNetloc

(* Other fields than the form and the netloc may take any value.           *)
LEMMA FieldsTyped ==
    ASSUME NEW u, UrlTyped(u), NEW x, NEW y
    PROVE  /\ UrlTyped([u EXCEPT !.path = x]) /\ UrlTyped([u EXCEPT !.search = x])
           /\ UrlTyped([u EXCEPT !.scheme = x]) /\ UrlTyped([u EXCEPT !.path = x, !.search = y])
  BY DEF UrlTyped

(* A netloc that is parsed keeps the url typed.                            *)
LEMMA NetlocPut ==
    ASSUME NEW u, UrlTyped(u), NEW t
    PROVE  UrlTyped([u EXCEPT !.netloc = ParseNetloc(t)])
  <1>1. PICK n : n = ParseNetloc(t)
    OBVIOUS
  <1>2. "port" \in DOMAIN n /\ n.port \in Ports \union {"none"}
    BY <1>1, NetlocTyped
  <1>3. UrlTyped([u EXCEPT !.netloc = n])
    BY <1>2 DEF UrlTyped
  <1>4. QED
    BY <1>1, <1>3

(* A path and a search from any place keep the url typed.                  *)
LEMMA WithPathTyped ==
    ASSUME NEW u, UrlTyped(u), NEW t, NEW from
    PROVE  UrlTyped(WithPath(u, t, from))
  <1>1. \A x, y : UrlTyped([u EXCEPT !.path = x, !.search = y])
    BY FieldsTyped
  <1>2. QED
    BY <1>1, Zenon DEF WithPath

(* So does what follows the slashes of an absolute form.                   *)
LEMMA WithNetlocTyped ==
    ASSUME NEW u, UrlTyped(u), NEW t, NEW from
    PROVE  UrlTyped(WithNetloc(u, t, from))
  <1> DEFINE delim == Find(t, {"?"}, from)
             slash == Find(t, {"/"}, from)
             v     == [u EXCEPT !.netloc = ParseNetloc(Part(t, from, Min({delim, slash})))]
  <1>1. UrlTyped(v)
    BY NetlocPut
  <1>2. \/ WithNetloc(u, t, from) = [v EXCEPT !.search = Behind(t, delim)]
        \/ WithNetloc(u, t, from) = [v EXCEPT !.path = Behind(t, slash)]
        \/ WithNetloc(u, t, from) = WithPath(v, t, slash)
    BY DEF WithNetloc
  <1> HIDE DEF delim, slash, v
  <1>3. /\ UrlTyped([v EXCEPT !.search = Behind(t, delim)])
        /\ UrlTyped([v EXCEPT !.path = Behind(t, slash)])
        /\ UrlTyped(WithPath(v, t, slash))
    BY <1>1, FieldsTyped, WithPathTyped
  <1>4. QED
    BY <1>2, <1>3

(* An absolute form of any text.                                           *)
LEMMA AbsoluteTyped ==
    ASSUME NEW t
    PROVE  UrlTyped(ParseAbsolute(t))
  <1> DEFINE colon == Find(t, {":"}, 1)
             start == IF Found(t, colon) THEN colon ELSE 1
             u     == [EmptyUrl("absolute") EXCEPT
                          !.scheme = IF Found(t, colon) THEN Part(t, 1, colon) ELSE <<>>]
  <1>1. UrlTyped(u)
    BY EmptyTyped, FieldsTyped DEF Forms
  <1>2. \/ ParseAbsolute(t) = WithNetloc(u, t, start + 3)
        \/ ParseAbsolute(t) = WithPath(u, t, start + 2)
        \/ ParseAbsolute(t) = [u EXCEPT !.search = Behind(t, start + 1)]
    <2>1. CASE At(t, start + 1) = "/" /\ At(t, start + 2) = "/"
      BY <2>1, Zenon DEF ParseAbsolute
    <2>2. CASE At(t, start + 1) = "/" /\ At(t, start + 2) # "/"
      BY <2>2, Zenon DEF ParseAbsolute
    <2>3. CASE At(t, start + 1) # "/"
      BY <2>3, Zenon DEF ParseAbsolute
    <2>4. QED
      BY <2>1, <2>2, <2>3
  <1> HIDE DEF colon, start, u
  <1>3. /\ UrlTyped(WithNetloc(u, t, start + 3)) /\ UrlTyped(WithPath(u, t, start + 2))
        /\ UrlTyped([u EXCEPT !.search = Behind(t, start + 1)])
    BY <1>1, FieldsTyped, WithPathTyped, WithNetlocTyped
  <1>4. QED
    BY <1>2, <1>3

(* Any target is parsed into a url with its types.                         *)
LEMMA TargetTyped ==
    ASSUME NEW t, NEW connect
    PROVE  UrlTyped(ParseTarget(t, connect))
  <1>1. UrlTyped(EmptyUrl("asterisk")) /\ UrlTyped(WithPath(EmptyUrl("origin"), t, 1))
    BY EmptyTyped, WithPathTyped DEF Forms
  <1>2. UrlTyped(ParseAuthority(t))
    <2>1. PICK h, p : h = Part(t, 1, Find(t, {":"}, 1)) /\ p = ParsePort(Behind(t, Find(t, {":"}, 1) + 1))
      OBVIOUS
    <2>2. p \in Ports \union {"none"}
      BY <2>1, PortOrNone
    <2>3. UrlTyped([EmptyUrl("authority") EXCEPT !.netloc.host = h, !.netloc.port = p])
      BY <2>2 DEF UrlTyped, EmptyUrl, NoNetloc, Forms
    <2>4. QED
      BY <2>1, <2>3 DEF ParseAuthority
  <1>3. QED
    BY <1>1, <1>2, AbsoluteTyped DEF ParseTarget

(* What holds of the types of a target in every state.                     *)
TargetTyping ==
    /\ secured \in BOOLEAN /\ UrlTyped(target)
    /\ handling \in {"received", "parsed", "valid", "refused"}

(* Validation keeps a url typed, whatever the Host header says.            *)
LEMMA ValidateTyped ==
    ASSUME TargetTyping, ValidateTarget
    PROVE  TargetTyping'
  <1> DEFINE origin == target.form = "origin" /\ target.netloc.host = <<>>
             hosted == IF origin THEN [target EXCEPT !.netloc = ParseNetloc(host_header)]
                       ELSE IF target.form = "absolute" THEN [target EXCEPT !.form = "origin"]
                       ELSE target
             scheme == IF target.form = "authority" \/ hosted.scheme # <<>> THEN hosted.scheme
                       ELSE IF secured THEN <<"https">> ELSE <<"http">>
             port   == IF hosted.netloc.port # "none" THEN hosted.netloc.port
                       ELSE IF scheme = <<"https">> \/ secured THEN "443" ELSE "80"
  <1>1. UrlTyped(target)
    BY DEF TargetTyping
  <1>2. UrlTyped(hosted)
    <2>1. UrlTyped([target EXCEPT !.netloc = ParseNetloc(host_header)])
      BY <1>1, NetlocPut
    <2>2. UrlTyped([target EXCEPT !.form = "origin"])
      BY <1>1 DEF UrlTyped, Forms
    <2>3. QED
      BY <1>1, <2>1, <2>2
  <1>3. port \in Ports \union {"none"}
    <2>1. hosted.netloc.port \in Ports \union {"none"}
      BY <1>2 DEF UrlTyped
    <2>2. "80" \in Ports /\ "443" \in Ports
      BY RequestAssumption
    <2> HIDE DEF hosted, scheme
    <2>3. QED
      BY <2>1, <2>2
  <1>4. /\ \/ target' = target
           \/ target' = [hosted EXCEPT !.scheme = scheme, !.netloc.port = port]
        /\ handling' \in {"refused", "valid"} /\ secured' = secured
    BY DEF ValidateTarget
  <1> HIDE DEF origin, hosted, scheme, port
  <1>5. UrlTyped([hosted EXCEPT !.scheme = scheme, !.netloc.port = port])
    BY <1>2, <1>3 DEF UrlTyped
  <1>6. QED
    BY <1>1, <1>4, <1>5 DEF TargetTyping

(* A target has a form and a port or none, whatever was asked.             *)
THEOREM TargetTypes == TargetSpec => []TargetTypeOK
  <1>1. TargetInit => TargetTyping
    BY EmptyTyped DEF TargetInit, TargetTyping, Forms
  <1>2. TargetTyping /\ [TargetNext]_targetVars => TargetTyping'
    <2>1. ASSUME TargetTyping, ReadTarget PROVE TargetTyping'
      <3>1. UrlTyped(target')
        BY <2>1, TargetTyped DEF ReadTarget
      <3>2. QED
        BY <2>1, <3>1 DEF ReadTarget, TargetTyping
    <2>2. ASSUME TargetTyping, UNCHANGED targetVars PROVE TargetTyping'
      BY <2>2 DEF TargetTyping, targetVars
    <2>3. QED
      BY <2>1, <2>2, ValidateTyped DEF TargetNext
  <1>3. TargetTyping => TargetTypeOK
    BY DEF TargetTyping, TargetTypeOK, UrlTyped, Forms
  <1>4. QED
    BY <1>1, <1>2, <1>3, PTL DEF TargetSpec

(* The reader of ClientHello records keeps its types.                      *)
THEOREM HelloTypes == HelloSpec => []HelloTypeOK
  <1>1. HelloInit => HelloTypeOK
    <2> SUFFICES ASSUME HelloInit PROVE HelloTypeOK
      OBVIOUS
    <2>1. Total \in Nat
      BY HelloAssumption DEF HelloInit, Total
    <2>2. QED
      BY <2>1 DEF HelloInit, HelloTypeOK
  <1>2. HelloTypeOK /\ [HelloNext]_helloVars => HelloTypeOK'
    <2>1. ASSUME HelloTypeOK, NEW n \in 1..Total, OnRead(n)
          PROVE  record' \in Records /\ isHello' \in BOOLEAN /\ available' \in 0..Total'
      <3>1. Total' = Total /\ Total \in Nat
        BY <2>1, HelloAssumption DEF OnRead, Total, HelloTypeOK
      <3>2. QED
        BY <2>1, <3>1 DEF OnRead, HelloTypeOK
    <2>2. ASSUME NEW s, DOMAIN s = {"committed", "pending"}, NEW bytes, NEW size, NEW here
          PROVE  DOMAIN Copy(s, bytes, size, here).segment = {"committed", "pending"}
      <3>1. \A x : DOMAIN [s EXCEPT !.pending = x] = {"committed", "pending"}
        BY <2>2
      <3>2. \A x : DOMAIN [committed |-> x, pending |-> <<>>] = {"committed", "pending"}
        OBVIOUS
      <3>3. QED
        BY <3>1, <3>2, Zenon DEF Copy
    <2>3. ASSUME HelloTypeOK, NEW n \in 1..Total
          PROVE  DOMAIN HeaderRead(n).segment = {"committed", "pending"}
      <3>1. PICK c : c = Copy(segment, HeaderLength, n, available + n)
        OBVIOUS
      <3>2. DOMAIN c.segment = {"committed", "pending"} /\ {"defined", "segment"} \subseteq DOMAIN c
        BY <2>2, <2>3, <3>1 DEF HelloTypeOK, Copy
      <3>3. DOMAIN HeaderWritten(c).segment = {"committed", "pending"}
        <4>1. \A x : DOMAIN [c EXCEPT !.defined = x].segment = {"committed", "pending"}
          BY <3>2
        <4>2. QED
          BY <4>1, Zenon DEF HeaderWritten
      <3>4. QED
        BY <2>3, <3>1, <3>3 DEF HeaderRead, HelloTypeOK
    <2>4. ASSUME HelloTypeOK, NEW n \in 1..Total
          PROVE  DOMAIN RecordRead(n).segment = {"committed", "pending"}
      BY <2>2, <2>3, <2>4 DEF RecordRead
    <2>5. ASSUME HelloTypeOK, NEW n \in 1..Total, ReadUndefined(n) PROVE HelloTypeOK'
      BY <2>1, <2>5 DEF ReadUndefined, HelloTypeOK
    <2>6. ASSUME HelloTypeOK, NEW n \in 1..Total, ReadPartOfHeader(n) PROVE HelloTypeOK'
      BY <2>1, <2>3, <2>6 DEF ReadPartOfHeader, HelloTypeOK
    <2>7. ASSUME HelloTypeOK, NEW n \in 1..Total, ReadNoHello(n) PROVE HelloTypeOK'
      BY <2>1, <2>3, <2>7 DEF ReadNoHello, HelloTypeOK
    <2>8. ASSUME HelloTypeOK, NEW n \in 1..Total, ReadRecord(n) PROVE HelloTypeOK'
      <3>1. hello' \in {"done", "reads"} /\ length' = record /\ segment' = RecordRead(n).segment /\ OnRead(n)
        BY <2>8 DEF ReadRecord
      <3>2. QED
        BY <2>1, <2>4, <2>8, <3>1 DEF HelloTypeOK, OnRead
    <2>9. ASSUME HelloTypeOK, UNCHANGED helloVars PROVE HelloTypeOK'
      BY <2>9 DEF HelloTypeOK, helloVars, Total
    <2>10. QED
      BY <2>5, <2>6, <2>7, <2>8, <2>9 DEF HelloNext
  <1>3. QED
    BY <1>1, <1>2, PTL DEF HelloSpec

(* What is required and has been met is among the options added.           *)
LEMMA OptionTyping == OptionInv => OptionTypeOK
  <1> SUFFICES ASSUME OptionInv PROVE OptionTypeOK
    OBVIOUS
  <1>1. args \in Seq(Arguments) /\ Len(args) \in Nat
    BY OptionAssumption DEF OptionInv
  <1>2. Declared \in Seq(Options)
    BY OptionAssumption
  <1>3. CASE phase = "adds"
    <2>1. /\ at = 1 /\ required_seen = {} /\ DOMAIN destination = option_map
          /\ Cardinality(option_map) \in 0..Len(Declared) /\ option_map = First(Cardinality(option_map))
      BY <1>3 DEF OptionInv, Adding
    <2>2. option_map \subseteq Options
      <3>1. PICK k \in 0..Len(Declared) : option_map = First(k)
        BY <2>1
      <3>2. \A i \in 1..k : i \in 1..Len(Declared)
        BY <1>2
      <3>3. QED
        BY <3>1, <3>2 DEF First, Options
    <2>3. at \in 1..Len(args) + 2
      BY <1>1, <2>1
    <2>4. QED
      BY <1>1, <1>3, <2>1, <2>2, <2>3 DEF OptionTypeOK
  <1>4. CASE phase # "adds"
    <2>1. /\ option_map = Options /\ DOMAIN destination = Options /\ at \in 1..Len(args) + 1
          /\ required_seen \subseteq Options
      BY <1>4 DEF OptionInv
    <2>2. at \in 1..Len(args) + 2
      BY <1>1, <2>1
    <2>3. phase \in {"adds", "parses", "checks", "runs", "help", "fails"}
      BY DEF OptionInv
    <2>4. QED
      BY <1>1, <2>1, <2>2, <2>3 DEF OptionTypeOK
  <1>5. QED
    BY <1>3, <1>4

(* The invariants of the owners give the types of their state.             *)
LEMMA OwnershipTyping ==
    /\ InvocableInv => InvocableTypeOK
    /\ ResultsInv => ResultTypeOK /\ VoidTypeOK
    /\ PointerInv => PointerTypeOK
    /\ InterceptorInv => InterceptorTypeOK
    /\ BodyInv => BodyTypeOK
    /\ ParserInv => ParserTypeOK
  <1>1. InvocableInv => InvocableTypeOK
    BY DEF InvocableInv, InvocableTypeOK, Kinds, Sane, Objects, Storeroom, Place, Places
  <1>2. ResultsInv => ResultTypeOK /\ VoidTypeOK
    BY DEF ResultsInv, ResultTypeOK, StoresKept, Storages, Storing, ResultRecord, VoidKept
  <1>3. PointerInv => PointerTypeOK
    BY DEF PointerInv
  <1>4. InterceptorInv => InterceptorTypeOK
    BY DEF InterceptorInv, Types
  <1>5. BodyInv => BodyTypeOK
    BY DEF BodyInv
  <1>6. ParserInv => ParserTypeOK
    BY DEF ParserInv
  <1>7. QED
    BY <1>1, <1>2, <1>3, <1>4, <1>5, <1>6

(* Every component of the library takes its own steps or none.             *)
LEMMA LibrarySteps ==
    ASSUME [LibraryNext]_libraryVars
    PROVE  /\ [InvocableNext]_invocableVars
           /\ [VoidNext \/ (ResultNext /\ UNCHANGED voidVars)]_<<resultVars, voidVars>>
           /\ [PointerNext]_pointerVars /\ [UuidNext]_uuidVars /\ [InterceptorNext]_interceptorVars
           /\ [BodyNext]_bodyVars /\ [HelloNext]_helloVars /\ [OptionNext]_optionVars
           /\ [ParserNext]_parserVars /\ [TargetNext]_targetVars
           /\ part' = part
  BY DEF LibraryNext, libraryVars

(* So the library behaves like each of its components.                     *)
LEMMA LibraryComponents ==
    LibrarySpec =>
        /\ InvocableSpec /\ ResultsSpec /\ PointerSpec /\ UuidSpec /\ InterceptorSpec /\ BodySpec
        /\ HelloSpec /\ OptionSpec /\ ParserSpec /\ TargetSpec /\ [](part \in Parts)
  <1>1. LibraryInit =>
            /\ InvocableInit /\ ResultInit /\ VoidInit /\ PointerInit /\ UuidInit /\ InterceptorInit /\ BodyInit
            /\ HelloInit /\ OptionInit /\ ParserInit /\ TargetInit /\ part \in Parts
    BY DEF LibraryInit
  <1>2. part \in Parts /\ part' = part => (part \in Parts)'
    OBVIOUS
  <1>3. QED
    BY <1>1, <1>2, LibrarySteps, PTL
       DEF LibrarySpec, InvocableSpec, ResultsSpec, PointerSpec, UuidSpec, InterceptorSpec, BodySpec, HelloSpec,
           OptionSpec, ParserSpec, TargetSpec

(* Side by side, every component keeps the types of its variables.         *)
THEOREM LibraryTypes == LibrarySpec => []LibraryTypeOK
  <1>1. /\ part \in Parts /\ InvocableInv /\ ResultsInv /\ PointerInv /\ UuidTypeOK /\ InterceptorInv /\ BodyInv
        /\ HelloTypeOK /\ OptionInv /\ ParserInv /\ TargetTypeOK
        => LibraryTypeOK
    BY OptionTyping, OwnershipTyping DEF LibraryTypeOK
  <1>2. PointerSpec => []PointerInv
    BY PointerAssumption, PointerInvariant
  <1>3. QED
    BY <1>1, <1>2, LibraryComponents, InvocableInvariant, ResultsInvariant, UuidTypes, InterceptorInvariant,
       BodyInvariant, HelloTypes, OptionInvariant, ParserInvariant, TargetTypes, PTL

(* Side by side, the components keep what is promised of each of them,     *)
(* with the exceptions each property names: one owner for each callable,   *)
(* results as they were put, references counted, ids that differ, hooks    *)
(* that are all run, bodies read as sent, command lines as meant, frames   *)
(* legal and as sent, and targets understood.                              *)
THEOREM LibraryKeepsItsPromises ==
    LibrarySpec => [](/\ OneOwner /\ ResultsHold /\ ReferencesCounted /\ SoundIdsUnique /\ RunsWhatIsAttached
                      /\ ReadAsSent /\ ParsedAsMeant /\ OutputLegal /\ ArrivesAsSent /\ TargetUnderstood)
  <1>1. PointerSpec => []ReferencesCounted
    BY PointerAssumption, CountsAreOwners
  <1>2. QED
    BY <1>1, LibraryComponents, CallablesHaveOneOwner, ResultsAreKept, SoundIdsStayUnique, FaithfulRuns,
       BodiesAreReadAsSent, CommandLineIsMeant, OutputStaysLegal,
       WholeFramesArriveAsSent, PlainTargetIsUnderstood, PTL

===============================================================================
