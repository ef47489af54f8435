-------------------------------- MODULE Bodies --------------------------------
(***************************************************************************)
(* http_parser::read_body on its buffer_segments: the body of a message    *)
(* whose bytes arrive in pieces.  read_body is called after every read; it *)
(* returns when it needs more, and goes on where it was when called again. *)
(***************************************************************************)
EXTENDS Naturals, Sequences, SequencesExt

CONSTANTS
    Data,           \* the bytes a body is made of
    Digits,         \* the sizes of chunks, from zero on, as they are written
    Chunkings,      \* the bodies sent, each a sequence of chunks
    BodyLimit       \* options_.body_size_limit

ASSUME BodyAssumption ==
    /\ BodyLimit \in Nat /\ {"CR", "LF"} \subseteq Data
    /\ Digits \in Seq(STRING) /\ {"CR", "LF", "bad"} \intersect Range(Digits) = {}
    /\ \A j, k \in DOMAIN Digits : Digits[j] = Digits[k] => j = k
    /\ Len(Digits) > 0
    /\ \A chunks \in Chunkings : /\ chunks \in Seq(Seq(Data))
                                 /\ \A i \in DOMAIN chunks : Len(chunks[i]) \in 1..Len(Digits) - 1

VARIABLES
    sent,       \* the message: how its length is told, its chunks, what is wrong with it
    coming,       \* what has not arrived
    input,      \* what has arrived and is not read
    body,       \* body_buf_
    line,       \* chunk_header_buf_ or chunk_suffix_buf_, the one in use
    progress,   \* state_: next_chunk_size_known, expected_size, read
    reader      \* "waits" for input, "reads", "done", "error"

bodyVars == <<sent, coming, input, body, line, progress, reader>>

Bytes == Data \union Range(Digits) \union {"bad", "next"}

CRLF == <<"CR", "LF">>

(* The first bytes of the next message. *)
Following == <<"LF", "next">>

BodyLengths == {"chunked", "given", "all"}

Faults == {"none", "size", "suffix"}

(* A chunk as it is sent; the first one may have a bad size or suffix. *)
Chunk(data, fault) ==
    (IF fault = "size" THEN <<"bad">> ELSE <<Digits[Len(data) + 1]>>)
      \o CRLF \o data \o (IF fault = "suffix" THEN <<"bad">> ELSE <<>>) \o CRLF

Encoded(message) ==
    IF message.length = "chunked"
    THEN FlattenSeq([i \in 1..Len(message.chunks) + 1 |->
            Chunk(IF i > Len(message.chunks) THEN <<>> ELSE message.chunks[i],
                  IF i = 1 THEN message.fault ELSE "none")]) \o Following
    ELSE FlattenSeq(message.chunks) \o (IF message.length = "given" THEN Following ELSE <<>>)

(* A segment: complete(), what is committed, what is not, bytes_last_read. *)
Segment == [complete |-> FALSE, committed |-> <<>>, pending |-> <<>>, last |-> 0]

Pieces == [complete : BOOLEAN, committed : Seq(Bytes), pending : Seq(Bytes), last : Nat]

Unread == [known |-> FALSE, expected |-> 0, read |-> 0]

(* An earlier body of the connection was read to body_buf_, or none was. *)
BodyInit ==
    /\ sent \in [length : BodyLengths, chunks : Chunkings, fault : Faults]
    /\ sent.fault = "none" \/ sent.length = "chunked"
    /\ coming = Encoded(sent) /\ input = <<>>
    /\ body \in {Segment, [Segment EXCEPT !.last = 1]} /\ line = Segment
    /\ progress = Unread
    /\ reader = "waits"

BodyTypeOK ==
    /\ coming \in Seq(Bytes) /\ input \in Seq(Bytes)
    /\ body \in Pieces /\ line \in Pieces
    /\ progress \in [known : BOOLEAN, expected : Nat, read : Nat]
    /\ reader \in {"waits", "reads", "done", "error"}

-------------------------------------------------------------------------------

Rest(s, n) == SubSeq(s, n + 1, Len(s))

(* Mutant: a delimiter is only seen within one call. *)
UntilInOneCall(segment, in) ==
    LET ends == {k \in 1..Len(in) : IsSuffix(CRLF, SubSeq(in, 1, k))}
        end  == CHOOSE k \in ends : \A j \in ends : k =< j
    IN  IF ends = {}
        THEN [segment |-> [segment EXCEPT !.committed = @ \o in], in |-> <<>>]
        ELSE [segment |-> [segment EXCEPT !.complete = TRUE,
                                          !.committed = @ \o SubSeq(in, 1, end - 2)],
              in |-> Rest(in, end)]

(* read_until(in, CRLF): takes bytes until what the segment holds, the     *)
(* bytes of earlier calls included, ends with the delimiter, and drops it. *)
Until(segment, in) ==
    LET Held(k) == segment.committed \o SubSeq(in, 1, k)
        ends == {k \in 1..Len(in) : IsSuffix(CRLF, Held(k))}
        end  == CHOOSE k \in ends : \A j \in ends : k =< j
    IN  IF ends = {}
        THEN [segment |-> [segment EXCEPT !.committed = @ \o in], in |-> <<>>]
        ELSE [segment |-> [segment EXCEPT !.complete = TRUE,
                                          !.committed = SubSeq(Held(end), 1, Len(@) + end - 2)],
              in |-> Rest(in, end)]

(* read_up_to_bytes(in, bytes): takes bytes until it has got so many, over *)
(* all its calls since the last commit.                                    *)
UpTo(segment, in, bytes) ==
    LET wanted == bytes - Len(segment.pending)
        taken  == IF wanted =< Len(in) THEN wanted ELSE Len(in)
        held   == segment.pending \o SubSeq(in, 1, taken)
    IN  IF bytes = 0 THEN [segment |-> [segment EXCEPT !.complete = TRUE], in |-> in]
        ELSE [segment |-> IF taken = wanted
                          THEN [complete |-> TRUE, committed |-> segment.committed \o held,
                                pending |-> <<>>, last |-> taken]
                          ELSE [segment EXCEPT !.pending = held, !.last = taken],
              in |-> Rest(in, taken)]

(* The socket delivers some more, and the service calls read_body. *)
Arrive(n) ==
    /\ reader = "waits" /\ n \in 1..Len(coming)
    /\ input' = input \o SubSeq(coming, 1, n) /\ coming' = Rest(coming, n)
    /\ reader' = "reads"
    /\ UNCHANGED <<sent, body, line, progress>>

(* Chunked: the size of the next chunk ... *)
ReadSize ==
    /\ reader = "reads" /\ sent.length = "chunked" /\ ~progress.known
    /\ LET r    == Until(line, input)
           Size == {n \in 0..Len(Digits) - 1 : r.segment.committed = <<Digits[n + 1]>>}
       IN  /\ input' = r.in
           /\ IF ~r.segment.complete
              THEN reader' = "waits" /\ line' = r.segment /\ UNCHANGED progress
              ELSE /\ line' = Segment
                   /\ \/ Size = {} /\ reader' = "error" /\ UNCHANGED progress
                      \/ \E size \in Size :
                           /\ reader' = IF progress.read + size > BodyLimit THEN "error" ELSE "reads"
                           /\ progress' = [progress EXCEPT !.known = TRUE, !.expected = size]
    /\ UNCHANGED <<sent, coming, body>>

(* ... its bytes, added to the body ... *)
ReadChunk ==
    /\ reader = "reads" /\ sent.length = "chunked" /\ progress.known /\ ~body.complete
    /\ LET r == UpTo(body, input, progress.expected)
       IN  /\ body' = r.segment /\ input' = r.in
           /\ reader' = IF r.segment.complete THEN "reads" ELSE "waits"
    /\ UNCHANGED <<sent, coming, line, progress>>

(* ... and the line end after them, where nothing may stand. *)
ReadSuffix ==
    /\ reader = "reads" /\ sent.length = "chunked" /\ progress.known /\ body.complete
    /\ LET r == Until(line, input)
       IN  /\ input' = r.in
           /\ IF ~r.segment.complete
              THEN reader' = "waits" /\ line' = r.segment /\ UNCHANGED <<body, progress>>
              ELSE IF r.segment.committed # <<>>
              THEN reader' = "error" /\ line' = r.segment /\ UNCHANGED <<body, progress>>
              ELSE /\ line' = Segment
                   /\ reader' = IF progress.expected = 0 THEN "done" ELSE "reads"
                   /\ body' = IF progress.expected = 0 THEN body ELSE [body EXCEPT !.complete = FALSE]
                   /\ progress' = [known |-> progress.expected = 0, expected |-> 0,
                                   read |-> progress.read + progress.expected]
    /\ UNCHANGED <<sent, coming>>

(* Content-Length. *)
Given == Len(FlattenSeq(sent.chunks))

ReadGiven ==
    /\ reader = "reads" /\ sent.length = "given"
    /\ LET r == UpTo(body, input, Given)
       IN  IF Given > BodyLimit
           THEN reader' = "error" /\ UNCHANGED <<body, input>>
           ELSE /\ body' = r.segment /\ input' = r.in
                /\ reader' = IF r.segment.complete THEN "done" ELSE "waits"
    /\ UNCHANGED <<sent, coming, line, progress>>

(* What operator>> takes of a stream. *)
WithoutLineEnds(s) ==
    FlattenSeq([i \in DOMAIN s |-> IF s[i] \in {"CR", "LF"} THEN <<>> ELSE <<s[i]>>])

(* Neither: what is there, without its white space.  read_all leaves       *)
(* bytes_last_read as an earlier body left it, and zero ends the body.     *)
ReadAll ==
    /\ reader = "reads" /\ sent.length = "all"
    /\ body' = [body EXCEPT !.committed = @ \o WithoutLineEnds(input)]
    /\ input' = <<>>
    /\ progress' = [progress EXCEPT !.read = @ + body.last]
    /\ reader' = IF progress'.read > BodyLimit THEN "error" ELSE IF body.last = 0 THEN "done" ELSE "waits"
    /\ UNCHANGED <<sent, coming, line>>

BodyNext ==
    \/ \E n \in 1..Len(coming) : Arrive(n)
    \/ ReadSize \/ ReadChunk \/ ReadSuffix \/ ReadGiven \/ ReadAll

BodySpec == BodyInit /\ [][BodyNext]_bodyVars

-------------------------------------------------------------------------------

(* What read_body should refuse: a size or a suffix that is none, and a    *)
(* body over the limit.                                                    *)
Refusable == sent.fault # "none" \/ Given > BodyLimit

(* However the stream is cut, a body whose end is told by its chunks or by *)
(* Content-Length is read as it was sent, line ends within it included;    *)
(* nothing of the message after it is taken; only a body that is malformed *)
(* or too large is refused; and nobody waits for input once all is here.   *)
ReadAsSent ==
    sent.length # "all" =>
      /\ reader = "done"  => /\ ~Refusable
                             /\ body.committed = FlattenSeq(sent.chunks)
                             /\ input \o coming = Following
      /\ reader = "error" => Refusable
      /\ reader = "waits" => coming # <<>>

===============================================================================
