----------------------------- MODULE HelloReader ------------------------------
(***************************************************************************)
(* tls_service::on_read_client_hello: a ClientHello record is collected    *)
(* from the client's input buffer, which keeps what it has, through a      *)
(* const_buffer_segment, which copies.  Byte i of the input is the number  *)
(* i, so that a copy shows what was copied.                                *)
(***************************************************************************)
EXTENDS Integers, Sequences

CONSTANTS
    HeaderLength,   \* record_header_length
    Records         \* the lengths in the record headers

ASSUME HelloAssumption == HeaderLength \in Nat \ {0} /\ Records \subseteq Nat \ {0}

VARIABLES
    record,     \* the length in the record header
    isHello,    \* the client's bytes start with a handshake record's header
    available,    \* how many bytes are in the input buffer
    segment,    \* segment_: what is committed, and the area behind it up to bytes_in_buffer_
    length,     \* length_, or NotKnown
    hello       \* "reads", "done", "tunnel"; "undefined" after undefined behaviour

helloVars == <<record, isHello, available, segment, length, hello>>

NotKnown == -1
Garbage  == 0       \* a byte that no one has written

Total == HeaderLength + record

HelloInit ==
    /\ record \in Records /\ isHello \in BOOLEAN
    /\ available = 0
    /\ segment = [committed |-> <<>>, pending |-> <<>>]
    /\ length = NotKnown
    /\ hello = "reads"

HelloTypeOK ==
    /\ record \in Records /\ isHello \in BOOLEAN
    /\ available \in 0..Total
    /\ DOMAIN segment = {"committed", "pending"}
    /\ length \in {NotKnown} \union Records
    /\ hello \in {"reads", "done", "tunnel", "undefined"}

(* Whether "size" says that all of the bytes are there. *)
Enough(size, offset, toRead) == size < offset \/ size - offset >= toRead

(* const_buffer_segment::read_up_to_bytes(buf, bytes, size), "here" bytes  *)
(* being in the buffer; "size" is taken for their number.  The copy starts *)
(* at offset + bytes_in_buffer_; it ends at offset + to_read if enough     *)
(* seems to be there (size - offset is unsigned and wraps), and at the end *)
(* of the buffer otherwise.                                                *)
Copy(s, bytes, size, here) ==
    LET offset == Len(s.committed)
        held   == Len(s.pending)
        toRead == bytes - held
        enough == Enough(size, offset, toRead)
        first  == offset + held
        last   == IF enough THEN offset + toRead ELSE here
        area   == s.pending \o [i \in 1..(IF enough THEN toRead ELSE size - offset) |->
                                  IF first + i =< last THEN first + i ELSE Garbage]
    IN  [complete |-> enough,
         defined  |-> first =< last /\ last =< here,
         segment  |-> IF enough THEN [committed |-> s.committed \o area, pending |-> <<>>]
                                ELSE [s EXCEPT !.pending = area]]

(* The header's bytes are looked at: none may be left unwritten. *)
HeaderWritten(copy) ==
    LET read == copy.segment.committed
    IN  [copy EXCEPT !.defined = @ /\ \A i \in DOMAIN read : read[i] # Garbage]

(* handshake_reader::read has this for the record header ... *)
HeaderRead(n) ==
    IF length = NotKnown THEN HeaderWritten(Copy(segment, HeaderLength, n, available + n))
    ELSE [complete |-> TRUE, defined |-> TRUE, segment |-> segment]

(* ... and this for what the header announces. *)
RecordRead(n) == Copy(HeaderRead(n).segment, record, n, available + n)

(* n more bytes arrive; read is given their number. *)
OnRead(n) ==
    /\ hello = "reads" /\ n \in 1..Total - available
    /\ available' = available + n
    /\ UNCHANGED <<record, isHello>>

(* A copy from a range that ends before it starts, or past the buffer, or  *)
(* a header with bytes that were not copied.                               *)
ReadUndefined(n) ==
    /\ OnRead(n)
    /\ \/ ~HeaderRead(n).defined
       \/ HeaderRead(n).complete /\ (length # NotKnown \/ isHello) /\ ~RecordRead(n).defined
    /\ hello' = "undefined"
    /\ UNCHANGED <<segment, length>>

ReadPartOfHeader(n) ==
    /\ OnRead(n)
    /\ HeaderRead(n).defined /\ ~HeaderRead(n).complete
    /\ segment' = HeaderRead(n).segment
    /\ UNCHANGED <<length, hello>>

ReadNoHello(n) ==
    /\ OnRead(n)
    /\ HeaderRead(n).defined /\ HeaderRead(n).complete
    /\ length = NotKnown /\ ~isHello
    /\ segment' = HeaderRead(n).segment /\ hello' = "tunnel"
    /\ UNCHANGED length

ReadRecord(n) ==
    /\ OnRead(n)
    /\ HeaderRead(n).defined /\ HeaderRead(n).complete
    /\ length # NotKnown \/ isHello
    /\ RecordRead(n).defined
    /\ length' = record
    /\ segment' = RecordRead(n).segment
    /\ hello' = IF RecordRead(n).complete THEN "done" ELSE "reads"

HelloNext ==
    \E n \in 1..Total : ReadUndefined(n) \/ ReadPartOfHeader(n) \/ ReadNoHello(n) \/ ReadRecord(n)

HelloSpec == HelloInit /\ [][HelloNext]_helloVars

-------------------------------------------------------------------------------

Whole == [i \in 1..Total |-> i]

(* A ClientHello that comes in one read is collected byte for byte at      *)
(* once: no byte of the header is taken for one of the record, none is     *)
(* missing, and the reader does not wait for what is already there.        *)
OnePieceIsRead ==
    [][available = 0 /\ available' = Total /\ isHello => hello' = "done" /\ segment'.committed = Whole]_helloVars

(* read_up_to_bytes "is stateful, so it will account for the results of    *)
(* previous reads" (util/buffer_segment.hpp:124): once all of a record has *)
(* been handed to the reader, the reader has it.                           *)
SplitHelloIsRead ==
    available = Total /\ isHello => hello = "done" /\ segment.committed = Whole

===============================================================================
