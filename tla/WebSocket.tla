------------------------------- MODULE WebSocket -------------------------------
(***************************************************************************)
(* websocket_service and its pipeline: two loops that parse what one side  *)
(* sends, hand messages to the interceptors or pass them on, send to the   *)
(* other side what has been injected for it, and bring the connection to   *)
(* its end when either side, an interceptor or an error closes it.         *)
(***************************************************************************)
EXTENDS Relay, WebSocketFrames, SequencesExt

CONSTANTS
    Batches,    \* what one read may bring: sequences of frames
    Meddling    \* bound: what interceptors and others do to the pipeline

ASSUME WebSocketAssumption ==
    Batches \subseteq Seq(Frame) /\ Meddling \subseteq {"message", "close", "switch"}

VARIABLES
    pipe,           \* of the pipeline: should_intercept_, closed_, closed_by_, what
                    \* the close frame is for, and the injected frames and messages
    side,           \* of the loop that reads from each connection
    closeSent,      \* history: close frames serialized for each connection
    unusual         \* history: fragments were sent, or interception was switched

pipelineVars  == <<pipe, side, closeSent, unusual>>
webSocketVars == <<connVars, relayVars, pipelineVars>>

(* Parts of a message: none yet, of the current message, or of an earlier one. *)
Parts == {"none", "current", "earlier"}

(* parser; ready_to_intercept; what next_message_content holds; what the   *)
(* destination has got of an unfinished message (history); whether a       *)
(* message was cut, merged or lost (history).                              *)
Side == [parser : Parser, ready : BOOLEAN, held : Parts, sent : Parts, torn : BOOLEAN]

WebSocketInit ==
    /\ pipe \in [intercept : BOOLEAN, closed : {FALSE}, by : {client}, why : {"open"},
                 frames : {[c \in Conns |-> <<>>]}, messages : {[c \in Conns |-> <<>>]}]
    /\ side = [c \in Conns |-> [parser |-> InitialParser, ready |-> TRUE, held |-> "none",
                                sent |-> "none", torn |-> FALSE]]
    /\ closeSent = [c \in Conns |-> 0]
    /\ unusual = FALSE

WebSocketTypeOK ==
    /\ pipe \in [intercept : BOOLEAN, closed : BOOLEAN, by : Conns, why : {"open", "frame", "error", "long"},
                 frames : [Conns -> Seq({"pong"})], messages : [Conns -> Seq(Messages)]]
    /\ side \in [Conns -> Side]
    /\ closeSent \in [Conns -> Nat]
    /\ unusual \in BOOLEAN

(***************************************************************************)
(* The steps of a handler, as functions of a record of all they change.    *)
(* c is the source of the loop, its other connection the destination.      *)
(***************************************************************************)

Now == [conn |-> conn, loop |-> loop, phase |-> phase, stops |-> stops,
        pipe |-> pipe, side |-> side, closeSent |-> closeSent, failed |-> FALSE]

Becomes(s) ==
    /\ conn' = s.conn /\ loop' = s.loop /\ phase' = s.phase /\ stops' = s.stops
    /\ pipe' = s.pipe /\ side' = s.side /\ closeSent' = s.closeSent

(* pipeline::set_close_state. *)
ClosedBy(s, c, why) == [s EXCEPT !.pipe.closed = TRUE, !.pipe.by = c, !.pipe.why = why]

(* finish_connection and on_finish: shutting the destination down ends what *)
(* the other loop reads.                                                   *)
Finished(s, c) ==
    LET conns == [s.conn EXCEPT ![Other(c)] = ShutDown(@)]
        done  == s.loop[Other(c)] = "finished"
    IN [s EXCEPT !.loop[c] = "finished",
                 !.conn  = IF done THEN [d \in Conns |-> Disconnected(conns[d])] ELSE conns,
                 !.phase = IF done THEN "stopped" ELSE @,
                 !.stops = IF done THEN @ + 1 ELSE @]

Writing(s, c, why) ==
    [s EXCEPT !.loop[c] = why, !.conn[Other(c)] = UntimedWriteStarted(@)]

(* close_connection.  A reason above the limit of a control frame cannot   *)
(* be serialized.                                                          *)
CloseConnection(s, c) ==
    IF s.pipe.why = "long" THEN Finished(s, c)
    ELSE [Writing(s, c, "closing") EXCEPT !.closeSent[Other(c)] = @ + 1]

(* frame_parser::serialize of one frame of a message. *)
SendFrame(s, c, m) ==
    IF s.failed \/ Unexpected(s.side[c].parser, m) THEN [s EXCEPT !.failed = TRUE]
    ELSE [s EXCEPT !.side[c].parser = Serialized(@, m),
                   !.side[c].sent   = IF m.fin THEN "none" ELSE IF @ = "earlier" THEN @ ELSE "current",
                   !.side[c].torn   = @ \/ s.side[c].sent = "earlier"]

(* send_message, in one frame or, if it is long, in several. *)
SendMessage(s, c, op, pieces) ==
    LET start == IF pieces > 1 THEN SendFrame(s, c, [op |-> op, fin |-> FALSE]) ELSE s
    IN SendFrame(start, c, [op |-> op, fin |-> TRUE])

(* What the interceptors make of a message: its length, or 0 if they block it. *)
Verdicts == 0 .. 2

(* Mutant: what was collected is kept when the message is complete. *)
CollectUncleared(s, c, m, verdict) ==
    LET more == [s EXCEPT !.side[c].held = IF @ = "earlier" THEN @ ELSE "current"]
    IN IF ~m.fin THEN more
       ELSE LET given == [more EXCEPT !.side[c].torn = @ \/ s.side[c].held = "earlier"]
            IN IF verdict = 0 THEN given ELSE SendMessage(given, c, m.op, verdict)

(* A frame of a message that is intercepted: the interceptors are given the *)
(* whole message, once its last frame is there.                            *)
Collect(s, c, m, verdict) ==
    IF ~m.fin THEN [s EXCEPT !.side[c].held = IF @ = "earlier" THEN @ ELSE "current"]
    ELSE LET given == [s EXCEPT !.side[c].held = "none",
                                !.side[c].torn = @ \/ s.side[c].held = "earlier"]
         IN IF verdict = 0 THEN given ELSE SendMessage(given, c, m.op, verdict)

(* on_message_frame. *)
OnMessageFrame(s, c, m, verdict) ==
    CASE ~s.pipe.intercept -> SendFrame([s EXCEPT !.side[c].ready = FALSE], c, m)
      [] s.pipe.intercept /\ ~s.side[c].ready ->
            [s EXCEPT !.side[c].ready = m.fin, !.side[c].torn = TRUE]
      [] OTHER -> Collect(s, c, m, verdict)

(* on_ping_frame, on_pong_frame, on_close_frame and on_message_frame.  The *)
(* answer to a ping is injected for the source.                            *)
OnFrame(s, c, m, verdict) ==
    IF s.failed THEN s
    ELSE CASE m.op = "ping"     -> [s EXCEPT !.pipe.frames[c] = Append(@, "pong")]
           [] m.op = "pong"     -> s
           [] m.op = "close"    -> ClosedBy(s, c, "frame")
           [] m.op \in Messages -> OnMessageFrame(s, c, m, verdict)

(* When a message begins, what there is of another one is of an earlier one. *)
Aged(parts) == IF parts = "none" THEN "none" ELSE "earlier"

Begins(s, c, f) ==
    IF f.op \in Messages THEN [s EXCEPT !.side[c].held = Aged(@), !.side[c].sent = Aged(@)] ELSE s

(* The frame as the parser sees it, and what the service does with what    *)
(* the manager makes of it.                                                *)
Take(s, c, f, verdict) ==
    LET made == Completed(s.side[c].parser, f, f.body)
        next == [Begins(s, c, f) EXCEPT !.side[c].parser = Effective(@, f)]
    IN IF made = <<>> THEN next ELSE OnFrame(next, c, Head(made), verdict)

(* The parser refuses one of the frames; then all of the read are lost. *)
Refused(p, batch) ==
    \E i \in DOMAIN batch :
        HeaderRefused(FoldLeft(Effective, p, SubSeq(batch, 1, i - 1)), batch[i]) \/ CloseRefused(batch[i])

(* Inject frames, which leave the parser as it is, and then messages. *)
InjectNext(s, c, op) == SendMessage([s EXCEPT !.side[c].sent = Aged(@)], c, op, 1)

InjectAll(s, c) ==
    LET d == Other(c)
    IN FoldLeft(LAMBDA acc, op : InjectNext(acc, c, op),
                [s EXCEPT !.pipe.frames[d] = <<>>, !.pipe.messages[d] = <<>>], s.pipe.messages[d])

(* websocket_loop: an error closes the connection. *)
Failed(s, c) == CloseConnection(ClosedBy(s, c, "error"), c)

(* websocket_loop_impl. *)
Iterate(s, c, batch, verdict) ==
    IF s.pipe.closed THEN CloseConnection(s, c)
    ELSE IF Refused(s.side[c].parser, batch) THEN Failed(s, c)
    ELSE LET read == FoldLeft(LAMBDA acc, f : Take(acc, c, f, verdict), s, batch)
             all  == IF read.pipe.closed \/ read.failed THEN read ELSE InjectAll(read, c)
         IN IF all.failed THEN Failed(all, c)
            ELSE IF all.pipe.closed THEN CloseConnection(all, c)
            ELSE Writing(all, c, "writing")

(* Mutant: the error of one side replaces the close of the other. *)
OnErrorOverwrites(s, c, eof) ==
    LET closed == ClosedBy(s, c, "error")
    IN IF eof THEN Finished(closed, c) ELSE CloseConnection(closed, c)

(* on_error. *)
OnError(s, c, eof) ==
    LET closed == IF s.pipe.closed THEN s ELSE ClosedBy(s, c, "error")
    IN IF eof THEN Finished(closed, c) ELSE CloseConnection(closed, c)

(***************************************************************************)
(* The handlers.                                                           *)
(***************************************************************************)

Fragments(batch) == \E i \in DOMAIN batch : ~batch[i].fin

Noticed(batch) == unusual' = (unusual \/ Fragments(batch))

(* start: both loops run in the same call; the server may have sent frames *)
(* together with the response that ended the handshake.                    *)
WebSocketStart ==
    /\ phase = "start"
    /\ \E batch \in Batches \union {<<>>}, verdict \in Verdicts :
          LET first == Iterate([Now EXCEPT !.phase = "running"], server, batch, verdict)
          IN Becomes(Iterate([first EXCEPT !.failed = FALSE], client, <<>>, verdict)) /\ Noticed(batch)
    /\ UNCHANGED <<tasks, chunks>>

(* on_source_read. *)
OnSourceRead ==
    /\ Runs("handler", "read")
    /\ LET t == Head(tasks) IN
       \/ /\ t.result = "ok"
          /\ \E batch \in Batches, verdict \in Verdicts :
                Becomes(Iterate(Now, t.conn, batch, verdict)) /\ Noticed(batch)
       \/ /\ t.result # "ok"
          /\ Becomes(IF t.result = "aborted" /\ pipe.closed THEN CloseConnection(Now, t.conn)
                     ELSE OnError(Now, t.conn, t.result = "eof"))
          /\ UNCHANGED unusual
    /\ tasks' = Tail(tasks)
    /\ UNCHANGED chunks

(* Mutant: a close frame that cannot be written is tried again. *)
OnDestinationWriteRetries ==
    /\ Runs("handler", "write")
    /\ LET c  == Other(Head(tasks).conn)
           ok == Head(tasks).result = "ok"
       IN Becomes(CASE loop[c] = "closing" /\ ok -> Finished(Now, c)
                    [] loop[c] = "writing" /\ ok -> [Now EXCEPT !.loop[c] = "reading",
                                                               !.conn[c] = ReadStarted(@)]
                    [] ~ok -> OnError(Now, c, FALSE))
    /\ tasks' = Tail(tasks)
    /\ UNCHANGED <<chunks, unusual>>

(* on_destination_write and on_close. *)
OnDestinationWrite ==
    /\ Runs("handler", "write")
    /\ LET c  == Other(Head(tasks).conn)
           ok == Head(tasks).result = "ok"
       IN Becomes(CASE loop[c] = "closing" -> Finished(Now, c)
                    [] loop[c] = "writing" /\ ok -> [Now EXCEPT !.loop[c] = "reading",
                                                               !.conn[c] = ReadStarted(@)]
                    [] loop[c] = "writing" /\ ~ok -> OnError(Now, c, FALSE))
    /\ tasks' = Tail(tasks)
    /\ UNCHANGED <<chunks, unusual>>

(* Interceptors and whoever else has the pipeline.  What they do for a     *)
(* connection counts towards the bound on what its peer sends.             *)
Meddles(what, c) ==
    /\ what \in Meddling /\ phase = "running" /\ chunks[c] > 0
    /\ chunks' = [chunks EXCEPT ![c] = @ - 1]
    /\ UNCHANGED <<connVars, phase, loop, stops, side, closeSent>>

InjectMessage(c) ==
    /\ Meddles("message", c)
    /\ pipe' = [pipe EXCEPT !.messages[c] = Append(@, "text")]
    /\ UNCHANGED unusual

(* inject_frame of a close frame, which replaces what an earlier one, or    *)
(* the service, has recorded.                                              *)
InjectClose(c) ==
    /\ Meddles("close", c)
    /\ \E why \in {"frame", "long"} : pipe' = ClosedBy(Now, Other(c), why).pipe
    /\ UNCHANGED unusual

(* set_interception. *)
SetInterception(c) ==
    /\ Meddles("switch", c)
    /\ pipe' = [pipe EXCEPT !.intercept = ~@]
    /\ unusual' = TRUE

Others == \E c \in Conns : SetInterception(c) \/ InjectMessage(c) \/ InjectClose(c)

WebSocketNext ==
    \/ WebSocketStart \/ OnSourceRead \/ OnDestinationWrite \/ Others
    \/ Environment /\ UNCHANGED pipelineVars

(***************************************************************************)
(* Properties.                                                             *)
(***************************************************************************)

(* The service records once what has closed the connection: whichever      *)
(* frames, errors and aborted reads of the two sides come afterwards, and  *)
(* in whichever order, both are told the same.  Only a close frame that    *)
(* somebody injects replaces what is recorded, and then the sides may be   *)
(* told different things.                                                  *)
FirstCloseKept ==
    [][pipe.closed =>
          /\ pipe'.closed
          /\ \/ pipe'.by = pipe.by /\ pipe'.why = pipe.why
             \/ \E c \in Conns : InjectClose(c)]_webSocketVars

(* Each side is sent at most one close frame, whatever fails meanwhile and *)
(* however often a close frame is injected, and none before the connection *)
(* counts as closed.                                                       *)
CloseSentOnce ==
    \A c \in Conns : closeSent[c] <= 1 /\ (closeSent[c] = 1 => pipe.closed)

(* Every message is forwarded, or given to the interceptors, whole and on  *)
(* its own, as long as the peers send no fragments and interception is not *)
(* switched while messages are under way.                                  *)
MessagesIntact == ~unusual => \A c \in Conns : ~side[c].torn

(* The comment in on_close_frame: "When both sides move to the next         *)
(* iteration of websocket_loop, the connection will see that the pipeline  *)
(* is closed and send the appropriate close frame."  So the side whose     *)
(* close frame was taken is sent one as well, if it is still there.        *)
CloseIsAnswered ==
    phase = "stopped" /\ pipe.why = "frame" /\ (\A c \in Conns : conn[c].peer = "alive")
        => \A c \in Conns : closeSent[c] = 1
==============================================================================
