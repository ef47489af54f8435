--------------------------------- MODULE Uuid ---------------------------------
(***************************************************************************)
(* uuid_factory::create: version 1 UUIDs, made of the time, a clock        *)
(* sequence that changes when the time goes back, and a node identifier.   *)
(* Several threads, a clock that may be set back, and a state file that    *)
(* outlives the process.                                                   *)
(***************************************************************************)
EXTENDS Naturals, Sequences

CONSTANTS
    Callers,        \* threads that call create()
    MaxTime,        \* bound on the clock
    PerTick,        \* uuids_per_tick
    SaveInterval,   \* write_state: ticks between two writes of the state file
    Sequences,      \* the values of clock_sequence are 0 .. Sequences - 1
    UsedSequences,  \* format_uuid_v1 keeps clock_sequence % UsedSequences
    MaxNodes,       \* bound on the node identifiers drawn
    MaxIds          \* bound on the UUIDs made

ASSUME UuidAssumption ==
    /\ {MaxTime, PerTick, SaveInterval, MaxNodes, MaxIds} \subseteq Nat
    /\ Sequences \in Nat \ {0} /\ UsedSequences \in 1..Sequences /\ Sequences % UsedSequences = 0

VARIABLES
    clock,      \* get_system_time
    process,    \* what the process has: time_last, uuids_this_tick, state_ ...
    caller,     \* each thread: "idle", "locked" (in the critical section), "formats"
    seen,       \* the values state_ had since the thread left the critical section
    exact,      \* history: the thread's timestamp is a clock reading
    stateFile, nodeFile,
    nodes,      \* the node identifiers drawn so far are 1 .. nodes
    made,       \* history: the UUIDs in the order they were formatted in, and how they came about
    turns,      \* history: how often the sequence was advanced, counted up to UsedSequences
    setBack,    \* history: the clock has gone back
    restarted   \* history: the process has been restarted

uuidVars == <<clock, process, caller, seen, exact, stateFile, nodeFile, nodes, made, turns, setBack, restarted>>

States == [timestamp : 0..MaxTime + PerTick, node : 0..MaxNodes, sequence : 0..Sequences - 1]

Missing == [timestamp |-> 0, node |-> 0, sequence |-> Sequences]
Torn    == [timestamp |-> 0, node |-> 0, sequence |-> Sequences + 1]

Started == [timed |-> FALSE, last |-> 0, thisTick |-> 0, read |-> FALSE,
            state |-> [timestamp |-> 0, node |-> 0, sequence |-> 0], saving |-> FALSE, nextSave |-> 0]

Ids == [time : 0..MaxTime + PerTick, sequence : 0..UsedSequences - 1, node : 0..MaxNodes]

(* A UUID, whether its timestamp is a reading of the clock, and whether    *)
(* create() was undisturbed.                                               *)
Returns == [id : Ids, exact : BOOLEAN, sound : BOOLEAN]

UuidInit ==
    /\ clock = 0 /\ process = Started
    /\ caller = [c \in Callers |-> "idle"]
    /\ seen = [c \in Callers |-> {}]
    /\ exact = [c \in Callers |-> FALSE]
    /\ stateFile = Missing /\ nodeFile = 0 /\ nodes = 0
    /\ made = <<>> /\ turns = 0 /\ setBack = FALSE /\ restarted = FALSE

UuidTypeOK ==
    /\ clock \in 0..MaxTime
    /\ process \in [timed : BOOLEAN, last : 0..MaxTime, thisTick : 0..PerTick, read : BOOLEAN,
                    state : States, saving : BOOLEAN, nextSave : 0..MaxTime + PerTick + SaveInterval]
    /\ caller \in [Callers -> {"idle", "locked", "formats"}]
    /\ \A c \in Callers : seen[c] \subseteq States
    /\ exact \in [Callers -> BOOLEAN]
    /\ stateFile \in States \union {Missing, Torn} /\ nodeFile \in 0..MaxNodes /\ nodes \in 0..MaxNodes
    /\ made \in Seq(Returns)
    /\ turns \in 0..UsedSequences /\ setBack \in BOOLEAN /\ restarted \in BOOLEAN

(* create() takes the mutex and enters get_current_time, whose first call  *)
(* counts the present tick as used up.                                     *)
Enter(c) ==
    /\ caller[c] = "idle" /\ \A d \in Callers : caller[d] # "locked"
    /\ caller' = [caller EXCEPT ![c] = "locked"]
    /\ process' = IF process.timed THEN process
                  ELSE [process EXCEPT !.timed = TRUE, !.last = clock, !.thisTick = PerTick]
    /\ UNCHANGED <<clock, seen, exact, stateFile, nodeFile, nodes, made, turns, setBack, restarted>>

(* get_current_time leaves its loop: the clock has moved or the tick has   *)
(* room.  Until then the thread spins, with the mutex.                     *)
Timed(p) ==
    IF p.last # clock THEN [p EXCEPT !.last = clock, !.thisTick = 0]
                      ELSE [p EXCEPT !.thisTick = @ + 1]

MayLeaveLoop == process.last # clock \/ process.thisTick < PerTick

(* get_ieee_node_identifier: the saved identifier, or else a new one. *)
Node == IF nodeFile = 0 THEN nodes + 1 ELSE nodeFile

(* Mutant: the sequence stays when the time has gone back. *)
KeptSequence(timestamp, node, state, valid, drawn) ==
    IF ~valid \/ node # state.node THEN drawn ELSE state.sequence

(* The clock sequence after the previous state: drawn anew if there is     *)
(* none or it is another node's, the next one if the time has gone back.   *)
NextSequence(timestamp, node, state, valid, drawn) ==
    IF ~valid \/ node # state.node THEN drawn
    ELSE IF timestamp < state.timestamp THEN (state.sequence + 1) % Sequences
    ELSE state.sequence

(* write_state: the first state and then one every SaveInterval is saved.  *)
Saves(p, timestamp) == ~p.saving \/ timestamp >= p.nextSave

Written(p, state) ==
    [p EXCEPT !.state = state, !.saving = TRUE,
              !.nextSave = IF Saves(p, state.timestamp) THEN state.timestamp + SaveInterval ELSE @]

(* The first call of read_state takes the file, if there is one. *)
Valid == process.read \/ stateFile # Missing
Previous == IF Valid /\ ~process.read THEN stateFile ELSE process.state

(* The time has gone back, or has not yet caught up with a timestamp that  *)
(* is a reading of the clock and a count.                                  *)
BehindLast(timestamp) == Valid /\ timestamp < Previous.timestamp

(* The rest of the critical section.  The file may fail to be written,     *)
(* which is only warned about.                                             *)
Stamp(c) ==
    /\ caller[c] = "locked" /\ MayLeaveLoop /\ Node =< MaxNodes
    /\ process.read \/ stateFile # Torn
    /\ LET p         == Timed(process)
           timestamp == clock + p.thisTick
       IN  \E drawn \in 0..Sequences - 1 :
             LET state == [timestamp |-> timestamp, node |-> Node,
                           sequence |-> NextSequence(timestamp, Node, Previous, Valid, drawn)]
             IN  /\ process' = Written([p EXCEPT !.read = TRUE], state)
                 /\ stateFile' \in {stateFile} \union {s \in {state} : Saves(p, timestamp)}
                 /\ seen' = [d \in Callers |-> IF d = c THEN {state}
                                               ELSE seen[d] \union {s \in {state} : caller[d] = "formats"}]
                 /\ exact' = [exact EXCEPT ![c] = p.thisTick = 0]
                 /\ turns' = IF BehindLast(timestamp) /\ turns < UsedSequences THEN turns + 1 ELSE turns
    /\ nodeFile' = Node /\ nodes' = IF nodeFile = 0 THEN Node ELSE nodes
    /\ caller' = [caller EXCEPT ![c] = "formats"]
    /\ UNCHANGED <<clock, made, setBack, restarted>>

(* A state file too short makes read_state throw, and its once_flag stays  *)
(* as it was.                                                              *)
StampThrows(c) ==
    /\ caller[c] = "locked" /\ MayLeaveLoop /\ Node =< MaxNodes
    /\ ~process.read /\ stateFile = Torn
    /\ process' = Timed(process)
    /\ nodeFile' = Node /\ nodes' = IF nodeFile = 0 THEN Node ELSE nodes
    /\ caller' = [caller EXCEPT ![c] = "idle"]
    /\ UNCHANGED <<clock, seen, exact, stateFile, made, turns, setBack, restarted>>

(* The process is the first one, and the clock sequence has not come round. *)
Continues == ~restarted /\ turns < UsedSequences

(* format_uuid_v1 of the shared state_, after the mutex is released: each  *)
(* field is read at a moment of its own.  The call was undisturbed if no   *)
(* thread has stamped in between, and if the process still goes on from    *)
(* the first state, or the timestamp is the reading of a clock that was    *)
(* not set back.                                                           *)
Format(c) ==
    /\ caller[c] = "formats" /\ Len(made) < MaxIds
    /\ \E r, s, n \in seen[c] :
         made' = Append(made, [id    |-> [time |-> r.timestamp, sequence |-> s.sequence % UsedSequences,
                                         node |-> n.node],
                               exact |-> exact[c],
                               sound |-> seen[c] = {r} /\ (Continues \/ (exact[c] /\ ~setBack))])
    /\ caller' = [caller EXCEPT ![c] = "idle"]
    /\ seen' = [seen EXCEPT ![c] = {}] /\ exact' = [exact EXCEPT ![c] = FALSE]
    /\ UNCHANGED <<clock, process, stateFile, nodeFile, nodes, turns, setBack, restarted>>

Tick ==
    /\ clock < MaxTime /\ clock' = clock + 1
    /\ UNCHANGED <<process, caller, seen, exact, stateFile, nodeFile, nodes, made, turns, setBack, restarted>>

(* The system clock is set back, once. *)
SetClockBack ==
    /\ ~setBack /\ clock' \in 0..clock - 1 /\ setBack' = TRUE
    /\ UNCHANGED <<process, caller, seen, exact, stateFile, nodeFile, nodes, made, turns, restarted>>

(* The process ends, perhaps while it writes the state file, and a new one *)
(* starts; the node identifier may be lost in between.                     *)
Restart ==
    /\ ~restarted /\ restarted' = TRUE
    /\ process' = Started
    /\ stateFile' \in {stateFile}
         \union {Torn : c \in {d \in Callers : caller[d] = "locked" /\ Saves(process, clock)}}
    /\ nodeFile' \in {0, nodeFile}
    /\ caller' = [c \in Callers |-> "idle"] /\ seen' = [c \in Callers |-> {}]
    /\ exact' = [c \in Callers |-> FALSE]
    /\ UNCHANGED <<clock, nodes, made, turns, setBack>>

UuidNext ==
    \/ \E c \in Callers : Enter(c) \/ Stamp(c) \/ StampThrows(c) \/ Format(c)
    \/ Tick \/ SetClockBack \/ Restart

UuidSpec == UuidInit /\ [][UuidNext]_uuidVars

-------------------------------------------------------------------------------

(* "UUIDs are guaranteed to be unique across instances of this factory     *)
(* class" (util/uuid.hpp:85): no two undisturbed calls of create() return  *)
(* the same UUID, whatever the clock and the other threads do in between,  *)
(* if the timestamps of both are readings of the clock, or neither is:     *)
(* with a count, which runs ahead of the clock, a reading can catch up to  *)
(* the very timestamp.  The sequence is advanced more often than the clock *)
(* is set back: every time the clock has not caught up with a timestamp    *)
(* that a count was added to.                                              *)
SoundIdsUnique ==
    \A i, j \in DOMAIN made :
        i # j /\ made[i].sound /\ made[j].sound /\ made[i].exact = made[j].exact => made[i].id # made[j].id

===============================================================================
