----------------------------- MODULE ServicePool -----------------------------
(***************************************************************************)
(* What connection_manager promises to the rest of the proxy: connections  *)
(* wait in the order in which they arrive, at most ServiceLimit of them    *)
(* are serviced at a time, nobody overtakes a waiting connection, and a    *)
(* free slot is given to the first one in line.  Locks, io_context         *)
(* threads, posted tasks, the acceptor and the ownership of the flows are  *)
(* absent; ConnectionManager implements this specification.                *)
(***************************************************************************)
EXTENDS Naturals, Sequences, FiniteSets, Functions

CONSTANTS
    Flows,          \* the connections that may ever arrive
    ServiceLimit    \* options.connection_service_limit

VARIABLES
    line,           \* connections that wait for service, first come first
    active,         \* connections that are being serviced
    done            \* connections whose service has ended

vars == <<line, active, done>>

Init ==
    /\ line = <<>>
    /\ active = {}
    /\ done = {}

HasRoom == Cardinality(active) < ServiceLimit

(* A connection arrives: it is serviced at once only if nobody waits. *)
Arrive(f) ==
    /\ f \notin active \union done \union Range(line)
    /\ \/ /\ line = <<>> /\ HasRoom
          /\ active' = active \union {f}
          /\ line' = line
       \/ /\ ~HasRoom \/ line # <<>>
          /\ line' = Append(line, f)
          /\ active' = active
    /\ done' = done

(* The first connection in line is given a free slot. *)
Admit ==
    /\ line # <<>> /\ HasRoom
    /\ active' = active \union {Head(line)}
    /\ line' = Tail(line)
    /\ done' = done

Finish(f) ==
    /\ f \in active
    /\ active' = active \ {f}
    /\ done' = done \union {f}
    /\ line' = line

Next ==
    \/ \E f \in Flows : Arrive(f) \/ Finish(f)
    \/ Admit

SafeSpec == Init /\ [][Next]_vars

(* A free slot does not stay free while a connection waits. *)
Spec == SafeSpec /\ WF_vars(Admit)
==============================================================================
