-------------------------- MODULE FlowServiceProofs --------------------------
(***************************************************************************)
(* The services of one flow, for any servers, any limit of a body and      *)
(* either way of treating TLS and Expect: one operation at a time, one     *)
(* stop, requests that reach their server, and never in the clear after    *)
(* TLS with the client.                                                    *)
(***************************************************************************)
EXTENDS FlowService, SequenceTheorems, TLAPS

(***************************************************************************)
(* The inductive invariant.                                                *)
(***************************************************************************)

Expired(t, c) == t.kind = "expiry" /\ t.conn = c

OnlyExpiries(s, c) == \A i \in 1..Len(s) : Expired(s[i], c)

(* The task that continues operation op of c, and what else is queued.     *)
Continues(t, kind, c, op) == t.kind = kind /\ t.op = op /\ t.conn = c

OneCompletion(s, c, op) ==
    \E i \in 1..Len(s) : /\ Continues(s[i], "completion", c, op)
                         /\ \A j \in 1..Len(s) : j # i => Expired(s[j], c)

HandlerIsLast(s, c, op) ==
    /\ Len(s) > 0 /\ Continues(s[Len(s)], "handler", c, op)
    /\ \A j \in 1..Len(s) - 1 : Expired(s[j], c)

(* An operation goes from the reactor to its completion and to its handler. *)
Outstanding(c, op) == conn[c].pending = {op} /\ OnlyExpiries(tasks, c)
Completed(c, op)   == conn[c].pending = {} /\ OneCompletion(tasks, c, op)
Answered(c, op)    == conn[c].pending = {} /\ conn[c].timer = "off" /\ HandlerIsLast(tasks, c, op)

(* Only op of c is in progress.  Handshakes are not timed; a timer that is *)
(* armed has not expired before, unless a name has several endpoints.      *)
Single(c, op) ==
    /\ \A d \in Conns : d # c => conn[d].pending = {} /\ conn[d].timer = "off"
    /\ op = "handshake" => conn[c].timer = "off"
    /\ op = "handshake" \/ (op \in {"read", "write"} /\ conn[c].timer = "armed") =>
          \A i \in 1..Len(tasks) : tasks[i].kind # "expiry"
    /\ \/ Outstanding(c, op) /\ (op = "connect" => ~conn[c].connected)
       \/ Completed(c, op) /\ (op = "connect" => ~conn[c].connected)
       \/ Answered(c, op)

(* A failed handshake with the client has left nothing behind. *)
Unanswered == pc = "client_handshake" /\ Quiet

Shape ==
    /\ pc \in DOMAIN Awaits => Single(Awaits[pc][1], Awaits[pc][2]) \/ Unanswered
    /\ pc \notin DOMAIN Awaits => Quiet

(* AtRest without the timer and the operations. *)
Fits(k) ==
    /\ k.connected => k.socket = "open"
    /\ ~k.connected /\ k.socket = "open" => k.peer # "alive"

Gone(k) == k.peer # "alive" \/ k.socket # "open"

Sockets ==
    /\ Fits(conn[server])
    /\ Fits(conn[client]) \/ Unanswered
    /\ pc # "stopped" => conn[client].socket # "closed"
    /\ \A i \in 1..Len(tasks) :
          tasks[i].kind = "completion" /\ tasks[i].op \in {"read", "write"} /\ tasks[i].result # "ok"
              => Gone(conn[tasks[i].conn])

Core ==
    /\ ConnTypeOK /\ pc \in Pcs
    /\ Shape /\ Sockets
    /\ stops = IF pc = "stopped" THEN 1 ELSE 0

(* Who the server is: what was asked for, what is or will be connected to. *)
Servers ==
    /\ {named, target, host, remote} \subseteq Hosts \union {NoHost}
    /\ conn[server].connected => remote = host /\ target = host
    /\ pc \in {"connect", "tls_connect"} => host = target
    /\ pc = "connect" => target = named
    /\ \A i \in 1..Len(tasks) :
          tasks[i].kind = "handler" /\ tasks[i].op = "connect" /\ tasks[i].result = "ok"
              => remote = host
    /\ RightServer

(* TLS with the client comes last, or with an error to be reported. *)
Secure ==
    /\ error \in BOOLEAN /\ tls \in [Conns -> BOOLEAN]
    /\ error => pc \in {"client_handshake", "error_response", "stopped"}
    /\ pc = "client_handshake" \/ tls[client] => tls[server] \/ error
    /\ \A i \in 1..Len(tasks) :
          Continues(tasks[i], "handler", server, "handshake") /\ tasks[i].result = "ok" => tls[server]

Bodies ==
    /\ body \in {"none", "delimited", "until_eof"}
    /\ reads \in 0 .. MaxBody

IInv == Core /\ Servers /\ Secure /\ Bodies

(***************************************************************************)
(* The run queue.                                                          *)
(***************************************************************************)

(* A new task is put behind the others, and the first one runs.            *)
LEMMA Queueing ==
    ASSUME NEW s \in Seq(Task), NEW t \in Task
    PROVE  /\ Append(s, t) \in Seq(Task) /\ Len(Append(s, t)) = Len(s) + 1
           /\ Append(s, t)[Len(s) + 1] = t
           /\ \A i \in 1..Len(s) : Append(s, t)[i] = s[i]
OBVIOUS

LEMMA Running ==
    ASSUME NEW s \in Seq(Task), s # <<>>
    PROVE  /\ Tail(s) \in Seq(Task) /\ Len(s) \in Nat \ {0} /\ Len(Tail(s)) = Len(s) - 1
           /\ Head(s) = s[1] /\ Head(s) \in Task
           /\ \A i \in 1..Len(s) - 1 : Tail(s)[i] = s[i + 1]
           /\ Len(s) = 1 => Tail(s) = <<>>
<1>1. Tail(s) \in Seq(Task) /\ Len(s) \in Nat \ {0} /\ Len(Tail(s)) = Len(s) - 1
  OBVIOUS
<1>2. Head(s) = s[1] /\ Head(s) \in Task /\ \A i \in 1..Len(s) - 1 : Tail(s)[i] = s[i + 1]
  OBVIOUS
<1>3. Len(s) = 1 => Len(Tail(s)) = 0
  BY <1>1
<1>4. Len(Tail(s)) = 0 => Tail(s) = <<>>
  BY <1>1, EmptySeq
<1> QED BY <1>1, <1>2, <1>3, <1>4

(* The next expiry may come behind any of them, or run.                    *)
LEMMA ExpiryQueues ==
    ASSUME NEW s \in Seq(Task), NEW c \in Conns, NEW op, NEW t \in Task, Expired(t, c)
    PROVE  /\ OnlyExpiries(s, c) => OnlyExpiries(Append(s, t), c)
           /\ OneCompletion(s, c, op) => OneCompletion(Append(s, t), c, op)
<1>1. ASSUME OneCompletion(s, c, op) PROVE OneCompletion(Append(s, t), c, op)
  <2>1. PICK i \in 1..Len(s) : /\ Continues(s[i], "completion", c, op)
                               /\ \A j \in 1..Len(s) : j # i => Expired(s[j], c)
    BY <1>1 DEF OneCompletion
  <2>2. i \in 1..Len(Append(s, t)) /\ Append(s, t)[i] = s[i]
    BY Queueing
  <2>3. ASSUME NEW j \in 1..Len(Append(s, t)), j # i PROVE Expired(Append(s, t)[j], c)
    <3>1. CASE j \in 1..Len(s)
      BY <2>1, <2>3, <3>1, Queueing
    <3>2. CASE j = Len(s) + 1
      BY <3>2, Queueing
    <3> QED BY <3>1, <3>2, Queueing
  <2> QED BY <2>1, <2>2, <2>3 DEF OneCompletion
<1>2. ASSUME OnlyExpiries(s, c) PROVE OnlyExpiries(Append(s, t), c)
  BY <1>2, Queueing DEF OnlyExpiries
<1> QED BY <1>1, <1>2

LEMMA ExpiryRuns ==
    ASSUME NEW s \in Seq(Task), NEW c \in Conns, NEW op, s # <<>>, Head(s).kind = "expiry"
    PROVE  /\ OnlyExpiries(s, c) => OnlyExpiries(Tail(s), c)
           /\ OneCompletion(s, c, op) => OneCompletion(Tail(s), c, op)
           /\ HandlerIsLast(s, c, op) => HandlerIsLast(Tail(s), c, op)
<1>1. ASSUME OneCompletion(s, c, op) PROVE OneCompletion(Tail(s), c, op)
  <2>1. PICK i \in 1..Len(s) : /\ Continues(s[i], "completion", c, op)
                               /\ \A j \in 1..Len(s) : j # i => Expired(s[j], c)
    BY <1>1 DEF OneCompletion
  <2>2. i # 1
    BY <2>1, Running DEF Continues
  <2>3. i - 1 \in 1..Len(Tail(s)) /\ Tail(s)[i - 1] = s[i]
    BY <2>2, Running
  <2>4. ASSUME NEW j \in 1..Len(Tail(s)), j # i - 1 PROVE Expired(Tail(s)[j], c)
    <3>1. j + 1 \in 1..Len(s) /\ j + 1 # i /\ Tail(s)[j] = s[j + 1]
      BY <2>4, Running
    <3> QED BY <2>1, <3>1
  <2> QED BY <2>1, <2>3, <2>4 DEF OneCompletion
<1>2. ASSUME OnlyExpiries(s, c) PROVE OnlyExpiries(Tail(s), c)
  BY <1>2, Running DEF OnlyExpiries
<1>3. ASSUME HandlerIsLast(s, c, op) PROVE HandlerIsLast(Tail(s), c, op)
  <2>1. Len(s) # 1
    BY <1>3, Running DEF HandlerIsLast, Continues
  <2>2. Len(Tail(s)) \in 1..Len(s) - 1 /\ Tail(s)[Len(Tail(s))] = s[Len(s)]
    <3>1. Len(s) - 1 \in 1..Len(s) - 1 /\ (Len(s) - 1) + 1 = Len(s) /\ Len(Tail(s)) = Len(s) - 1
      <4>1. Len(s) \in Nat /\ Len(s) # 0 /\ Len(Tail(s)) = Len(s) - 1
        BY Running
      <4> QED BY <2>1, <4>1
    <3>2. Tail(s)[Len(s) - 1] = s[(Len(s) - 1) + 1]
      BY <3>1, Running
    <3> QED BY <3>1, <3>2
  <2>3. ASSUME NEW j \in 1..Len(Tail(s)) - 1 PROVE Expired(Tail(s)[j], c)
    <3>1. j + 1 \in 1..Len(s) - 1 /\ Tail(s)[j] = s[j + 1]
      BY Running
    <3> QED BY <1>3, <3>1 DEF HandlerIsLast
  <2> QED BY <1>3, <2>2, <2>3 DEF HandlerIsLast
<1> QED BY <1>1, <1>2, <1>3

(* The completion comes behind what is queued; it runs, and its handler    *)
(* comes behind what is queued then.                                       *)
LEMMA CompletionQueues ==
    ASSUME NEW s \in Seq(Task), NEW c \in Conns, NEW op, NEW t \in Task,
           OnlyExpiries(s, c), Continues(t, "completion", c, op)
    PROVE  OneCompletion(Append(s, t), c, op)
<1>1. Len(s) + 1 \in 1..Len(Append(s, t)) /\ Append(s, t)[Len(s) + 1] = t
  BY Queueing
<1>2. ASSUME NEW j \in 1..Len(Append(s, t)), j # Len(s) + 1 PROVE Expired(Append(s, t)[j], c)
  <2>1. j \in 1..Len(s) /\ Append(s, t)[j] = s[j]
    BY <1>2, Queueing
  <2> QED BY <2>1 DEF OnlyExpiries
<1> QED BY <1>1, <1>2 DEF OneCompletion

LEMMA CompletionRuns ==
    ASSUME NEW s \in Seq(Task), NEW c \in Conns, NEW op, s # <<>>, Head(s).kind = "completion",
           OneCompletion(s, c, op)
    PROVE  Continues(Head(s), "completion", c, op) /\ OnlyExpiries(Tail(s), c)
<1>1. PICK i \in 1..Len(s) : /\ Continues(s[i], "completion", c, op)
                             /\ \A j \in 1..Len(s) : j # i => Expired(s[j], c)
  BY DEF OneCompletion
<1>2. i = 1
  BY <1>1, Running DEF Expired
<1>3. ASSUME NEW j \in 1..Len(Tail(s)) PROVE Expired(Tail(s)[j], c)
  <2>1. j + 1 \in 1..Len(s) /\ j + 1 # 1 /\ Tail(s)[j] = s[j + 1]
    BY Running
  <2> QED BY <1>1, <1>2, <2>1
<1> QED BY <1>1, <1>2, <1>3, Running DEF OnlyExpiries

LEMMA HandlerQueues ==
    ASSUME NEW s \in Seq(Task), NEW c \in Conns, NEW op, NEW t \in Task,
           OnlyExpiries(s, c), Continues(t, "handler", c, op)
    PROVE  HandlerIsLast(Append(s, t), c, op)
BY Queueing DEF OnlyExpiries, HandlerIsLast

(* A handler that runs is the last task. *)
LEMMA HandlerRuns ==
    ASSUME NEW s \in Seq(Task), NEW c \in Conns, NEW op, s # <<>>, Head(s).kind = "handler"
    PROVE  /\ HandlerIsLast(s, c, op) => Continues(Head(s), "handler", c, op) /\ Tail(s) = <<>>
           /\ ~OnlyExpiries(s, c) /\ ~OneCompletion(s, c, op)
<1>1. ASSUME HandlerIsLast(s, c, op) PROVE Continues(Head(s), "handler", c, op) /\ Tail(s) = <<>>
  <2>1. Len(s) = 1
    <3> SUFFICES ASSUME Len(s) # 1 PROVE FALSE
      OBVIOUS
    <3>2. 1 \in 1..Len(s) - 1
      <4>1. Len(s) \in Nat /\ Len(s) # 0
        BY Running
      <4>2. \A n \in Nat : n # 0 /\ n # 1 => 1 \in 1..n - 1
        OBVIOUS
      <4> QED BY <4>1, <4>2
    <3>3. s[1].kind = "expiry"
      BY <1>1, <3>2 DEF HandlerIsLast, Expired
    <3> QED BY <3>3, Running
  <2> QED BY <1>1, <2>1, Running DEF HandlerIsLast
<1>2. ~OnlyExpiries(s, c)
  BY Running DEF OnlyExpiries, Expired
<1>3. ~OneCompletion(s, c, op)
  BY Running DEF OneCompletion, Expired, Continues
<1> QED BY <1>1, <1>2, <1>3

(***************************************************************************)
(* The reactor and the completions of the connections.                     *)
(***************************************************************************)

(* What a service may wait for. *)
LEMMA AwaitsFacts ==
    ASSUME FlowAssumption, NEW w \in DOMAIN Awaits
    PROVE  /\ w \notin {"continued", "tunnel", "websocket", "stopped"}
           /\ Awaits[w][1] \in Conns /\ Awaits[w][2] \in Ops
           /\ Awaits[w][2] = "connect" => Awaits[w][1] = server /\ w \in {"connect", "tls_connect"}
           /\ w \in {"connect", "tls_connect"} => Awaits[w][2] = "connect"
           /\ Awaits[w][2] = "handshake" =>
                 /\ Awaits[w][1] = client => w = "client_handshake"
                 /\ Awaits[w][1] = server => w = "server_handshake"
           /\ w = "client_handshake" => Awaits[w][1] = client /\ Awaits[w][2] = "handshake"
BY DEF FlowAssumption, Awaits, Ops

(* While something is in progress, it is what pc says. *)
LEMMA Busy ==
    ASSUME FlowAssumption, Core, ~Quiet
    PROVE  /\ pc \in DOMAIN Awaits /\ Single(Awaits[pc][1], Awaits[pc][2])
           /\ Awaits[pc][1] \in Conns /\ Awaits[pc][2] \in Ops
           /\ pc # "stopped"
           /\ \A d \in Conns : Fits(conn[d])
BY AwaitsFacts DEF Core, Shape, Sockets, Unanswered, FlowAssumption

LEMMA StillBusy ==
    ASSUME FlowAssumption, Core, UNCHANGED <<pc, stops>>,
           ConnTypeOK', Sockets', pc \in DOMAIN Awaits, Single(Awaits[pc][1], Awaits[pc][2])'
    PROVE  Core'
<1>1. pc' = pc /\ stops' = stops
  OBVIOUS
<1>2. Shape'
  BY <1>1 DEF Shape, Awaits
<1> QED BY <1>1, <1>2 DEF Core

LEMMA CompletesSingle ==
    ASSUME FlowAssumption, ConnTypeOK, NEW c \in Conns, NEW op \in Ops, Single(c, op),
           NEW d \in Conns, NEW o \in Ops, NEW r \in Results, Completes(o, d, r)
    PROVE  /\ d = c /\ o = op /\ ConnTypeOK' /\ Single(c, op)'
           /\ conn' = [conn EXCEPT ![c].pending = {}]
           /\ tasks' = Append(tasks, Completion(op, c, r))
<1>1. /\ o \in conn[d].pending
      /\ conn' = [conn EXCEPT ![d].pending = @ \ {o}]
      /\ tasks' = Append(tasks, Completion(o, d, r))
  BY DEF Completes
<1>2. d = c
  BY <1>1 DEF Single
<1>3. Outstanding(c, op) /\ (op = "connect" => ~conn[c].connected) /\ o = op
  BY <1>1, <1>2 DEF Single, Outstanding, Completed, Answered
<1>4. Completion(op, c, r) \in Task /\ Continues(Completion(op, c, r), "completion", c, op)
  BY DEF Completion, Task, Continues
<1>5. conn \in [Conns -> Connection] /\ tasks \in Seq(Task)
  BY DEF ConnTypeOK
<1>6. conn' = [conn EXCEPT ![c].pending = {}]
  BY <1>1, <1>2, <1>3, <1>5 DEF Outstanding
<1>7. /\ conn'[c].pending = {} /\ conn'[c].timer = conn[c].timer /\ conn'[c].connected = conn[c].connected
      /\ \A e \in Conns : e # c => conn'[e] = conn[e]
      /\ conn' \in [Conns -> Connection]
  BY <1>5, <1>6 DEF Connection
<1>8. OneCompletion(tasks', c, op) /\ tasks' \in Seq(Task)
  BY <1>1, <1>2, <1>3, <1>4, <1>5, CompletionQueues, Queueing DEF Outstanding
<1>9. op = "handshake" \/ (op \in {"read", "write"} /\ conn'[c].timer = "armed") =>
          \A i \in 1..Len(tasks') : tasks'[i].kind # "expiry"
  <2> SUFFICES ASSUME op = "handshake" \/ (op \in {"read", "write"} /\ conn'[c].timer = "armed"),
                      NEW i \in 1..Len(tasks')
               PROVE  tasks'[i].kind # "expiry"
    OBVIOUS
  <2>1. \A j \in 1..Len(tasks) : tasks[j].kind # "expiry"
    BY <1>7 DEF Single
  <2>2. CASE i \in 1..Len(tasks)
    BY <1>1, <1>2, <1>3, <1>4, <1>5, <2>1, <2>2, Queueing
  <2>3. CASE i = Len(tasks) + 1
    BY <1>1, <1>2, <1>3, <1>4, <1>5, <2>3, Queueing DEF Continues
  <2>4. i \in 1..Len(tasks) + 1
    BY <1>1, <1>2, <1>3, <1>4, <1>5, Queueing
  <2> QED BY <1>5, <2>2, <2>3, <2>4
<1>10. Single(c, op)'
  BY <1>3, <1>7, <1>8, <1>9 DEF Single, Completed
<1> QED BY <1>1, <1>2, <1>3, <1>6, <1>7, <1>8, <1>10 DEF ConnTypeOK

LEMMA CompletesStep ==
    ASSUME FlowAssumption, Core, NEW d \in Conns, NEW o \in Ops, NEW r \in Results,
           Completes(o, d, r), UNCHANGED <<pc, stops>>
    PROVE  Core'
<1> DEFINE c == Awaits[pc][1]
           op == Awaits[pc][2]
<1>1. ~Quiet /\ ConnTypeOK
  BY DEF Quiet, Completes, Core
<1>2. /\ pc \in DOMAIN Awaits /\ Single(c, op) /\ c \in Conns /\ op \in Ops /\ pc # "stopped"
      /\ \A e \in Conns : Fits(conn[e])
  BY <1>1, Busy
<1>3. /\ d = c /\ o = op /\ ConnTypeOK' /\ conn' = [conn EXCEPT ![c].pending = {}]
      /\ tasks' = Append(tasks, Completion(op, c, r)) /\ Single(c, op)'
  <2>1. \A cc \in Conns, oo \in Ops : Single(cc, oo) =>
            /\ d = cc /\ o = oo /\ ConnTypeOK' /\ Single(cc, oo)'
            /\ conn' = [conn EXCEPT ![cc].pending = {}]
            /\ tasks' = Append(tasks, Completion(oo, cc, r))
    BY <1>1, CompletesSingle
  <2> QED BY <1>2, <2>1, ZenonT(60) DEF Awaits
<1>4. conn \in [Conns -> Connection] /\ tasks \in Seq(Task)
  BY <1>1 DEF ConnTypeOK
<1>5. \A e \in Conns : Fits(conn'[e]) /\ (Gone(conn[e]) => Gone(conn'[e])) /\ conn'[e].socket = conn[e].socket
  BY <1>2, <1>3, <1>4 DEF Fits, Gone, Connection
<1>6. op \in {"read", "write"} /\ r # "ok" => Gone(conn[c])
  <2>1. conn[c] \in Connection
    BY <1>2, <1>4
  <2>2. r \in Outcomes(op, conn[c])
    BY <1>3 DEF Completes
  <2> QED BY <2>1, <2>2 DEF Outcomes, ReadOutcomes, WriteOutcomes, Gone, Connection
<1>7. ASSUME NEW i \in 1..Len(tasks'), tasks'[i].kind = "completion",
             tasks'[i].op \in {"read", "write"}, tasks'[i].result # "ok"
      PROVE  Gone(conn'[tasks'[i].conn])
  <2>1. Completion(op, c, r) \in Task
    BY <1>2 DEF Completion, Task
  <2>2. CASE i \in 1..Len(tasks)
    <3>1. tasks'[i] = tasks[i] /\ tasks[i] \in Task
      BY <1>3, <1>4, <2>1, <2>2, Queueing
    <3>2. Gone(conn[tasks[i].conn]) /\ tasks[i].conn \in Conns
      BY <1>7, <2>2, <3>1 DEF Core, Sockets, Task
    <3> QED BY <1>5, <3>1, <3>2
  <2>3. CASE i = Len(tasks) + 1
    <3>1. tasks'[i] = Completion(op, c, r)
      BY <1>3, <1>4, <2>1, <2>3, Queueing
    <3> QED BY <1>2, <1>5, <1>6, <1>7, <3>1 DEF Completion
  <2> QED BY <1>3, <1>4, <2>1, <2>2, <2>3, Queueing
<1>8. Sockets'
  BY <1>5, <1>7 DEF Sockets, Core, FlowAssumption
<1> QED BY <1>2, <1>3, <1>8, StillBusy

LEMMA ExpiresStep ==
    ASSUME FlowAssumption, Core, NEW d \in Conns, TimerExpires(d), UNCHANGED <<pc, stops>>
    PROVE  Core'
<1> DEFINE c == Awaits[pc][1]
           op == Awaits[pc][2]
<1>1. ~Quiet /\ conn \in [Conns -> Connection] /\ tasks \in Seq(Task)
  BY DEF Quiet, TimerExpires, Core, ConnTypeOK
<1>2. /\ pc \in DOMAIN Awaits /\ Single(c, op) /\ c \in Conns /\ op \in Ops /\ pc # "stopped"
      /\ \A e \in Conns : Fits(conn[e])
  BY <1>1, Busy
<1>3. /\ d = c /\ op # "handshake" /\ conn[c].timer = "armed"
      /\ conn' = [conn EXCEPT ![c].timer = "off"] /\ tasks' = Append(tasks, Expiry(c))
  <2>1. /\ conn[d].timer = "armed" /\ conn' = [conn EXCEPT ![d].timer = "off"]
        /\ tasks' = Append(tasks, Expiry(d))
    BY DEF TimerExpires
  <2>2. /\ \A e \in Conns : e # c => conn[e].timer = "off"
        /\ op = "handshake" => conn[c].timer = "off"
    BY <1>2 DEF Single
  <2>3. d = c
    BY <2>1, <2>2
  <2> QED BY <2>1, <2>2, <2>3
<1>4. /\ conn'[c].pending = conn[c].pending /\ conn'[c].timer = "off"
      /\ conn'[c].connected = conn[c].connected
      /\ \A e \in Conns : e # c => conn'[e] = conn[e]
      /\ conn' \in [Conns -> Connection]
      /\ \A e \in Conns : Fits(conn'[e]) /\ (Gone(conn[e]) => Gone(conn'[e])) /\ conn'[e].socket = conn[e].socket
  <2>1. PICK k : k = [conn[c] EXCEPT !.timer = "off"]
    OBVIOUS
  <2>2. conn[c] \in Connection
    BY <1>1, <1>2
  <2>3. /\ k \in Connection /\ k.pending = conn[c].pending /\ k.timer = "off"
        /\ k.connected = conn[c].connected /\ k.socket = conn[c].socket /\ k.peer = conn[c].peer
    BY <2>1, <2>2 DEF Connection
  <2>4. conn' = [conn EXCEPT ![c] = k]
    BY <1>1, <1>2, <1>3, <2>1
  <2>5. /\ conn' \in [Conns -> Connection] /\ conn'[c] = k
        /\ \A e \in Conns : e # c => conn'[e] = conn[e]
    BY <1>1, <1>2, <2>3, <2>4
  <2>6. /\ Fits(conn[c]) => Fits(k)
        /\ Gone(conn[c]) => Gone(k)
    BY <2>3 DEF Fits, Gone
  <2>7. \A e \in Conns : /\ Fits(conn'[e]) /\ (Gone(conn[e]) => Gone(conn'[e]))
                         /\ conn'[e].socket = conn[e].socket
    BY <1>2, <2>3, <2>5, <2>6
  <2> QED BY <2>3, <2>5, <2>7
<1>5. Expiry(c) \in Task /\ Expired(Expiry(c), c)
  BY <1>2 DEF Expiry, Task, Ops, Results, Expired
<1>6. tasks' \in Seq(Task)
  BY <1>1, <1>3, <1>5, Queueing
<1>7. Single(c, op)'
  <2>1. OnlyExpiries(tasks, c) => OnlyExpiries(tasks', c)
    BY <1>1, <1>2, <1>3, <1>5, ExpiryQueues
  <2>2. OneCompletion(tasks, c, op) => OneCompletion(tasks', c, op)
    BY <1>1, <1>2, <1>3, <1>5, ExpiryQueues
  <2>3. \/ Outstanding(c, op) /\ (op = "connect" => ~conn[c].connected)
        \/ Completed(c, op) /\ (op = "connect" => ~conn[c].connected)
    BY <1>2, <1>3 DEF Single, Answered
  <2>4. \/ conn'[c].pending = {op} /\ OnlyExpiries(tasks', c) /\ (op = "connect" => ~conn'[c].connected)
        \/ conn'[c].pending = {} /\ OneCompletion(tasks', c, op) /\ (op = "connect" => ~conn'[c].connected)
    BY <1>4, <2>1, <2>2, <2>3 DEF Outstanding, Completed
  <2>5. conn'[c].timer # "armed"
    BY <1>4
  <2>6. \A e \in Conns : e # c => conn'[e].pending = {} /\ conn'[e].timer = "off"
    BY <1>2, <1>4 DEF Single
  <2>7. pc' = pc /\ op # "handshake"
    BY <1>3
  <2> QED BY <1>4, <2>4, <2>5, <2>6, <2>7, ZenonT(60) DEF Single, Outstanding, Completed, Awaits
<1>8. Sockets'
  <2>1. ASSUME NEW i \in 1..Len(tasks'), tasks'[i].kind = "completion",
               tasks'[i].op \in {"read", "write"}, tasks'[i].result # "ok"
        PROVE  Gone(conn'[tasks'[i].conn])
    <3>1. i \in 1..Len(tasks) /\ tasks'[i] = tasks[i] /\ tasks[i] \in Task
      <4>1. i \in 1..Len(tasks) + 1
        BY <1>1, <1>3, <1>5, Queueing
      <4>2. i # Len(tasks) + 1
        BY <1>1, <1>3, <1>5, <2>1, Queueing DEF Expired
      <4> QED BY <1>1, <1>3, <1>5, <4>1, <4>2, Queueing
    <3> QED BY <1>4, <2>1, <3>1 DEF Core, Sockets, Task
  <2> QED BY <1>4, <2>1 DEF Sockets, Core, FlowAssumption
<1> QED BY <1>2, <1>4, <1>6, <1>7, <1>8, StillBusy DEF ConnTypeOK

(* A peer leaves: nothing that is in progress is touched. *)
LEMMA PeerStep ==
    ASSUME FlowAssumption, Core, NEW d \in Conns, PeerCloses(d) \/ PeerResets(d),
           UNCHANGED <<pc, stops>>
    PROVE  Core'
<1>1. conn \in [Conns -> Connection] /\ tasks \in Seq(Task) /\ tasks' = tasks /\ pc' = pc /\ stops' = stops
  BY DEF Core, ConnTypeOK, PeerCloses, PeerResets
<1>2. PICK gone \in {"closed", "reset"} : conn' = [conn EXCEPT ![d].peer = gone]
  BY DEF PeerCloses, PeerResets
<1>3. /\ conn' \in [Conns -> Connection]
      /\ \A e \in Conns : /\ conn'[e].pending = conn[e].pending /\ conn'[e].timer = conn[e].timer
                          /\ conn'[e].connected = conn[e].connected /\ conn'[e].socket = conn[e].socket
                          /\ Fits(conn[e]) => Fits(conn'[e])
                          /\ Gone(conn[e]) => Gone(conn'[e])
  BY <1>1, <1>2 DEF Connection, Fits, Gone
<1>4. Quiet => Quiet'
  BY <1>1, <1>3 DEF Quiet
<1>5. ASSUME NEW c \in Conns, NEW op, Single(c, op) PROVE Single(c, op)'
  BY <1>1, <1>3, <1>5 DEF Single, Outstanding, Completed, Answered
<1>6. Shape'
  <2>1. CASE pc \notin DOMAIN Awaits
    BY <1>1, <1>4, <2>1 DEF Core, Shape, Awaits
  <2>2. CASE pc \in DOMAIN Awaits
    <3>1. Single(Awaits[pc][1], Awaits[pc][2]) \/ Unanswered
      BY <2>2 DEF Core, Shape
    <3>2. Single(Awaits[pc][1], Awaits[pc][2]) => Single(Awaits[pc][1], Awaits[pc][2])'
      BY <1>1, <1>5, <2>2, AwaitsFacts DEF Awaits
    <3>3. Unanswered => Unanswered'
      BY <1>1, <1>4 DEF Unanswered
    <3> QED BY <1>1, <2>2, <3>1, <3>2, <3>3 DEF Shape, Awaits
  <2> QED BY <2>1, <2>2
<1>7. Sockets'
  <2>1. client \in Conns /\ server \in Conns
    BY DEF FlowAssumption
  <2>2. ASSUME NEW i \in 1..Len(tasks) PROVE tasks[i].conn \in Conns
    <3>1. tasks[i] \in Task
      BY <1>1
    <3> QED BY <3>1 DEF Task
  <2>3. Unanswered => Unanswered'
    BY <1>1, <1>4 DEF Unanswered
  <2> QED BY <1>1, <1>3, <2>1, <2>2, <2>3 DEF Sockets, Core
<1> QED BY <1>1, <1>3, <1>6, <1>7 DEF Core, ConnTypeOK

(* A completion that runs is the one of the operation pc awaits. *)
LEMMA CompletionFacts ==
    ASSUME FlowAssumption, Core, tasks # <<>>, Head(tasks).kind = "completion",
           NEW c, NEW op, c = Head(tasks).conn, op = Head(tasks).op
    PROVE  /\ pc \in DOMAIN Awaits /\ Awaits[pc][1] = c /\ Awaits[pc][2] = op /\ Single(c, op)
           /\ c \in Conns /\ op \in Ops /\ pc # "stopped"
           /\ conn[c] \in Connection /\ conn[c].pending = {} /\ (op = "connect" => ~conn[c].connected)
           /\ Head(tasks) \in Task /\ Tail(tasks) \in Seq(Task) /\ OnlyExpiries(Tail(tasks), c)
           /\ \A d \in Conns : Fits(conn[d])
           /\ op \in {"read", "write"} /\ Head(tasks).result # "ok" => Gone(conn[c])
<1> DEFINE cc == Awaits[pc][1]
           oo == Awaits[pc][2]
<1>1. ~Quiet /\ conn \in [Conns -> Connection] /\ tasks \in Seq(Task)
  BY DEF Quiet, Core, ConnTypeOK
<1>2. /\ pc \in DOMAIN Awaits /\ Single(cc, oo) /\ cc \in Conns /\ oo \in Ops /\ pc # "stopped"
      /\ \A e \in Conns : Fits(conn[e])
  BY <1>1, Busy
<1>3. Head(tasks) \in Task /\ Tail(tasks) \in Seq(Task) /\ Head(tasks) = tasks[1] /\ 1 \in 1..Len(tasks)
  BY <1>1, Running
<1>4. Completed(cc, oo) /\ (oo = "connect" => ~conn[cc].connected)
  <2>1. ~Outstanding(cc, oo)
    BY <1>3 DEF Outstanding, OnlyExpiries, Expired
  <2>2. ~Answered(cc, oo)
    <3> SUFFICES ASSUME HandlerIsLast(tasks, cc, oo) PROVE FALSE
      BY DEF Answered
    <3>1. 1 = Len(tasks) \/ 1 \in 1..Len(tasks) - 1
      <4>1. Len(tasks) \in Nat /\ Len(tasks) # 0
        BY <1>1, Running
      <4>2. \A n \in Nat : n # 0 => 1 = n \/ 1 \in 1..n - 1
        OBVIOUS
      <4> QED BY <4>1, <4>2
    <3> QED BY <1>3, <3>1 DEF HandlerIsLast, Continues, Expired
  <2> QED BY <1>2, <2>1, <2>2 DEF Single
<1>5. Continues(Head(tasks), "completion", cc, oo) /\ OnlyExpiries(Tail(tasks), cc)
  BY <1>1, <1>2, <1>4, CompletionRuns DEF Completed
<1>6. c = cc /\ op = oo
  BY <1>5 DEF Continues
<1>7. op \in {"read", "write"} /\ Head(tasks).result # "ok" => Gone(conn[c])
  BY <1>3 DEF Core, Sockets
<1> QED BY <1>1, <1>2, <1>3, <1>4, <1>5, <1>6, <1>7 DEF Completed

(* It posts its handler and leaves its connection at rest. *)
LEMMA PostStep ==
    ASSUME FlowAssumption, Core, tasks # <<>>, Head(tasks).kind = "completion",
           PostHandler, UNCHANGED <<pc, stops>>,
           NEW c, NEW op, c = Head(tasks).conn, op = Head(tasks).op,
           NEW k \in Connection, k.pending = {}, k.timer = "off", Fits(k),
           k.socket = "closed" => conn[c].socket = "closed",
           conn' = [conn EXCEPT ![c] = k]
    PROVE  Core'
<1>1. /\ pc \in DOMAIN Awaits /\ Awaits[pc][1] = c /\ Awaits[pc][2] = op /\ Single(c, op)
      /\ c \in Conns /\ op \in Ops /\ pc # "stopped"
      /\ Head(tasks) \in Task /\ Tail(tasks) \in Seq(Task) /\ OnlyExpiries(Tail(tasks), c)
      /\ \A d \in Conns : Fits(conn[d])
  BY CompletionFacts
<1>2. Handler(Head(tasks)) \in Task /\ Continues(Handler(Head(tasks)), "handler", c, op)
  BY <1>1 DEF Handler, Task, Continues
<1>3. tasks' = Append(Tail(tasks), Handler(Head(tasks)))
  BY DEF PostHandler
<1>4. tasks' \in Seq(Task) /\ HandlerIsLast(tasks', c, op)
  BY <1>1, <1>2, <1>3, HandlerQueues, Queueing
<1>5. /\ conn' \in [Conns -> Connection] /\ conn'[c] = k
      /\ \A e \in Conns : e # c => conn'[e] = conn[e]
  BY <1>1 DEF Core, ConnTypeOK
<1>6. /\ conn'[c].pending = {} /\ conn'[c].timer = "off"
      /\ \A e \in Conns : e # c => conn'[e].pending = {} /\ conn'[e].timer = "off"
  BY <1>1, <1>5 DEF Single
<1>7. ASSUME NEW i \in 1..Len(tasks') PROVE tasks'[i].kind # "completion"
  <2>1. CASE i = Len(tasks')
    BY <1>4, <2>1 DEF HandlerIsLast, Continues
  <2>2. CASE i \in 1..Len(tasks') - 1
    BY <1>4, <2>2 DEF HandlerIsLast, Expired
  <2>3. Len(tasks') \in Nat
    BY <1>4
  <2> QED BY <2>1, <2>2, <2>3
<1>8. op = "handshake" => \A i \in 1..Len(tasks') : tasks'[i].kind # "expiry"
  <2> SUFFICES ASSUME op = "handshake", NEW i \in 1..Len(tasks') PROVE tasks'[i].kind # "expiry"
    OBVIOUS
  <2>1. \A j \in 1..Len(tasks) : tasks[j].kind # "expiry"
    BY <1>1 DEF Single
  <2>2. Len(Tail(tasks)) = 0
    <3> SUFFICES ASSUME Len(Tail(tasks)) # 0 PROVE FALSE
      OBVIOUS
    <3>1. 1 \in 1..Len(tasks) - 1 /\ Tail(tasks)[1] = tasks[1 + 1] /\ 1 + 1 \in 1..Len(tasks)
      <4>1. tasks \in Seq(Task)
        BY DEF Core, ConnTypeOK
      <4>2. Len(tasks) \in Nat /\ Len(Tail(tasks)) = Len(tasks) - 1 /\ Len(tasks) # 0
        BY <4>1, Running
      <4>3. \A n \in Nat : n - 1 # 0 /\ n # 0 => 1 \in 1..n - 1 /\ 1 + 1 \in 1..n
        OBVIOUS
      <4>4. 1 \in 1..Len(tasks) - 1 /\ 1 + 1 \in 1..Len(tasks)
        BY <4>2, <4>3
      <4> QED BY <4>1, <4>4, Running
    <3>2. 1 \in 1..Len(Tail(tasks)) /\ tasks[1 + 1].kind = "expiry"
      <4>1. Len(Tail(tasks)) \in Nat
        BY <1>1
      <4>2. 1 \in 1..Len(Tail(tasks))
        <5>1. \A n \in Nat : n # 0 => 1 \in 1..n
          OBVIOUS
        <5> QED BY <4>1, <5>1
      <4> QED BY <1>1, <3>1, <4>2 DEF OnlyExpiries, Expired
    <3> QED BY <2>1, <3>1, <3>2
  <2>3. i = Len(tasks')
    <3>1. Len(tasks') = Len(Tail(tasks)) + 1
      BY <1>1, <1>2, <1>3, Queueing
    <3>2. Len(tasks') = 1
      BY <2>2, <3>1
    <3>3. \A j \in 1..1 : j = 1
      OBVIOUS
    <3> QED BY <3>2, <3>3
  <2> QED BY <1>4, <2>3 DEF HandlerIsLast, Continues
<1>9. Single(c, op)'
  <2>1. conn'[c].timer # "armed"
    BY <1>6
  <2> QED BY <1>4, <1>6, <1>8, <2>1 DEF Single, Answered
<1>10. Sockets'
  BY <1>1, <1>5, <1>7 DEF Sockets, Core, FlowAssumption
<1>11. Single(Awaits[pc][1], Awaits[pc][2])'
  BY <1>1, <1>9 DEF Awaits
<1> QED BY <1>1, <1>4, <1>5, <1>10, <1>11, StillBusy DEF ConnTypeOK

(* on_read and on_write: an operation that has failed leaves a connection  *)
(* whose peer is gone or that was shut down.                               *)
LEMMA ReadWriteStep ==
    ASSUME FlowAssumption, Core, OnRead \/ OnWrite(FALSE), UNCHANGED <<pc, stops>>
    PROVE  Core'
<1>1. PICK c, op, k :
        /\ c = Head(tasks).conn /\ op = Head(tasks).op /\ k = Marked(Disarmed(conn[c]), Head(tasks))
        /\ tasks # <<>> /\ Head(tasks).kind = "completion" /\ op \in {"read", "write"}
        /\ PostHandler /\ conn' = [conn EXCEPT ![c] = k]
  BY DEF OnRead, OnWrite, Runs
<1>2. /\ conn[c] \in Connection /\ conn[c].pending = {} /\ Fits(conn[c])
      /\ Head(tasks) \in Task
      /\ Head(tasks).result # "ok" => Gone(conn[c])
  BY <1>1, CompletionFacts
<1>3. k = [conn[c] EXCEPT !.timer = "off", !.connected = conn[c].connected /\ Head(tasks).result = "ok"]
  BY <1>1, <1>2 DEF Marked, Disarmed, Connection
<1>4. k \in Connection /\ k.pending = {} /\ k.timer = "off" /\ k.socket = conn[c].socket /\ k.peer = conn[c].peer
  BY <1>2, <1>3 DEF Connection
<1>5. Fits(k)
  <2>1. CASE Head(tasks).result = "ok"
    <3>1. k.connected = conn[c].connected
      BY <1>2, <1>3, <2>1 DEF Connection
    <3> QED BY <1>2, <1>4, <3>1 DEF Fits
  <2>2. CASE Head(tasks).result # "ok"
    <3>1. ~k.connected
      BY <1>2, <1>3, <2>2 DEF Connection
    <3> QED BY <1>2, <1>4, <2>2, <3>1 DEF Fits, Gone
  <2> QED BY <2>1, <2>2
<1> QED BY <1>1, <1>4, <1>5, PostStep

(* on_timeout: the operation that is in progress stays, on a shut socket.  *)
LEMMA TimeoutStep ==
    ASSUME FlowAssumption, Core, OnTimeout, UNCHANGED <<pc, stops>>
    PROVE  Core'
<1> DEFINE c == Awaits[pc][1]
           op == Awaits[pc][2]
<1>1. /\ tasks # <<>> /\ Head(tasks).kind = "expiry" /\ tasks' = Tail(tasks)
      /\ conn \in [Conns -> Connection] /\ tasks \in Seq(Task) /\ ~Quiet
  BY DEF OnTimeout, Core, ConnTypeOK, Quiet
<1>2. /\ pc \in DOMAIN Awaits /\ Single(c, op) /\ c \in Conns /\ op \in Ops /\ pc # "stopped"
      /\ \A e \in Conns : Fits(conn[e])
  BY <1>1, Busy
<1>3. /\ Head(tasks) = tasks[1] /\ Head(tasks) \in Task /\ Tail(tasks) \in Seq(Task)
      /\ Len(tasks) \in Nat \ {0} /\ Len(Tail(tasks)) = Len(tasks) - 1
      /\ \A i \in 1..Len(tasks) - 1 : Tail(tasks)[i] = tasks[i + 1]
  BY <1>1, Running
<1>4. Head(tasks).conn = c
  <2>1. 1 \in 1..Len(tasks)
    BY <1>3
  <2>2. CASE OnlyExpiries(tasks, c)
    BY <1>3, <2>1, <2>2 DEF OnlyExpiries, Expired
  <2>3. CASE OneCompletion(tasks, c, op)
    BY <1>1, <1>3, <2>1, <2>3 DEF OneCompletion, Expired, Continues
  <2>4. CASE HandlerIsLast(tasks, c, op)
    <3>1. 1 = Len(tasks) \/ 1 \in 1..Len(tasks) - 1
      <4>1. \A n \in Nat : n # 0 => 1 = n \/ 1 \in 1..n - 1
        OBVIOUS
      <4> QED BY <1>3, <4>1
    <3> QED BY <1>1, <1>3, <2>4, <3>1 DEF HandlerIsLast, Expired, Continues
  <2> QED BY <1>2, <2>2, <2>3, <2>4 DEF Single, Outstanding, Completed, Answered
<1>5. conn' = [conn EXCEPT ![c] = ShutDown(Disarmed(conn[c]))]
  BY <1>1, <1>4 DEF OnTimeout
<1> DEFINE k == ShutDown(Disarmed(conn[c]))
<1>6. /\ k \in Connection /\ k.pending = conn[c].pending /\ k.timer = "off"
      /\ k.connected => conn[c].connected
      /\ k.socket # conn[c].socket => k.socket = "shut" /\ ~k.connected
      /\ k.peer = conn[c].peer /\ (k.socket = conn[c].socket => k.connected = conn[c].connected)
      /\ k.socket = "closed" => conn[c].socket = "closed"
  <2>1. conn[c] \in Connection
    BY <1>1, <1>2
  <2>2. Fits(conn[c])
    BY <1>2
  <2> QED BY <2>1, <2>2 DEF ShutDown, Disarmed, CanBeShutdown, Connection, Fits
<1> HIDE DEF k
<1>7. /\ conn' \in [Conns -> Connection] /\ conn'[c] = k
      /\ \A e \in Conns : e # c => conn'[e] = conn[e]
  BY <1>1, <1>2, <1>5, <1>6 DEF k
<1>8. \A e \in Conns : /\ Fits(conn'[e]) /\ (Gone(conn[e]) => Gone(conn'[e]))
                       /\ conn'[e].socket = "closed" => conn[e].socket = "closed"
  BY <1>2, <1>6, <1>7 DEF Fits, Gone
<1>9. Single(c, op)'
  <2>1. OnlyExpiries(tasks, c) => OnlyExpiries(tasks', c)
    BY <1>1, <1>2, ExpiryRuns
  <2>2. OneCompletion(tasks, c, op) => OneCompletion(tasks', c, op)
    BY <1>1, <1>2, ExpiryRuns
  <2>3. HandlerIsLast(tasks, c, op) => HandlerIsLast(tasks', c, op)
    BY <1>1, <1>2, ExpiryRuns
  <2>4. \/ conn'[c].pending = {op} /\ OnlyExpiries(tasks', c) /\ (op = "connect" => ~conn'[c].connected)
        \/ conn'[c].pending = {} /\ OneCompletion(tasks', c, op) /\ (op = "connect" => ~conn'[c].connected)
        \/ conn'[c].pending = {} /\ conn'[c].timer = "off" /\ HandlerIsLast(tasks', c, op)
    BY <1>2, <1>6, <1>7, <2>1, <2>2, <2>3 DEF Single, Outstanding, Completed, Answered
  <2>5. \A e \in Conns : e # c => conn'[e].pending = {} /\ conn'[e].timer = "off"
    BY <1>2, <1>7 DEF Single
  <2>6. op # "handshake"
    <3>1. 1 \in 1..Len(tasks) /\ tasks[1].kind = "expiry"
      BY <1>1, <1>3
    <3> QED BY <1>2, <3>1 DEF Single
  <2>7. conn'[c].timer # "armed" /\ pc' = pc
    BY <1>6, <1>7
  <2>8. c' = c /\ op' = op
    BY <2>7
  <2> HIDE DEF c, op
  <2> QED BY <2>4, <2>5, <2>6, <2>7, <2>8 DEF Single, Outstanding, Completed, Answered
<1>10. ASSUME NEW i \in 1..Len(tasks'), tasks'[i].kind = "completion",
              tasks'[i].op \in {"read", "write"}, tasks'[i].result # "ok"
       PROVE  Gone(conn'[tasks'[i].conn])
  <2>1. i + 1 \in 1..Len(tasks) /\ tasks'[i] = tasks[i + 1]
    BY <1>1, <1>3
  <2>2. tasks[i + 1] \in Task
    BY <1>1, <2>1
  <2>3. Gone(conn[tasks[i + 1].conn]) /\ tasks[i + 1].conn \in Conns
    BY <1>10, <2>1, <2>2 DEF Core, Sockets, Task
  <2> QED BY <1>8, <2>1, <2>3
<1>11. Sockets'
  BY <1>8, <1>10 DEF Sockets, Core, FlowAssumption
<1>12. tasks' \in Seq(Task)
  BY <1>1, <1>3
<1> QED BY <1>2, <1>7, <1>9, <1>11, <1>12, StillBusy DEF ConnTypeOK

(* on_resolve and on_connect. *)
LEMMA ConnectStep ==
    ASSUME FlowAssumption, Core, OnConnect, UNCHANGED <<pc, stops>>
    PROVE  Core'
<1>1. PICK c, op : /\ c = Head(tasks).conn /\ op = Head(tasks).op
                   /\ tasks # <<>> /\ Head(tasks).kind = "completion" /\ op = "connect"
  BY DEF OnConnect, Runs
<1>2. /\ pc \in DOMAIN Awaits /\ Awaits[pc][1] = c /\ Awaits[pc][2] = op /\ Single(c, op)
      /\ c \in Conns /\ pc # "stopped"
      /\ conn[c] \in Connection /\ conn[c].pending = {} /\ ~conn[c].connected
      /\ Tail(tasks) \in Seq(Task) /\ OnlyExpiries(Tail(tasks), c)
      /\ \A d \in Conns : Fits(conn[d])
  BY <1>1, CompletionFacts
<1>3. CASE /\ conn' = [conn EXCEPT ![c] = [Disarmed(conn[c]) EXCEPT !.socket = "open", !.peer = "alive", !.connected = TRUE]]
           /\ PostHandler
  <2> DEFINE k == [Disarmed(conn[c]) EXCEPT !.socket = "open", !.peer = "alive", !.connected = TRUE]
  <2>1. k \in Connection /\ k.pending = {} /\ k.timer = "off" /\ Fits(k) /\ k.socket # "closed"
    BY <1>2 DEF Disarmed, Connection, Fits
  <2> HIDE DEF k
  <2> QED BY <1>1, <1>3, <2>1, PostStep DEF k
<1>4. CASE conn' = [conn EXCEPT ![c] = Disarmed(conn[c])] /\ PostHandler
  <2> DEFINE k == Disarmed(conn[c])
  <2>1. /\ k \in Connection /\ k.pending = {} /\ k.timer = "off" /\ Fits(k)
        /\ k.socket = "closed" => conn[c].socket = "closed"
    BY <1>2 DEF Disarmed, Connection, Fits
  <2> HIDE DEF k
  <2> QED BY <1>1, <1>4, <2>1, PostStep DEF k
<1>5. CASE conn' = [conn EXCEPT ![c] = ConnectStarted(Disarmed(conn[c]))] /\ tasks' = Tail(tasks)
  <2> DEFINE k == ConnectStarted(Disarmed(conn[c]))
  <2>1. /\ k \in Connection /\ k.pending = {"connect"} /\ ~k.connected /\ Fits(k)
        /\ k.socket = conn[c].socket
    BY <1>2 DEF Disarmed, ConnectStarted, Armed, Connection, Fits, Ops
  <2>8. conn' = [conn EXCEPT ![c] = k]
    BY <1>5
  <2> HIDE DEF k
  <2>2. /\ conn' \in [Conns -> Connection] /\ conn'[c] = k
        /\ \A e \in Conns : e # c => conn'[e] = conn[e]
    BY <1>2, <2>1, <2>8 DEF Core, ConnTypeOK
  <2>3. Single(c, op)'
    <3>1. \A e \in Conns : e # c => conn'[e].pending = {} /\ conn'[e].timer = "off"
      BY <1>2, <2>2 DEF Single
    <3>2. Outstanding(c, op)' /\ ~conn'[c].connected
      BY <1>1, <1>2, <1>5, <2>1, <2>2 DEF Outstanding
    <3> QED BY <1>1, <3>1, <3>2 DEF Single
  <2>4. \A i \in 1..Len(tasks') : tasks'[i].kind # "completion"
    BY <1>2, <1>5 DEF OnlyExpiries, Expired
  <2>5. \A d \in Conns : Fits(conn'[d]) /\ conn'[d].socket = conn[d].socket
    BY <1>2, <2>1, <2>2
  <2>6. Sockets'
    BY <1>2, <2>4, <2>5 DEF Sockets, Core, FlowAssumption
  <2>7. Single(Awaits[pc][1], Awaits[pc][2])'
    BY <1>2, <2>3 DEF Awaits
  <2> QED BY <1>2, <1>5, <2>2, <2>6, <2>7, StillBusy DEF ConnTypeOK
<1> QED BY <1>1, <1>3, <1>4, <1>5 DEF OnConnect

(* on_handshake of either connection; one that fails with the client stays *)
(* without an answer.                                                      *)
LEMMA HandshakeStep ==
    ASSUME FlowAssumption, Core, HandshakeCompletes
    PROVE  Core'
<1>1. PICK c, op : /\ c = Head(tasks).conn /\ op = Head(tasks).op
                   /\ tasks # <<>> /\ Head(tasks).kind = "completion" /\ op = "handshake"
  BY DEF HandshakeCompletes, Runs
<1>2. /\ pc \in DOMAIN Awaits /\ Awaits[pc][1] = c /\ Awaits[pc][2] = op /\ Single(c, op)
      /\ c \in Conns /\ pc # "stopped"
      /\ conn[c] \in Connection /\ conn[c].pending = {}
      /\ Tail(tasks) \in Seq(Task) /\ OnlyExpiries(Tail(tasks), c)
      /\ \A d \in Conns : Fits(conn[d])
  BY <1>1, CompletionFacts
<1>3. conn[c].timer = "off"
  BY <1>1, <1>2 DEF Single
<1>4. conn \in [Conns -> Connection] /\ pc' = pc /\ stops' = stops
  BY DEF Core, ConnTypeOK, HandshakeCompletes
<1>5. CASE PostHandler /\ conn' = [conn EXCEPT ![c].connected = @ /\ TRUE]
  <2>1. conn[c].connected \in BOOLEAN /\ (conn[c].connected /\ TRUE) = conn[c].connected
    BY <1>2 DEF Connection
  <2>2. conn' = [conn EXCEPT ![c] = [conn[c] EXCEPT !.connected = conn[c].connected]]
    BY <1>5, <2>1
  <2>3. [conn[c] EXCEPT !.connected = conn[c].connected] = conn[c]
    BY <1>2 DEF Connection
  <2>4. conn' = [conn EXCEPT ![c] = conn[c]]
    BY <2>2, <2>3
  <2>5. UNCHANGED <<pc, stops>>
    BY <1>4
  <2> QED BY <1>1, <1>2, <1>3, <1>5, <2>4, <2>5, PostStep
<1>6. CASE c = client /\ Rest /\ conn' = [conn EXCEPT ![c].connected = @ /\ FALSE]
  <2>1. /\ conn' \in [Conns -> Connection] /\ conn'[c].pending = {} /\ conn'[c].timer = "off"
        /\ conn'[c].socket = conn[c].socket
        /\ \A e \in Conns : e # c => conn'[e] = conn[e]
    BY <1>2, <1>3, <1>4, <1>6 DEF Connection
  <2>2. Len(Tail(tasks)) = 0
    <3>1. ~\E i \in 1..Len(Tail(tasks)) : TRUE
      <4> SUFFICES ASSUME NEW i \in 1..Len(Tail(tasks)) PROVE FALSE
        OBVIOUS
      <4>1. tasks \in Seq(Task)
        BY DEF Core, ConnTypeOK
      <4>2. i + 1 \in 1..Len(tasks) /\ Tail(tasks)[i] = tasks[i + 1]
        BY <1>1, <4>1, Running
      <4> QED BY <1>1, <1>2, <4>2 DEF Single, OnlyExpiries, Expired
    <3>2. Len(Tail(tasks)) \in Nat
      BY <1>2
    <3>3. \A n \in Nat : n # 0 => 1 \in 1..n
      OBVIOUS
    <3> QED BY <3>1, <3>2, <3>3
  <2>3. tasks' = <<>>
    BY <1>2, <1>6, <2>2, EmptySeq DEF Rest
  <2>4. Quiet'
    BY <1>2, <2>1, <2>3 DEF Quiet, Single
  <2>5. pc = "client_handshake" /\ client # server /\ server \in Conns /\ c = client
    BY <1>1, <1>2, <1>6, AwaitsFacts DEF FlowAssumption
  <2>6. Unanswered'
    BY <1>4, <2>4, <2>5 DEF Unanswered
  <2>7. Sockets'
    BY <1>2, <1>4, <2>1, <2>3, <2>5, <2>6 DEF Sockets, Core
  <2>8. Shape' /\ tasks' \in Seq(Task)
    BY <1>2, <1>4, <2>3, <2>6 DEF Shape, Awaits
  <2> QED BY <1>4, <2>1, <2>7, <2>8 DEF Core, ConnTypeOK
<1>7. c = client \/ c = server
  BY <1>2 DEF FlowAssumption
<1>8. CASE c = client /\ Result # "ok"
  BY <1>1, <1>6, <1>8 DEF HandshakeCompletes
<1>9. CASE c # client \/ Result = "ok"
  BY <1>1, <1>5, <1>9 DEF HandshakeCompletes
<1> QED BY <1>7, <1>8, <1>9

(***************************************************************************)
(* The handlers of the services.                                           *)
(***************************************************************************)

Rested(K) ==
    /\ K \in [Conns -> Connection]
    /\ \A c \in Conns : K[c].timer = "off" /\ K[c].pending = {} /\ Fits(K[c])
    /\ K[client].socket # "closed"

(* A handler of a service runs alone. *)
LEMMA Alone ==
    ASSUME FlowAssumption, Core, NEW w \in DOMAIN Awaits, Handles(w)
    PROVE  /\ Rested(conn) /\ Tail(tasks) = <<>> /\ stops = 0 /\ pc = w
           /\ tasks # <<>> /\ Head(tasks) \in Task
           /\ Continues(Head(tasks), "handler", Awaits[w][1], Awaits[w][2])
           /\ \E i \in 1..Len(tasks) : tasks[i] = Head(tasks)
<1> DEFINE c == Awaits[pc][1]
           op == Awaits[pc][2]
<1>1. /\ pc = w /\ tasks # <<>> /\ Head(tasks).kind = "handler" /\ ~Quiet
      /\ conn \in [Conns -> Connection] /\ tasks \in Seq(Task)
  BY DEF Handles, Runs, Quiet, Core, ConnTypeOK
<1>2. /\ Single(c, op) /\ c \in Conns /\ op \in Ops /\ pc # "stopped"
      /\ \A e \in Conns : Fits(conn[e])
  BY <1>1, Busy
<1>3. ~OnlyExpiries(tasks, c) /\ ~OneCompletion(tasks, c, op)
  BY <1>1, <1>2, HandlerRuns
<1>4. Answered(c, op)
  BY <1>2, <1>3 DEF Single, Outstanding, Completed
<1>5. Continues(Head(tasks), "handler", c, op) /\ Tail(tasks) = <<>>
  BY <1>1, <1>2, <1>4, HandlerRuns DEF Answered
<1>6. Rested(conn)
  BY <1>1, <1>2, <1>4 DEF Rested, Single, Answered, Core, Sockets, FlowAssumption
<1>7. Head(tasks) \in Task /\ Head(tasks) = tasks[1] /\ 1 \in 1..Len(tasks)
  <2>1. Head(tasks) \in Task /\ Head(tasks) = tasks[1] /\ Len(tasks) \in Nat \ {0}
    BY <1>1, Running
  <2> QED BY <2>1
<1> QED BY <1>1, <1>2, <1>5, <1>6, <1>7 DEF Core

LEMMA EmptyQueue == <<>> \in Seq(Task) /\ Len(<<>>) = 0 /\ \A i \in 1..Len(<<>>) : FALSE
<1>1. <<>> \in Seq(Task) /\ Len(<<>>) = 0
  BY EmptySeq
<1>2. \A i \in 1..0 : FALSE
  OBVIOUS
<1> QED BY <1>1, <1>2

LEMMA QueueOfOne ==
    ASSUME NEW t \in Task
    PROVE  /\ Append(<<>>, t) \in Seq(Task) /\ Len(Append(<<>>, t)) = 1
           /\ \A i \in 1..1 : Append(<<>>, t)[i] = t
<1>1. Append(<<>>, t) \in Seq(Task) /\ Len(Append(<<>>, t)) = 0 + 1 /\ Append(<<>>, t)[0 + 1] = t
  BY EmptyQueue, Queueing
<1>2. \A i \in 1..1 : i = 1
  OBVIOUS
<1> QED BY <1>1, <1>2

(* A handler starts the operation of its next step ... *)
LEMMA Starts ==
    ASSUME FlowAssumption, NEW K, Rested(K), stops = 0, Tail(tasks) = <<>>,
           NEW w \in DOMAIN Awaits, NEW c, NEW op, Awaits[w] = <<c, op>>,
           NEW k \in Connection, k.pending = {op}, Fits(k), k.socket = K[c].socket \/ c = server,
           op = "handshake" => k.timer = "off", op = "connect" => ~k.connected,
           pc' = w, conn' = [K EXCEPT ![c] = k], tasks' = Tail(tasks), UNCHANGED stops
    PROVE  Core'
<1>1. c = Awaits[w][1] /\ op = Awaits[w][2]
  OBVIOUS
<1>2. c \in Conns /\ op \in Ops /\ w # "stopped" /\ w \in Pcs
  BY <1>1, AwaitsFacts DEF Pcs
<1>3. /\ conn' \in [Conns -> Connection] /\ conn'[c] = k
      /\ \A e \in Conns : e # c => conn'[e] = K[e]
  BY <1>2 DEF Rested
<1>4. tasks' = <<>> /\ tasks' \in Seq(Task) /\ Len(tasks') = 0 /\ \A i \in 1..Len(tasks') : FALSE
  BY EmptyQueue
<1>5. Single(c, op)'
  <2>1. \A e \in Conns : e # c => conn'[e].pending = {} /\ conn'[e].timer = "off"
    BY <1>3 DEF Rested
  <2>2. Outstanding(c, op)' /\ (op = "connect" => ~conn'[c].connected)
    BY <1>3, <1>4 DEF Outstanding, OnlyExpiries
  <2> QED BY <1>3, <1>4, <2>1, <2>2 DEF Single
<1>6. Shape'
  BY <1>1, <1>5 DEF Shape, Awaits
<1>7. Sockets'
  <2>1. client \in Conns /\ server \in Conns /\ client # server
    BY DEF FlowAssumption
  <2>2. \A e \in Conns : Fits(conn'[e])
    BY <1>3 DEF Rested
  <2>3. conn'[client].socket # "closed"
    BY <1>3, <2>1 DEF Rested
  <2> QED BY <1>4, <2>1, <2>2, <2>3 DEF Sockets
<1> QED BY <1>2, <1>3, <1>4, <1>6, <1>7 DEF Core, ConnTypeOK

(* ... or reports a connection that is there already ... *)
LEMMA Posts ==
    ASSUME FlowAssumption, NEW K, Rested(K), stops = 0, Tail(tasks) = <<>>,
           NEW w \in {"connect", "tls_connect"}, pc' = w, conn' = K,
           tasks' = Append(Tail(tasks), Handler(Completion("connect", server, "ok"))), UNCHANGED stops
    PROVE  Core'
<1> DEFINE t == Handler(Completion("connect", server, "ok"))
<1>1. server \in Conns /\ client \in Conns /\ w \in DOMAIN Awaits /\ Awaits[w] = <<server, "connect">> /\ w \in Pcs
  BY DEF FlowAssumption, Awaits, Pcs
<1>2. t \in Task /\ Continues(t, "handler", server, "connect")
  BY <1>1 DEF Handler, Completion, Task, Continues, Ops, Results
<1> HIDE DEF t
<1>3. tasks' = Append(<<>>, t)
  BY DEF t
<1>4. tasks' \in Seq(Task) /\ Len(tasks') = 1 /\ tasks'[1] = t /\ \A i \in 1..Len(tasks') : tasks'[i] = t
  <2>1. /\ Append(<<>>, t) \in Seq(Task) /\ Len(Append(<<>>, t)) = 1
        /\ \A i \in 1..1 : Append(<<>>, t)[i] = t
    BY <1>2, QueueOfOne
  <2>2. tasks' \in Seq(Task) /\ Len(tasks') = 1 /\ \A i \in 1..1 : tasks'[i] = t
    BY <1>3, <2>1
  <2>3. 1 \in 1..1
    OBVIOUS
  <2> QED BY <2>2, <2>3
<1>5. HandlerIsLast(tasks', server, "connect")
  BY <1>2, <1>4 DEF HandlerIsLast
<1>6. Single(server, "connect")'
  BY <1>1, <1>5 DEF Single, Answered, Rested
<1>7. Shape'
  BY <1>1, <1>6 DEF Shape, Awaits
<1>8. Sockets'
  BY <1>1, <1>2, <1>4 DEF Sockets, Rested, Continues
<1> QED BY <1>1, <1>4, <1>7, <1>8 DEF Core, ConnTypeOK, Rested

(* ... or leaves nothing in progress. *)
LEMMA Leaves ==
    ASSUME FlowAssumption, NEW K, Rested(K), stops = 0, Tail(tasks) = <<>>,
           NEW w \in {"continued", "tunnel", "websocket"},
           pc' = w, conn' = K, Rest, UNCHANGED stops
    PROVE  Core'
<1>1. w \notin DOMAIN Awaits /\ w \in Pcs /\ w # "stopped"
  BY DEF Awaits, Pcs
<1>2. tasks' = <<>> /\ tasks' \in Seq(Task) /\ \A i \in 1..Len(tasks') : FALSE
  BY EmptyQueue DEF Rest
<1>3. Quiet'
  BY <1>2 DEF Quiet, Rested
<1>4. Shape'
  BY <1>1, <1>3 DEF Shape, Awaits
<1>5. Sockets'
  BY <1>2 DEF Sockets, Rested, FlowAssumption
<1> QED BY <1>1, <1>2, <1>4, <1>5 DEF Core, ConnTypeOK, Rested

LEMMA Stops ==
    ASSUME FlowAssumption, NEW K, Rested(K), stops = 0, Tail(tasks) = <<>>, Stop(K)
    PROVE  Core'
<1>1. "stopped" \notin DOMAIN Awaits /\ "stopped" \in Pcs
  BY DEF Awaits, Pcs
<1>2. tasks' = <<>> /\ tasks' \in Seq(Task) /\ \A i \in 1..Len(tasks') : FALSE
  BY EmptyQueue DEF Rest, Stop
<1>3. pc' = "stopped" /\ conn' = [c \in Conns |-> Disconnected(K[c])] /\ stops' = 1
  BY DEF Stop
<1>4. ASSUME NEW c \in Conns
      PROVE  conn'[c] \in Connection /\ conn'[c].pending = {} /\ conn'[c].timer = "off" /\ Fits(conn'[c])
  <2>1. K[c] \in Connection /\ K[c].pending = {} /\ Fits(K[c])
    BY DEF Rested
  <2>2. conn'[c] = Disconnected(K[c])
    BY <1>3
  <2> QED BY <2>1, <2>2 DEF Disconnected, ShutDown, Disarmed, CanBeShutdown, Connection, Fits
<1>5. conn' \in [Conns -> Connection]
  BY <1>3, <1>4
<1>6. Quiet'
  BY <1>2, <1>4 DEF Quiet
<1>7. Shape'
  BY <1>1, <1>3, <1>6 DEF Shape, Awaits
<1>8. Sockets'
  BY <1>2, <1>3, <1>4 DEF Sockets, FlowAssumption
<1> QED BY <1>1, <1>2, <1>3, <1>5, <1>7, <1>8 DEF Core, ConnTypeOK

LEMMA ReadsOrWrites ==
    ASSUME FlowAssumption, NEW K, Rested(K), stops = 0, Tail(tasks) = <<>>,
           NEW w \in DOMAIN Awaits, NEW c \in Conns,
           \/ Reads(K, c, w) /\ Awaits[w] = <<c, "read">>
           \/ Writes(K, c, w) /\ Awaits[w] = <<c, "write">>
    PROVE  Core'
<1>1. PICK op, k : /\ op \in {"read", "write"} /\ k = [K[c] EXCEPT !.timer = "armed", !.pending = {op}]
                   /\ Awaits[w] = <<c, op>> /\ conn' = [K EXCEPT ![c] = k]
  <2>1. K[c] \in Connection /\ K[c].pending = {}
    BY DEF Rested
  <2>2. /\ ReadStarted(K[c]) = [K[c] EXCEPT !.timer = "armed", !.pending = {"read"}]
        /\ WriteStarted(K[c]) = [K[c] EXCEPT !.timer = "armed", !.pending = {"write"}]
    BY <2>1 DEF ReadStarted, WriteStarted, Armed, Connection
  <2> QED BY <2>2 DEF Reads, Writes
<1>2. pc' = w /\ tasks' = Tail(tasks) /\ UNCHANGED stops
  BY DEF Reads, Writes, Rest
<1>3. k \in Connection /\ k.pending = {op} /\ Fits(k) /\ k.socket = K[c].socket
  <2>1. K[c] \in Connection /\ Fits(K[c])
    BY DEF Rested
  <2> QED BY <1>1, <2>1 DEF Connection, Fits, Ops
<1> QED BY <1>1, <1>2, <1>3, Starts

LEMMA ConnectServerStep ==
    ASSUME FlowAssumption, NEW K, Rested(K), stops = 0, Tail(tasks) = <<>>,
           NEW h, NEW w \in {"connect", "tls_connect"}, ConnectServer(K, h, w)
    PROVE  Core'
<1>1. CASE /\ conn' = K /\ pc' = w /\ UNCHANGED stops
           /\ tasks' = Append(Tail(tasks), Handler(Completion("connect", server, "ok")))
  BY <1>1, Posts
<1>2. CASE conn' = [K EXCEPT ![server] = ConnectStarted(@)] /\ Rest /\ pc' = w /\ UNCHANGED stops
  <2> DEFINE k == ConnectStarted(K[server])
  <2>1. K[server] \in Connection /\ K[server].pending = {} /\ Fits(K[server]) /\ server \in Conns
    BY DEF Rested, FlowAssumption
  <2>2. k \in Connection /\ k.pending = {"connect"} /\ Fits(k) /\ ~k.connected
    BY <2>1 DEF ConnectStarted, Disconnected, ShutDown, Disarmed, Armed, CanBeShutdown, Connection, Fits, Ops
  <2>3. w \in DOMAIN Awaits /\ Awaits[w] = <<server, "connect">>
    BY DEF Awaits
  <2>4. conn' = [K EXCEPT ![server] = k]
    BY <1>2
  <2> HIDE DEF k
  <2> QED BY <1>2, <2>2, <2>3, <2>4, Starts DEF Rest
<1> QED BY <1>1, <1>2 DEF ConnectServer

LEMMA SetServerRests ==
    ASSUME FlowAssumption, Rested(conn), NEW h
    PROVE  Rested(AfterSetServer(h))
<1>1. conn[server] \in Connection /\ conn[server].pending = {} /\ Fits(conn[server])
      /\ server \in Conns /\ client \in Conns /\ client # server
  BY DEF Rested, FlowAssumption
<1> DEFINE k == Disconnected(conn[server])
<1>2. k \in Connection /\ k.pending = {} /\ k.timer = "off" /\ Fits(k) /\ ~k.connected
  BY <1>1 DEF Disconnected, ShutDown, Disarmed, CanBeShutdown, Connection, Fits
<1>3. AfterSetServer(h) = conn \/ AfterSetServer(h) = [conn EXCEPT ![server] = k]
  BY DEF AfterSetServer
<1> HIDE DEF k
<1>4. Rested([conn EXCEPT ![server] = k])
  BY <1>1, <1>2 DEF Rested
<1> QED BY <1>3, <1>4

LEMMA EstablishTlsStep ==
    ASSUME FlowAssumption, Rested(conn), stops = 0, Tail(tasks) = <<>>,
           NEW c \in Conns, NEW w \in DOMAIN Awaits, Awaits[w] = <<c, "handshake">>, EstablishTls(c, w)
    PROVE  Core'
<1>1. CASE Stop(conn)
  BY <1>1, Stops
<1>2. CASE /\ conn' = [conn EXCEPT ![c] = HandshakeStarted(@)]
           /\ pc' = w /\ Rest /\ UNCHANGED stops
  <2> DEFINE k == HandshakeStarted(conn[c])
  <2>1. conn[c] \in Connection /\ conn[c].pending = {} /\ conn[c].timer = "off" /\ Fits(conn[c])
    BY DEF Rested
  <2>2. /\ k \in Connection /\ k.pending = {"handshake"} /\ Fits(k) /\ k.timer = "off"
        /\ k.socket = conn[c].socket
    BY <2>1 DEF HandshakeStarted, Connection, Fits, Ops
  <2>3. conn' = [conn EXCEPT ![c] = k]
    BY <1>2
  <2> HIDE DEF k
  <2> QED BY <1>2, <2>2, <2>3, Starts DEF Rest
<1> QED BY <1>1, <1>2 DEF EstablishTls

(* What a handler of a service does to the connections and the queue.      *)
LEMMA RequestCore ==
    ASSUME FlowAssumption, Rested(conn), stops = 0, Tail(tasks) = <<>>,
           ReadRequestBody \/ Stop(conn) \/ SendError(conn)
    PROVE  Core'
<1>1. client \in Conns /\ server \in Conns
  BY DEF FlowAssumption
<1>2. /\ Awaits["request_body"] = <<client, "read">> /\ Awaits["error_response"] = <<client, "write">>
      /\ Awaits["connect_response"] = <<client, "write">> /\ Awaits["forward_response"] = <<client, "write">>
      /\ {"request_body", "error_response", "connect_response", "forward_response"} \subseteq DOMAIN Awaits
  BY DEF Awaits
<1>3. ASSUME NEW K, Rested(K), SendError(K) PROVE Core'
  BY <1>1, <1>2, <1>3, ReadsOrWrites DEF SendError
<1>4. ASSUME NEW h \in Hosts,
             \/ SendError(AfterSetServer(h))
             \/ Writes(AfterSetServer(h), client, "connect_response")
             \/ Writes(AfterSetServer(h), client, "forward_response")
             \/ ConnectServer(AfterSetServer(h), target', "connect")
      PROVE  Core'
  <2>1. Rested(AfterSetServer(h))
    BY SetServerRests
  <2>2. CASE SendError(AfterSetServer(h))
    BY <1>3, <2>1, <2>2
  <2>3. CASE Writes(AfterSetServer(h), client, "connect_response") \/ Writes(AfterSetServer(h), client, "forward_response")
    BY <1>1, <1>2, <2>1, <2>3, ReadsOrWrites
  <2>4. CASE ConnectServer(AfterSetServer(h), target', "connect")
    BY <2>1, <2>4, ConnectServerStep
  <2> QED BY <1>4, <2>2, <2>3, <2>4
<1>5. ASSUME pc' = "continued", conn' = [conn EXCEPT ![client] = Disarmed(@)], Rest, UNCHANGED stops
      PROVE  Core'
  <2> DEFINE K == [conn EXCEPT ![client] = Disarmed(@)]
  <2>1. conn[client] \in Connection /\ conn[client].timer = "off"
    BY <1>1 DEF Rested
  <2>2. Disarmed(conn[client]) = conn[client]
    BY <2>1 DEF Disarmed, Connection
  <2>3. K = conn
    BY <2>2 DEF Rested
  <2> QED BY <1>5, <2>3, Leaves
<1>6. CASE HandleRequest
  BY <1>3, <1>4, <1>5, <1>6, Stops DEF HandleRequest
<1>7. CASE Reads(conn, client, "request_body")
  BY <1>1, <1>2, <1>7, ReadsOrWrites
<1>8. CASE Stop(conn) \/ SendError(conn)
  BY <1>3, <1>8, Stops
<1> QED BY <1>6, <1>7, <1>8 DEF ReadRequestBody

LEMMA ServicesCore ==
    ASSUME FlowAssumption, Core, Services
    PROVE  Core'
<1>1. client \in Conns /\ server \in Conns
  BY DEF FlowAssumption
<1>2. /\ Awaits["request_head"] = <<client, "read">> /\ Awaits["client_hello"] = <<client, "read">>
      /\ Awaits["response_head"] = <<server, "read">> /\ Awaits["response_body"] = <<server, "read">>
      /\ Awaits["error_response"] = <<client, "write">> /\ Awaits["forward_response"] = <<client, "write">>
      /\ Awaits["forward_request"] = <<server, "write">>
      /\ Awaits["server_handshake"] = <<server, "handshake">>
      /\ Awaits["client_handshake"] = <<client, "handshake">>
  BY DEF Awaits
<1>3. {"request_head", "request_body", "connect", "forward_request", "response_head", "response_body",
       "forward_response", "connect_response", "error_response", "client_hello", "tls_connect",
       "server_handshake", "client_handshake"} = DOMAIN Awaits
  BY DEF Awaits
<1>4. PICK w \in DOMAIN Awaits : Handles(w)
  BY <1>3 DEF Services, OnReadRequestHead, OnReadRequestBody, OnConnectServer, OnForwardRequest,
       OnReadResponseHead, OnReadResponseBody, OnForwardResponse, OnSendConnectResponse,
       OnWriteErrorResponse, OnReadClientHello, OnTlsConnectServer, OnEstablishTlsWithServer,
       OnEstablishTlsWithClient
<1>5. Rested(conn) /\ Tail(tasks) = <<>> /\ stops = 0
  BY <1>4, Alone
<1>6. SendError(conn) => Core'
  BY <1>1, <1>2, <1>3, <1>5, ReadsOrWrites DEF SendError
<1>7. Stop(conn) => Core'
  BY <1>5, Stops
<1>8. StartHttp(conn) => Core'
  <2>1. Reads(conn, client, "request_head") => Core'
    BY <1>1, <1>2, <1>3, <1>5, ReadsOrWrites
  <2> QED BY <1>6, <2>1 DEF StartHttp
<1>9. HandOver("tunnel") \/ HandOver("websocket") => Core'
  BY <1>5, Leaves DEF HandOver
<1>10. CASE OnReadRequestHead \/ OnReadRequestBody
  BY <1>5, <1>10, RequestCore DEF OnReadRequestHead, OnReadRequestBody
<1>11. CASE OnConnectServer
  BY <1>1, <1>2, <1>3, <1>5, <1>6, <1>11, ReadsOrWrites DEF OnConnectServer
<1>12. CASE OnForwardRequest
  BY <1>1, <1>2, <1>3, <1>5, <1>6, <1>12, ReadsOrWrites DEF OnForwardRequest
<1>13. ASSUME NEW b, NEW r, NEW empty, NEW eof, ReadResponseBody(b, r, empty, eof) PROVE Core'
  BY <1>1, <1>2, <1>3, <1>5, <1>6, <1>13, ReadsOrWrites DEF ReadResponseBody
<1>14. CASE OnReadResponseHead
  BY <1>6, <1>13, <1>14 DEF OnReadResponseHead
<1>15. CASE OnReadResponseBody
  BY <1>6, <1>13, <1>15 DEF OnReadResponseBody
<1>16. CASE OnForwardResponse
  BY <1>7, <1>8, <1>9, <1>16 DEF OnForwardResponse
<1>17. Reads(conn, client, "client_hello") => Core'
  BY <1>1, <1>2, <1>3, <1>5, ReadsOrWrites
<1>18. CASE OnSendConnectResponse
  BY <1>7, <1>8, <1>9, <1>17, <1>18 DEF OnSendConnectResponse, StartTls
<1>19. CASE OnWriteErrorResponse
  BY <1>7, <1>19 DEF OnWriteErrorResponse
<1>20. CASE OnReadClientHello
  <2>1. ConnectServer(conn, target, "tls_connect") => Core'
    BY <1>5, ConnectServerStep
  <2> QED BY <1>9, <1>17, <1>20, <2>1 DEF OnReadClientHello
<1>21. EstablishTls(server, "server_handshake") \/ EstablishTls(client, "client_handshake") => Core'
  BY <1>1, <1>2, <1>3, <1>5, EstablishTlsStep
<1>22. CASE OnTlsConnectServer \/ OnEstablishTlsWithServer
  BY <1>21, <1>22 DEF OnTlsConnectServer, OnEstablishTlsWithServer
<1>23. CASE OnEstablishTlsWithClient
  BY <1>7, <1>8, <1>9, <1>23 DEF OnEstablishTlsWithClient
<1> QED BY <1>10, <1>11, <1>12, <1>14, <1>15, <1>16, <1>18, <1>19, <1>20, <1>22, <1>23 DEF Services

LEMMA CoreStep ==
    ASSUME FlowAssumption, Core, [Next]_vars
    PROVE  Core'
<1>1. CASE Services
  BY <1>1, ServicesCore
<1>2. CASE RunConnection
  BY <1>2, ReadWriteStep, TimeoutStep DEF RunConnection, serviceVars
<1>3. CASE ConnectCompletes
  BY <1>3, ConnectStep DEF ConnectCompletes
<1>4. CASE HandshakeCompletes
  BY <1>4, HandshakeStep
<1>5. ASSUME NEW d \in Conns, Environment(d) PROVE Core'
  <2>1. UNCHANGED <<pc, stops>>
    BY <1>5 DEF Environment, serviceVars
  <2>2. CASE PeerCloses(d) \/ PeerResets(d)
    BY <2>1, <2>2, PeerStep
  <2>3. CASE TimerExpires(d)
    BY <2>1, <2>3, ExpiresStep
  <2>4. CASE \E op \in Ops, r \in Results : Completes(op, d, r)
    BY <2>1, <2>4, CompletesStep
  <2> QED BY <1>5, <2>2, <2>3, <2>4 DEF Environment
<1>6. CASE UNCHANGED vars
  <2>1. UNCHANGED <<conn, tasks, pc, stops>>
    BY <1>6 DEF vars, connVars, serviceVars
  <2>2. (Quiet' <=> Quiet) /\ (Unanswered' <=> Unanswered)
    BY <2>1 DEF Quiet, Unanswered
  <2>3. \A c, op : Single(c, op)' <=> Single(c, op)
    BY <2>1 DEF Single, Outstanding, Completed, Answered
  <2>4. Shape'
    <3>1. DOMAIN Awaits = DOMAIN Awaits' /\ \A p : Awaits'[p] = Awaits[p]
      BY DEF Awaits
    <3>2. CASE pc \in DOMAIN Awaits
      <4>1. PICK c, op : c = Awaits[pc][1] /\ op = Awaits[pc][2]
        OBVIOUS
      <4>2. Single(c, op) \/ Unanswered
        BY <3>2, <4>1 DEF Core, Shape
      <4>3. Single(c, op)' \/ Unanswered'
        BY <2>2, <2>3, <4>2
      <4> QED BY <2>1, <3>1, <3>2, <4>1, <4>3 DEF Shape
    <3>3. CASE pc \notin DOMAIN Awaits
      BY <2>1, <2>2, <3>1, <3>3 DEF Core, Shape
    <3> QED BY <3>2, <3>3
  <2>5. Sockets' /\ ConnTypeOK'
    BY <2>1, <2>2 DEF Core, Sockets, ConnTypeOK
  <2> QED BY <2>1, <2>4, <2>5 DEF Core
<1> QED BY <1>1, <1>2, <1>3, <1>4, <1>5, <1>6 DEF Next

(***************************************************************************)
(* Servers, TLS and bodies.                                                *)
(***************************************************************************)

LEMMA InitHolds ==
    ASSUME FlowAssumption, Init
    PROVE  IInv
<1>1. client \in Conns /\ server \in Conns /\ client # server
  BY DEF FlowAssumption
<1>2. /\ conn \in [Conns -> Connection]
      /\ conn[client] = [peer |-> "alive", socket |-> "open", connected |-> TRUE, timer |-> "armed",
                         pending |-> {"read"}]
      /\ conn[server] = [peer |-> "alive", socket |-> "closed", connected |-> FALSE, timer |-> "off",
                         pending |-> {}]
  <2> DEFINE k(c) == [peer |-> "alive", socket |-> IF c = client THEN "open" ELSE "closed",
                      connected |-> c = client, timer |-> "off", pending |-> {}]
  <2>1. conn = [c \in Conns |-> IF c = client THEN ReadStarted(k(c)) ELSE k(c)]
    BY DEF Init
  <2>2. ReadStarted(k(client)) = [peer |-> "alive", socket |-> "open", connected |-> TRUE, timer |-> "armed",
                                  pending |-> {"read"}]
    <3> DEFINE r == [peer |-> "alive", socket |-> "open", connected |-> TRUE, timer |-> "off", pending |-> {}]
    <3>1. k(client) = r
      OBVIOUS
    <3>2. {} \union {"read"} = {"read"}
      OBVIOUS
    <3>3. ReadStarted(r) = [[r EXCEPT !.timer = "armed"] EXCEPT !.pending = {"read"}]
      BY <3>2 DEF ReadStarted, Armed
    <3> QED BY <3>1, <3>3
  <2>3. k(server) = [peer |-> "alive", socket |-> "closed", connected |-> FALSE, timer |-> "off", pending |-> {}]
    BY <1>1
  <2> HIDE DEF k
  <2>4. /\ conn[client] = ReadStarted(k(client)) /\ conn[server] = k(server)
        /\ conn = [c \in Conns |-> conn[c]] /\ Conns = {client, server}
    BY <1>1, <2>1 DEF FlowAssumption
  <2>5. conn[client] \in Connection /\ conn[server] \in Connection
    BY <2>2, <2>3, <2>4 DEF Connection, Ops
  <2> QED BY <2>2, <2>3, <2>4, <2>5
<1>3. tasks = <<>> /\ tasks \in Seq(Task) /\ \A i \in 1..Len(tasks) : FALSE
  BY EmptyQueue DEF Init
<1>4. pc = "request_head" /\ pc \in Pcs /\ pc \in DOMAIN Awaits /\ Awaits[pc] = <<client, "read">>
  BY DEF Init, Pcs, Awaits
<1>5. Single(client, "read")
  BY <1>1, <1>2, <1>3, FlowAssumption DEF Single, Outstanding, OnlyExpiries, FlowAssumption
<1>6. Core
  BY <1>1, <1>2, <1>3, <1>4, <1>5 DEF Core, ConnTypeOK, Shape, Sockets, Fits, Init
<1>7. Servers
  BY <1>2, <1>3, <1>4 DEF Servers, Init, RightServer
<1>8. Secure
  BY <1>3, <1>4 DEF Secure, Init
<1>9. Bodies
  BY DEF Bodies, Init, FlowAssumption
<1> QED BY <1>6, <1>7, <1>8, <1>9 DEF IInv

(* A step queues no handler of a connection attempt or a handshake.        *)
NoNewHandler(op) ==
    \A i \in 1..Len(tasks') : tasks'[i].kind = "handler" /\ tasks'[i].op = op =>
        \E j \in 1..Len(tasks) : tasks[j] = tasks'[i]

LEMMA NoNewInTail ==
    ASSUME tasks \in Seq(Task), tasks # <<>>, NEW op,
           \/ tasks' = Tail(tasks)
           \/ \E t \in Task : tasks' = Append(Tail(tasks), t) /\ (t.kind = "handler" => t.op # op)
    PROVE  NoNewHandler(op)
<1>1. /\ Tail(tasks) \in Seq(Task) /\ Len(tasks) \in Nat \ {0} /\ Len(Tail(tasks)) = Len(tasks) - 1
      /\ \A i \in 1..Len(tasks) - 1 : Tail(tasks)[i] = tasks[i + 1]
  BY Running
<1>2. \A i \in 1..Len(Tail(tasks)) : \E j \in 1..Len(tasks) : tasks[j] = Tail(tasks)[i]
  <2> SUFFICES ASSUME NEW i \in 1..Len(Tail(tasks)) PROVE \E j \in 1..Len(tasks) : tasks[j] = Tail(tasks)[i]
    OBVIOUS
  <2>1. i + 1 \in 1..Len(tasks) /\ Tail(tasks)[i] = tasks[i + 1]
    BY <1>1
  <2> QED BY <2>1
<1>3. CASE tasks' = Tail(tasks)
  BY <1>2, <1>3 DEF NoNewHandler
<1>4. CASE \E t \in Task : tasks' = Append(Tail(tasks), t) /\ (t.kind = "handler" => t.op # op)
  <2>1. PICK t \in Task : tasks' = Append(Tail(tasks), t) /\ (t.kind = "handler" => t.op # op)
    BY <1>4
  <2>2. /\ Len(tasks') = Len(Tail(tasks)) + 1 /\ tasks'[Len(Tail(tasks)) + 1] = t
        /\ \A i \in 1..Len(Tail(tasks)) : tasks'[i] = Tail(tasks)[i]
    BY <1>1, <2>1, Queueing
  <2>3. \A i \in 1..Len(tasks') : i = Len(Tail(tasks)) + 1 \/ i \in 1..Len(Tail(tasks))
    <3>1. Len(Tail(tasks)) \in Nat
      BY <1>1
    <3>2. \A n \in Nat : \A i \in 1..n + 1 : i = n + 1 \/ i \in 1..n
      OBVIOUS
    <3> QED BY <2>2, <3>1, <3>2
  <2> QED BY <1>2, <2>1, <2>2, <2>3 DEF NoNewHandler
<1> QED BY <1>3, <1>4

LEMMA NoNewAppended ==
    ASSUME tasks \in Seq(Task), NEW op, NEW t \in Task, t.kind # "handler", tasks' = Append(tasks, t)
    PROVE  NoNewHandler(op)
<1>1. /\ Len(tasks') = Len(tasks) + 1 /\ tasks'[Len(tasks) + 1] = t
      /\ \A i \in 1..Len(tasks) : tasks'[i] = tasks[i]
  BY Queueing
<1>2. \A i \in 1..Len(tasks') : i = Len(tasks) + 1 \/ i \in 1..Len(tasks)
  BY <1>1
<1> QED BY <1>1, <1>2 DEF NoNewHandler

(* Steps that do not concern the server or TLS. *)
LEMMA ServersFrame ==
    ASSUME Servers, UNCHANGED <<named, target, host, remote>>,
           conn'[server].connected => conn[server].connected,
           \/ pc' = pc /\ NoNewHandler("connect")
           \/ pc' \notin {"connect", "tls_connect", "forward_request"} /\ tasks' = <<>>
    PROVE  Servers'
BY EmptyQueue DEF Servers, RightServer, NoNewHandler

LEMMA SecureFrame ==
    ASSUME Secure, UNCHANGED <<error, tls>>,
           \/ pc' = pc /\ NoNewHandler("handshake")
           \/ /\ pc' # "client_handshake" /\ (error => pc' \in {"error_response", "stopped"})
              /\ tasks' = <<>> \/ \E t \in Task : tasks' = Append(<<>>, t) /\ t.op # "handshake"
    PROVE  Secure'
<1>1. CASE pc' = pc /\ NoNewHandler("handshake")
  BY <1>1 DEF Secure, NoNewHandler, Continues
<1>2. CASE pc' # "client_handshake" /\ (error => pc' \in {"error_response", "stopped"}) /\ tasks' = <<>>
  BY <1>2, EmptyQueue DEF Secure
<1>3. CASE /\ pc' # "client_handshake" /\ (error => pc' \in {"error_response", "stopped"})
           /\ \E t \in Task : tasks' = Append(<<>>, t) /\ t.op # "handshake"
  <2>1. PICK t \in Task : tasks' = Append(<<>>, t) /\ t.op # "handshake"
    BY <1>3
  <2>2. Len(tasks') = 1 /\ \A i \in 1..1 : tasks'[i] = t
    BY <2>1, QueueOfOne
  <2>3. \A i \in 1..Len(tasks') : tasks'[i].op # "handshake"
    BY <2>1, <2>2
  <2>4. \A i \in 1..Len(tasks') : ~Continues(tasks'[i], "handler", server, "handshake")
    BY <2>3 DEF Continues
  <2>5. pc' # "client_handshake" /\ (error => pc' \in {"error_response", "stopped"})
    BY <1>3
  <2> QED BY <2>4, <2>5 DEF Secure
<1> QED BY <1>1, <1>2, <1>3

(* The reactor and on_read, on_write and on_timeout.                       *)
LEMMA ConnectionFrame ==
    ASSUME FlowAssumption, Core, RunConnection \/ \E c \in Conns : Environment(c)
    PROVE  /\ NoNewHandler("connect") /\ NoNewHandler("handshake")
           /\ conn'[server].connected => conn[server].connected
<1>1. conn \in [Conns -> Connection] /\ tasks \in Seq(Task) /\ server \in Conns
  BY DEF Core, ConnTypeOK, FlowAssumption
<1>2. CASE OnRead \/ OnWrite(FALSE)
  <2>1. /\ tasks # <<>> /\ Head(tasks).op \in {"read", "write"} /\ PostHandler
        /\ \E k : /\ conn' = [conn EXCEPT ![Head(tasks).conn] = k]
                  /\ k = Marked(Disarmed(conn[Head(tasks).conn]), Head(tasks))
    BY <1>2 DEF OnRead, OnWrite, Runs
  <2>2. Head(tasks) \in Task
    BY <1>1, <2>1, Running
  <2>3. Handler(Head(tasks)) \in Task /\ Handler(Head(tasks)).op = Head(tasks).op
    BY <2>2 DEF Handler, Task
  <2>4. NoNewHandler("connect") /\ NoNewHandler("handshake")
    BY <1>1, <2>1, <2>3, NoNewInTail DEF PostHandler
  <2>5. \A k \in Connection : Marked(Disarmed(k), Head(tasks)).connected => k.connected
    BY DEF Marked, Disarmed, Connection
  <2> QED BY <1>1, <2>1, <2>2, <2>4, <2>5 DEF Task
<1>3. CASE OnTimeout
  <2>1. /\ tasks # <<>> /\ tasks' = Tail(tasks)
        /\ conn' = [conn EXCEPT ![Head(tasks).conn] = ShutDown(Disarmed(conn[Head(tasks).conn]))]
    BY <1>3 DEF OnTimeout
  <2>2. NoNewHandler("connect") /\ NoNewHandler("handshake")
    BY <1>1, <2>1, NoNewInTail
  <2>3. \A k \in Connection : ShutDown(Disarmed(k)).connected => k.connected
    BY DEF ShutDown, Disarmed, CanBeShutdown, Connection
  <2> QED BY <1>1, <2>1, <2>2, <2>3
<1>4. ASSUME NEW c \in Conns, PeerCloses(c) \/ PeerResets(c)
      PROVE  /\ NoNewHandler("connect") /\ NoNewHandler("handshake")
             /\ conn'[server].connected => conn[server].connected
  BY <1>1, <1>4 DEF PeerCloses, PeerResets, NoNewHandler, Connection
<1>5. ASSUME NEW c \in Conns, TimerExpires(c)
      PROVE  /\ NoNewHandler("connect") /\ NoNewHandler("handshake")
             /\ conn'[server].connected => conn[server].connected
  <2>1. Expiry(c) \in Task /\ Expiry(c).kind # "handler"
    BY DEF Expiry, Task, Ops, Results
  <2>2. tasks' = Append(tasks, Expiry(c)) /\ conn' = [conn EXCEPT ![c].timer = "off"]
    BY <1>5 DEF TimerExpires
  <2>3. NoNewHandler("connect") /\ NoNewHandler("handshake")
    BY <1>1, <2>1, <2>2, NoNewAppended
  <2> QED BY <1>1, <2>2, <2>3 DEF Connection
<1>6. ASSUME NEW c \in Conns, NEW op \in Ops, NEW r \in Results, Completes(op, c, r)
      PROVE  /\ NoNewHandler("connect") /\ NoNewHandler("handshake")
             /\ conn'[server].connected => conn[server].connected
  <2>1. Completion(op, c, r) \in Task /\ Completion(op, c, r).kind # "handler"
    BY DEF Completion, Task
  <2>2. tasks' = Append(tasks, Completion(op, c, r)) /\ conn' = [conn EXCEPT ![c].pending = @ \ {op}]
    BY <1>6 DEF Completes
  <2>3. NoNewHandler("connect") /\ NoNewHandler("handshake")
    BY <1>1, <2>1, <2>2, NoNewAppended
  <2> QED BY <1>1, <2>2, <2>3 DEF Connection
<1> QED BY <1>2, <1>3, <1>4, <1>5, <1>6 DEF RunConnection, Environment

(* on_connect: the socket belongs to the host that was asked for. *)
LEMMA ConnectServers ==
    ASSUME FlowAssumption, Core, Servers, ConnectCompletes
    PROVE  Servers'
<1>1. PICK c, op : /\ c = Head(tasks).conn /\ op = Head(tasks).op
                   /\ tasks # <<>> /\ Head(tasks).kind = "completion" /\ op = "connect"
  BY DEF ConnectCompletes, OnConnect, Runs
<1>2. /\ pc \in DOMAIN Awaits /\ Awaits[pc][1] = c /\ Awaits[pc][2] = op /\ c \in Conns
      /\ conn[c] \in Connection /\ ~conn[c].connected /\ Head(tasks) \in Task
  BY <1>1, CompletionFacts
<1>3. c = server /\ pc \in {"connect", "tls_connect"}
  BY <1>1, <1>2, AwaitsFacts
<1>4. host = target /\ (pc = "connect" => target = named)
  BY <1>3 DEF Servers
<1>5. /\ UNCHANGED <<pc, named, target, host>>
      /\ remote' = IF Result = "ok" THEN host ELSE remote
      /\ conn \in [Conns -> Connection] /\ tasks \in Seq(Task)
  BY DEF ConnectCompletes, messageVars, serverVars, Core, ConnTypeOK
<1>6. CASE Result = "ok"
  BY <1>3, <1>4, <1>5, <1>6 DEF Servers, RightServer
<1>7. CASE Result # "ok"
  <2>1. ~conn'[server].connected
    <3>1. \/ conn' = [conn EXCEPT ![c] = Disarmed(conn[c])]
          \/ conn' = [conn EXCEPT ![c] = ConnectStarted(Disarmed(conn[c]))]
      BY <1>1, <1>7 DEF ConnectCompletes, OnConnect, Result
    <3>2. ~Disarmed(conn[c]).connected /\ ~ConnectStarted(Disarmed(conn[c])).connected
      BY <1>2 DEF Disarmed, ConnectStarted, Armed, Connection
    <3> QED BY <1>2, <1>3, <1>5, <3>1, <3>2
  <2>2. ASSUME NEW i \in 1..Len(tasks'), tasks'[i].kind = "handler", tasks'[i].op = "connect",
               tasks'[i].result = "ok"
        PROVE  \E j \in 1..Len(tasks) : tasks[j] = tasks'[i]
    <3>1. CASE tasks' = Tail(tasks)
      BY <1>1, <1>5, <2>2, <3>1, NoNewInTail DEF NoNewHandler
    <3>2. CASE PostHandler
      <4>1. Handler(Head(tasks)) \in Task /\ Handler(Head(tasks)).result # "ok"
        BY <1>2, <1>7 DEF Handler, Task, Result
      <4>2. /\ Tail(tasks) \in Seq(Task) /\ Len(tasks) \in Nat \ {0} /\ Len(Tail(tasks)) = Len(tasks) - 1
            /\ \A j \in 1..Len(tasks) - 1 : Tail(tasks)[j] = tasks[j + 1]
        BY <1>1, <1>5, Running
      <4>3. /\ Len(tasks') = Len(Tail(tasks)) + 1
            /\ tasks'[Len(Tail(tasks)) + 1] = Handler(Head(tasks))
            /\ \A j \in 1..Len(Tail(tasks)) : tasks'[j] = Tail(tasks)[j]
        BY <3>2, <4>1, <4>2, Queueing DEF PostHandler
      <4>7. Len(tasks') = Len(tasks) /\ tasks'[Len(tasks)] = Handler(Head(tasks))
        <5>1. \A n \in Nat : (n - 1) + 1 = n
          OBVIOUS
        <5>2. Len(Tail(tasks)) + 1 = Len(tasks)
          BY <4>2, <5>1
        <5> QED BY <4>3, <5>2
      <4>4. i # Len(tasks)
        BY <2>2, <4>1, <4>7
      <4>5. i \in 1..Len(tasks) - 1
        <5>1. \A n \in Nat : \A j \in 1..n : j # n => j \in 1..n - 1
          OBVIOUS
        <5> QED BY <4>2, <4>4, <4>7, <5>1
      <4>6. i + 1 \in 1..Len(tasks) /\ tasks'[i] = tasks[i + 1]
        BY <4>2, <4>3, <4>5
      <4> QED BY <4>6
    <3> QED BY <1>1, <3>1, <3>2 DEF ConnectCompletes, OnConnect
  <2> QED BY <1>3, <1>4, <1>5, <1>7, <2>1, <2>2 DEF Servers, RightServer
<1> QED BY <1>6, <1>7

LEMMA ConnectSecure ==
    ASSUME FlowAssumption, Core, Secure, ConnectCompletes
    PROVE  Secure'
<1>1. tasks # <<>> /\ Head(tasks).op = "connect" /\ tasks \in Seq(Task)
  BY DEF ConnectCompletes, OnConnect, Runs, Core, ConnTypeOK
<1>2. Handler(Head(tasks)) \in Task /\ Handler(Head(tasks)).op = "connect"
  <2>1. Head(tasks) \in Task
    BY <1>1, Running
  <2> QED BY <1>1, <2>1 DEF Handler, Task
<1>3. NoNewHandler("handshake")
  BY <1>1, <1>2, NoNewInTail DEF ConnectCompletes, OnConnect, PostHandler
<1> QED BY <1>3, SecureFrame DEF ConnectCompletes

(* on_handshake: what has been established is recorded before the handler  *)
(* is queued.                                                              *)
LEMMA HandshakeServers ==
    ASSUME FlowAssumption, Core, Servers, HandshakeCompletes
    PROVE  Servers'
<1>1. tasks # <<>> /\ Head(tasks).op = "handshake" /\ tasks \in Seq(Task) /\ conn \in [Conns -> Connection]
  BY DEF HandshakeCompletes, Runs, Core, ConnTypeOK
<1>2. Head(tasks) \in Task
  BY <1>1, Running
<1>3. Handler(Head(tasks)) \in Task /\ Handler(Head(tasks)).op = "handshake"
  BY <1>1, <1>2 DEF Handler, Task
<1>4. NoNewHandler("connect")
  BY <1>1, <1>3, NoNewInTail DEF HandshakeCompletes, PostHandler, Rest
<1>5. conn'[server].connected => conn[server].connected
  <2>1. server \in Conns /\ Head(tasks).conn \in Conns
    BY <1>2 DEF FlowAssumption, Task
  <2>2. PICK b \in BOOLEAN : conn' = [conn EXCEPT ![Head(tasks).conn].connected = @ /\ b]
    BY DEF HandshakeCompletes
  <2> QED BY <1>1, <2>1, <2>2 DEF Connection
<1> QED BY <1>4, <1>5, ServersFrame DEF HandshakeCompletes, messageVars, serverVars

LEMMA HandshakeSecure ==
    ASSUME FlowAssumption, Core, Secure, HandshakeCompletes
    PROVE  Secure'
<1>1. PICK c, op : /\ c = Head(tasks).conn /\ op = Head(tasks).op
                   /\ tasks # <<>> /\ Head(tasks).kind = "completion" /\ op = "handshake"
  BY DEF HandshakeCompletes, Runs
<1>2. /\ pc \in DOMAIN Awaits /\ Awaits[pc][1] = c /\ Awaits[pc][2] = op /\ c \in Conns
      /\ Head(tasks) \in Task /\ Tail(tasks) \in Seq(Task) /\ OnlyExpiries(Tail(tasks), c)
      /\ server \in Conns /\ client \in Conns
  BY <1>1, CompletionFacts DEF FlowAssumption
<1>3. /\ pc' = pc /\ error' = error /\ tls' = [tls EXCEPT ![c] = @ \/ Result = "ok"]
      /\ tls \in [Conns -> BOOLEAN] /\ error \in BOOLEAN
      /\ tasks' = Tail(tasks) \/ PostHandler
  BY <1>1 DEF HandshakeCompletes, Secure, Rest
<1>4. tls' \in [Conns -> BOOLEAN] /\ (tls[server] => tls'[server])
  BY <1>2, <1>3
<1>5. pc = "client_handshake" \/ tls'[client] => tls'[server] \/ error
  <2>1. CASE c = client
    <3>1. pc = "client_handshake"
      BY <1>1, <1>2, <2>1, AwaitsFacts
    <3> QED BY <1>4, <3>1 DEF Secure
  <2>2. CASE c # client
    <3>1. tls'[client] = tls[client]
      BY <1>2, <1>3, <2>2
    <3> QED BY <1>4, <3>1 DEF Secure
  <2> QED BY <2>1, <2>2
<1>6. ASSUME NEW i \in 1..Len(tasks'), Continues(tasks'[i], "handler", server, "handshake"),
             tasks'[i].result = "ok"
      PROVE  tls'[server]
  <2>1. CASE tasks' = Tail(tasks)
    BY <1>2, <1>6, <2>1 DEF OnlyExpiries, Expired, Continues
  <2>2. CASE PostHandler
    <3>1. Handler(Head(tasks)) \in Task /\ Handler(Head(tasks)).conn = c /\ Handler(Head(tasks)).result = Result
      BY <1>1, <1>2 DEF Handler, Task, Result
    <3>2. /\ Len(tasks') = Len(Tail(tasks)) + 1
          /\ tasks'[Len(Tail(tasks)) + 1] = Handler(Head(tasks))
          /\ \A j \in 1..Len(Tail(tasks)) : tasks'[j] = Tail(tasks)[j]
      BY <1>2, <2>2, <3>1, Queueing DEF PostHandler
    <3>3. i = Len(Tail(tasks)) + 1 \/ i \in 1..Len(Tail(tasks))
      <4>1. Len(Tail(tasks)) \in Nat
        BY <1>2
      <4>2. \A n \in Nat : \A j \in 1..n + 1 : j = n + 1 \/ j \in 1..n
        OBVIOUS
      <4> QED BY <3>2, <4>1, <4>2
    <3>4. tasks'[i] = Handler(Head(tasks))
      BY <1>2, <1>6, <3>2, <3>3 DEF OnlyExpiries, Expired, Continues
    <3>5. c = server /\ Result = "ok"
      BY <1>6, <3>1, <3>4 DEF Continues
    <3> QED BY <1>2, <1>3, <3>5
  <2> QED BY <1>3, <2>1, <2>2
<1> QED BY <1>3, <1>4, <1>5, <1>6 DEF Secure

(* A handler that names no server leaves the server as it is, or ends it.  *)
LEMMA KeepsServer ==
    ASSUME FlowAssumption, Rested(conn), Tail(tasks) = <<>>,
           \/ \E w : Reads(conn, client, w) /\ w \notin {"connect", "tls_connect", "forward_request"}
           \/ \E w : Reads(conn, server, w) /\ w \notin {"connect", "tls_connect", "forward_request"}
           \/ \E w : Writes(conn, client, w) /\ w \notin {"connect", "tls_connect", "forward_request"}
           \/ Stop(conn)
           \/ \E w : HandOver(w) /\ w \notin {"connect", "tls_connect", "forward_request"}
           \/ EstablishTls(server, "server_handshake")
           \/ EstablishTls(client, "client_handshake")
    PROVE  /\ conn'[server].connected => conn[server].connected
           /\ pc' \notin {"connect", "tls_connect", "forward_request"} /\ tasks' = <<>>
<1>1. /\ conn \in [Conns -> Connection] /\ client \in Conns /\ server \in Conns /\ client # server
      /\ conn[server] \in Connection
  BY DEF FlowAssumption, Rested
<1>2. tasks' = <<>>
  BY DEF Reads, Writes, Stop, HandOver, EstablishTls, Rest
<1>3. pc' \notin {"connect", "tls_connect", "forward_request"}
  BY DEF Reads, Writes, Stop, HandOver, EstablishTls
<1>4. \A k \in Connection : /\ ReadStarted(k).connected = k.connected
                            /\ HandshakeStarted(k).connected = k.connected
                            /\ Disconnected(k).connected => k.connected
  BY DEF ReadStarted, HandshakeStarted, Armed, Disconnected, ShutDown, Disarmed, CanBeShutdown, Connection
<1>5. \/ \E k : conn' = [conn EXCEPT ![client] = k]
      \/ conn' = [conn EXCEPT ![server] = ReadStarted(@)]
      \/ conn' = [conn EXCEPT ![server] = HandshakeStarted(@)]
      \/ conn' = [c \in Conns |-> Disconnected(conn[c])]
      \/ conn' = conn
  BY DEF Reads, Writes, Stop, HandOver, EstablishTls
<1>6. conn'[server].connected => conn[server].connected
  BY <1>1, <1>4, <1>5
<1> QED BY <1>2, <1>3, <1>6

LEMMA SendErrorIs ==
    /\ \A K : SendError(K) <=> Writes(K, client, "error_response")
    /\ \A K : StartHttp(K) => IF error THEN Writes(K, client, "error_response")
                                       ELSE Reads(K, client, "request_head")
BY DEF SendError, StartHttp

(* set_server: what is connected afterwards is what was asked for. *)
LEMMA SetServerServers ==
    ASSUME FlowAssumption, Rested(conn), Servers, NEW h, SetServer(h)
    PROVE  /\ AfterSetServer(h)[server].connected =>
                 /\ AfterSetServer(h) = conn /\ IsConnectedTo(conn[server], h)
                 /\ h = host /\ target' = target /\ target = host /\ remote = host
           /\ target' = h
<1>1. conn \in [Conns -> Connection] /\ server \in Conns /\ conn[server] \in Connection
  BY DEF FlowAssumption, Rested
<1>2. IsConnectedTo(conn[server], h) => target = h /\ host = h /\ remote = host
  BY DEF IsConnectedTo, Servers
<1>3. target' = h
  BY <1>2 DEF SetServer
<1>4. ~Disconnected(conn[server]).connected
  <2>1. Fits(conn[server])
    BY <1>1 DEF Rested
  <2> QED BY <1>1, <2>1 DEF Disconnected, ShutDown, Disarmed, CanBeShutdown, Connection, Fits
<1>5. AfterSetServer(h)[server].connected => AfterSetServer(h) = conn /\ IsConnectedTo(conn[server], h)
  BY <1>1, <1>4 DEF AfterSetServer
<1> QED BY <1>2, <1>3, <1>5

(* connect_server_async. *)
LEMMA ConnectServerServers ==
    ASSUME FlowAssumption, NEW K, Rested(K), Tail(tasks) = <<>>,
           NEW h, NEW w \in {"connect", "tls_connect"}, ConnectServer(K, h, w),
           IsConnectedTo(K[server], h) => remote = host /\ h = host
    PROVE  /\ pc' = w /\ host' = h
           /\ conn'[server].connected => remote = host'
           /\ \A i \in 1..Len(tasks') :
                 tasks'[i].kind = "handler" /\ tasks'[i].op = "connect" /\ tasks'[i].result = "ok"
                     => remote = host'
           /\ \/ tasks' = <<>>
              \/ \E t \in Task : tasks' = Append(<<>>, t) /\ t.op # "handshake"
<1>1. server \in Conns /\ K[server] \in Connection
  BY DEF FlowAssumption, Rested
<1>2. CASE IsConnectedTo(K[server], h) /\ ~HasBeenClosed(K[server])
  <2> DEFINE t == Handler(Completion("connect", server, "ok"))
  <2>1. t \in Task /\ t.op # "handshake"
    BY <1>1 DEF Handler, Completion, Task, Ops, Results
  <2>2. tasks' = Append(<<>>, t) /\ host' = host /\ pc' = w
    BY <1>2 DEF ConnectServer
  <2> HIDE DEF t
  <2> QED BY <1>2, <2>1, <2>2
<1>3. CASE ~(IsConnectedTo(K[server], h) /\ ~HasBeenClosed(K[server]))
  <2>1. tasks' = <<>> /\ host' = h /\ pc' = w /\ conn' = [K EXCEPT ![server] = ConnectStarted(K[server])]
    BY <1>3 DEF ConnectServer, Rest
  <2>2. ~ConnectStarted(K[server]).connected
    <3>1. Fits(K[server])
      BY <1>1 DEF Rested
    <3> QED BY <1>1, <3>1 DEF ConnectStarted, Disconnected, ShutDown, Disarmed, Armed, CanBeShutdown, Connection, Fits
  <2>3. ~conn'[server].connected
    BY <1>1, <2>1, <2>2 DEF Rested
  <2> QED BY <2>1, <2>3, EmptyQueue
<1> QED BY <1>2, <1>3

(* A request that is handled keeps what is known of the server, or asks    *)
(* for another one.                                                        *)
LEMMA RequestServers ==
    ASSUME FlowAssumption, Rested(conn), Tail(tasks) = <<>>, Servers, remote' = remote,
           \/ ReadRequestBody
           \/ (Stop(conn) \/ SendError(conn)) /\ UNCHANGED <<messageVars, serverVars>>
    PROVE  Servers'
<1>1. ASSUME Stop(conn) \/ SendError(conn) \/ Reads(conn, client, "request_body"),
             UNCHANGED <<named, target, host>>
      PROVE  Servers'
  <2>1. /\ conn'[server].connected => conn[server].connected
        /\ pc' \notin {"connect", "tls_connect", "forward_request"} /\ tasks' = <<>>
    BY <1>1, KeepsServer, SendErrorIs
  <2> QED BY <1>1, <2>1, ServersFrame
<1>2. ASSUME "ok" \in WriteOutcomes(conn[client]), pc' = "continued", Rest, UNCHANGED <<named, target, host>>,
             conn' = [conn EXCEPT ![client] = Disarmed(@)]
      PROVE  Servers'
  <2>1. conn'[server].connected = conn[server].connected /\ tasks' = <<>>
    BY <1>2 DEF Rested, FlowAssumption, Rest
  <2> QED BY <1>2, <2>1, ServersFrame
<1>3. ASSUME NEW h \in Hosts, SetServer(h), named' = h, host' = host,
             \/ SendError(AfterSetServer(h))
             \/ Writes(AfterSetServer(h), client, "connect_response")
             \/ Writes(AfterSetServer(h), client, "forward_response")
      PROVE  Servers'
  <2>1. /\ AfterSetServer(h)[server].connected => target' = host /\ remote = host
        /\ target' = h
    BY <1>3, SetServerServers
  <2>2. PICK w \in {"error_response", "connect_response", "forward_response"} :
            Writes(AfterSetServer(h), client, w)
    BY <1>3, SendErrorIs
  <2>3. tasks' = <<>> /\ pc' \notin {"connect", "tls_connect", "forward_request"}
    BY <2>2 DEF Writes, Rest
  <2>4. conn'[server].connected => AfterSetServer(h)[server].connected
    <3>1. Rested(AfterSetServer(h)) /\ server \in Conns /\ client # server
      BY SetServerRests DEF FlowAssumption
    <3> QED BY <2>2, <3>1 DEF Writes, Rested
  <2> QED BY <1>3, <2>1, <2>3, <2>4, EmptyQueue DEF Servers, RightServer
<1>4. ASSUME NEW h \in Hosts, SetServer(h), named' = h, ConnectServer(AfterSetServer(h), target', "connect")
      PROVE  Servers'
  <2>1. /\ AfterSetServer(h)[server].connected => h = host /\ remote = host
        /\ target' = h
    BY <1>4, SetServerServers
  <2>2. Rested(AfterSetServer(h))
    BY SetServerRests
  <2>3. ConnectServer(AfterSetServer(h), h, "connect")
    BY <1>4, <2>1
  <2>4. IsConnectedTo(AfterSetServer(h)[server], h) => remote = host /\ h = host
    BY <2>1 DEF IsConnectedTo
  <2>5. /\ pc' = "connect" /\ host' = h
        /\ conn'[server].connected => remote = host'
        /\ \A i \in 1..Len(tasks') :
              tasks'[i].kind = "handler" /\ tasks'[i].op = "connect" /\ tasks'[i].result = "ok" => remote = host'
    BY <2>2, <2>3, <2>4, ConnectServerServers
  <2> QED BY <1>4, <2>1, <2>5 DEF Servers, RightServer
<1>5. CASE HandleRequest
  BY <1>1, <1>2, <1>3, <1>4, <1>5 DEF HandleRequest, messageVars, serverVars
<1>6. CASE ReadRequestBody /\ ~HandleRequest
  BY <1>1, <1>6 DEF ReadRequestBody, messageVars, serverVars
<1>7. CASE (Stop(conn) \/ SendError(conn)) /\ UNCHANGED <<messageVars, serverVars>>
  BY <1>1, <1>7 DEF messageVars, serverVars
<1> QED BY <1>5, <1>6, <1>7

LEMMA ServicesServers ==
    ASSUME FlowAssumption, Core, Servers, Services
    PROVE  Servers'
<1>1. PICK w \in DOMAIN Awaits : Handles(w)
  BY DEF Services, OnReadRequestHead, OnReadRequestBody, OnConnectServer, OnForwardRequest,
       OnReadResponseHead, OnReadResponseBody, OnForwardResponse, OnSendConnectResponse,
       OnWriteErrorResponse, OnReadClientHello, OnTlsConnectServer, OnEstablishTlsWithServer,
       OnEstablishTlsWithClient, Awaits
<1>2. /\ Rested(conn) /\ Tail(tasks) = <<>> /\ pc = w
      /\ Continues(Head(tasks), "handler", Awaits[w][1], Awaits[w][2])
      /\ \E i \in 1..Len(tasks) : tasks[i] = Head(tasks)
  BY <1>1, Alone
<1>3. remote' = remote
  BY DEF Services, OnReadRequestHead, OnReadRequestBody, OnConnectServer, OnForwardRequest,
       OnReadResponseHead, OnReadResponseBody, OnForwardResponse, OnSendConnectResponse,
       OnWriteErrorResponse, OnReadClientHello, OnTlsConnectServer, OnEstablishTlsWithServer,
       OnEstablishTlsWithClient, secureVars
<1>4. CASE OnReadRequestHead \/ OnReadRequestBody
  BY <1>2, <1>3, <1>4, RequestServers DEF OnReadRequestHead, OnReadRequestBody
<1>5. ASSUME UNCHANGED <<named, target, host>>,
             \/ SendError(conn) \/ StartHttp(conn) \/ Stop(conn)
             \/ \E v \in {"response_head", "response_body", "client_hello", "request_head"} :
                   Reads(conn, client, v) \/ Reads(conn, server, v)
             \/ Writes(conn, client, "forward_response")
             \/ HandOver("tunnel") \/ HandOver("websocket")
             \/ EstablishTls(server, "server_handshake") \/ EstablishTls(client, "client_handshake")
      PROVE  Servers'
  <2>1. /\ conn'[server].connected => conn[server].connected
        /\ pc' \notin {"connect", "tls_connect", "forward_request"} /\ tasks' = <<>>
    BY <1>2, <1>5, KeepsServer, SendErrorIs
  <2> QED BY <1>3, <1>5, <2>1, ServersFrame
<1>6. CASE OnConnectServer
  <2>1. UNCHANGED <<named, target, host>> /\ pc = "connect"
    BY <1>6 DEF OnConnectServer, messageVars, serverVars, Handles
  <2>2. CASE Result = "ok"
    <3>1. Writes(conn, server, "forward_request")
      BY <1>6, <2>2 DEF OnConnectServer
    <3>2. remote = host
      BY <1>2, <1>6, <2>1, <2>2, AwaitsFacts DEF Servers, Result, Continues
    <3>3. remote = named
      BY <2>1, <3>2 DEF Servers
    <3>4. pc' = "forward_request" /\ tasks' = <<>>
      BY <1>2, <3>1 DEF Writes, Rest
    <3>5. conn'[server].connected => conn[server].connected
      <4>1. conn \in [Conns -> Connection] /\ server \in Conns
        BY <1>2 DEF Rested, FlowAssumption
      <4> QED BY <3>1, <4>1 DEF Writes, WriteStarted, Armed, Connection
    <3> QED BY <1>3, <2>1, <3>3, <3>4, <3>5, EmptyQueue DEF Servers, RightServer
  <2>3. CASE Result # "ok"
    BY <1>5, <1>6, <2>1, <2>3 DEF OnConnectServer
  <2> QED BY <2>2, <2>3
<1>7. CASE OnForwardRequest
  BY <1>5, <1>7 DEF OnForwardRequest, messageVars, serverVars
<1>8. CASE OnReadResponseHead \/ OnReadResponseBody
  BY <1>5, <1>8 DEF OnReadResponseHead, OnReadResponseBody, ReadResponseBody, serverVars
<1>9. CASE OnForwardResponse \/ OnSendConnectResponse \/ OnWriteErrorResponse
  BY <1>5, <1>9 DEF OnForwardResponse, OnSendConnectResponse, OnWriteErrorResponse, StartTls,
       messageVars, serverVars
<1>10. CASE OnReadClientHello
  <2>1. named' = named /\ target' = target /\ pc = "client_hello"
    BY <1>10 DEF OnReadClientHello, Handles
  <2>2. CASE ConnectServer(conn, target, "tls_connect")
    <3>1. IsConnectedTo(conn[server], target) => remote = host /\ target = host
      BY DEF IsConnectedTo, Servers
    <3>2. /\ pc' = "tls_connect" /\ host' = target
          /\ conn'[server].connected => remote = host'
          /\ \A i \in 1..Len(tasks') :
                tasks'[i].kind = "handler" /\ tasks'[i].op = "connect" /\ tasks'[i].result = "ok" => remote = host'
      BY <1>2, <2>2, <3>1, ConnectServerServers
    <3> QED BY <1>3, <2>1, <3>2 DEF Servers, RightServer
  <2>3. CASE ~ConnectServer(conn, target, "tls_connect")
    BY <1>5, <1>10, <2>1, <2>3 DEF OnReadClientHello
  <2> QED BY <2>2, <2>3
<1>11. CASE OnTlsConnectServer \/ OnEstablishTlsWithServer \/ OnEstablishTlsWithClient
  BY <1>5, <1>11 DEF OnTlsConnectServer, OnEstablishTlsWithServer, OnEstablishTlsWithClient,
       messageVars, serverVars
<1> QED BY <1>4, <1>6, <1>7, <1>8, <1>9, <1>10, <1>11 DEF Services

LEMMA ServersStep ==
    ASSUME FlowAssumption, Core, Servers, [Next]_vars
    PROVE  Servers'
<1>1. CASE Services
  BY <1>1, ServicesServers
<1>2. CASE RunConnection \/ \E c \in Conns : Environment(c)
  <2>1. UNCHANGED <<pc, named, target, host, remote>>
    BY <1>2 DEF RunConnection, Environment, serviceVars, messageVars, serverVars, secureVars
  <2> QED BY <1>2, <2>1, ConnectionFrame, ServersFrame
<1>3. CASE ConnectCompletes
  BY <1>3, ConnectServers
<1>4. CASE HandshakeCompletes
  BY <1>4, HandshakeServers
<1>5. CASE UNCHANGED vars
  BY <1>5 DEF vars, connVars, serviceVars, messageVars, serverVars, secureVars, Servers, RightServer
<1> QED BY <1>1, <1>2, <1>3, <1>4, <1>5 DEF Next

(* A handler without an error to report does not wait for the client's     *)
(* handshake, except from the steps that establish TLS.                    *)
LEMMA ServicesSecure ==
    ASSUME FlowAssumption, Core, Secure, Services
    PROVE  Secure'
<1>1. PICK w \in DOMAIN Awaits : Handles(w)
  BY DEF Services, OnReadRequestHead, OnReadRequestBody, OnConnectServer, OnForwardRequest,
       OnReadResponseHead, OnReadResponseBody, OnForwardResponse, OnSendConnectResponse,
       OnWriteErrorResponse, OnReadClientHello, OnTlsConnectServer, OnEstablishTlsWithServer,
       OnEstablishTlsWithClient, Awaits
<1>2. /\ Tail(tasks) = <<>> /\ pc = w /\ w # "stopped"
      /\ Continues(Head(tasks), "handler", Awaits[w][1], Awaits[w][2])
      /\ \E i \in 1..Len(tasks) : tasks[i] = Head(tasks)
  BY <1>1, Alone, AwaitsFacts
<1>3. error => w \in {"client_handshake", "error_response"}
  BY <1>2 DEF Secure
<1>4. server \in Conns /\ client \in Conns /\ client # server
  BY DEF FlowAssumption
<1>5. ASSUME NEW h, NEW v, ConnectServer(conn, h, v) \/ ConnectServer(AfterSetServer(h), target', v)
      PROVE  pc' = v /\ (tasks' = <<>> \/ \E t \in Task : tasks' = Append(<<>>, t) /\ t.op # "handshake")
  <2> DEFINE t == Handler(Completion("connect", server, "ok"))
  <2>1. t \in Task /\ t.op # "handshake"
    BY <1>4 DEF Handler, Completion, Task, Ops, Results
  <2>2. pc' = v /\ (tasks' = Tail(tasks) \/ tasks' = Append(Tail(tasks), t))
    BY <1>5 DEF ConnectServer, Rest
  <2> HIDE DEF t
  <2> QED BY <1>2, <2>1, <2>2
<1>6. ASSUME NEW K, \/ SendError(K) \/ Stop(K)
                    \/ \E c, v : (Reads(K, c, v) \/ Writes(K, c, v)) /\ v # "client_handshake" /\ ~error
                    \/ \E v : HandOver(v) /\ v # "client_handshake" /\ ~error
                    \/ StartHttp(K)
      PROVE  pc' # "client_handshake" /\ (error => pc' \in {"error_response", "stopped"}) /\ tasks' = <<>>
  <2>1. tasks' = <<>>
    BY <1>2, <1>6 DEF SendError, StartHttp, Stop, Reads, Writes, HandOver, Rest
  <2> QED BY <1>6, <2>1 DEF SendError, StartHttp, Stop, Reads, Writes, HandOver
<1>7. ASSUME ~error, HandleRequest PROVE
          /\ pc' # "client_handshake"
          /\ tasks' = <<>> \/ \E t \in Task : tasks' = Append(<<>>, t) /\ t.op # "handshake"
  <2>1. CASE pc' = "continued" /\ Rest
    BY <1>2, <2>1 DEF Rest
  <2>2. CASE ~(pc' = "continued" /\ Rest)
    <3>1. \/ SendError(conn) \/ Stop(conn)
          \/ \E h \in Hosts : \/ SendError(AfterSetServer(h))
                              \/ Writes(AfterSetServer(h), client, "connect_response")
                              \/ Writes(AfterSetServer(h), client, "forward_response")
                              \/ ConnectServer(AfterSetServer(h), target', "connect")
      BY <1>7, <2>2 DEF HandleRequest
    <3>2. CASE \E h \in Hosts : ConnectServer(AfterSetServer(h), target', "connect")
      BY <1>5, <3>2
    <3> QED BY <1>4, <1>6, <1>7, <3>1, <3>2
  <2> QED BY <2>1, <2>2
<1>8. UNCHANGED tls
  BY DEF Services, OnReadRequestHead, OnReadRequestBody, OnConnectServer, OnForwardRequest,
       OnReadResponseHead, OnReadResponseBody, OnForwardResponse, OnSendConnectResponse,
       OnWriteErrorResponse, OnReadClientHello, OnTlsConnectServer, OnEstablishTlsWithServer,
       OnEstablishTlsWithClient, secureVars
<1>9. ASSUME error' = error, pc' # "client_handshake", error => pc' \in {"error_response", "stopped"},
             tasks' = <<>> \/ \E t \in Task : tasks' = Append(<<>>, t) /\ t.op # "handshake"
      PROVE  Secure'
  BY <1>8, <1>9, SecureFrame
<1>10. CASE OnReadRequestHead \/ OnReadRequestBody
  <2>1. error' = error /\ pc \in {"request_head", "request_body"}
    BY <1>10 DEF OnReadRequestHead, OnReadRequestBody, Handles
  <2>2. ~error
    BY <1>2, <1>3, <2>1
  <2>3. CASE HandleRequest
    BY <1>7, <1>9, <2>1, <2>2, <2>3
  <2>4. CASE ~HandleRequest
    <3>1. SendError(conn) \/ Stop(conn) \/ Reads(conn, client, "request_body")
      BY <1>10, <2>4 DEF OnReadRequestHead, OnReadRequestBody, ReadRequestBody
    <3> QED BY <1>4, <1>6, <1>9, <2>1, <2>2, <3>1
  <2> QED BY <2>3, <2>4
<1>11. CASE \/ OnConnectServer \/ OnForwardRequest \/ OnReadResponseHead \/ OnReadResponseBody
            \/ OnForwardResponse \/ OnSendConnectResponse \/ OnWriteErrorResponse \/ OnReadClientHello
  <2>1. /\ error' = error
        /\ pc \notin {"client_handshake"} /\ (pc = "error_response" => OnWriteErrorResponse)
    BY <1>11 DEF OnConnectServer, OnForwardRequest, OnReadResponseHead, OnReadResponseBody,
         OnForwardResponse, OnSendConnectResponse, OnWriteErrorResponse, OnReadClientHello, Handles
  <2>2. CASE OnWriteErrorResponse
    BY <1>6, <1>9, <2>1, <2>2 DEF OnWriteErrorResponse
  <2>3. CASE ~OnWriteErrorResponse
    <3>1. ~error
      BY <1>2, <1>3, <2>1, <2>3
    <3>2. \/ SendError(conn) \/ Stop(conn) \/ StartHttp(conn)
          \/ \E v \in {"forward_request", "forward_response", "response_head", "response_body", "client_hello"} :
                \E c \in Conns : Reads(conn, c, v) \/ Writes(conn, c, v)
          \/ HandOver("tunnel") \/ HandOver("websocket")
          \/ ConnectServer(conn, target, "tls_connect")
      <4>1. CASE OnConnectServer \/ OnForwardRequest
        BY <1>4, <4>1 DEF OnConnectServer, OnForwardRequest
      <4>2. CASE OnReadResponseHead \/ OnReadResponseBody
        BY <1>4, <4>2 DEF OnReadResponseHead, OnReadResponseBody, ReadResponseBody
      <4>3. CASE OnForwardResponse \/ OnSendConnectResponse
        BY <1>4, <4>3 DEF OnForwardResponse, OnSendConnectResponse, StartTls
      <4>4. CASE OnReadClientHello
        BY <1>4, <4>4 DEF OnReadClientHello
      <4> QED BY <1>11, <2>3, <4>1, <4>2, <4>3, <4>4
    <3>3. CASE ConnectServer(conn, target, "tls_connect")
      <4>1. /\ pc' = "tls_connect"
            /\ tasks' = <<>> \/ \E t \in Task : tasks' = Append(<<>>, t) /\ t.op # "handshake"
        BY <1>5, <3>3
      <4> QED BY <1>9, <2>1, <3>1, <4>1
    <3>4. CASE ~ConnectServer(conn, target, "tls_connect")
      <4>1. pc' # "client_handshake" /\ tasks' = <<>>
        BY <1>6, <3>1, <3>2, <3>4
      <4> QED BY <1>9, <2>1, <3>1, <4>1
    <3> QED BY <3>3, <3>4
  <2> QED BY <2>2, <2>3
<1>12. ASSUME NEW c, NEW v, EstablishTls(c, v) PROVE pc' \in {v, "stopped"} /\ tasks' = <<>>
  BY <1>2, <1>12 DEF EstablishTls, Stop, Rest
<1>13. CASE OnTlsConnectServer
  <2>1. pc = "tls_connect"
    BY <1>13 DEF OnTlsConnectServer, Handles
  <2>2. CASE EstablishTls(server, "server_handshake") /\ UNCHANGED error
    <3>1. pc' # "client_handshake" /\ tasks' = <<>>
      BY <1>12, <2>2
    <3>2. ~error
      BY <1>2, <1>3, <2>1
    <3> QED BY <1>9, <2>2, <3>1, <3>2
  <2>3. CASE EstablishTls(client, "client_handshake") /\ error' = TRUE
    <3>1. pc' \in {"client_handshake", "stopped"} /\ tasks' = <<>>
      BY <1>12, <2>3
    <3> QED BY <1>8, <2>3, <3>1, EmptyQueue DEF Secure
  <2> QED BY <1>13, <2>2, <2>3 DEF OnTlsConnectServer
<1>14. CASE OnEstablishTlsWithServer
  <2>1. /\ pc = "server_handshake" /\ EstablishTls(client, "client_handshake")
        /\ error' = (error \/ Result # "ok")
    BY <1>14 DEF OnEstablishTlsWithServer, Handles
  <2>2. pc' \in {"client_handshake", "stopped"} /\ tasks' = <<>>
    BY <1>12, <2>1
  <2>3. Result = "ok" => tls[server]
    <3>1. Continues(Head(tasks), "handler", server, "handshake")
      BY <1>2, <2>1 DEF Awaits
    <3> QED BY <1>2, <3>1 DEF Secure, Result
  <2>4. error' \in BOOLEAN /\ (tls[server] \/ error')
    BY <2>1, <2>3
  <2> QED BY <1>8, <2>2, <2>4, EmptyQueue DEF Secure
<1>15. CASE OnEstablishTlsWithClient
  <2>1. error' = error
    BY <1>15 DEF OnEstablishTlsWithClient
  <2>2. pc' # "client_handshake" /\ (error => pc' \in {"error_response", "stopped"}) /\ tasks' = <<>>
    BY <1>6, <1>15 DEF OnEstablishTlsWithClient
  <2> QED BY <1>9, <2>1, <2>2
<1> QED BY <1>10, <1>11, <1>13, <1>14, <1>15 DEF Services

LEMMA SecureStep ==
    ASSUME FlowAssumption, Core, Secure, [Next]_vars
    PROVE  Secure'
<1>1. CASE Services
  BY <1>1, ServicesSecure
<1>2. CASE RunConnection \/ \E c \in Conns : Environment(c)
  <2>1. UNCHANGED <<pc, error, tls>>
    BY <1>2 DEF RunConnection, Environment, serviceVars, secureVars
  <2> QED BY <1>2, <2>1, ConnectionFrame, SecureFrame
<1>3. CASE ConnectCompletes
  BY <1>3, ConnectSecure
<1>4. CASE HandshakeCompletes
  BY <1>4, HandshakeSecure
<1>5. CASE UNCHANGED vars
  BY <1>5 DEF vars, connVars, serviceVars, secureVars, Secure
<1> QED BY <1>1, <1>2, <1>3, <1>4, <1>5 DEF Next

(* A read of a part of a body is counted while the limit allows it. *)
LEMMA BodiesStep ==
    ASSUME FlowAssumption, Bodies, [Next]_vars
    PROVE  Bodies'
<1>1. MaxBody \in Nat /\ reads \in Nat /\ reads <= MaxBody
  BY DEF FlowAssumption, Bodies
<1>2. reads < MaxBody /\ reads' = reads + 1 => reads' \in 0 .. MaxBody
  BY <1>1
<1>3. 0 \in 0 .. MaxBody
  BY <1>1
<1>4. ASSUME NEW r \in 0 .. MaxBody, NEW b, NEW empty, NEW eof, ReadResponseBody(b, r, empty, eof)
      PROVE  reads' \in 0 .. MaxBody
  <2>1. r < MaxBody /\ reads' = r + 1 => reads' \in 0 .. MaxBody
    BY <1>1
  <2> QED BY <1>3, <1>4, <2>1 DEF ReadResponseBody
<1>5. ASSUME HandleRequest PROVE Bodies'
  <2>1. CASE UNCHANGED messageVars
    BY <2>1 DEF Bodies, messageVars
  <2>2. CASE body' = "none" /\ reads' = 0
    BY <1>3, <2>2 DEF Bodies
  <2> QED BY <1>5, <2>1, <2>2, Zenon DEF HandleRequest
<1>6. ASSUME ReadRequestBody PROVE Bodies'
  BY <1>2, <1>5, <1>6 DEF ReadRequestBody, Bodies, messageVars
<1>7. CASE OnReadRequestHead \/ OnReadRequestBody
  BY <1>6, <1>7 DEF OnReadRequestHead, OnReadRequestBody, Bodies, messageVars
<1>8. CASE OnReadResponseHead
  BY <1>3, <1>4, <1>8 DEF OnReadResponseHead, Bodies
<1>9. CASE OnReadResponseBody
  BY <1>4, <1>9 DEF OnReadResponseBody, Bodies
<1>10. CASE OnReadClientHello
  BY <1>2, <1>3, <1>10 DEF OnReadClientHello, Bodies
<1>11. ASSUME UNCHANGED <<body, reads>> PROVE Bodies'
  BY <1>11 DEF Bodies
<1>12. CASE \/ OnConnectServer \/ OnForwardRequest \/ OnForwardResponse \/ OnSendConnectResponse
            \/ OnWriteErrorResponse \/ OnTlsConnectServer \/ OnEstablishTlsWithServer
            \/ OnEstablishTlsWithClient
  BY <1>11, <1>12 DEF OnConnectServer, OnForwardRequest, OnForwardResponse, OnSendConnectResponse,
       OnWriteErrorResponse, OnTlsConnectServer, OnEstablishTlsWithServer, OnEstablishTlsWithClient, messageVars
<1>13. CASE RunConnection \/ ConnectCompletes \/ HandshakeCompletes \/ \E c \in Conns : Environment(c)
  BY <1>11, <1>13 DEF RunConnection, ConnectCompletes, HandshakeCompletes, Environment, serviceVars, messageVars
<1>14. CASE UNCHANGED vars
  BY <1>11, <1>14 DEF vars, serviceVars, messageVars
<1> QED BY <1>7, <1>8, <1>9, <1>10, <1>12, <1>13, <1>14 DEF Next, Services

(***************************************************************************)
(* The theorems.                                                           *)
(***************************************************************************)

(* The inductive invariant holds in every behaviour of a flow. *)
THEOREM FlowInvariant == Spec => []IInv
<1>1. Init => IInv
  BY InitHolds, FlowAssumption
<1>2. IInv /\ [Next]_vars => IInv'
  <2> SUFFICES ASSUME IInv, [Next]_vars PROVE IInv'
    OBVIOUS
  <2>1. Core /\ Servers /\ Secure /\ Bodies
    BY DEF IInv
  <2>2. Core'
    BY <2>1, CoreStep, FlowAssumption
  <2>3. Servers'
    BY <2>1, ServersStep, FlowAssumption
  <2>4. Secure'
    BY <2>1, SecureStep, FlowAssumption
  <2>5. Bodies'
    BY <2>1, BodiesStep, FlowAssumption
  <2> QED BY <2>2, <2>3, <2>4, <2>5 DEF IInv
<1> QED BY <1>1, <1>2, PTL DEF Spec

(* Every variable of a flow keeps its type. *)
THEOREM FlowTypes == Spec => []TypeOK
<1>1. IInv => TypeOK
  BY DEF IInv, Core, Servers, Secure, Bodies, TypeOK
<1> QED BY <1>1, FlowInvariant, PTL

(* What is in progress of an operation, and what a service waits for.      *)
LEMMA Progress ==
    ASSUME FlowAssumption, Core, NEW c \in Conns, NEW op \in Ops, Single(c, op)
    PROVE  /\ InProgress(c, {op})
           /\ \A d \in Conns, o \in Ops : InProgress(d, {o}) => d = c /\ o = op
<1>1. tasks \in Seq(Task) /\ DOMAIN tasks = 1..Len(tasks) /\ Len(tasks) \in Nat
  BY DEF Core, ConnTypeOK
<1>2. \A d \in Conns : d # c => conn[d].pending = {}
  BY DEF Single
<1>3. \A i \in DOMAIN tasks : tasks[i].kind # "expiry" => tasks[i].conn = c /\ tasks[i].op = op
  <2>1. CASE Outstanding(c, op)
    BY <1>1, <2>1 DEF Outstanding, OnlyExpiries, Expired
  <2>2. CASE Completed(c, op)
    <3>1. PICK i \in 1..Len(tasks) : /\ Continues(tasks[i], "completion", c, op)
                                     /\ \A j \in 1..Len(tasks) : j # i => Expired(tasks[j], c)
      BY <2>2 DEF Completed, OneCompletion
    <3> QED BY <1>1, <3>1 DEF Continues, Expired
  <2>3. CASE Answered(c, op)
    <3>1. \A n \in Nat : \A j \in 1..n : j = n \/ j \in 1..n - 1
      OBVIOUS
    <3> QED BY <1>1, <2>3, <3>1 DEF Answered, HandlerIsLast, Continues, Expired
  <2> QED BY <2>1, <2>2, <2>3 DEF Single
<1>4. conn[c].pending \subseteq {op}
  BY DEF Single, Outstanding, Completed, Answered
<1>5. InProgress(c, {op})
  <2>1. CASE Outstanding(c, op)
    BY <2>1 DEF Outstanding, InProgress
  <2>2. CASE Completed(c, op)
    BY <1>1, <2>2 DEF Completed, OneCompletion, Continues, InProgress, Queued
  <2>3. CASE Answered(c, op)
    <3>1. Len(tasks) \in DOMAIN tasks /\ Continues(tasks[Len(tasks)], "handler", c, op)
      BY <1>1, <2>3 DEF Answered, HandlerIsLast
    <3> QED BY <3>1 DEF Continues, InProgress, Queued
  <2> QED BY <2>1, <2>2, <2>3 DEF Single
<1>6. ASSUME NEW d \in Conns, NEW o \in Ops, InProgress(d, {o}) PROVE d = c /\ o = op
  <2>1. CASE conn[d].pending \intersect {o} # {}
    BY <1>2, <1>4, <2>1
  <2>2. CASE Queued("completion", d, {o}) \/ Queued("handler", d, {o})
    BY <1>3, <2>2 DEF Queued
  <2> QED BY <1>6, <2>1, <2>2 DEF InProgress
<1> QED BY <1>5, <1>6

LEMMA NothingInProgress ==
    ASSUME Quiet
    PROVE  \A c \in Conns : \A ops : ~InProgress(c, ops)
<1>1. tasks = <<>> /\ DOMAIN tasks = {}
  BY DEF Quiet
<1> QED BY <1>1 DEF Quiet, InProgress, Queued

(* A service has one operation in progress, the one its step waits for: no *)
(* handler runs in a step that did not start it (the handlers of           *)
(* http_service and tls_service), and none is forgotten.                   *)
THEOREM OneAtATime == Spec => []OneOperation
<1>1. IInv => OneOperation
  <2> SUFFICES ASSUME IInv PROVE OneOperation
    OBVIOUS
  <2>1. Core /\ FlowAssumption
    BY FlowAssumption DEF IInv
  <2>2. CASE Quiet
    <3>1. pc \notin DOMAIN Awaits \ {"client_handshake"}
      <4>1. ASSUME pc \in DOMAIN Awaits, pc # "client_handshake" PROVE FALSE
        <5>1. Single(Awaits[pc][1], Awaits[pc][2])
          BY <2>1, <4>1 DEF Core, Shape, Unanswered
        <5>2. Awaits[pc][1] \in Conns /\ Awaits[pc][2] \in Ops
          BY <2>1, <4>1, AwaitsFacts
        <5> QED BY <2>1, <2>2, <5>1, <5>2, Progress, NothingInProgress
      <4> QED BY <4>1
    <3> QED BY <2>2, <3>1, NothingInProgress DEF OneOperation
  <2>3. CASE ~Quiet
    <3>1. PICK c, op : c = Awaits[pc][1] /\ op = Awaits[pc][2]
      OBVIOUS
    <3>2. pc \in DOMAIN Awaits /\ Single(c, op) /\ c \in Conns /\ op \in Ops
      BY <2>1, <2>3, <3>1, Busy
    <3>3. InProgress(c, {op}) /\ \A d \in Conns, o \in Ops : InProgress(d, {o}) => d = c /\ o = op
      BY <2>1, <3>2, Progress
    <3>4. Awaits[pc] = <<c, op>>
      BY <3>1, <3>2 DEF Awaits
    <3> QED BY <3>1, <3>2, <3>3, <3>4 DEF OneOperation
  <2> QED BY <2>2, <2>3
<1> QED BY <1>1, FlowInvariant, PTL

(* base_service::stop runs once, and leaves nothing that refers to the     *)
(* connections connection_manager then destroys.                           *)
THEOREM FlowStopsOnce == Spec => []StopsOnceAndQuiet
<1>1. IInv => StopsOnceAndQuiet
  BY DEF IInv, Core, Shape, StopsOnceAndQuiet, Awaits
<1> QED BY <1>1, FlowInvariant, PTL

(* switch_service hands both connections over at rest. *)
THEOREM FlowIsHandedOver == Spec => []HandsOverAtRest
<1>1. IInv => HandsOverAtRest
  <2> SUFFICES ASSUME IInv, pc \in {"tunnel", "websocket"} PROVE Quiet /\ HandedOver(conn, client)
    BY DEF HandsOverAtRest
  <2>1. Quiet
    BY DEF IInv, Core, Shape, Awaits
  <2>2. Fits(conn[server]) /\ Fits(conn[client]) /\ conn[client].socket # "closed"
    BY DEF IInv, Core, Sockets, Unanswered
  <2>3. Conns = {client, server}
    BY FlowAssumption DEF FlowAssumption
  <2> QED BY <2>1, <2>2, <2>3 DEF Quiet, HandedOver, AtRest, Fits
<1> QED BY <1>1, FlowInvariant, PTL

(* set_server and connect_server_async: a request is only written to the   *)
(* server it names.                                                        *)
THEOREM RequestsReachTheirServer == Spec => []RightServer
<1>1. IInv => RightServer
  BY DEF IInv, Servers
<1> QED BY <1>1, FlowInvariant, PTL

(* tls_service reports a server without TLS as an error: no request is     *)
(* forwarded in the clear once the client has TLS.                         *)
THEOREM TlsIsNotDropped == Spec => []NoDowngrade
<1>1. IInv => NoDowngrade
  BY DEF IInv, Secure, NoDowngrade
<1> QED BY <1>1, FlowInvariant, PTL

(* The completions post the handlers: a timeout never hits a read or a     *)
(* write it was not set for.                                               *)
THEOREM TimeoutsAreNotStale == Spec => []NoStaleExpiry
<1>1. IInv => NoStaleExpiry
  <2> SUFFICES ASSUME IInv, NEW c \in Conns, conn[c].timer = "armed", ~InProgress(c, {"connect"})
               PROVE  ~ExpiryQueued(c)
    BY DEF NoStaleExpiry
  <2>1. Core /\ FlowAssumption /\ ~Quiet
    BY FlowAssumption DEF IInv, Quiet
  <2>2. PICK d \in Conns, op \in Ops : Single(d, op)
    BY <2>1, Busy
  <2>3. d = c
    BY <2>2 DEF Single
  <2>4. op # "connect"
    BY <2>1, <2>2, <2>3, Progress
  <2>5. \A i \in 1..Len(tasks) : tasks[i].kind # "expiry"
    BY <2>2, <2>3, <2>4 DEF Single, Ops
  <2>6. DOMAIN tasks = 1..Len(tasks)
    BY <2>1 DEF Core, ConnTypeOK
  <2> QED BY <2>5, <2>6 DEF ExpiryQueued, Queued
<1> QED BY <1>1, FlowInvariant, PTL

===============================================================================
