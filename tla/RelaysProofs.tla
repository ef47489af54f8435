----------------------------- MODULE RelaysProofs -----------------------------
(***************************************************************************)
(* The tunnel and the WebSocket service, for any frames the sides may send *)
(* and whatever interceptors do: one operation for each loop, one stop,    *)
(* one close frame for each side, and messages that stay whole.            *)
(***************************************************************************)
EXTENDS Relays, SequenceTheorems, WellFoundedInduction, TLAPS

(***************************************************************************)
(* The inductive invariant.                                                *)
(***************************************************************************)

(* What the service has started and not yet seen the end of, as pairs of a *)
(* connection and an operation.                                            *)
Awaits(ph, lp, c, op) ==
    \/ ph = "connecting" /\ c = server /\ op = "connect"
    \/ ph = "running" /\ op = "read" /\ lp[c] = "reading"
    \/ ph = "running" /\ op = "write" /\ lp[Other(c)] \in {"writing", "closing"}

Awaited(ph, lp) == {w \in Conns \X Ops : Awaits(ph, lp, w[1], w[2])}

Busy(t) == t.kind # "expiry"
For(t)  == <<t.conn, t.op>>

(* The reactor has the operation, or its completion is queued. *)
InReactor(cs, ts, w) ==
    \/ w[2] \in cs[w[1]].pending
    \/ \E i \in 1..Len(ts) : ts[i].kind = "completion" /\ For(ts[i]) = w

HandlerAfter(ts, i, w) == \E j \in 1..Len(ts) : i < j /\ ts[j].kind = "handler" /\ For(ts[j]) = w

Timed(c) == {<<c, "read">>, <<c, "connect">>}

(* Every operation that is awaited is in one place, and there is no other. *)
Tokens(cs, ts, W) ==
    /\ \A w \in Conns \X Ops : w[2] \in cs[w[1]].pending => w \in W
    /\ \A i \in 1..Len(ts) : Busy(ts[i]) =>
          For(ts[i]) \in W /\ ts[i].op \notin cs[ts[i].conn].pending
    /\ \A i, j \in 1..Len(ts) : Busy(ts[i]) /\ Busy(ts[j]) /\ For(ts[i]) = For(ts[j]) => i = j
    /\ \A w \in W : w[2] \in cs[w[1]].pending \/ \E i \in 1..Len(ts) : Busy(ts[i]) /\ For(ts[i]) = w

(* A timer is armed, and has expired, only for an operation that is timed, *)
(* and the expiry runs before the handler of the operation.                *)
Timers(cs, ts) ==
    /\ \A c \in Conns : cs[c].timer = "armed" => \E w \in Timed(c) : InReactor(cs, ts, w)
    /\ \A i \in 1..Len(ts) : ts[i].kind = "expiry" =>
          \E w \in Timed(ts[i].conn) : InReactor(cs, ts, w) \/ HandlerAfter(ts, i, w)

(* The service runs as long as one of its loops does, and stops once. *)
Phases(ph, lp, n) ==
    /\ ph \in {"start", "connecting"} => lp = [c \in Conns |-> "unstarted"]
    /\ ph = "running" => /\ \A c \in Conns : lp[c] # "unstarted"
                         /\ \E c \in Conns : lp[c] # "finished"
    /\ n = IF ph = "stopped" THEN 1 ELSE 0

(* A close frame is sent by the loop that closes, once it is closed. *)
Closing(lp, p, sent) ==
    \A c \in Conns :
        /\ sent[c] <= 1
        /\ sent[c] = 1 => p.closed /\ lp[Other(c)] \in {"closing", "finished"}

(* Nobody closes the pipeline before the service starts; a tunnel has none. *)
Fresh ==
    /\ phase = "start" => pipe.why = "open"
    /\ service = "tunnel" => \A c \in Conns : closeSent[c] = 0

(* Between two messages. *)
Resting(p, sd) ==
    \A c \in Conns :
        /\ sd[c].parser.effIn = "none" /\ sd[c].parser.effOut = "none"
        /\ sd[c].held = "none" /\ sd[c].sent = "none" /\ ~sd[c].torn
        /\ p.intercept => sd[c].ready

Whole == ~unusual => Resting(pipe, side)

IInv ==
    /\ TypeOK
    /\ Tokens(conn, tasks, Awaited(phase, loop)) /\ Timers(conn, tasks)
    /\ Phases(phase, loop, stops)
    /\ Closing(loop, pipe, closeSent) /\ Fresh /\ Whole

(***************************************************************************)
(* The run queue.                                                          *)
(***************************************************************************)

(* A new task is put behind the others, and the first one runs.            *)
LEMMA Queueing ==
    ASSUME NEW ts \in Seq(Task), NEW t \in Task
    PROVE  /\ Append(ts, t) \in Seq(Task) /\ Len(Append(ts, t)) = Len(ts) + 1 /\ Len(ts) \in Nat
           /\ Append(ts, t)[Len(ts) + 1] = t
           /\ \A i \in 1..Len(ts) : Append(ts, t)[i] = ts[i] /\ ts[i] \in Task
           /\ \A i \in 1..Len(ts) : i \in 1..Len(Append(ts, t)) /\ i < Len(ts) + 1
           /\ \A i \in 1..Len(Append(ts, t)) : i \in 1..Len(ts) \/ i = Len(ts) + 1
<1>1. /\ Append(ts, t) \in Seq(Task) /\ Len(Append(ts, t)) = Len(ts) + 1 /\ Len(ts) \in Nat
      /\ Append(ts, t)[Len(ts) + 1] = t
      /\ \A i \in 1..Len(ts) : Append(ts, t)[i] = ts[i] /\ ts[i] \in Task
  OBVIOUS
<1>2. \A n \in Nat : /\ \A i \in 1..n : i \in 1..n + 1 /\ i < n + 1
                     /\ \A i \in 1..n + 1 : i \in 1..n \/ i = n + 1
  OBVIOUS
<1> QED BY <1>1, <1>2

(* What is left of the run queue once its first task has run. *)
LEMMA Running ==
    ASSUME NEW ts \in Seq(Task), ts # <<>>
    PROVE  /\ Tail(ts) \in Seq(Task) /\ Len(ts) \in Nat \ {0} /\ Len(Tail(ts)) = Len(ts) - 1
           /\ Head(ts) = ts[1] /\ Head(ts) \in Task /\ 1 \in 1..Len(ts)
           /\ \A i \in 1..Len(Tail(ts)) : i + 1 \in 1..Len(ts) /\ i + 1 # 1 /\ Tail(ts)[i] = ts[i + 1]
           /\ \A i \in 1..Len(ts) : i # 1 => i - 1 \in 1..Len(Tail(ts)) /\ Tail(ts)[i - 1] = ts[i]
<1>1. Tail(ts) \in Seq(Task) /\ Len(ts) \in Nat \ {0} /\ Len(Tail(ts)) = Len(ts) - 1
  OBVIOUS
<1>2. Head(ts) = ts[1] /\ Head(ts) \in Task /\ \A i \in 1..Len(ts) - 1 : Tail(ts)[i] = ts[i + 1]
  OBVIOUS
<1>3. \A n \in Nat \ {0} : /\ 1 \in 1..n
                           /\ \A i \in 1..n - 1 : i + 1 \in 1..n /\ i + 1 # 1
                           /\ \A i \in 1..n : i # 1 => i - 1 \in 1..n - 1 /\ (i - 1) + 1 = i
  OBVIOUS
<1> QED BY <1>1, <1>2, <1>3

(***************************************************************************)
(* What the reactor and the connections do to the tokens and the timers.   *)
(***************************************************************************)

LEMMA TimedOps == \A c \in Conns : Timed(c) \subseteq Conns \X Ops
BY DEF Timed, Ops

(* A state of the connections and the run queue, and what is awaited in it. *)
Legal(cs, ts, W) ==
    /\ cs \in [Conns -> Connection] /\ ts \in Seq(Task) /\ W \subseteq Conns \X Ops
    /\ Tokens(cs, ts, W) /\ Timers(cs, ts)

SamePending(cs, cs2) == \A c \in Conns : cs2[c].pending = cs[c].pending

(* No timer is armed that was not. *)
TimersRun(cs, cs2) == \A c \in Conns : cs2[c].timer = "armed" => cs[c].timer = "armed"

(* The sockets and the peers do not matter, and a timer may be switched off. *)
LEMMA SocketsChange ==
    ASSUME NEW cs, NEW ts, NEW W, Legal(cs, ts, W),
           NEW cs2 \in [Conns -> Connection], SamePending(cs, cs2), TimersRun(cs, cs2)
    PROVE  Legal(cs2, ts, W)
<1>1. Conns \X Ops = {<<c, op>> : c \in Conns, op \in Ops}
  OBVIOUS
<1>2. \A w \in Conns \X Ops : cs2[w[1]].pending = cs[w[1]].pending
  BY DEF SamePending
<1>3. \A i \in 1..Len(ts) : ts[i] \in Task
  BY DEF Legal
<1>4. \A i \in 1..Len(ts) : ts[i].conn \in Conns /\ For(ts[i]) \in Conns \X Ops /\ Timed(ts[i].conn) \subseteq Conns \X Ops
  BY <1>3 DEF Task, For, Timed, Ops
<1>5. Tokens(cs2, ts, W)
  <2>1. Tokens(cs, ts, W) /\ W \subseteq Conns \X Ops
    BY DEF Legal
  <2>2. \A i \in 1..Len(ts) : cs2[ts[i].conn].pending = cs[ts[i].conn].pending
    BY <1>4 DEF SamePending
  <2> QED BY <1>2, <2>1, <2>2 DEF Tokens
<1>6. \A w \in Conns \X Ops : InReactor(cs, ts, w) => InReactor(cs2, ts, w)
  BY <1>2 DEF InReactor
<1>7. Timers(cs2, ts)
  <2>1. Timers(cs, ts) /\ \A c \in Conns : Timed(c) \subseteq Conns \X Ops
    BY TimedOps DEF Legal
  <2> QED BY <1>4, <1>6, <2>1 DEF Timers, TimersRun
<1> QED BY <1>5, <1>7 DEF Legal

(* The reactor completes an operation. *)
LEMMA CompletionQueues ==
    ASSUME NEW cs, NEW ts, NEW W, Legal(cs, ts, W),
           NEW c \in Conns, NEW op \in cs[c].pending, NEW t \in Task,
           t.kind = "completion", For(t) = <<c, op>>,
           NEW cs2 \in [Conns -> Connection], TimersRun(cs, cs2),
           \A d \in Conns : cs2[d].pending = IF d = c THEN cs[d].pending \ {op} ELSE cs[d].pending
    PROVE  Legal(cs2, Append(ts, t), W)
<1> DEFINE ts2 == Append(ts, t)
<1>1. /\ cs \in [Conns -> Connection] /\ ts \in Seq(Task) /\ W \subseteq Conns \X Ops
      /\ Tokens(cs, ts, W) /\ Timers(cs, ts)
  BY DEF Legal
<1>2. /\ ts2 \in Seq(Task) /\ Len(ts2) = Len(ts) + 1 /\ Len(ts) \in Nat /\ ts2[Len(ts) + 1] = t /\ Len(ts) + 1 \in 1..Len(ts2)
      /\ \A i \in 1..Len(ts) : ts2[i] = ts[i] /\ ts[i] \in Task /\ i \in 1..Len(ts2) /\ i < Len(ts) + 1
      /\ \A i \in 1..Len(ts2) : i \in 1..Len(ts) \/ i = Len(ts) + 1
  BY <1>1, Queueing
<1>3. op \in Ops /\ <<c, op>> \in Conns \X Ops /\ <<c, op>> \in W /\ t.conn = c /\ t.op = op
  BY <1>1 DEF Connection, Tokens, For, Task
<1>4. \A i \in 1..Len(ts) : ts[i].conn \in Conns /\ For(ts[i]) \in Conns \X Ops
  BY <1>2 DEF Task, For
<1>5. \A i \in 1..Len(ts) : Busy(ts[i]) => For(ts[i]) # <<c, op>>
  BY <1>1, <1>3, <1>4 DEF Tokens, For
<1> HIDE DEF ts2
<1>6. Tokens(cs2, ts2, W)
  <2>1. \A w \in Conns \X Ops : w[2] \in cs2[w[1]].pending => w \in W
    BY <1>1 DEF Tokens
  <2>2. ASSUME NEW i \in 1..Len(ts2), Busy(ts2[i])
        PROVE  For(ts2[i]) \in W /\ ts2[i].op \notin cs2[ts2[i].conn].pending
    <3>1. CASE i \in 1..Len(ts)
      <4>1. ts2[i] = ts[i] /\ ts[i].conn \in Conns
        BY <1>2, <1>4, <3>1
      <4>2. cs2[ts[i].conn].pending \subseteq cs[ts[i].conn].pending
        BY <4>1
      <4>3. For(ts[i]) \in W /\ ts[i].op \notin cs[ts[i].conn].pending
        BY <1>1, <2>2, <3>1, <4>1 DEF Tokens
      <4> QED BY <4>1, <4>2, <4>3
    <3>2. CASE i = Len(ts) + 1
      BY <1>2, <1>3, <3>2
    <3> QED BY <1>2, <3>1, <3>2
  <2>3. ASSUME NEW i \in 1..Len(ts2), NEW j \in 1..Len(ts2),
               Busy(ts2[i]), Busy(ts2[j]), For(ts2[i]) = For(ts2[j])
        PROVE  i = j
    <3>1. CASE i \in 1..Len(ts) /\ j \in 1..Len(ts)
      BY <1>1, <1>2, <2>3, <3>1 DEF Tokens
    <3>2. CASE i = Len(ts) + 1 \/ j = Len(ts) + 1
      BY <1>2, <1>5, <2>3, <3>2
    <3> QED BY <1>2, <3>1, <3>2
  <2>4. ASSUME NEW w \in W
        PROVE  w[2] \in cs2[w[1]].pending \/ \E i \in 1..Len(ts2) : Busy(ts2[i]) /\ For(ts2[i]) = w
    <3>1. CASE w = <<c, op>>
      BY <1>2, <3>1 DEF Busy
    <3>2. CASE w # <<c, op>> /\ w[2] \in cs[w[1]].pending
      <4>1. w \in Conns \X Ops /\ ~(w[1] = c /\ w[2] = op)
        BY <1>1, <3>2
      <4> QED BY <3>2, <4>1
    <3>3. CASE \E i \in 1..Len(ts) : Busy(ts[i]) /\ For(ts[i]) = w
      BY <1>2, <3>3
    <3> QED BY <1>1, <3>1, <3>2, <3>3 DEF Tokens
  <2> QED BY <2>1, <2>2, <2>3, <2>4 DEF Tokens
<1>7. ASSUME NEW w \in Conns \X Ops, InReactor(cs, ts, w) PROVE InReactor(cs2, ts2, w)
  <2>1. CASE w = <<c, op>>
    BY <1>2, <2>1 DEF InReactor
  <2>2. CASE w # <<c, op>> /\ w[2] \in cs[w[1]].pending
    <3>1. ~(w[1] = c /\ w[2] = op)
      BY <2>2
    <3> QED BY <2>2, <3>1 DEF InReactor
  <2>3. CASE \E i \in 1..Len(ts) : ts[i].kind = "completion" /\ For(ts[i]) = w
    BY <1>2, <2>3 DEF InReactor
  <2> QED BY <1>7, <2>1, <2>2, <2>3 DEF InReactor
<1>8. ASSUME NEW i \in 1..Len(ts), NEW w, HandlerAfter(ts, i, w) PROVE HandlerAfter(ts2, i, w)
  BY <1>2, <1>8 DEF HandlerAfter
<1>9. Timers(cs2, ts2)
  <2>1. \A d \in Conns : Timed(d) \subseteq Conns \X Ops
    BY TimedOps
  <2>2. ASSUME NEW d \in Conns, cs2[d].timer = "armed" PROVE \E w \in Timed(d) : InReactor(cs2, ts2, w)
    BY <1>1, <1>7, <2>1, <2>2 DEF Timers, TimersRun
  <2>3. ASSUME NEW i \in 1..Len(ts2), ts2[i].kind = "expiry"
        PROVE  \E w \in Timed(ts2[i].conn) : InReactor(cs2, ts2, w) \/ HandlerAfter(ts2, i, w)
    <3>1. i \in 1..Len(ts) /\ ts2[i] = ts[i]
      BY <1>2, <2>3
    <3>2. PICK w \in Timed(ts[i].conn) : InReactor(cs, ts, w) \/ HandlerAfter(ts, i, w)
      BY <1>1, <2>3, <3>1 DEF Timers
    <3> QED BY <1>4, <1>7, <1>8, <2>1, <3>1, <3>2
  <2> QED BY <2>2, <2>3 DEF Timers
<1> QED BY <1>1, <1>2, <1>6, <1>9 DEF Legal, ts2

(* A timer that is armed expires. *)
LEMMA ExpiryQueues ==
    ASSUME NEW cs, NEW ts, NEW W, Legal(cs, ts, W),
           NEW c \in Conns, cs[c].timer = "armed",
           NEW cs2 \in [Conns -> Connection], SamePending(cs, cs2), TimersRun(cs, cs2)
    PROVE  Legal(cs2, Append(ts, Expiry(c)), W)
<1> DEFINE ts2 == Append(ts, Expiry(c))
<1>1. Legal(cs2, ts, W)
  BY SocketsChange
<1>2. cs2 \in [Conns -> Connection] /\ ts \in Seq(Task) /\ Tokens(cs2, ts, W) /\ Timers(cs2, ts)
  BY <1>1 DEF Legal
<1>3. Expiry(c) \in Task /\ Expiry(c).kind = "expiry" /\ Expiry(c).conn = c
  BY DEF Expiry, Task, Ops, Results
<1>4. /\ ts2 \in Seq(Task) /\ Len(ts2) = Len(ts) + 1 /\ Len(ts) \in Nat /\ ts2[Len(ts) + 1] = Expiry(c)
      /\ \A i \in 1..Len(ts) : ts2[i] = ts[i] /\ ts[i] \in Task /\ i \in 1..Len(ts2)
      /\ \A i \in 1..Len(ts2) : i \in 1..Len(ts) \/ i = Len(ts) + 1
  BY <1>2, <1>3, Queueing
<1> HIDE DEF ts2
<1>5. \A i \in 1..Len(ts2) : Busy(ts2[i]) => i \in 1..Len(ts) /\ ts2[i] = ts[i]
  BY <1>3, <1>4 DEF Busy
<1>6. Tokens(cs2, ts2, W)
  <2>1. \A i \in 1..Len(ts) : i \in 1..Len(ts2) /\ ts2[i] = ts[i]
    BY <1>4
  <2> QED BY <1>2, <1>5, <2>1 DEF Tokens
<1>7. \A w : InReactor(cs2, ts, w) => InReactor(cs2, ts2, w)
  BY <1>4 DEF InReactor
<1>8. \A i \in 1..Len(ts) : \A w : HandlerAfter(ts, i, w) => HandlerAfter(ts2, i, w)
  BY <1>4 DEF HandlerAfter
<1>9. Timers(cs2, ts2)
  <2>1. \A d \in Conns : cs2[d].timer = "armed" => \E w \in Timed(d) : InReactor(cs2, ts2, w)
    BY <1>2, <1>7 DEF Timers
  <2>2. ASSUME NEW i \in 1..Len(ts2), ts2[i].kind = "expiry"
        PROVE  \E w \in Timed(ts2[i].conn) : InReactor(cs2, ts2, w) \/ HandlerAfter(ts2, i, w)
    <3>1. CASE i \in 1..Len(ts)
      BY <1>2, <1>4, <1>7, <1>8, <2>2, <3>1 DEF Timers
    <3>2. CASE i = Len(ts) + 1
      <4>1. PICK w \in Timed(c) : InReactor(cs, ts, w)
        BY DEF Legal, Timers
      <4>2. w \in Conns \X Ops
        BY <4>1 DEF Timed, Ops
      <4>3. InReactor(cs2, ts, w)
        BY <4>1, <4>2 DEF InReactor, SamePending
      <4> QED BY <1>3, <1>4, <1>7, <3>2, <4>1, <4>3
    <3> QED BY <1>4, <3>1, <3>2
  <2> QED BY <2>1, <2>2 DEF Timers
<1> QED BY <1>1, <1>4, <1>6, <1>9 DEF Legal, ts2

(* A task runs that leaves nothing behind but what its completion starts   *)
(* again; an expiry does, and a connection attempt with another endpoint.  *)
LEMMA TaskRuns ==
    ASSUME NEW cs, NEW ts, NEW W, Legal(cs, ts, W), ts # <<>>, Head(ts).kind # "handler",
           NEW cs2 \in [Conns -> Connection],
           \A w \in Conns \X Ops : w[2] \in cs2[w[1]].pending <=>
               w[2] \in cs[w[1]].pending \/ (Busy(Head(ts)) /\ w = For(Head(ts))),
           \A c \in Conns : cs2[c].timer = "armed" =>
               cs[c].timer = "armed" \/ (Busy(Head(ts)) /\ For(Head(ts)) \in Timed(c))
    PROVE  Legal(cs2, Tail(ts), W)
<1> DEFINE t == Head(ts)  ts2 == Tail(ts)
<1>1. /\ cs \in [Conns -> Connection] /\ ts \in Seq(Task) /\ W \subseteq Conns \X Ops
      /\ Tokens(cs, ts, W) /\ Timers(cs, ts)
  BY DEF Legal
<1>2. /\ ts2 \in Seq(Task) /\ t = ts[1] /\ t \in Task /\ 1 \in 1..Len(ts)
      /\ \A i \in 1..Len(ts2) : i + 1 \in 1..Len(ts) /\ i + 1 # 1 /\ ts2[i] = ts[i + 1]
      /\ \A i \in 1..Len(ts) : i # 1 => i - 1 \in 1..Len(ts2) /\ ts2[i - 1] = ts[i]
  BY <1>1, Running
<1>3. \A i \in 1..Len(ts) : ts[i] \in Task /\ ts[i].conn \in Conns /\ For(ts[i]) \in Conns \X Ops
                            /\ For(ts[i])[1] = ts[i].conn /\ For(ts[i])[2] = ts[i].op
  <2>1. \A i \in 1..Len(ts) : ts[i] \in Task
    BY <1>1
  <2> QED BY <2>1 DEF Task, For
<1>4. \A c \in Conns : Timed(c) \subseteq Conns \X Ops
  BY TimedOps
<1>5. Len(ts) \in Nat /\ Len(ts2) \in Nat
  BY <1>1, <1>2
<1> HIDE DEF t, ts2
<1>6. Tokens(cs2, ts2, W)
  <2>1. Busy(t) => For(t) \in W
    BY <1>1, <1>2 DEF Tokens
  <2>2. \A w \in Conns \X Ops : w[2] \in cs2[w[1]].pending => w \in W
    BY <1>1, <2>1 DEF Tokens, t
  <2>3. ASSUME NEW i \in 1..Len(ts2), Busy(ts2[i])
        PROVE  For(ts2[i]) \in W /\ ts2[i].op \notin cs2[ts2[i].conn].pending
    <3>1. i + 1 \in 1..Len(ts) /\ i + 1 # 1 /\ ts2[i] = ts[i + 1]
      BY <1>2
    <3>2. For(ts[i + 1]) \in W /\ ts[i + 1].op \notin cs[ts[i + 1].conn].pending
      BY <1>1, <2>3, <3>1 DEF Tokens
    <3>3. Busy(t) => For(ts[i + 1]) # For(t)
      BY <1>1, <1>2, <2>3, <3>1 DEF Tokens
    <3>4. For(ts[i + 1])[2] \notin cs2[For(ts[i + 1])[1]].pending
      BY <1>3, <3>1, <3>2, <3>3 DEF t
    <3> QED BY <1>3, <3>1, <3>2, <3>4
  <2>4. ASSUME NEW i \in 1..Len(ts2), NEW j \in 1..Len(ts2),
               Busy(ts2[i]), Busy(ts2[j]), For(ts2[i]) = For(ts2[j])
        PROVE  i = j
    <3>1. /\ i + 1 \in 1..Len(ts) /\ ts2[i] = ts[i + 1]
          /\ j + 1 \in 1..Len(ts) /\ ts2[j] = ts[j + 1]
      BY <1>2
    <3>2. i + 1 = j + 1
      BY <1>1, <2>4, <3>1 DEF Tokens
    <3> QED BY <1>5, <3>2
  <2>5. ASSUME NEW w \in W
        PROVE  w[2] \in cs2[w[1]].pending \/ \E i \in 1..Len(ts2) : Busy(ts2[i]) /\ For(ts2[i]) = w
    <3>1. w \in Conns \X Ops
      BY <1>1
    <3>2. CASE w[2] \in cs[w[1]].pending
      BY <3>1, <3>2 DEF t
    <3>3. CASE \E i \in 1..Len(ts) : Busy(ts[i]) /\ For(ts[i]) = w
      <4>1. PICK i \in 1..Len(ts) : Busy(ts[i]) /\ For(ts[i]) = w
        BY <3>3
      <4>2. CASE i = 1
        BY <1>2, <3>1, <4>1, <4>2 DEF t
      <4>3. CASE i # 1
        BY <1>2, <4>1, <4>3
      <4> QED BY <4>2, <4>3
    <3> QED BY <1>1, <3>2, <3>3 DEF Tokens
  <2> QED BY <2>2, <2>3, <2>4, <2>5 DEF Tokens
<1>7. ASSUME NEW w \in Conns \X Ops, InReactor(cs, ts, w) PROVE InReactor(cs2, ts2, w)
  <2>1. CASE w[2] \in cs[w[1]].pending
    BY <2>1 DEF InReactor, t
  <2>2. CASE \E i \in 1..Len(ts) : ts[i].kind = "completion" /\ For(ts[i]) = w
    <3>1. PICK i \in 1..Len(ts) : ts[i].kind = "completion" /\ For(ts[i]) = w
      BY <2>2
    <3>2. CASE i = 1
      BY <1>2, <3>1, <3>2 DEF InReactor, Busy, t
    <3>3. CASE i # 1
      BY <1>2, <3>1, <3>3 DEF InReactor
    <3> QED BY <3>2, <3>3
  <2> QED BY <1>7, <2>1, <2>2 DEF InReactor
<1>8. ASSUME NEW i \in 1..Len(ts2), NEW w, HandlerAfter(ts, i + 1, w) PROVE HandlerAfter(ts2, i, w)
  <2>1. PICK j \in 1..Len(ts) : i + 1 < j /\ ts[j].kind = "handler" /\ For(ts[j]) = w
    BY <1>8 DEF HandlerAfter
  <2>2. j # 1 /\ i < j - 1
    BY <1>5, <2>1
  <2> QED BY <1>2, <2>1, <2>2 DEF HandlerAfter
<1>9. Timers(cs2, ts2)
  <2>1. ASSUME NEW c \in Conns, cs2[c].timer = "armed" PROVE \E w \in Timed(c) : InReactor(cs2, ts2, w)
    <3>1. CASE cs[c].timer = "armed"
      BY <1>1, <1>4, <1>7, <3>1 DEF Timers
    <3>2. CASE Busy(t) /\ For(t) \in Timed(c)
      BY <1>2, <1>3, <3>2 DEF InReactor, t
    <3> QED BY <2>1, <3>1, <3>2 DEF t
  <2>2. ASSUME NEW i \in 1..Len(ts2), ts2[i].kind = "expiry"
        PROVE  \E w \in Timed(ts2[i].conn) : InReactor(cs2, ts2, w) \/ HandlerAfter(ts2, i, w)
    <3>1. i + 1 \in 1..Len(ts) /\ ts2[i] = ts[i + 1]
      BY <1>2
    <3>2. PICK w \in Timed(ts[i + 1].conn) : InReactor(cs, ts, w) \/ HandlerAfter(ts, i + 1, w)
      BY <1>1, <2>2, <3>1 DEF Timers
    <3> QED BY <1>3, <1>4, <1>7, <1>8, <3>1, <3>2
  <2> QED BY <2>1, <2>2 DEF Timers
<1> QED BY <1>1, <1>2, <1>6, <1>9 DEF Legal, ts2

(* A completion runs and posts the user's handler; the timer is off then   *)
(* if the operation is timed.                                              *)
LEMMA HandlerQueues ==
    ASSUME NEW cs, NEW ts, NEW W, Legal(cs, ts, W), ts # <<>>, Head(ts).kind = "completion",
           NEW cs2 \in [Conns -> Connection], SamePending(cs, cs2), TimersRun(cs, cs2),
           \A c \in Conns : cs2[c].timer = "armed" => For(Head(ts)) \notin Timed(c)
    PROVE  Legal(cs2, Append(Tail(ts), Handler(Head(ts))), W)
<1> DEFINE t == Head(ts)  h == Handler(Head(ts))  rest == Tail(ts)  ts2 == Append(rest, h)
<1>1. Legal(cs2, ts, W)
  BY SocketsChange
<1>2. /\ cs2 \in [Conns -> Connection] /\ ts \in Seq(Task) /\ W \subseteq Conns \X Ops
      /\ Tokens(cs2, ts, W) /\ Timers(cs2, ts)
  BY <1>1 DEF Legal
<1>3. /\ rest \in Seq(Task) /\ t = ts[1] /\ t \in Task /\ 1 \in 1..Len(ts)
      /\ \A i \in 1..Len(rest) : i + 1 \in 1..Len(ts) /\ i + 1 # 1 /\ rest[i] = ts[i + 1]
      /\ \A i \in 1..Len(ts) : i # 1 => i - 1 \in 1..Len(rest) /\ rest[i - 1] = ts[i]
  BY <1>2, Running
<1>4. h \in Task /\ h.kind = "handler" /\ h.conn = t.conn /\ h.op = t.op /\ For(h) = For(t)
  BY <1>3 DEF Handler, Task, For
<1>5. /\ ts2 \in Seq(Task) /\ Len(rest) \in Nat /\ ts2[Len(rest) + 1] = h /\ Len(rest) + 1 \in 1..Len(ts2)
      /\ \A i \in 1..Len(rest) : ts2[i] = rest[i] /\ i \in 1..Len(ts2) /\ i < Len(rest) + 1
      /\ \A i \in 1..Len(ts2) : i \in 1..Len(rest) \/ i = Len(rest) + 1
  BY <1>3, <1>4, Queueing
<1>6. t.kind = "completion" /\ Busy(t) /\ Busy(h) /\ Len(ts) \in Nat
  BY <1>2, <1>4 DEF Busy
<1> HIDE DEF t, h, rest, ts2
(* Where a task has gone. *)
<1> DEFINE To(i) == IF i = 1 THEN Len(rest) + 1 ELSE i - 1
<1>7. ASSUME NEW i \in 1..Len(ts)
      PROVE  /\ To(i) \in 1..Len(ts2) /\ For(ts2[To(i)]) = For(ts[i]) /\ (Busy(ts[i]) => Busy(ts2[To(i)]))
             /\ i # 1 => ts2[To(i)] = ts[i]
  <2>1. CASE i = 1
    BY <1>3, <1>4, <1>5, <1>6, <2>1
  <2>2. CASE i # 1
    BY <1>3, <1>5, <2>2
  <2> QED BY <2>1, <2>2
(* Where it comes from. *)
<1> DEFINE From(i) == IF i = Len(rest) + 1 THEN 1 ELSE i + 1
<1>8. ASSUME NEW i \in 1..Len(ts2)
      PROVE  /\ From(i) \in 1..Len(ts) /\ ts2[i].conn = ts[From(i)].conn /\ ts2[i].op = ts[From(i)].op
             /\ For(ts2[i]) = For(ts[From(i)]) /\ (Busy(ts2[i]) => Busy(ts[From(i)]))
  <2>1. CASE i = Len(rest) + 1
    BY <1>3, <1>4, <1>5, <1>6, <2>1
  <2>2. CASE i \in 1..Len(rest)
    <3>1. i # Len(rest) + 1
      BY <1>5, <2>2
    <3> QED BY <1>3, <1>5, <2>2, <3>1
  <2> QED BY <1>5, <2>1, <2>2
<1>9. \A i, j \in 1..Len(ts2) : From(i) = From(j) => i = j
  <2>1. \A n \in Nat : \A i, j \in 1..n + 1 :
           (IF i = n + 1 THEN 1 ELSE i + 1) = (IF j = n + 1 THEN 1 ELSE j + 1) => i = j
    OBVIOUS
  <2>2. \A i \in 1..Len(ts2) : i \in 1..Len(rest) + 1
    BY <1>5
  <2> QED BY <1>5, <2>1, <2>2
<1> HIDE DEF To, From
<1>10. Tokens(cs2, ts2, W)
  <2>1. \A i \in 1..Len(ts2) : Busy(ts2[i]) =>
          For(ts2[i]) \in W /\ ts2[i].op \notin cs2[ts2[i].conn].pending
    BY <1>2, <1>8 DEF Tokens
  <2>2. \A i, j \in 1..Len(ts2) : Busy(ts2[i]) /\ Busy(ts2[j]) /\ For(ts2[i]) = For(ts2[j]) => i = j
    <3> SUFFICES ASSUME NEW i \in 1..Len(ts2), NEW j \in 1..Len(ts2),
                        Busy(ts2[i]), Busy(ts2[j]), For(ts2[i]) = For(ts2[j])
                 PROVE  i = j
      OBVIOUS
    <3>1. From(i) = From(j)
      BY <1>2, <1>8 DEF Tokens
    <3> QED BY <1>9, <3>1
  <2>3. \A w \in W : w[2] \in cs2[w[1]].pending \/ \E i \in 1..Len(ts2) : Busy(ts2[i]) /\ For(ts2[i]) = w
    BY <1>2, <1>7 DEF Tokens
  <2> QED BY <1>2, <2>1, <2>2, <2>3 DEF Tokens
<1>11. ASSUME NEW w \in Conns \X Ops, InReactor(cs2, ts, w), w # For(t) PROVE InReactor(cs2, ts2, w)
  <2>1. CASE w[2] \in cs2[w[1]].pending
    BY <2>1 DEF InReactor
  <2>2. CASE \E i \in 1..Len(ts) : ts[i].kind = "completion" /\ For(ts[i]) = w
    <3>1. PICK i \in 1..Len(ts) : ts[i].kind = "completion" /\ For(ts[i]) = w
      BY <2>2
    <3>2. i # 1
      BY <1>3, <1>11, <3>1
    <3> QED BY <1>7, <3>1, <3>2 DEF InReactor
  <2> QED BY <1>11, <2>1, <2>2 DEF InReactor
<1>12. \A c \in Conns : Timed(c) \subseteq Conns \X Ops
  BY TimedOps
<1>13. ASSUME NEW i \in 1..Len(rest), NEW w, HandlerAfter(ts, i + 1, w) PROVE HandlerAfter(ts2, i, w)
  <2>1. PICK j \in 1..Len(ts) : i + 1 < j /\ ts[j].kind = "handler" /\ For(ts[j]) = w
    BY <1>13 DEF HandlerAfter
  <2>2. j # 1 /\ i < j - 1 /\ j - 1 \in 1..Len(rest)
    BY <1>3, <1>6, <2>1
  <2>3. j - 1 \in 1..Len(ts2) /\ ts2[j - 1] = ts[j]
    BY <1>3, <1>5, <2>2
  <2> QED BY <2>1, <2>2, <2>3 DEF HandlerAfter
<1>14. Timers(cs2, ts2)
  <2>1. ASSUME NEW c \in Conns, cs2[c].timer = "armed" PROVE \E w \in Timed(c) : InReactor(cs2, ts2, w)
    <3>1. PICK w \in Timed(c) : InReactor(cs2, ts, w)
      BY <1>2, <2>1 DEF Timers
    <3>2. w # For(t)
      BY <2>1 DEF t
    <3> QED BY <1>11, <1>12, <3>1, <3>2
  <2>2. ASSUME NEW i \in 1..Len(ts2), ts2[i].kind = "expiry"
        PROVE  \E w \in Timed(ts2[i].conn) : InReactor(cs2, ts2, w) \/ HandlerAfter(ts2, i, w)
    <3>1. i \in 1..Len(rest) /\ ts2[i] = rest[i] /\ i < Len(rest) + 1
      BY <1>4, <1>5, <2>2
    <3>2. i + 1 \in 1..Len(ts) /\ ts2[i] = ts[i + 1] /\ ts[i + 1].conn \in Conns
      <4>1. i + 1 \in 1..Len(ts) /\ ts2[i] = ts[i + 1]
        BY <1>3, <3>1
      <4>2. ts[i + 1] \in Task
        BY <1>2, <4>1
      <4> QED BY <4>1, <4>2 DEF Task
    <3>3. PICK w \in Timed(ts[i + 1].conn) : InReactor(cs2, ts, w) \/ HandlerAfter(ts, i + 1, w)
      BY <1>2, <2>2, <3>2 DEF Timers
    <3>4. CASE w = For(t)
      BY <1>4, <1>5, <3>1, <3>2, <3>3, <3>4 DEF HandlerAfter
    <3>5. CASE w # For(t)
      BY <1>11, <1>12, <1>13, <3>1, <3>2, <3>3, <3>5
    <3> QED BY <3>4, <3>5
  <2> QED BY <2>1, <2>2 DEF Timers
<1> QED BY <1>2, <1>5, <1>10, <1>14 DEF Legal, ts2, h, rest, t

(* A user's handler runs: what it waited for is over, and it may start     *)
(* what is not under way.                                                  *)
LEMMA HandlerRuns ==
    ASSUME NEW cs, NEW ts, NEW W, Legal(cs, ts, W), ts # <<>>, Head(ts).kind = "handler",
           NEW N, N \subseteq Conns \X Ops, \A w \in N : w \in W => w = For(Head(ts)),
           NEW cs2 \in [Conns -> Connection],
           \A w \in Conns \X Ops : w[2] \in cs2[w[1]].pending <=> w[2] \in cs[w[1]].pending \/ w \in N,
           \A c \in Conns : cs2[c].timer = "armed" =>
               cs[c].timer = "armed" \/ \E w \in Timed(c) : w \in N
    PROVE  Legal(cs2, Tail(ts), (W \ {For(Head(ts))}) \union N)
<1> DEFINE t == Head(ts)  ts2 == Tail(ts)  W2 == (W \ {For(Head(ts))}) \union N
<1>1. /\ cs \in [Conns -> Connection] /\ ts \in Seq(Task) /\ W \subseteq Conns \X Ops
      /\ Tokens(cs, ts, W) /\ Timers(cs, ts)
  BY DEF Legal
<1>2. /\ ts2 \in Seq(Task) /\ t = ts[1] /\ t \in Task /\ 1 \in 1..Len(ts) /\ t.kind = "handler" /\ Busy(t)
      /\ \A i \in 1..Len(ts2) : i + 1 \in 1..Len(ts) /\ i + 1 # 1 /\ ts2[i] = ts[i + 1]
      /\ \A i \in 1..Len(ts) : i # 1 => i - 1 \in 1..Len(ts2) /\ ts2[i - 1] = ts[i]
  BY <1>1, Running DEF Busy
<1>3. \A i \in 1..Len(ts) : ts[i] \in Task /\ ts[i].conn \in Conns /\ For(ts[i]) \in Conns \X Ops
                            /\ For(ts[i])[1] = ts[i].conn /\ For(ts[i])[2] = ts[i].op
  <2>1. \A i \in 1..Len(ts) : ts[i] \in Task
    BY <1>1
  <2> QED BY <2>1 DEF Task, For
<1>4. \A c \in Conns : Timed(c) \subseteq Conns \X Ops
  BY TimedOps
<1>5. Len(ts) \in Nat /\ Len(ts2) \in Nat /\ W2 \subseteq Conns \X Ops
  BY <1>1, <1>2
<1>6. For(t) \in W /\ For(t)[2] \notin cs[For(t)[1]].pending
      /\ \A i \in 1..Len(ts) : Busy(ts[i]) /\ i # 1 => For(ts[i]) # For(t)
  BY <1>1, <1>2, <1>3 DEF Tokens
<1>7. \A w : w \in W2 <=> (w \in W /\ w # For(t)) \/ w \in N
  OBVIOUS
<1>8. \A w \in N : w \in W => w = For(t)
  OBVIOUS
<1> HIDE DEF t, ts2, W2
<1>9. Tokens(cs2, ts2, W2)
  <2>1. \A w \in Conns \X Ops : w[2] \in cs2[w[1]].pending => w \in W2
    BY <1>1, <1>6, <1>7 DEF Tokens
  <2>2. ASSUME NEW i \in 1..Len(ts2), Busy(ts2[i])
        PROVE  For(ts2[i]) \in W2 /\ ts2[i].op \notin cs2[ts2[i].conn].pending
    <3>1. i + 1 \in 1..Len(ts) /\ i + 1 # 1 /\ ts2[i] = ts[i + 1]
      BY <1>2
    <3>2. For(ts[i + 1]) \in W /\ ts[i + 1].op \notin cs[ts[i + 1].conn].pending
      BY <1>1, <2>2, <3>1 DEF Tokens
    <3>3. For(ts[i + 1]) # For(t) /\ For(ts[i + 1]) \notin N
      BY <1>6, <1>8, <2>2, <3>1, <3>2
    <3>4. For(ts[i + 1])[2] \notin cs2[For(ts[i + 1])[1]].pending
      BY <1>3, <3>1, <3>2, <3>3
    <3> QED BY <1>3, <1>7, <3>1, <3>2, <3>3, <3>4
  <2>3. ASSUME NEW i \in 1..Len(ts2), NEW j \in 1..Len(ts2),
               Busy(ts2[i]), Busy(ts2[j]), For(ts2[i]) = For(ts2[j])
        PROVE  i = j
    <3>1. /\ i + 1 \in 1..Len(ts) /\ ts2[i] = ts[i + 1]
          /\ j + 1 \in 1..Len(ts) /\ ts2[j] = ts[j + 1]
      BY <1>2
    <3>2. i + 1 = j + 1
      BY <1>1, <2>3, <3>1 DEF Tokens
    <3> QED BY <1>5, <3>2
  <2>4. ASSUME NEW w \in W2
        PROVE  w[2] \in cs2[w[1]].pending \/ \E i \in 1..Len(ts2) : Busy(ts2[i]) /\ For(ts2[i]) = w
    <3>1. w \in Conns \X Ops
      BY <1>5
    <3>2. CASE w \in N
      BY <3>1, <3>2
    <3>3. CASE w \in W /\ w # For(t) /\ w[2] \in cs[w[1]].pending
      BY <3>1, <3>3
    <3>4. CASE w \in W /\ w # For(t) /\ \E i \in 1..Len(ts) : Busy(ts[i]) /\ For(ts[i]) = w
      <4>1. PICK i \in 1..Len(ts) : Busy(ts[i]) /\ For(ts[i]) = w
        BY <3>4
      <4>2. i # 1
        BY <1>2, <3>4, <4>1
      <4> QED BY <1>2, <4>1, <4>2
    <3> QED BY <1>1, <1>7, <3>2, <3>3, <3>4 DEF Tokens
  <2> QED BY <2>1, <2>2, <2>3, <2>4 DEF Tokens
<1>10. ASSUME NEW w \in Conns \X Ops, InReactor(cs, ts, w) PROVE InReactor(cs2, ts2, w)
  <2>1. CASE w[2] \in cs[w[1]].pending
    BY <2>1 DEF InReactor
  <2>2. CASE \E i \in 1..Len(ts) : ts[i].kind = "completion" /\ For(ts[i]) = w
    <3>1. PICK i \in 1..Len(ts) : ts[i].kind = "completion" /\ For(ts[i]) = w
      BY <2>2
    <3>2. i # 1
      BY <1>2, <3>1
    <3> QED BY <1>2, <3>1, <3>2 DEF InReactor
  <2> QED BY <1>10, <2>1, <2>2 DEF InReactor
<1>11. ASSUME NEW i \in 1..Len(ts2), NEW w, HandlerAfter(ts, i + 1, w) PROVE HandlerAfter(ts2, i, w)
  <2>1. PICK j \in 1..Len(ts) : i + 1 < j /\ ts[j].kind = "handler" /\ For(ts[j]) = w
    BY <1>11 DEF HandlerAfter
  <2>2. j # 1 /\ i < j - 1
    BY <1>5, <2>1
  <2> QED BY <1>2, <2>1, <2>2 DEF HandlerAfter
<1>12. Timers(cs2, ts2)
  <2>1. ASSUME NEW c \in Conns, cs2[c].timer = "armed" PROVE \E w \in Timed(c) : InReactor(cs2, ts2, w)
    <3>1. CASE cs[c].timer = "armed"
      BY <1>1, <1>4, <1>10, <3>1 DEF Timers
    <3>2. CASE \E w \in Timed(c) : w \in N
      BY <1>4, <3>2 DEF InReactor
    <3> QED BY <2>1, <3>1, <3>2
  <2>2. ASSUME NEW i \in 1..Len(ts2), ts2[i].kind = "expiry"
        PROVE  \E w \in Timed(ts2[i].conn) : InReactor(cs2, ts2, w) \/ HandlerAfter(ts2, i, w)
    <3>1. i + 1 \in 1..Len(ts) /\ ts2[i] = ts[i + 1]
      BY <1>2
    <3>2. PICK w \in Timed(ts[i + 1].conn) : InReactor(cs, ts, w) \/ HandlerAfter(ts, i + 1, w)
      BY <1>1, <2>2, <3>1 DEF Timers
    <3> QED BY <1>3, <1>4, <1>10, <1>11, <3>1, <3>2
  <2> QED BY <2>1, <2>2 DEF Timers
<1> QED BY <1>1, <1>2, <1>5, <1>9, <1>12 DEF Legal, ts2, W2

(* Nothing is awaited: nothing is under way. *)
LEMMA NothingAwaited ==
    ASSUME NEW cs, NEW ts, Legal(cs, ts, {})
    PROVE  ts = <<>> /\ \A c \in Conns : cs[c].pending = {} /\ cs[c].timer = "off"
<1>1. /\ cs \in [Conns -> Connection] /\ ts \in Seq(Task)
      /\ Tokens(cs, ts, {}) /\ Timers(cs, ts)
  BY DEF Legal
<1>2. \A c \in Conns : cs[c].pending = {}
  <2> SUFFICES ASSUME NEW c \in Conns, NEW op \in cs[c].pending PROVE FALSE
    OBVIOUS
  <2>1. <<c, op>> \in Conns \X Ops
    BY <1>1 DEF Connection
  <2> QED BY <1>1, <2>1 DEF Tokens
<1>3. \A i \in 1..Len(ts) : ~Busy(ts[i]) /\ ts[i] \in Task
  BY <1>1 DEF Tokens
<1>4. \A w \in Conns \X Ops : ~InReactor(cs, ts, w)
  BY <1>2, <1>3 DEF InReactor, Busy
<1>5. \A c \in Conns : Timed(c) \subseteq Conns \X Ops
  BY TimedOps
<1>6. ts = <<>>
  <2> SUFFICES ASSUME ts # <<>> PROVE FALSE
    OBVIOUS
  <2>1. 1 \in 1..Len(ts) /\ ts[1].kind = "expiry" /\ ts[1].conn \in Conns
    BY <1>1, <1>3, Running DEF Busy, Task
  <2>2. PICK w \in Timed(ts[1].conn) : InReactor(cs, ts, w) \/ HandlerAfter(ts, 1, w)
    BY <1>1, <2>1 DEF Timers
  <2> QED BY <1>3, <1>4, <1>5, <2>1, <2>2 DEF HandlerAfter, Busy
<1>7. \A c \in Conns : cs[c].timer = "off"
  <2>1. \A c \in Conns : cs[c].timer # "armed"
    BY <1>1, <1>4, <1>5 DEF Timers
  <2> QED BY <1>1, <2>1 DEF Connection
<1> QED BY <1>2, <1>6, <1>7

(* The operations a service starts with. *)
LEMMA OperationsStart ==
    ASSUME NEW N, N \subseteq Conns \X Ops,
           NEW cs2 \in [Conns -> Connection],
           \A w \in Conns \X Ops : w[2] \in cs2[w[1]].pending <=> w \in N,
           \A c \in Conns : cs2[c].timer = "armed" => \E w \in Timed(c) : w \in N
    PROVE  Legal(cs2, <<>>, N)
<1>1. <<>> \in Seq(Task) /\ \A i \in 1..Len(<<>>) : FALSE
  OBVIOUS
<1>2. Tokens(cs2, <<>>, N)
  BY <1>1 DEF Tokens
<1>3. Timers(cs2, <<>>)
  <2>1. \A c \in Conns : Timed(c) \subseteq Conns \X Ops
    BY TimedOps
  <2> QED BY <1>1, <2>1 DEF Timers, InReactor
<1> QED BY <1>1, <1>2, <1>3 DEF Legal

(***************************************************************************)
(* The steps of the peers, the reactor and the connections.                *)
(***************************************************************************)

(* The reactor has an outcome: the operation moves to the run queue. *)
LEMMA CompletesKeeps ==
    ASSUME NEW W, Legal(conn, tasks, W),
           NEW c \in Conns, NEW op \in Ops, NEW r \in Results, Completes(op, c, r)
    PROVE  Legal(conn', tasks', W)
<1>1. conn \in [Conns -> Connection] /\ op \in conn[c].pending
  BY DEF Legal, Completes
<1>2. /\ Completion(op, c, r) \in Task /\ Completion(op, c, r).kind = "completion"
      /\ For(Completion(op, c, r)) = <<c, op>>
  BY DEF Completion, Task, For
<1>3. /\ conn' \in [Conns -> Connection] /\ TimersRun(conn, conn')
      /\ \A d \in Conns : conn'[d].pending = IF d = c THEN conn[d].pending \ {op} ELSE conn[d].pending
  <2> DEFINE k == [conn[c] EXCEPT !.pending = @ \ {op}]
  <2>1. k \in Connection /\ k.pending = conn[c].pending \ {op} /\ k.timer = conn[c].timer
    BY <1>1 DEF Connection
  <2>2. conn' = [conn EXCEPT ![c] = k]
    BY <1>1 DEF Completes
  <2> HIDE DEF k
  <2>3. conn' \in [Conns -> Connection] /\ conn'[c] = k /\ \A d \in Conns \ {c} : conn'[d] = conn[d]
    BY ONLY <1>1, <2>1, <2>2
  <2> QED BY <2>1, <2>3 DEF TimersRun
<1>4. tasks' = Append(tasks, Completion(op, c, r))
  BY DEF Completes
<1> QED BY <1>1, <1>2, <1>3, <1>4, CompletionQueues

(* What a peer does to its socket starts and ends no operation. *)
LEMMA PeersKeep ==
    ASSUME NEW W, Legal(conn, tasks, W), NEW c \in Conns, PeerCloses(c) \/ PeerResets(c)
    PROVE  Legal(conn', tasks', W)
<1>1. conn \in [Conns -> Connection] /\ tasks' = tasks
  BY DEF Legal, PeerCloses, PeerResets
<1>2. conn' \in [Conns -> Connection] /\ SamePending(conn, conn') /\ TimersRun(conn, conn')
  BY <1>1 DEF PeerCloses, PeerResets, Connection, SamePending, TimersRun
<1> QED BY <1>1, <1>2, SocketsChange

(* A timer expires for an operation that has not been handled yet. *)
LEMMA ExpiresKeeps ==
    ASSUME NEW W, Legal(conn, tasks, W), NEW c \in Conns, TimerExpires(c)
    PROVE  Legal(conn', tasks', W)
<1>1. conn \in [Conns -> Connection] /\ conn[c].timer = "armed" /\ tasks' = Append(tasks, Expiry(c))
  BY DEF Legal, TimerExpires
<1>2. conn' \in [Conns -> Connection] /\ SamePending(conn, conn') /\ TimersRun(conn, conn')
  BY <1>1 DEF TimerExpires, Connection, SamePending, TimersRun
<1> QED BY <1>1, <1>2, ExpiryQueues

(* What the calls of a handler make of a connection.                       *)
LEMMA CallsTyped ==
    ASSUME NEW k \in Connection
    PROVE  /\ Disarmed(k) \in Connection /\ Disarmed(k).pending = k.pending /\ Disarmed(k).timer = "off"
           /\ ShutDown(k) \in Connection /\ ShutDown(k).pending = k.pending /\ ShutDown(k).timer = k.timer
           /\ Disconnected(k) \in Connection /\ Disconnected(k).pending = k.pending
           /\ Disconnected(k).timer = "off"
           /\ ReadStarted(k) \in Connection /\ ReadStarted(k).pending = k.pending \union {"read"}
           /\ UntimedWriteStarted(k) \in Connection
           /\ UntimedWriteStarted(k).pending = k.pending \union {"write"}
           /\ UntimedWriteStarted(k).timer = k.timer
           /\ ConnectStarted(k) \in Connection /\ ConnectStarted(k).pending = k.pending \union {"connect"}
<1>1. ASSUME NEW j \in Connection
      PROVE  /\ Disarmed(j) \in Connection /\ Disarmed(j).pending = j.pending /\ Disarmed(j).timer = "off"
             /\ Armed(j) \in Connection /\ Armed(j).pending = j.pending
  BY DEF Disarmed, Armed, Connection
<1>2. ASSUME NEW j \in Connection
      PROVE  ShutDown(j) \in Connection /\ ShutDown(j).pending = j.pending /\ ShutDown(j).timer = j.timer
  BY DEF ShutDown, CanBeShutdown, Connection
<1>3. ASSUME NEW j \in Connection, NEW op \in Ops
      PROVE  /\ [j EXCEPT !.pending = @ \union {op}] \in Connection
             /\ [j EXCEPT !.pending = @ \union {op}].pending = j.pending \union {op}
             /\ [j EXCEPT !.pending = @ \union {op}].timer = j.timer
  BY DEF Connection
<1>4. ASSUME NEW j \in Connection
      PROVE  /\ [j EXCEPT !.socket = "closed"] \in Connection
             /\ [j EXCEPT !.socket = "closed"].pending = j.pending
             /\ [j EXCEPT !.socket = "closed"].timer = j.timer
  BY DEF Connection
<1>5. Disconnected(k) \in Connection /\ Disconnected(k).pending = k.pending /\ Disconnected(k).timer = "off"
  <2>1. Disarmed(k) \in Connection /\ ShutDown(Disarmed(k)) \in Connection
    BY <1>1, <1>2
  <2> QED BY <1>1, <1>2, <1>4, <2>1 DEF Disconnected
<1>6. {"read", "write", "connect"} \subseteq Ops
  BY DEF Ops
<1>7. ReadStarted(k) \in Connection /\ ReadStarted(k).pending = k.pending \union {"read"}
  BY <1>1, <1>3, <1>6 DEF ReadStarted
<1>8. /\ UntimedWriteStarted(k) \in Connection /\ UntimedWriteStarted(k).timer = k.timer
      /\ UntimedWriteStarted(k).pending = k.pending \union {"write"}
  BY <1>3, <1>6 DEF UntimedWriteStarted
<1>9. ConnectStarted(k) \in Connection /\ ConnectStarted(k).pending = k.pending \union {"connect"}
  <2>1. CASE k.connected
    BY <1>1, <1>3, <1>5, <1>6, <2>1 DEF ConnectStarted
  <2>2. CASE ~k.connected
    BY <1>1, <1>3, <1>6, <2>2 DEF ConnectStarted
  <2> QED BY <2>1, <2>2
<1> QED BY <1>1, <1>2, <1>5, <1>7, <1>8, <1>9

(* The completions that the connections run themselves, and the expiries.  *)
LEMMA ConnectionsKeep ==
    ASSUME NEW W, Legal(conn, tasks, W), OnRead \/ OnWrite(TRUE) \/ OnConnect \/ OnTimeout
    PROVE  Legal(conn', tasks', W)
<1> DEFINE t == Head(tasks)  c == t.conn  k == conn[c]
<1>1. conn \in [Conns -> Connection] /\ tasks \in Seq(Task) /\ tasks # <<>>
  BY DEF Legal, OnRead, OnWrite, OnConnect, OnTimeout, Runs
<1>2. t \in Task /\ c \in Conns /\ k \in Connection /\ For(t) = <<c, t.op>>
  BY <1>1, Running DEF Task, For
<1>3. ASSUME NEW j \in Connection, conn' = [conn EXCEPT ![c] = j]
      PROVE  /\ conn' \in [Conns -> Connection] /\ conn'[c] = j
             /\ \A d \in Conns : d # c => conn'[d] = conn[d]
  BY <1>1, <1>2, <1>3
<1>4. ASSUME NEW j \in Connection, conn' = [conn EXCEPT ![c] = j], j.pending = k.pending,
             j.timer = "off" \/ (j.timer = k.timer /\ t.op = "write"),
             t.kind = "completion", PostHandler
      PROVE  Legal(conn', tasks', W)
  <2>1. conn' \in [Conns -> Connection] /\ SamePending(conn, conn') /\ TimersRun(conn, conn')
    BY <1>3, <1>4 DEF SamePending, TimersRun
  <2>2. \A d \in Conns : conn'[d].timer = "armed" => For(t) \notin Timed(d)
    <3>1. \A d \in Conns : For(t) \in Timed(d) => d = c /\ t.op # "write"
      BY <1>2 DEF Timed
    <3>2. conn'[c].timer = "off" \/ t.op = "write"
      BY <1>3, <1>4
    <3> QED BY <3>1, <3>2
  <2>3. tasks' = Append(Tail(tasks), Handler(t))
    BY <1>4 DEF PostHandler
  <2> QED BY <1>1, <1>4, <2>1, <2>2, <2>3, HandlerQueues
<1>5. ASSUME NEW j \in Connection
      PROVE  /\ Marked(j, t) \in Connection
             /\ Marked(j, t).pending = j.pending /\ Marked(j, t).timer = j.timer
  BY DEF Marked, Connection
<1>6. Disarmed(k) \in Connection /\ Disarmed(k).pending = k.pending /\ Disarmed(k).timer = "off"
  BY <1>2, CallsTyped
<1>7. CASE OnRead
  <2>1. conn' = [conn EXCEPT ![c] = Marked(Disarmed(k), t)] /\ t.kind = "completion" /\ PostHandler
    BY <1>7 DEF OnRead, Runs
  <2> QED BY <1>4, <1>5, <1>6, <2>1
<1>8. CASE OnWrite(TRUE)
  <2>1. /\ conn' = [conn EXCEPT ![c] = Marked(k, t)] /\ t.kind = "completion" /\ t.op = "write"
        /\ PostHandler
    BY <1>8 DEF OnWrite, Runs
  <2> QED BY <1>2, <1>4, <1>5, <2>1
<1>9. CASE OnConnect
  <2>1. t.kind = "completion" /\ t.op = "connect"
    BY <1>9 DEF OnConnect, Runs
  <2>2. CASE /\ conn' = [conn EXCEPT ![c] = [Disarmed(k) EXCEPT !.socket = "open", !.peer = "alive",
                                                                 !.connected = TRUE]]
             /\ PostHandler
    <3> DEFINE j == [Disarmed(k) EXCEPT !.socket = "open", !.peer = "alive", !.connected = TRUE]
    <3>1. j \in Connection /\ j.pending = k.pending /\ j.timer = "off"
      BY <1>6 DEF Connection
    <3> HIDE DEF j
    <3>2. conn' = [conn EXCEPT ![c] = j]
      BY <2>2 DEF j
    <3> QED BY <1>4, <2>1, <2>2, <3>1, <3>2
  <2>3. CASE conn' = [conn EXCEPT ![c] = Disarmed(k)] /\ PostHandler
    BY <1>4, <1>6, <2>1, <2>3
  <2>4. CASE conn' = [conn EXCEPT ![c] = ConnectStarted(Disarmed(k))] /\ tasks' = Tail(tasks)
    <3> DEFINE j == ConnectStarted(Disarmed(k))
    <3>1. j \in Connection /\ j.pending = k.pending \union {"connect"}
      BY <1>6, CallsTyped
    <3> HIDE DEF j
    <3>2. conn' = [conn EXCEPT ![c] = j]
      BY <2>4 DEF j
    <3>3. /\ conn' \in [Conns -> Connection] /\ conn'[c] = j
          /\ \A d \in Conns : d # c => conn'[d] = conn[d]
      BY <1>3, <3>1, <3>2
    <3>4. ASSUME NEW w \in Conns \X Ops
          PROVE  w[2] \in conn'[w[1]].pending <=> w[2] \in conn[w[1]].pending \/ (Busy(t) /\ w = For(t))
      <4>1. w = For(t) <=> w[1] = c /\ w[2] = "connect"
        BY <1>2, <2>1
      <4>2. Busy(t)
        BY <2>1 DEF Busy
      <4> QED BY <3>1, <3>3, <4>1, <4>2
    <3>5. \A d \in Conns : conn'[d].timer = "armed" =>
             conn[d].timer = "armed" \/ (Busy(t) /\ For(t) \in Timed(d))
      BY <1>2, <2>1, <3>3 DEF Busy, Timed
    <3> QED BY <1>1, <2>1, <2>4, <3>3, <3>4, <3>5, TaskRuns
  <2> QED BY <1>9, <2>2, <2>3, <2>4 DEF OnConnect
<1>10. CASE OnTimeout
  <2> DEFINE j == ShutDown(Disarmed(k))
  <2>1. /\ conn' = [conn EXCEPT ![c] = j] /\ t.kind = "expiry" /\ tasks' = Tail(tasks)
    BY <1>10 DEF OnTimeout
  <2>2. j \in Connection /\ j.pending = k.pending /\ j.timer = "off"
    BY <1>6, CallsTyped
  <2> HIDE DEF j
  <2>3. /\ conn' \in [Conns -> Connection] /\ conn'[c] = j
        /\ \A d \in Conns : d # c => conn'[d] = conn[d]
    BY <1>3, <2>1, <2>2
  <2>4. ~Busy(t)
    BY <2>1 DEF Busy
  <2>5. \A w \in Conns \X Ops : w[2] \in conn'[w[1]].pending <=> w[2] \in conn[w[1]].pending
    BY <2>2, <2>3
  <2>6. \A d \in Conns : conn'[d].timer = "armed" => conn[d].timer = "armed"
    BY <2>2, <2>3
  <2> QED BY <1>1, <2>1, <2>3, <2>4, <2>5, <2>6, TaskRuns
<1> QED BY <1>7, <1>8, <1>9, <1>10

(* No step of the peers, the reactor or a connection is one of a service. *)
LEMMA EnvironmentKeeps ==
    ASSUME NEW W, Legal(conn, tasks, W), chunks \in [Conns -> 0 .. MaxChunks], MaxChunks \in Nat,
           RelayAssumption, Environment
    PROVE  /\ Legal(conn', tasks', W) /\ UNCHANGED <<phase, loop, stops>>
           /\ chunks' \in [Conns -> 0 .. MaxChunks]
<1> USE DEF relayVars
<1>1. {"ok", "more", "eof", "aborted", "failed"} = Results /\ {"read", "write", "connect"} \subseteq Ops
      /\ server \in Conns
  BY DEF Results, Ops, RelayAssumption
<1>2. CASE RunConnection
  BY <1>2, ConnectionsKeep DEF RunConnection
<1>3. ASSUME NEW r \in Results, Connects(r)
      PROVE  Legal(conn', tasks', W) /\ UNCHANGED relayVars
  BY <1>1, <1>3, CompletesKeeps DEF Connects
<1>4. ASSUME NEW c \in Conns, PeerSends(c)
      PROVE  /\ Legal(conn', tasks', W) /\ UNCHANGED <<phase, loop, stops>>
             /\ chunks' \in [Conns -> 0 .. MaxChunks]
  <2>1. Completes("read", c, "ok")
    BY <1>4 DEF PeerSends
  <2>2. Legal(conn', tasks', W)
    BY <1>1, <2>1, CompletesKeeps
  <2> QED BY <1>4, <2>2 DEF PeerSends
<1>5. ASSUME NEW c \in Conns, ReadEnds(c) \/ PeerTakes(c) \/ WriteEnds(c)
      PROVE  Legal(conn', tasks', W) /\ UNCHANGED relayVars
  BY <1>1, <1>5, CompletesKeeps DEF ReadEnds, PeerTakes, WriteEnds
<1>6. ASSUME NEW c \in Conns, PeerLeaves(c)
      PROVE  Legal(conn', tasks', W) /\ UNCHANGED relayVars
  BY <1>6, PeersKeep DEF PeerLeaves
<1>7. ASSUME NEW c \in Conns, Expires(c)
      PROVE  Legal(conn', tasks', W) /\ UNCHANGED relayVars
  BY <1>7, ExpiresKeeps DEF Expires
<1> QED BY <1>2, <1>3, <1>4, <1>5, <1>6, <1>7 DEF Environment, RunConnection

(***************************************************************************)
(* What reading frames and injecting messages does to the two sides.       *)
(***************************************************************************)

PipeType == [intercept : BOOLEAN, closed : BOOLEAN, by : Conns, why : {"open", "frame", "error", "long"},
             frames : [Conns -> Seq({"pong"})], messages : [Conns -> Seq(Messages)]]

Record ==
    [conn : [Conns -> Connection], loop : [Conns -> {"unstarted", "writing", "reading", "closing", "finished"}],
     phase : {"start", "connecting", "running", "stopped"}, stops : Nat,
     pipe : PipeType, side : [Conns -> Side], closeSent : [Conns -> Nat], failed : BOOLEAN]

(* Frames only change the sides, what is queued and what is closed.        *)
SameLoops(s, r) ==
    /\ r.conn = s.conn /\ r.loop = s.loop /\ r.phase = s.phase /\ r.stops = s.stops
    /\ r.closeSent = s.closeSent

(* Only one side of the record changes. *)
LEMMA SideChanges ==
    ASSUME NEW s \in Record, NEW c \in Conns, NEW k \in Side
    PROVE  LET r == [s EXCEPT !.side[c] = k] IN
           /\ r \in Record /\ SameLoops(s, r) /\ r.pipe = s.pipe /\ r.failed = s.failed
           /\ r.side = [s.side EXCEPT ![c] = k]
BY DEF Record, SameLoops

(* The end of a message is being sent for c, or everything is at rest.     *)
Ending(p, sd, c, op) ==
    /\ \A d \in Conns :
          /\ sd[d].parser.effIn = "none" /\ sd[d].held = "none" /\ ~sd[d].torn
          /\ p.intercept => sd[d].ready
          /\ d # c => sd[d].parser.effOut = "none" /\ sd[d].sent = "none"
    /\ sd[c].parser.effOut \in {"none", op} /\ sd[c].sent \in {"none", "current"}

(* serialize keeps what is being read, and what it writes until it ends. *)
LEMMA SerializedTyped ==
    ASSUME NEW p \in Parser, NEW m, m.op \in Messages, m.fin \in BOOLEAN
    PROVE  /\ Serialized(p, m) \in Parser /\ Serialized(p, m).effIn = p.effIn
           /\ Serialized(p, m).effOut = IF m.fin THEN "none" ELSE m.op
BY DEF Serialized, Parser, Messages

(* send_frame ends the message it is sending, or leaves it being sent. *)
LEMMA SendFrameTyped ==
    ASSUME NEW s \in Record, NEW c \in Conns, NEW m, m.op \in Messages, m.fin \in BOOLEAN
    PROVE  LET r == SendFrame(s, c, m) IN
           /\ r \in Record /\ SameLoops(s, r) /\ r.pipe = s.pipe
           /\ s.failed => r.side = s.side /\ r.failed
           /\ ~s.failed /\ Ending(s.pipe, s.side, c, m.op) =>
                 ~r.failed /\ (IF m.fin THEN Resting(r.pipe, r.side) ELSE Ending(r.pipe, r.side, c, m.op))
<1> DEFINE r == SendFrame(s, c, m)
<1>1. s.side \in [Conns -> Side] /\ s.side[c] \in Side /\ s.side[c].parser \in Parser
      /\ s.side[c].sent \in Parts /\ s.side[c].torn \in BOOLEAN
  BY DEF Record, Side
<1>2. CASE s.failed \/ Unexpected(s.side[c].parser, m)
  <2>1. r = [s EXCEPT !.failed = TRUE]
    BY <1>2 DEF SendFrame
  <2>2. r \in Record /\ SameLoops(s, r) /\ r.pipe = s.pipe /\ r.side = s.side /\ r.failed
    BY <2>1 DEF Record, SameLoops
  <2>3. Ending(s.pipe, s.side, c, m.op) => ~Unexpected(s.side[c].parser, m)
    BY DEF Ending, Unexpected
  <2> QED BY <1>2, <2>2, <2>3
<1>3. CASE ~(s.failed \/ Unexpected(s.side[c].parser, m))
  <2> DEFINE a == Serialized(s.side[c].parser, m)
             b == IF m.fin THEN "none" ELSE IF s.side[c].sent = "earlier" THEN "earlier" ELSE "current"
             d == s.side[c].torn \/ s.side[c].sent = "earlier"
             k == [s.side[c] EXCEPT !.parser = a, !.sent = b, !.torn = d]
  <2>1. /\ a \in Parser /\ a.effIn = s.side[c].parser.effIn
        /\ a.effOut = IF m.fin THEN "none" ELSE m.op
    BY <1>1, SerializedTyped
  <2>2. b \in Parts /\ d \in BOOLEAN
    BY <1>1 DEF Parts
  <2>3. r = [s EXCEPT !.side[c].parser = a, !.side[c].sent = b, !.side[c].torn = d]
    BY <1>3 DEF SendFrame, Record, Side
  <2> HIDE DEF a, b, d
  <2>4. r = [s EXCEPT !.side[c] = k]
    BY ZenonT(60), <1>1, <2>3 DEF Record, Side
  <2>5. /\ k \in Side /\ k.parser = a /\ k.sent = b /\ k.torn = d
        /\ k.held = s.side[c].held /\ k.ready = s.side[c].ready
    BY <1>1, <2>1, <2>2 DEF Side
  <2> HIDE DEF k
  <2>6. /\ r \in Record /\ SameLoops(s, r) /\ r.pipe = s.pipe /\ r.failed = s.failed
        /\ r.side = [s.side EXCEPT ![c] = k]
    BY <2>4, <2>5, SideChanges
  <2> HIDE DEF r
  <2>7. ASSUME Ending(s.pipe, s.side, c, m.op)
        PROVE  IF m.fin THEN Resting(r.pipe, r.side) ELSE Ending(r.pipe, r.side, c, m.op)
    <3>1. r.side[c] = k /\ \A e \in Conns : e # c => r.side[e] = s.side[e]
      BY <1>1, <2>6
    <3>2. s.side[c].sent # "earlier" /\ ~s.side[c].torn
      BY <2>7 DEF Ending
    <3>3. ~k.torn /\ k.sent = IF m.fin THEN "none" ELSE "current"
      BY <2>5, <3>2 DEF b, d
    <3>4. k.parser.effIn = "none" /\ k.parser.effOut = (IF m.fin THEN "none" ELSE m.op) /\ k.held = "none"
          /\ (r.pipe.intercept => k.ready)
      BY <2>1, <2>5, <2>6, <2>7 DEF Ending
    <3>5. CASE m.fin
      BY <2>6, <2>7, <3>1, <3>3, <3>4, <3>5 DEF Ending, Resting
    <3>6. CASE ~m.fin
      BY <2>6, <2>7, <3>1, <3>3, <3>4, <3>6 DEF Ending
    <3> QED BY <3>5, <3>6
  <2> QED BY <1>3, <2>6, <2>7 DEF r
<1> QED BY <1>2, <1>3

(* A message that is sent in one piece or two leaves its side at rest.     *)
LEMMA SendMessageTyped ==
    ASSUME NEW s \in Record, NEW c \in Conns, NEW op \in Messages, NEW pieces \in Nat
    PROVE  LET r == SendMessage(s, c, op, pieces) IN
           /\ r \in Record /\ SameLoops(s, r) /\ r.pipe = s.pipe
           /\ Resting(s.pipe, s.side) => Resting(r.pipe, r.side)
<1> DEFINE first == [op |-> op, fin |-> FALSE]
           last  == [op |-> op, fin |-> TRUE]
           start == IF pieces > 1 THEN SendFrame(s, c, first) ELSE s
           r     == SendFrame(start, c, last)
<1>1. /\ start \in Record /\ SameLoops(s, start) /\ start.pipe = s.pipe
      /\ s.failed => start.side = s.side /\ start.failed
      /\ ~s.failed /\ Ending(s.pipe, s.side, c, op) => ~start.failed /\ Ending(start.pipe, start.side, c, op)
  <2>1. first.op = op /\ first.fin = FALSE
    OBVIOUS
  <2> HIDE DEF first
  <2>2. CASE pieces > 1
    BY <2>1, <2>2, SendFrameTyped
  <2>3. CASE ~(pieces > 1)
    BY <2>3 DEF SameLoops
  <2> QED BY <2>2, <2>3
<1>2. /\ r \in Record /\ SameLoops(start, r) /\ r.pipe = start.pipe
      /\ start.failed => r.side = start.side
      /\ ~start.failed /\ Ending(start.pipe, start.side, c, op) => Resting(r.pipe, r.side)
  <2>1. last.op = op /\ last.fin = TRUE
    OBVIOUS
  <2> HIDE DEF first, last, start
  <2> QED BY <1>1, <2>1, SendFrameTyped
<1>3. Resting(s.pipe, s.side) => Ending(s.pipe, s.side, c, op)
  BY DEF Resting, Ending
<1>4. SendMessage(s, c, op, pieces) = r
  BY DEF SendMessage
<1> HIDE DEF r, start
<1>5. SameLoops(s, r)
  BY <1>1, <1>2 DEF SameLoops
<1> QED BY <1>1, <1>2, <1>3, <1>4, <1>5

(* What a read may have come to, from a record that is not closed: a close *)
(* frame has been taken or not; calm: no fragments, and at rest before.    *)
Reached(s, calm) ==
    {r \in Record : /\ SameLoops(s, r)
                    /\ r.pipe.closed => r.pipe.why = "frame"
                    /\ calm => Resting(r.pipe, r.side)}

(* One side between two messages. *)
Calm(p, k) ==
    /\ k.parser.effIn = "none" /\ k.parser.effOut = "none"
    /\ k.held = "none" /\ k.sent = "none" /\ ~k.torn
    /\ p.intercept => k.ready

(* Changing one side. *)
LEMMA FieldsChange ==
    ASSUME NEW s \in Record, NEW c \in Conns, NEW k \in Side, NEW r, r = [s EXCEPT !.side[c] = k]
    PROVE  /\ r \in Record /\ SameLoops(s, r) /\ r.pipe = s.pipe /\ r.failed = s.failed
           /\ Resting(s.pipe, s.side) /\ Calm(s.pipe, k) => Resting(r.pipe, r.side)
<1>1. /\ r \in Record /\ SameLoops(s, r) /\ r.pipe = s.pipe /\ r.failed = s.failed
      /\ r.side = [s.side EXCEPT ![c] = k]
  BY SideChanges
<1>2. s.side \in [Conns -> Side]
  BY DEF Record
<1>3. r.side[c] = k /\ \A e \in Conns : e # c => r.side[e] = s.side[e]
  BY <1>1, <1>2
<1> QED BY <1>1, <1>3 DEF Resting, Calm

(* What was sent in an earlier call stays so; nothing is still nothing. *)
LEMMA AgedParts == \A p \in Parts : Aged(p) \in Parts /\ (p = "none" => Aged(p) = "none")
BY DEF Aged, Parts

(* A frame that ends its message leaves none being read. *)
LEMMA EffectiveTyped ==
    ASSUME NEW p \in Parser, NEW f \in Frame
    PROVE  /\ Effective(p, f) \in Parser /\ Effective(p, f).effOut = p.effOut
           /\ f.fin /\ p.effIn = "none" => Effective(p, f).effIn = "none"
<1>1. f.op \in Opcodes /\ f.fin \in BOOLEAN
  BY DEF Frame
<1>2. p.effIn \in Opcodes \union {"none"}
  BY DEF Parser
<1>3. CASE IsControl(f.op)
  BY <1>3 DEF Effective
<1>4. CASE ~IsControl(f.op) /\ f.fin
  BY <1>4 DEF Effective, Parser
<1>5. CASE ~IsControl(f.op) /\ ~f.fin
  <2> DEFINE v == IF p.effIn = "none" THEN f.op ELSE p.effIn
  <2>1. Effective(p, f) = [p EXCEPT !.effIn = v]
    BY <1>5 DEF Effective
  <2>2. v \in Opcodes \union {"none"}
    BY <1>1, <1>2
  <2> HIDE DEF v
  <2> QED BY <1>5, <2>1, <2>2 DEF Parser
<1> QED BY <1>3, <1>4, <1>5

(* What complete_frame returns is one frame of the type it remembers. *)
LEMMA CompletedTyped ==
    ASSUME NEW p \in Parser, NEW f \in Frame, Completed(p, f, f.body) # <<>>
    PROVE  /\ Head(Completed(p, f, f.body)).op \in Messages \union Controls
           /\ Head(Completed(p, f, f.body)).fin = f.fin /\ f.fin \in BOOLEAN
<1>1. f.fin \in BOOLEAN
  BY DEF Frame
<1> DEFINE op == ReturnedType(p, f)
           m  == [op |-> op, fin |-> f.fin, body |-> f.body]
<1>2. op \in Messages \union Controls /\ Completed(p, f, f.body) = <<m>>
  BY DEF Completed
<1>3. Head(<<m>>) = m
  OBVIOUS
<1>4. m.op = op /\ m.fin = f.fin
  OBVIOUS
<1> QED BY <1>1, <1>2, <1>3, <1>4

(* A frame of a message. *)
LEMMA MessageFrameStays ==
    ASSUME NEW s \in Record, NEW c \in Conns, NEW m, m.op \in Messages, m.fin \in BOOLEAN,
           NEW verdict \in Verdicts
    PROVE  LET r == OnMessageFrame(s, c, m, verdict) IN
           /\ r \in Record /\ SameLoops(s, r) /\ r.pipe = s.pipe
           /\ m.fin /\ Resting(s.pipe, s.side) => Resting(r.pipe, r.side)
<1>1. /\ s.side \in [Conns -> Side] /\ s.side[c] \in Side /\ s.pipe.intercept \in BOOLEAN
      /\ s.side[c].parser \in Parser /\ s.side[c].ready \in BOOLEAN /\ s.side[c].held \in Parts
      /\ s.side[c].sent \in Parts /\ s.side[c].torn \in BOOLEAN
  BY DEF Record, Side, PipeType
<1>2. Resting(s.pipe, s.side) =>
         /\ s.side[c].parser.effIn = "none" /\ s.side[c].parser.effOut = "none"
         /\ (s.pipe.intercept => s.side[c].ready)
         /\ s.side[c].held = "none" /\ s.side[c].sent = "none" /\ ~s.side[c].torn
  BY DEF Resting
<1>3. "none" \in Parts /\ "current" \in Parts /\ Verdicts \subseteq Nat
  BY DEF Parts, Verdicts
<1>4. CASE ~s.pipe.intercept
  <2> DEFINE k == [s.side[c] EXCEPT !.ready = FALSE]
             x == [s EXCEPT !.side[c].ready = FALSE]
  <2>1. x = [s EXCEPT !.side[c] = k]
    BY <1>1 DEF Record, Side
  <2>2. /\ k \in Side /\ k.parser = s.side[c].parser /\ k.held = s.side[c].held
        /\ k.sent = s.side[c].sent /\ k.torn = s.side[c].torn
    BY <1>1 DEF Side
  <2>3. OnMessageFrame(s, c, m, verdict) = SendFrame(x, c, m)
    BY <1>4 DEF OnMessageFrame
  <2> HIDE DEF x, k
  <2>9. /\ x \in Record /\ SameLoops(s, x) /\ x.pipe = s.pipe /\ x.failed = s.failed
        /\ Resting(s.pipe, s.side) /\ Calm(s.pipe, k) => Resting(x.pipe, x.side)
    <3>1. x \in Record /\ SameLoops(s, x) /\ x.pipe = s.pipe /\ x.failed = s.failed
      BY <2>1, <2>2, FieldsChange
    <3>2. ASSUME Resting(s.pipe, s.side), Calm(s.pipe, k) PROVE Resting(x.pipe, x.side)
      BY <2>1, <2>2, <3>2, FieldsChange
    <3> QED BY <3>1, <3>2
  <2>4. /\ x \in Record /\ SameLoops(s, x) /\ x.pipe = s.pipe /\ x.failed = s.failed
        /\ Resting(s.pipe, s.side) => Resting(x.pipe, x.side)
    BY <1>2, <1>4, <2>2, <2>9 DEF Calm
  <2>5. Resting(x.pipe, x.side) => Ending(x.pipe, x.side, c, m.op)
    BY DEF Resting, Ending
  <2> DEFINE r == SendFrame(x, c, m)
  <2>6. /\ r \in Record /\ SameLoops(x, r) /\ r.pipe = x.pipe
        /\ x.failed => r.side = x.side
        /\ ~x.failed /\ Ending(x.pipe, x.side, c, m.op) /\ m.fin => Resting(r.pipe, r.side)
    BY <2>4, SendFrameTyped
  <2> HIDE DEF r
  <2>7. SameLoops(s, r)
    BY <2>4, <2>6 DEF SameLoops
  <2> QED BY <2>3, <2>4, <2>5, <2>6, <2>7 DEF r
<1>5. CASE s.pipe.intercept /\ ~s.side[c].ready
  <2> DEFINE k == [s.side[c] EXCEPT !.ready = m.fin, !.torn = TRUE]
             x == [s EXCEPT !.side[c].ready = m.fin, !.side[c].torn = TRUE]
  <2>1. x = [s EXCEPT !.side[c] = k]
    BY <1>1 DEF Record, Side
  <2>2. k \in Side
    BY <1>1 DEF Side
  <2>3. OnMessageFrame(s, c, m, verdict) = x
    BY <1>5 DEF OnMessageFrame
  <2> HIDE DEF x, k
  <2>4. x \in Record /\ SameLoops(s, x) /\ x.pipe = s.pipe
    BY <2>1, <2>2, FieldsChange
  <2> QED BY <1>2, <1>5, <2>3, <2>4
<1>6. CASE s.pipe.intercept /\ s.side[c].ready
  <2>1. OnMessageFrame(s, c, m, verdict) = Collect(s, c, m, verdict)
    BY <1>6 DEF OnMessageFrame
  <2>2. CASE ~m.fin
    <3> DEFINE h == IF s.side[c].held = "earlier" THEN "earlier" ELSE "current"
               k == [s.side[c] EXCEPT !.held = h]
               x == [s EXCEPT !.side[c].held = h]
    <3>1. Collect(s, c, m, verdict) = x
      BY <1>1, <2>2 DEF Collect, Record, Side
    <3>2. h \in Parts
      BY DEF Parts
    <3> HIDE DEF h
    <3>3. x = [s EXCEPT !.side[c] = k]
      BY <1>1 DEF Record, Side
    <3>4. k \in Side
      BY <1>1, <3>2 DEF Side
    <3> HIDE DEF x, k
    <3>5. x \in Record /\ SameLoops(s, x) /\ x.pipe = s.pipe
      BY <3>3, <3>4, FieldsChange
    <3> QED BY <2>1, <2>2, <3>1, <3>5
  <2>3. CASE m.fin
    <3> DEFINE d == s.side[c].torn \/ s.side[c].held = "earlier"
               k == [s.side[c] EXCEPT !.held = "none", !.torn = d]
               x == [s EXCEPT !.side[c].held = "none", !.side[c].torn = d]
    <3>1. Collect(s, c, m, verdict) = IF verdict = 0 THEN x ELSE SendMessage(x, c, m.op, verdict)
      BY <1>1, <2>3 DEF Collect, Record, Side
    <3>2. d \in BOOLEAN /\ (Resting(s.pipe, s.side) => ~d)
      BY <1>1, <1>2
    <3> HIDE DEF d
    <3>3. x = [s EXCEPT !.side[c] = k]
      BY <1>1 DEF Record, Side
    <3>4. /\ k \in Side /\ k.parser = s.side[c].parser /\ k.held = "none" /\ k.ready = s.side[c].ready
          /\ k.sent = s.side[c].sent /\ k.torn = d
      BY <1>1, <1>3, <3>2 DEF Side
    <3> HIDE DEF x, k
    <3>9. /\ x \in Record /\ SameLoops(s, x) /\ x.pipe = s.pipe
          /\ Resting(s.pipe, s.side) /\ Calm(s.pipe, k) => Resting(x.pipe, x.side)
      <4>1. x \in Record /\ SameLoops(s, x) /\ x.pipe = s.pipe
        BY <3>3, <3>4, FieldsChange
      <4>2. ASSUME Resting(s.pipe, s.side), Calm(s.pipe, k) PROVE Resting(x.pipe, x.side)
        BY <3>3, <3>4, <4>2, FieldsChange
      <4> QED BY <4>1, <4>2
    <3>5. /\ x \in Record /\ SameLoops(s, x) /\ x.pipe = s.pipe
          /\ Resting(s.pipe, s.side) => Resting(x.pipe, x.side)
      BY <1>2, <3>2, <3>4, <3>9 DEF Calm
    <3> DEFINE r == SendMessage(x, c, m.op, verdict)
    <3>6. /\ r \in Record /\ SameLoops(x, r) /\ r.pipe = x.pipe
          /\ Resting(x.pipe, x.side) => Resting(r.pipe, r.side)
      BY <1>3, <3>5, SendMessageTyped
    <3> HIDE DEF r
    <3>7. SameLoops(s, r)
      BY <3>5, <3>6 DEF SameLoops
    <3> QED BY <2>1, <3>1, <3>5, <3>6, <3>7 DEF r
  <2> QED BY <2>2, <2>3
<1> QED BY <1>1, <1>4, <1>5, <1>6

(* A frame that is read. *)
LEMMA TakeStays ==
    ASSUME NEW s, NEW calm, NEW x \in Reached(s, calm), NEW c \in Conns, NEW f \in Frame,
           calm => f.fin, NEW verdict \in Verdicts
    PROVE  Take(x, c, f, verdict) \in Reached(s, calm)
<1> DEFINE p == Effective(x.side[c].parser, f)
           made == Completed(x.side[c].parser, f, f.body)
           held == IF f.op \in Messages THEN Aged(x.side[c].held) ELSE x.side[c].held
           sent == IF f.op \in Messages THEN Aged(x.side[c].sent) ELSE x.side[c].sent
           k == [x.side[c] EXCEPT !.parser = p, !.held = held, !.sent = sent]
           next == [Begins(x, c, f) EXCEPT !.side[c].parser = Effective(@, f)]
<1>1. /\ x \in Record /\ SameLoops(s, x) /\ (x.pipe.closed => x.pipe.why = "frame")
      /\ calm => Resting(x.pipe, x.side)
  BY DEF Reached
<1>2. /\ x.side \in [Conns -> Side] /\ x.side[c] \in Side /\ x.side[c].parser \in Parser
      /\ x.side[c].ready \in BOOLEAN /\ x.side[c].held \in Parts /\ x.side[c].sent \in Parts
      /\ x.side[c].torn \in BOOLEAN
  BY <1>1 DEF Record, Side
<1>3. calm => /\ x.side[c].parser.effIn = "none" /\ x.side[c].parser.effOut = "none"
              /\ (x.pipe.intercept => x.side[c].ready)
              /\ x.side[c].held = "none" /\ x.side[c].sent = "none" /\ ~x.side[c].torn
  BY <1>1 DEF Resting
<1>4. /\ p \in Parser /\ p.effOut = x.side[c].parser.effOut
      /\ f.fin /\ x.side[c].parser.effIn = "none" => p.effIn = "none"
  BY <1>2, EffectiveTyped
<1>5. held \in Parts /\ sent \in Parts /\ (calm => held = "none" /\ sent = "none")
  BY <1>2, <1>3, AgedParts
<1>6. next = [x EXCEPT !.side[c] = k]
  <2>1. CASE f.op \in Messages
    <3>1. Begins(x, c, f) = [x EXCEPT !.side[c].held = held, !.side[c].sent = sent]
      BY <1>1, <2>1 DEF Begins, Record, Side
    <3> DEFINE y == Begins(x, c, f)
    <3>2. y.side[c].parser = x.side[c].parser
      <4> HIDE DEF held, sent
      <4> QED BY <1>1, <1>2, <3>1 DEF Record, Side
    <3>3. next = [y EXCEPT !.side[c].parser = p]
      <4> HIDE DEF y
      <4>1. next = [y EXCEPT !.side[c].parser = Effective(y.side[c].parser, f)]
        BY DEF y
      <4> QED BY <3>2, <4>1
    <3> HIDE DEF p, held, sent, next, y
    <3>4. y.side = [x.side EXCEPT ![c] = [x.side[c] EXCEPT !.held = held, !.sent = sent]]
          /\ y = [x EXCEPT !.side = y.side]
      BY ZenonT(60), <1>1, <1>2, <3>1 DEF Record, Side, y
    <3>5. next = [x EXCEPT !.side = [y.side EXCEPT ![c].parser = p]]
      BY <1>1, <3>3, <3>4 DEF Record
    <3>6. [y.side EXCEPT ![c].parser = p] = [x.side EXCEPT ![c] = k]
      <4> DEFINE l == [x.side[c] EXCEPT !.held = held, !.sent = sent]
      <4>1. [l EXCEPT !.parser = p] = k
        BY <1>2 DEF Side
      <4>2. y.side = [x.side EXCEPT ![c] = l]
        BY <3>4
      <4> HIDE DEF l, k
      <4> QED BY <1>2, <4>1, <4>2
    <3> QED BY <1>1, <3>5, <3>6 DEF Record
  <2>2. CASE f.op \notin Messages
    <3>1. next = [x EXCEPT !.side[c].parser = p] /\ held = x.side[c].held /\ sent = x.side[c].sent
      BY <1>1, <1>2, <2>2 DEF Begins, Record, Side
    <3> HIDE DEF p, held, sent, next
    <3> QED BY <1>1, <1>2, <3>1 DEF Record, Side
  <2> QED BY <2>1, <2>2
<1> HIDE DEF p, held, sent, next
<1>7. /\ k \in Side /\ k.parser = p /\ k.held = held /\ k.sent = sent
      /\ k.ready = x.side[c].ready /\ k.torn = x.side[c].torn
  BY <1>2, <1>4, <1>5 DEF Side
<1> HIDE DEF k
<1>8. /\ next \in Record /\ SameLoops(x, next) /\ next.pipe = x.pipe /\ next.failed = x.failed
      /\ calm => Resting(next.pipe, next.side)
  <2>1. Resting(x.pipe, x.side) /\ Calm(x.pipe, k) => Resting(next.pipe, next.side)
    BY <1>1, <1>6, <1>7, FieldsChange
  <2>2. next \in Record /\ SameLoops(x, next) /\ next.pipe = x.pipe /\ next.failed = x.failed
    BY <1>1, <1>6, <1>7, FieldsChange
  <2>3. calm => Calm(x.pipe, k)
    BY <1>3, <1>4, <1>5, <1>7 DEF Calm
  <2> QED BY <1>1, <2>1, <2>2, <2>3
<1>9. SameLoops(s, next)
  BY <1>1, <1>8 DEF SameLoops
<1>10. next \in Reached(s, calm)
  BY <1>1, <1>8, <1>9 DEF Reached
<1>11. ASSUME NEW m, m.op \in Messages \union Controls, m.fin = f.fin, m.fin \in BOOLEAN
       PROVE  OnFrame(next, c, m, verdict) \in Reached(s, calm)
  <2>1. CASE next.failed \/ m.op = "pong"
    <3>1. OnFrame(next, c, m, verdict) = next
      BY <2>1 DEF OnFrame, Messages
    <3> QED BY <1>10, <3>1
  <2>2. CASE ~next.failed /\ m.op = "ping"
    <3>1. OnFrame(next, c, m, verdict) = [next EXCEPT !.pipe.frames[c] = Append(@, "pong")]
      BY <2>2 DEF OnFrame, Messages
    <3>2. next.pipe \in PipeType /\ next.pipe.frames \in [Conns -> Seq({"pong"})]
      BY <1>8 DEF Record, PipeType
    <3> DEFINE v == Append(next.pipe.frames[c], "pong")
               q == [next.pipe EXCEPT !.frames[c] = v]
    <3>3. v \in Seq({"pong"})
      BY <3>2
    <3>4. OnFrame(next, c, m, verdict) = [next EXCEPT !.pipe = q]
      BY <1>8, <3>1, <3>2 DEF Record, PipeType
    <3> HIDE DEF v
    <3>5. q \in PipeType /\ q.closed = next.pipe.closed /\ q.why = next.pipe.why
          /\ q.intercept = next.pipe.intercept
      BY <3>2, <3>3 DEF PipeType
    <3> HIDE DEF q
    <3> DEFINE r == [next EXCEPT !.pipe = q]
    <3>6. r \in Record /\ SameLoops(next, r) /\ r.pipe = q /\ r.side = next.side
      BY <1>8, <3>5 DEF Record, SameLoops
    <3> HIDE DEF r
    <3>7. SameLoops(s, r) /\ (calm => Resting(r.pipe, r.side)) /\ (r.pipe.closed => r.pipe.why = "frame")
      BY <1>1, <1>8, <1>9, <3>5, <3>6 DEF SameLoops, Resting
    <3> QED BY <3>4, <3>6, <3>7 DEF Reached, r
  <2>3. CASE ~next.failed /\ m.op = "close"
    <3> DEFINE r == ClosedBy(next, c, "frame")
    <3>1. OnFrame(next, c, m, verdict) = r
      BY <2>3 DEF OnFrame, Messages
    <3>2. r \in Record /\ SameLoops(next, r) /\ r.side = next.side /\ r.pipe.why = "frame"
          /\ r.pipe.intercept = next.pipe.intercept
      BY <1>8 DEF ClosedBy, Record, PipeType, SameLoops
    <3> HIDE DEF r
    <3>3. SameLoops(s, r) /\ (calm => Resting(r.pipe, r.side))
      BY <1>8, <1>9, <3>2 DEF SameLoops, Resting
    <3> QED BY <3>1, <3>2, <3>3 DEF Reached
  <2>4. CASE ~next.failed /\ m.op \in Messages
    <3> DEFINE r == OnMessageFrame(next, c, m, verdict)
    <3>1. OnFrame(next, c, m, verdict) = r
      BY <2>4 DEF OnFrame, Messages
    <3>2. /\ r \in Record /\ SameLoops(next, r) /\ r.pipe = next.pipe
          /\ m.fin /\ Resting(next.pipe, next.side) => Resting(r.pipe, r.side)
      BY <1>8, <1>11, <2>4, MessageFrameStays
    <3> HIDE DEF r
    <3>3. SameLoops(s, r) /\ (calm => Resting(r.pipe, r.side))
      BY <1>8, <1>9, <1>11, <3>2 DEF SameLoops
    <3> QED BY <1>1, <1>8, <3>1, <3>2, <3>3 DEF Reached
  <2> QED BY <1>11, <2>1, <2>2, <2>3, <2>4 DEF Controls
<1>12. CASE made = <<>>
  <2>1. Take(x, c, f, verdict) = next
    BY <1>12 DEF Take, next
  <2> QED BY <1>10, <2>1
<1>13. CASE made # <<>>
  <2>1. Take(x, c, f, verdict) = OnFrame(next, c, Head(made), verdict)
    BY <1>13 DEF Take, next
  <2>2. Head(made).op \in Messages \union Controls /\ Head(made).fin = f.fin /\ Head(made).fin \in BOOLEAN
    BY <1>2, <1>13, CompletedTyped
  <2> QED BY <1>11, <2>1, <2>2
<1> QED BY <1>12, <1>13

(***************************************************************************)
(* Folds.  Induction over sets of numbers, from the library's theorem that *)
(* a set of naturals has a least element; then the functions that FoldLeft *)
(* is defined by exist and stay in any set that the steps do not leave.    *)
(***************************************************************************)

(* A set of naturals that is not empty has a least element. *)
LEMMA LeastNat ==
    ASSUME NEW T, T \subseteq Nat, T # {}
    PROVE  \E n \in T : \A m \in T : n <= m
<1> DEFINE R == OpToRel(<, Nat)
<1>1. IsWellFoundedOn(R, Nat)
  BY NatLessThanWellFounded
<1>2. PICK n \in T : \A m \in T : <<m, n>> \notin R
  <2> HIDE DEF R
  <2> QED BY <1>1, WFMin
<1>3. ASSUME NEW m \in T PROVE n <= m
  <2>1. n \in Nat /\ m \in Nat /\ <<m, n>> \notin R
    BY <1>2
  <2> QED BY <2>1 DEF OpToRel
<1> QED BY <1>2, <1>3

(* Induction over the naturals, for a set instead of a formula. *)
LEMMA SetInduction ==
    ASSUME NEW T, 0 \in T, \A n \in Nat : n \in T => n + 1 \in T
    PROVE  Nat \subseteq T
<1> SUFFICES ASSUME ~(Nat \subseteq T) PROVE FALSE
  OBVIOUS
<1> DEFINE U == Nat \ T
<1>1. U \subseteq Nat /\ U # {}
  OBVIOUS
<1>2. PICK n \in U : \A m \in U : n <= m
  <2> HIDE DEF U
  <2> QED BY <1>1, LeastNat
<1>3. n # 0 /\ n \in Nat
  OBVIOUS
<1>4. n - 1 \in Nat /\ n - 1 < n /\ n - 1 \notin U
  BY <1>2, <1>3
<1> QED BY <1>3, <1>4

Largest(T) == CHOOSE x \in T : \A y \in T : x >= y

(* The largest number of a set is one of the set. *)
LEMMA LargestExists ==
    ASSUME NEW k \in Nat, NEW T \in SUBSET (1..k), T # {}
    PROVE  Largest(T) \in T /\ \A y \in T : Largest(T) >= y
<1> DEFINE U == {n \in Nat : k - n \in T}
<1>1. U \subseteq Nat /\ U # {}
  <2>1. PICK x \in T : TRUE
    OBVIOUS
  <2>2. x \in Int /\ k - x \in Nat /\ k - (k - x) = x
    OBVIOUS
  <2> QED BY <2>1, <2>2
<1>2. PICK n \in U : \A m \in U : n <= m
  <2> HIDE DEF U
  <2> QED BY <1>1, LeastNat
<1>3. ASSUME NEW y \in T PROVE k - n >= y
  <2>1. y \in Int /\ k - y \in Nat /\ k - (k - y) = y
    OBVIOUS
  <2>2. n <= k - y
    BY <1>2, <2>1
  <2> QED BY <2>1, <2>2
<1>4. k - n \in T /\ \A y \in T : k - n >= y
  BY <1>3
<1> QED BY <1>4 DEF Largest

(* Without its largest number a set is one of those of a shorter range.    *)
LEMMA WithoutLargest ==
    ASSUME NEW k \in Nat, NEW T \in SUBSET (1..(k + 1)), T # {}
    PROVE  T \ {Largest(T)} \in SUBSET (1..k)
<1>1. k + 1 \in Nat
  OBVIOUS
<1>2. Largest(T) \in T /\ \A y \in T : Largest(T) >= y
  BY <1>1, LargestExists
<1>3. ASSUME NEW y \in T, y # Largest(T) PROVE y \in 1..k
  <2>1. y \in 1..(k + 1) /\ Largest(T) \in 1..(k + 1) /\ Largest(T) >= y
    BY <1>2
  <2> QED BY <1>3, <2>1
<1> QED BY <1>3

FoldFunctions(S, base, n, step) ==
    {g \in [SUBSET (1..n) -> S] : \A T \in SUBSET (1..n) :
        g[T] = IF T = {} THEN base ELSE step[<<g[T \ {Largest(T)}], Largest(T)>>]}

(* There is a function that satisfies the equation of the fold. *)
LEMMA FoldExists ==
    ASSUME NEW S, NEW base, base \in S, NEW n, n \in Nat, NEW step, step \in [S \X (1..n) -> S]
    PROVE  FoldFunctions(S, base, n, step) # {}
<1> DEFINE Folds(g, T) == g[T] = IF T = {} THEN base ELSE step[<<g[T \ {Largest(T)}], Largest(T)>>]
           Has(k) == \E g \in [SUBSET (1..k) -> S] : \A T \in SUBSET (1..k) : Folds(g, T)
           K == {k \in Nat : k <= n => Has(k)}
<1>0. \A k \in Nat : k \in K <=> (k <= n => Has(k))
  <2> HIDE DEF Has
  <2> QED OBVIOUS
<1> HIDE DEF K
<1>1. 0 \in K
  <2> DEFINE g == [T \in SUBSET (1..0) |-> base]
  <2>1. 1..0 = {}
    OBVIOUS
  <2>2. \A T \in SUBSET (1..0) : T = {} /\ g[T] = base
    BY <2>1
  <2>3. g \in [SUBSET (1..0) -> S]
    OBVIOUS
  <2> HIDE DEF g
  <2>4. \A T \in SUBSET (1..0) : Folds(g, T)
    BY <2>2
  <2>5. Has(0)
    BY <2>3, <2>4
  <2> HIDE DEF Has
  <2> QED BY <1>0, <2>5
<1>2. ASSUME NEW k \in Nat, k \in K PROVE k + 1 \in K
  <2> SUFFICES ASSUME k + 1 <= n PROVE Has(k + 1)
    <3> HIDE DEF Has
    <3> QED BY <1>0
  <2>0. Has(k)
    <3> HIDE DEF Has
    <3> QED BY <1>0, <1>2
  <2>1. PICK g \in [SUBSET (1..k) -> S] : \A T \in SUBSET (1..k) : Folds(g, T)
    BY <2>0
  <2> DEFINE h == [T \in SUBSET (1..(k + 1)) |->
                     IF k + 1 \in T THEN step[<<g[T \ {k + 1}], k + 1>>] ELSE g[T]]
  <2>2. \A T \in SUBSET (1..(k + 1)) : T \ {k + 1} \in SUBSET (1..k)
    OBVIOUS
  <2>3. \A T \in SUBSET (1..(k + 1)) : k + 1 \notin T => T \in SUBSET (1..k)
    OBVIOUS
  <2>4. \A T \in SUBSET (1..k) : T \in SUBSET (1..(k + 1)) /\ k + 1 \notin T /\ h[T] = g[T]
    OBVIOUS
  <2>5. h \in [SUBSET (1..(k + 1)) -> S]
    <3>1. k + 1 \in 1..n
      OBVIOUS
    <3>2. ASSUME NEW T \in SUBSET (1..(k + 1))
          PROVE  (IF k + 1 \in T THEN step[<<g[T \ {k + 1}], k + 1>>] ELSE g[T]) \in S
      BY <2>2, <2>3, <3>1
    <3> QED BY <3>2
  <2>6. ASSUME NEW T \in SUBSET (1..(k + 1)) PROVE Folds(h, T)
    <3>1. CASE k + 1 \in T
      <4>1. Largest(T) = k + 1
        <5>1. k + 1 \in Nat
          OBVIOUS
        <5>2. Largest(T) \in T /\ \A y \in T : Largest(T) >= y
          <6> HIDE DEF h
          <6> QED BY <3>1, <5>1, LargestExists
        <5>3. k + 1 \in 1..(k + 1) /\ Largest(T) \in 1..(k + 1) /\ Largest(T) >= k + 1
          BY <3>1, <5>2
        <5> QED BY <5>3
      <4>2. h[T] = step[<<g[T \ {k + 1}], k + 1>>]
        BY <3>1
      <4>3. h[T \ {k + 1}] = g[T \ {k + 1}]
        BY <2>2, <2>4
      <4> HIDE DEF h
      <4> QED BY <3>1, <4>1, <4>2, <4>3
    <3>2. CASE k + 1 \notin T
      <4>1. T \in SUBSET (1..k) /\ h[T] = g[T]
        BY <2>3, <2>4, <3>2
      <4>2. T \ {Largest(T)} \in SUBSET (1..k)
        BY <4>1
      <4>3. h[T \ {Largest(T)}] = g[T \ {Largest(T)}]
        BY <2>4, <4>2
      <4> HIDE DEF h
      <4> QED BY <2>1, <4>1, <4>3
    <3> QED BY <3>1, <3>2
  <2> HIDE DEF h
  <2> QED BY <2>5, <2>6
<1>3. Nat \subseteq K
  BY <1>1, <1>2, SetInduction
<1>4. Has(n)
  <2> HIDE DEF Has
  <2> QED BY <1>0, <1>3
<1> QED BY <1>4 DEF FoldFunctions

(* A fold stays in a set that its base is in and no step leaves. *)
LEMMA FoldStays ==
    ASSUME NEW S, NEW n \in Nat, NEW g, g[{}] \in S,
           \A T \in SUBSET (1..n) : T # {} /\ g[T \ {Largest(T)}] \in S => g[T] \in S
    PROVE  g[1..n] \in S
<1> DEFINE In(k) == \A T \in SUBSET (1..k) : g[T] \in S
           K == {k \in Nat : k <= n => In(k)}
<1>0. \A k \in Nat : k \in K <=> (k <= n => In(k))
  <2> HIDE DEF In
  <2> QED OBVIOUS
<1> HIDE DEF K
<1>1. 0 \in K
  <2>1. \A T \in SUBSET (1..0) : T = {}
    OBVIOUS
  <2> QED BY <1>0, <2>1
<1>2. ASSUME NEW k \in Nat, k \in K PROVE k + 1 \in K
  <2> SUFFICES ASSUME k + 1 <= n, NEW T \in SUBSET (1..(k + 1)) PROVE g[T] \in S
    BY <1>0
  <2>0. In(k)
    BY <1>0, <1>2
  <2>1. CASE T = {}
    BY <2>1
  <2>2. CASE T # {}
    <3>1. T \ {Largest(T)} \in SUBSET (1..k)
      BY <2>2, WithoutLargest
    <3>2. g[T \ {Largest(T)}] \in S
      BY <2>0, <3>1
    <3>3. T \in SUBSET (1..n)
      OBVIOUS
    <3> QED BY <2>2, <3>2, <3>3
  <2> QED BY <2>1, <2>2
<1>3. Nat \subseteq K
  BY <1>1, <1>2, SetInduction
<1> QED BY <1>0, <1>3

(* What a read brings. *)
LEMMA FramesStay ==
    ASSUME NEW s \in Record, ~s.pipe.closed, NEW calm, calm => Resting(s.pipe, s.side),
           NEW c \in Conns, NEW verdict \in Verdicts, NEW batch \in Seq(Frame),
           calm => \A i \in 1..Len(batch) : batch[i].fin
    PROVE  FoldLeft(LAMBDA acc, f : Take(acc, c, f, verdict), s, batch) \in Reached(s, calm)
<1> DEFINE S == Reached(s, calm)
           Eq(g) == g = [T \in SUBSET DOMAIN batch |->
                           IF T = {} THEN s
                           ELSE Take(g[T \ {Largest(T)}], c, batch[Largest(T)], verdict)]
           G == CHOOSE g : Eq(g)
<1>1. DOMAIN batch = 1..Len(batch) /\ Len(batch) \in Nat
  OBVIOUS
<1>2. s \in S
  BY DEF Reached, SameLoops
<1>3. ASSUME NEW x \in S, NEW i \in 1..Len(batch) PROVE Take(x, c, batch[i], verdict) \in S
  <2>1. batch[i] \in Frame /\ (calm => batch[i].fin)
    OBVIOUS
  <2> QED BY <2>1, TakeStays
<1> HIDE DEF S
<1>4. \E g : Eq(g)
  <2> DEFINE step == [w \in S \X (1..Len(batch)) |-> Take(w[1], c, batch[w[2]], verdict)]
  <2>1. step \in [S \X (1..Len(batch)) -> S]
    BY <1>3
  <2>2. \A x \in S, i \in 1..Len(batch) : step[<<x, i>>] = Take(x, c, batch[i], verdict)
    OBVIOUS
  <2> HIDE DEF step
  <2>3. PICK g \in FoldFunctions(S, s, Len(batch), step) : TRUE
    <3> HIDE DEF Eq, G
    <3> QED BY <1>1, <1>2, <2>1, FoldExists
  <2>4. g \in [SUBSET (1..Len(batch)) -> S] /\ \A T \in SUBSET (1..Len(batch)) :
           g[T] = IF T = {} THEN s ELSE step[<<g[T \ {Largest(T)}], Largest(T)>>]
    BY DEF FoldFunctions
  <2>5. ASSUME NEW T \in SUBSET (1..Len(batch)), T # {}
        PROVE  g[T] = Take(g[T \ {Largest(T)}], c, batch[Largest(T)], verdict)
    <3>1. Largest(T) \in T
      BY <1>1, <2>5, LargestExists
    <3>2. Largest(T) \in 1..Len(batch) /\ g[T \ {Largest(T)}] \in S
      BY <2>4, <3>1
    <3> QED BY <2>2, <2>4, <2>5, <3>2
  <2>6. \A T \in SUBSET (1..Len(batch)) :
           g[T] = IF T = {} THEN s ELSE Take(g[T \ {Largest(T)}], c, batch[Largest(T)], verdict)
    <3>1. g[{}] = s
      BY <2>4
    <3>2. ASSUME NEW T \in SUBSET (1..Len(batch)), T = {} PROVE g[T] = s
      BY <3>1, <3>2
    <3> HIDE DEF Eq, G
    <3> QED BY <2>5, <3>2
  <2>7. Eq(g)
    BY <1>1, <2>4, <2>6
  <2> HIDE DEF Eq
  <2> QED BY <2>7
<1>5. Eq(G)
  BY <1>4
<1> HIDE DEF G
<1>6. \A T \in SUBSET (1..Len(batch)) :
         G[T] = IF T = {} THEN s ELSE Take(G[T \ {Largest(T)}], c, batch[Largest(T)], verdict)
  BY <1>1, <1>5
<1>7. G[{}] \in S
  BY <1>2, <1>6
<1>8. ASSUME NEW T \in SUBSET (1..Len(batch)), T # {}, G[T \ {Largest(T)}] \in S PROVE G[T] \in S
  <2>1. Largest(T) \in 1..Len(batch)
    BY <1>1, <1>8, LargestExists
  <2> QED BY <1>3, <1>6, <1>8, <2>1
<1>9. G[1..Len(batch)] \in S
  BY <1>1, <1>7, <1>8, FoldStays
<1>10. FoldLeft(LAMBDA acc, f : Take(acc, c, f, verdict), s, batch) = G[DOMAIN batch]
  BY DEF FoldLeft, MapThenFoldSet, Max, Largest, G
<1> QED BY <1>1, <1>9, <1>10 DEF S

(* What a message that is injected may have come to. *)
Injected(s, calm) == {r \in Record : SameLoops(s, r) /\ r.pipe = s.pipe /\ (calm => Resting(r.pipe, r.side))}

(* A message more that is injected. *)
LEMMA InjectStays ==
    ASSUME NEW s, NEW calm, NEW x \in Injected(s, calm), NEW c \in Conns, NEW op \in Messages
    PROVE  InjectNext(x, c, op) \in Injected(s, calm)
<1> DEFINE v == Aged(x.side[c].sent)
           k == [x.side[c] EXCEPT !.sent = v]
           y == [x EXCEPT !.side[c].sent = Aged(@)]
<1>1. x \in Record /\ SameLoops(s, x) /\ x.pipe = s.pipe /\ (calm => Resting(x.pipe, x.side))
  BY DEF Injected
<1>2. /\ x.side \in [Conns -> Side] /\ x.side[c] \in Side /\ x.side[c].sent \in Parts
      /\ calm => Calm(x.pipe, x.side[c])
  BY <1>1 DEF Record, Side, Resting, Calm
<1>3. y = [x EXCEPT !.side[c].sent = v]
  BY <1>1, <1>2 DEF Record, Side
<1>4. v \in Parts /\ (calm => v = "none")
  BY <1>2, AgedParts DEF Calm
<1> HIDE DEF v, y
<1>5. y = [x EXCEPT !.side[c] = k]
  BY <1>1, <1>2, <1>3 DEF Record, Side
<1>6. k \in Side /\ (calm => Calm(x.pipe, k))
  BY <1>2, <1>4 DEF Side, Calm
<1> HIDE DEF k
<1>7. /\ y \in Record /\ SameLoops(x, y) /\ y.pipe = x.pipe
      /\ Resting(x.pipe, x.side) /\ Calm(x.pipe, k) => Resting(y.pipe, y.side)
  BY ZenonT(60), <1>1, <1>5, <1>6, FieldsChange
<1> DEFINE r == SendMessage(y, c, op, 1)
<1>8. /\ r \in Record /\ SameLoops(y, r) /\ r.pipe = y.pipe
      /\ Resting(y.pipe, y.side) => Resting(r.pipe, r.side)
  BY <1>7, SendMessageTyped
<1>9. InjectNext(x, c, op) = r
  BY DEF InjectNext, y
<1> HIDE DEF r
<1>10. SameLoops(s, r) /\ r.pipe = s.pipe /\ (calm => Resting(r.pipe, r.side))
  BY <1>1, <1>6, <1>7, <1>8 DEF SameLoops
<1> QED BY <1>8, <1>9, <1>10 DEF Injected

(* The messages that have been injected, one after the other. *)
LEMMA MessagesStay ==
    ASSUME NEW s \in Record, NEW calm, calm => Resting(s.pipe, s.side), NEW c \in Conns,
           NEW queue \in Seq(Messages)
    PROVE  FoldLeft(LAMBDA acc, op : InjectNext(acc, c, op), s, queue) \in Injected(s, calm)
<1> DEFINE S == Injected(s, calm)
           Eq(g) == g = [T \in SUBSET DOMAIN queue |->
                           IF T = {} THEN s
                           ELSE InjectNext(g[T \ {Largest(T)}], c, queue[Largest(T)])]
           G == CHOOSE g : Eq(g)
<1>1. DOMAIN queue = 1..Len(queue) /\ Len(queue) \in Nat
  OBVIOUS
<1>2. s \in S
  BY DEF Injected, SameLoops
<1>3. ASSUME NEW x \in S, NEW i \in 1..Len(queue) PROVE InjectNext(x, c, queue[i]) \in S
  BY InjectStays
<1> HIDE DEF S
<1>4. \E g : Eq(g)
  <2> DEFINE step == [w \in S \X (1..Len(queue)) |-> InjectNext(w[1], c, queue[w[2]])]
  <2>1. step \in [S \X (1..Len(queue)) -> S]
    BY <1>3
  <2>2. \A x \in S, i \in 1..Len(queue) : step[<<x, i>>] = InjectNext(x, c, queue[i])
    OBVIOUS
  <2> HIDE DEF step
  <2>3. PICK g \in FoldFunctions(S, s, Len(queue), step) : TRUE
    <3> HIDE DEF Eq, G
    <3> QED BY <1>1, <1>2, <2>1, FoldExists
  <2>4. g \in [SUBSET (1..Len(queue)) -> S] /\ \A T \in SUBSET (1..Len(queue)) :
           g[T] = IF T = {} THEN s ELSE step[<<g[T \ {Largest(T)}], Largest(T)>>]
    BY DEF FoldFunctions
  <2>5. ASSUME NEW T \in SUBSET (1..Len(queue)), T # {}
        PROVE  g[T] = InjectNext(g[T \ {Largest(T)}], c, queue[Largest(T)])
    <3>1. Largest(T) \in T
      BY <1>1, <2>5, LargestExists
    <3>2. Largest(T) \in 1..Len(queue) /\ g[T \ {Largest(T)}] \in S
      BY <2>4, <3>1
    <3> QED BY <2>2, <2>4, <2>5, <3>2
  <2>6. \A T \in SUBSET (1..Len(queue)) :
           g[T] = IF T = {} THEN s ELSE InjectNext(g[T \ {Largest(T)}], c, queue[Largest(T)])
    <3>1. g[{}] = s
      BY <2>4
    <3>2. ASSUME NEW T \in SUBSET (1..Len(queue)), T = {} PROVE g[T] = s
      BY <3>1, <3>2
    <3> HIDE DEF Eq, G
    <3> QED BY <2>5, <3>2
  <2>7. Eq(g)
    BY <1>1, <2>4, <2>6
  <2> HIDE DEF Eq
  <2> QED BY <2>7
<1>5. Eq(G)
  BY <1>4
<1> HIDE DEF G
<1>6. \A T \in SUBSET (1..Len(queue)) :
         G[T] = IF T = {} THEN s ELSE InjectNext(G[T \ {Largest(T)}], c, queue[Largest(T)])
  BY <1>1, <1>5
<1>7. G[{}] \in S
  BY <1>2, <1>6
<1>8. ASSUME NEW T \in SUBSET (1..Len(queue)), T # {}, G[T \ {Largest(T)}] \in S PROVE G[T] \in S
  <2>1. Largest(T) \in 1..Len(queue)
    BY <1>1, <1>8, LargestExists
  <2> QED BY <1>3, <1>6, <1>8, <2>1
<1>9. G[1..Len(queue)] \in S
  BY <1>1, <1>7, <1>8, FoldStays
<1>10. FoldLeft(LAMBDA acc, op : InjectNext(acc, c, op), s, queue) = G[DOMAIN queue]
  BY DEF FoldLeft, MapThenFoldSet, Max, Largest, G
<1> QED BY <1>1, <1>9, <1>10 DEF S

(***************************************************************************)
(* A loop goes on: its handler starts the next operation, or ends.         *)
(***************************************************************************)

LoopStates == {"unstarted", "writing", "reading", "closing", "finished"}

(* There are two connections. *)
LEMMA OtherOne ==
    ASSUME RelayAssumption, NEW c \in Conns
    PROVE  Other(c) \in Conns /\ Other(c) # c /\ Other(Other(c)) = c
           /\ \A d \in Conns : d = c \/ d = Other(c)
BY DEF RelayAssumption, Other

(* What a loop is waiting for. *)
Token(c, v) ==
    IF v = "reading" THEN {<<c, "read">>}
    ELSE IF v \in {"writing", "closing"} THEN {<<Other(c), "write">>} ELSE {}

AfterMove(lp, c, v) == (Awaited("running", lp) \ Token(c, lp[c])) \union Token(c, v)

(* What is awaited once a loop has moved on. *)
LEMMA AwaitedMoves ==
    ASSUME RelayAssumption, NEW lp, lp \in [Conns -> LoopStates], NEW c, c \in Conns,
           NEW v, v \in LoopStates, NEW lp2, lp2 = [lp EXCEPT ![c] = v]
    PROVE  Awaited("running", lp2) = AfterMove(lp, c, v)
<1> DEFINE e == Other(c)
<1>1. /\ e \in Conns /\ e # c /\ Other(e) = c /\ \A d \in Conns : d = c \/ d = e
  BY OtherOne
<1>2. lp2[c] = v /\ lp2[e] = lp[e]
  BY <1>1
<1>3. Token(c, v) \subseteq Conns \X Ops
  BY <1>1 DEF Token, Ops
<1> HIDE DEF e
<1>4. ASSUME NEW d \in Conns, NEW op \in Ops
      PROVE  Awaits("running", lp2, d, op) <=>
                (Awaits("running", lp, d, op) /\ <<d, op>> \notin Token(c, lp[c])) \/ <<d, op>> \in Token(c, v)
  <2>1. CASE d = c
    BY <1>1, <1>2, <2>1 DEF Awaits, Token, e
  <2>2. CASE d = e
    BY <1>1, <1>2, <2>2 DEF Awaits, Token, e
  <2> QED BY <1>1, <2>1, <2>2
<1>5. \A w \in Conns \X Ops : w \in Awaited("running", lp2) <=>
                (w \in Awaited("running", lp) /\ w \notin Token(c, lp[c])) \/ w \in Token(c, v)
  <2> SUFFICES ASSUME NEW w \in Conns \X Ops
               PROVE  w \in Awaited("running", lp2) <=>
                         (w \in Awaited("running", lp) /\ w \notin Token(c, lp[c])) \/ w \in Token(c, v)
    OBVIOUS
  <2>1. PICK d \in Conns, op \in Ops : w = <<d, op>>
    OBVIOUS
  <2>2. /\ w \in Awaited("running", lp2) <=> Awaits("running", lp2, d, op)
        /\ w \in Awaited("running", lp) <=> Awaits("running", lp, d, op)
    BY <2>1 DEF Awaited
  <2> QED BY <1>4, <2>1, <2>2
<1>6. Awaited("running", lp2) \subseteq Conns \X Ops /\ Awaited("running", lp) \subseteq Conns \X Ops
  BY DEF Awaited
<1>7. Awaited("running", lp2) = (Awaited("running", lp) \ Token(c, lp[c])) \union Token(c, v)
  BY <1>3, <1>5, <1>6
<1> QED BY <1>7 DEF AfterMove

(* Nothing is awaited of loops that are finished, or of a service that is. *)
LEMMA AwaitedNone ==
    ASSUME NEW ph, NEW lp, ph # "connecting", ph = "running" => \A c \in Conns : lp[c] = "finished",
           RelayAssumption
    PROVE  Awaited(ph, lp) = {}
<1>1. \A c \in Conns : Other(c) \in Conns
  BY OtherOne
<1>2. \A c \in Conns, op \in Ops : ~Awaits(ph, lp, c, op)
  BY <1>1 DEF Awaits
<1> QED BY <1>2 DEF Awaited

(* The handler that is run belongs to a loop that waits for it. *)
LEMMA LoopOfHandler ==
    ASSUME RelayAssumption, NEW cs, NEW ts, NEW ph, NEW lp \in [Conns -> LoopStates],
           Legal(cs, ts, Awaited(ph, lp)), ts # <<>>, Head(ts).kind = "handler"
    PROVE  /\ Head(ts) \in Task /\ For(Head(ts)) = <<Head(ts).conn, Head(ts).op>>
           /\ Head(ts).op = "read" => ph = "running" /\ lp[Head(ts).conn] = "reading"
           /\ Head(ts).op = "write" => ph = "running" /\ lp[Other(Head(ts).conn)] \in {"writing", "closing"}
           /\ Head(ts).op = "connect" => ph = "connecting" /\ Head(ts).conn = server
<1>1. ts \in Seq(Task) /\ Tokens(cs, ts, Awaited(ph, lp))
  BY DEF Legal
<1>2. Head(ts) = ts[1] /\ Head(ts) \in Task /\ 1 \in 1..Len(ts)
  BY <1>1, Running
<1>3. For(Head(ts)) \in Awaited(ph, lp)
  BY <1>1, <1>2 DEF Tokens, Busy
<1>4. Head(ts).conn \in Conns /\ Head(ts).op \in Ops
  BY <1>2 DEF Task
<1>5. Awaits(ph, lp, Head(ts).conn, Head(ts).op)
  BY <1>3, <1>4 DEF Awaited, For
<1> QED BY <1>2, <1>5 DEF Awaits, For

(* The next operation of the loop of c, if there is one. *)
LEMMA LoopGoesOn ==
    ASSUME RelayAssumption, NEW cs, NEW ts, NEW lp \in [Conns -> LoopStates], NEW c \in Conns,
           Legal(cs, ts, Awaited("running", lp)), ts # <<>>, Head(ts).kind = "handler",
           Token(c, lp[c]) = {For(Head(ts))}, NEW v \in LoopStates, NEW cs2 \in [Conns -> Connection],
           \A w \in Conns \X Ops : w[2] \in cs2[w[1]].pending <=> w[2] \in cs[w[1]].pending \/ w \in Token(c, v),
           \A d \in Conns : cs2[d].timer = "armed" => cs[d].timer = "armed" \/ (d = c /\ v = "reading")
    PROVE  Legal(cs2, Tail(ts), Awaited("running", [lp EXCEPT ![c] = v]))
<1> DEFINE W == Awaited("running", lp)
           N == Token(c, v)
<1>1. /\ Other(c) \in Conns /\ Other(c) # c /\ Other(Other(c)) = c
      /\ \A d \in Conns : d = c \/ d = Other(c)
  BY OtherOne
<1>2. N \subseteq Conns \X Ops
  BY <1>1 DEF Token, Ops
<1>3. ASSUME NEW w \in N, w \in W PROVE w \in Token(c, lp[c])
  <2>1. CASE v = "reading"
    <3>1. w = <<c, "read">>
      BY <2>1 DEF Token
    <3>2. Awaits("running", lp, c, "read")
      BY <1>3, <3>1 DEF Awaited
    <3> QED BY <3>1, <3>2 DEF Awaits, Token
  <2>2. CASE v \in {"writing", "closing"}
    <3>1. w = <<Other(c), "write">>
      BY <2>2 DEF Token
    <3>2. Awaits("running", lp, Other(c), "write")
      BY <1>3, <3>1 DEF Awaited
    <3> QED BY <1>1, <3>1, <3>2 DEF Awaits, Token
  <2> QED BY <2>1, <2>2 DEF Token
<1>4. \A w \in N : w \in W => w = For(Head(ts))
  BY <1>3
<1>5. ASSUME NEW d \in Conns, cs2[d].timer = "armed"
      PROVE  cs[d].timer = "armed" \/ \E w \in Timed(d) : w \in N
  <2>1. CASE d = c /\ v = "reading"
    BY <2>1 DEF Timed, Token
  <2> QED BY <1>5, <2>1
<1> HIDE DEF N, W
<1>6. Legal(cs2, Tail(ts), (W \ {For(Head(ts))}) \union N)
  <2>1. /\ Legal(cs, ts, W)
        /\ \A w \in Conns \X Ops : w[2] \in cs2[w[1]].pending <=> w[2] \in cs[w[1]].pending \/ w \in N
    BY DEF W, N
  <2>2. \A d \in Conns : cs2[d].timer = "armed" => cs[d].timer = "armed" \/ \E w \in Timed(d) : w \in N
    BY <1>5
  <2> QED BY <1>2, <1>4, <2>1, <2>2, HandlerRuns
<1>7. Awaited("running", [lp EXCEPT ![c] = v]) = (W \ {For(Head(ts))}) \union N
  <2> DEFINE lp2 == [lp EXCEPT ![c] = v]
  <2> HIDE DEF lp2
  <2>1. lp2 = [lp EXCEPT ![c] = v]
    BY DEF lp2
  <2>2. Awaited("running", lp2) = AfterMove(lp, c, v)
    BY <2>1, AwaitedMoves
  <2> QED BY <2>2 DEF W, N, lp2, AfterMove
<1> QED BY <1>6, <1>7

(* How a handler of the loop that reads from c ends: with the next         *)
(* operation of the loop, or with its end.                                 *)
Goes(s, r, c, v) ==
    /\ r.loop = [s.loop EXCEPT ![c] = v] /\ r.phase = s.phase /\ r.stops = s.stops
    /\ r.conn = IF v = "reading" THEN [s.conn EXCEPT ![c] = ReadStarted(@)]
                ELSE [s.conn EXCEPT ![Other(c)] = UntimedWriteStarted(@)]

Ends(s, r, c) ==
    /\ r.loop = [s.loop EXCEPT ![c] = "finished"]
    /\ SamePending(s.conn, r.conn) /\ TimersRun(s.conn, r.conn)
    /\ IF s.loop[Other(c)] = "finished"
         THEN r.phase = "stopped" /\ r.stops = s.stops + 1
         ELSE r.phase = s.phase /\ r.stops = s.stops

(* The parts of a record a loop is about. *)
Loops == [conn : [Conns -> Connection], loop : [Conns -> LoopStates],
          phase : {"start", "connecting", "running", "stopped"}, stops : Nat]

(* A loop that handles its operation ends or starts exactly one other. *)
LEMMA LoopSteps ==
    ASSUME RelayAssumption, NEW s, NEW r, NEW ts, NEW c \in Conns,
           s.loop \in [Conns -> LoopStates], s.conn \in [Conns -> Connection],
           r.conn \in [Conns -> Connection],
           s.phase = "running", Phases("running", s.loop, s.stops),
           Legal(s.conn, ts, Awaited("running", s.loop)), ts # <<>>, Head(ts).kind = "handler",
           Token(c, s.loop[c]) = {For(Head(ts))},
           Ends(s, r, c) \/ \E v \in {"reading", "writing", "closing"} : Goes(s, r, c, v)
    PROVE  Legal(r.conn, Tail(ts), Awaited(r.phase, r.loop)) /\ Phases(r.phase, r.loop, r.stops)
<1>1. /\ Other(c) \in Conns /\ Other(c) # c /\ Other(Other(c)) = c
      /\ \A d \in Conns : d = c \/ d = Other(c)
  BY OtherOne
<1>2. CASE Ends(s, r, c)
  <2>1. /\ \A d \in Conns : r.conn[d].pending = s.conn[d].pending
        /\ \A d \in Conns : r.conn[d].timer = "armed" => s.conn[d].timer = "armed"
    BY <1>2 DEF Ends, SamePending, TimersRun
  <2>2. Token(c, "finished") = {} /\ "finished" \in LoopStates
    BY DEF Token, LoopStates
  <2>3. \A w \in Conns \X Ops : w[1] \in Conns
    OBVIOUS
  <2>4. \A w \in Conns \X Ops : w[2] \in r.conn[w[1]].pending <=>
                                w[2] \in s.conn[w[1]].pending \/ w \in Token(c, "finished")
    BY <2>1, <2>2, <2>3
  <2>5. \A d \in Conns : r.conn[d].timer = "armed" =>
                         s.conn[d].timer = "armed" \/ (d = c /\ "finished" = "reading")
    BY <2>1
  <2>6. Legal(r.conn, Tail(ts), Awaited("running", [s.loop EXCEPT ![c] = "finished"]))
    BY <2>2, <2>4, <2>5, LoopGoesOn
  <2>7. r.loop = [s.loop EXCEPT ![c] = "finished"] /\ r.loop[c] = "finished"
        /\ r.loop[Other(c)] = s.loop[Other(c)]
    BY <1>1, <1>2 DEF Ends
  <2>8. CASE s.loop[Other(c)] = "finished"
    <3>1. r.phase = "stopped" /\ r.stops = s.stops + 1
      BY <1>2, <2>8 DEF Ends
    <3>2. \A d \in Conns : r.loop[d] = "finished"
      BY <1>1, <2>7, <2>8
    <3>3. Awaited("running", r.loop) = {} /\ Awaited(r.phase, r.loop) = {}
      BY <3>1, <3>2, AwaitedNone
    <3>4. r.stops = 1
      BY <3>1 DEF Phases
    <3> QED BY <2>6, <2>7, <3>1, <3>3, <3>4 DEF Phases
  <2>9. CASE s.loop[Other(c)] # "finished"
    <3>1. r.phase = "running" /\ r.stops = s.stops
      BY <1>2, <2>9 DEF Ends
    <3>2. /\ \A d \in Conns : r.loop[d] # "unstarted"
          /\ \E d \in Conns : r.loop[d] # "finished"
      BY <1>1, <2>7, <2>9 DEF Phases
    <3> QED BY <2>6, <2>7, <3>1, <3>2 DEF Phases
  <2> QED BY <2>8, <2>9
<1>3. ASSUME NEW v \in {"reading", "writing", "closing"}, Goes(s, r, c, v)
      PROVE  Legal(r.conn, Tail(ts), Awaited(r.phase, r.loop)) /\ Phases(r.phase, r.loop, r.stops)
  <2>1. r.phase = "running" /\ r.stops = s.stops /\ r.loop = [s.loop EXCEPT ![c] = v]
    BY <1>3 DEF Goes
  <2>2. v \in LoopStates /\ v # "unstarted" /\ v # "finished"
    BY DEF LoopStates
  <2>3. /\ \A w \in Conns \X Ops : w[2] \in r.conn[w[1]].pending <=>
                                   w[2] \in s.conn[w[1]].pending \/ w \in Token(c, v)
        /\ \A d \in Conns : r.conn[d].timer = "armed" => s.conn[d].timer = "armed" \/ (d = c /\ v = "reading")
    <3>1. CASE v = "reading"
      <4>1. r.conn[c] = ReadStarted(s.conn[c]) /\ \A d \in Conns : d # c => r.conn[d] = s.conn[d]
        BY <1>3, <3>1 DEF Goes
      <4>2. r.conn[c].pending = s.conn[c].pending \union {"read"}
        BY <4>1, CallsTyped
      <4>3. Token(c, v) = {<<c, "read">>}
        BY <3>1 DEF Token
      <4> QED BY <3>1, <4>1, <4>2, <4>3
    <3>2. CASE v # "reading"
      <4>1. /\ r.conn[Other(c)] = UntimedWriteStarted(s.conn[Other(c)])
            /\ \A d \in Conns : d # Other(c) => r.conn[d] = s.conn[d]
        BY <1>1, <1>3, <3>2 DEF Goes
      <4>2. /\ r.conn[Other(c)].pending = s.conn[Other(c)].pending \union {"write"}
            /\ r.conn[Other(c)].timer = s.conn[Other(c)].timer
        BY <1>1, <4>1, CallsTyped
      <4>3. Token(c, v) = {<<Other(c), "write">>}
        BY <3>2 DEF Token
      <4> QED BY <1>1, <3>2, <4>1, <4>2, <4>3
    <3> QED BY <3>1, <3>2
  <2>4. Legal(r.conn, Tail(ts), Awaited("running", [s.loop EXCEPT ![c] = v]))
    BY <2>2, <2>3, LoopGoesOn
  <2>5. \A d \in Conns : r.loop[d] # "unstarted"
    BY <1>1, <2>1, <2>2 DEF Phases
  <2>6. r.loop[c] # "finished"
    BY <2>1, <2>2
  <2> QED BY <2>1, <2>4, <2>5, <2>6 DEF Phases
<1> QED BY <1>2, <1>3

(***************************************************************************)
(* How an iteration of a WebSocket loop ends.                              *)
(***************************************************************************)

(* The loop goes on, or sends its close frame. *)
Answers(s, r, c) ==
    \/ Goes(s, r, c, "writing") /\ r.closeSent = s.closeSent
    \/ /\ Goes(s, r, c, "closing") /\ r.closeSent = [s.closeSent EXCEPT ![Other(c)] = @ + 1]
       /\ r.pipe.closed /\ r.pipe.why # "long"

(* The loop ends without a close frame. *)
Over(s, r, c) == Ends(s, r, c) /\ r.closeSent = s.closeSent

CloseKept(p, q) == p.closed => q.closed /\ q.by = p.by /\ q.why = p.why

(* finished: the other side is shut, and stop called if its loop has ended. *)
LEMMA FinishedOutcome ==
    ASSUME RelayAssumption, NEW s \in Record, NEW c \in Conns, NEW r, r = Finished(s, c)
    PROVE  r \in Record /\ Over(s, r, c) /\ r.pipe = s.pipe /\ r.side = s.side
<1>1. Other(c) \in Conns /\ Other(c) # c
  BY OtherOne
<1>2. s.conn \in [Conns -> Connection] /\ s.loop \in [Conns -> LoopStates] /\ s.stops \in Nat
  BY DEF Record, LoopStates
<1> DEFINE conns == [s.conn EXCEPT ![Other(c)] = ShutDown(@)]
           all   == [d \in Conns |-> Disconnected(conns[d])]
           done  == s.loop[Other(c)] = "finished"
<1>3. \A d \in Conns : conns[d] = IF d = Other(c) THEN ShutDown(s.conn[d]) ELSE s.conn[d]
  BY <1>1, <1>2
<1>4. /\ conns \in [Conns -> Connection]
      /\ \A d \in Conns : conns[d].pending = s.conn[d].pending /\ conns[d].timer = s.conn[d].timer
  <2>1. \A d \in Conns : /\ ShutDown(s.conn[d]) \in Connection
                         /\ ShutDown(s.conn[d]).pending = s.conn[d].pending
                         /\ ShutDown(s.conn[d]).timer = s.conn[d].timer
    BY <1>2, CallsTyped
  <2>2. DOMAIN conns = Conns /\ conns = [d \in Conns |-> conns[d]]
    BY <1>2
  <2>3. \A d \in Conns : conns[d] \in Connection
    <3> HIDE DEF conns
    <3> QED BY <1>2, <1>3, <2>1
  <2> HIDE DEF conns
  <2> QED BY <1>3, <2>1, <2>2, <2>3
<1> HIDE DEF conns
<1>5. /\ all \in [Conns -> Connection]
      /\ \A d \in Conns : all[d].pending = s.conn[d].pending /\ all[d].timer = "off"
  <2>1. \A d \in Conns : /\ Disconnected(conns[d]) \in Connection
                         /\ Disconnected(conns[d]).pending = conns[d].pending
                         /\ Disconnected(conns[d]).timer = "off"
    BY <1>4, CallsTyped
  <2> QED BY <1>4, <2>1
<1> HIDE DEF all
<1> DEFINE cs == IF done THEN all ELSE conns
           ph == IF done THEN "stopped" ELSE s.phase
           n  == IF done THEN s.stops + 1 ELSE s.stops
<1>6. r = [s EXCEPT !.loop[c] = "finished", !.conn = cs, !.phase = ph, !.stops = n]
  BY DEF Finished, conns, all, Record
<1>7. /\ cs \in [Conns -> Connection] /\ SamePending(s.conn, cs) /\ TimersRun(s.conn, cs)
      /\ ph \in {"start", "connecting", "running", "stopped"} /\ n \in Nat
  <2>1. s.phase \in {"start", "connecting", "running", "stopped"}
    BY DEF Record
  <2> QED BY <1>2, <1>4, <1>5, <2>1 DEF SamePending, TimersRun
<1>8. IF done THEN ph = "stopped" /\ n = s.stops + 1 ELSE ph = s.phase /\ n = s.stops
  OBVIOUS
<1> HIDE DEF cs, ph, n, done
<1>9. /\ r \in Record /\ r.pipe = s.pipe /\ r.side = s.side /\ r.closeSent = s.closeSent
      /\ r.loop = [s.loop EXCEPT ![c] = "finished"] /\ r.conn = cs /\ r.phase = ph /\ r.stops = n
  <2> DEFINE lp == [s.loop EXCEPT ![c] = "finished"]
  <2>1. lp \in [Conns -> {"unstarted", "writing", "reading", "closing", "finished"}]
    BY <1>2 DEF LoopStates
  <2>2. r = [s EXCEPT !.loop = lp, !.conn = cs, !.phase = ph, !.stops = n]
    BY <1>6 DEF Record
  <2> HIDE DEF lp
  <2>3. /\ r \in Record /\ r.pipe = s.pipe /\ r.side = s.side /\ r.closeSent = s.closeSent
        /\ r.loop = lp /\ r.conn = cs /\ r.phase = ph /\ r.stops = n
    <3>1. /\ r.pipe = s.pipe /\ r.side = s.side /\ r.closeSent = s.closeSent
          /\ r.loop = lp /\ r.conn = cs /\ r.phase = ph /\ r.stops = n
      BY <2>2 DEF Record
    <3>2. r \in Record
      BY <1>7, <2>1, <2>2 DEF Record
    <3> QED BY <3>1, <3>2
  <2> QED BY <2>3 DEF lp
<1> QED BY <1>7, <1>8, <1>9 DEF Over, Ends, done

(* A loop that starts a write on the other connection goes on. *)
LEMMA WritingOutcome ==
    ASSUME RelayAssumption, NEW s \in Record, NEW c \in Conns, NEW v \in {"writing", "closing"},
           NEW r, r = Writing(s, c, v)
    PROVE  /\ r \in Record /\ Goes(s, r, c, v)
           /\ r.pipe = s.pipe /\ r.side = s.side /\ r.closeSent = s.closeSent
<1>1. Other(c) \in Conns
  BY OtherOne
<1>2. s.conn \in [Conns -> Connection]
  BY DEF Record
<1> DEFINE k  == UntimedWriteStarted(s.conn[Other(c)])
           cs == [s.conn EXCEPT ![Other(c)] = UntimedWriteStarted(@)]
<1>3. cs = [s.conn EXCEPT ![Other(c)] = k] /\ k \in Connection
  BY <1>1, <1>2, CallsTyped
<1>4. r = [s EXCEPT !.loop[c] = v, !.conn = cs]
  BY DEF Writing, Record
<1> HIDE DEF k
<1>5. cs \in [Conns -> Connection]
  <2> HIDE DEF cs
  <2> QED BY <1>1, <1>2, <1>3
<1>6. cs = IF v = "reading" THEN [s.conn EXCEPT ![c] = ReadStarted(@)]
           ELSE [s.conn EXCEPT ![Other(c)] = UntimedWriteStarted(@)]
  OBVIOUS
<1> HIDE DEF cs
<1>7. /\ r \in Record /\ r.pipe = s.pipe /\ r.side = s.side /\ r.closeSent = s.closeSent
      /\ r.loop = [s.loop EXCEPT ![c] = v] /\ r.conn = cs /\ r.phase = s.phase /\ r.stops = s.stops
  <2> DEFINE lp == [s.loop EXCEPT ![c] = v]
  <2>1. lp \in [Conns -> {"unstarted", "writing", "reading", "closing", "finished"}]
    BY DEF Record
  <2>2. r = [s EXCEPT !.loop = lp, !.conn = cs]
    BY <1>4 DEF Record
  <2> HIDE DEF lp
  <2>3. /\ r \in Record /\ r.pipe = s.pipe /\ r.side = s.side /\ r.closeSent = s.closeSent
        /\ r.loop = lp /\ r.conn = cs /\ r.phase = s.phase /\ r.stops = s.stops
    BY <1>5, <2>1, <2>2 DEF Record
  <2> QED BY <2>3 DEF lp
<1> QED BY <1>6, <1>7 DEF Goes

(* close_connection answers with a close frame, or ends the loop. *)
LEMMA CloseOutcome ==
    ASSUME RelayAssumption, NEW s \in Record, s.pipe.closed, NEW c \in Conns,
           NEW r, r = CloseConnection(s, c)
    PROVE  /\ r \in Record /\ r.pipe = s.pipe /\ r.side = s.side
           /\ IF s.pipe.why = "long" THEN Over(s, r, c) ELSE Answers(s, r, c)
<1>1. CASE s.pipe.why = "long"
  <2>1. r = Finished(s, c)
    BY <1>1 DEF CloseConnection
  <2> QED BY <1>1, <2>1, FinishedOutcome
<1>2. CASE s.pipe.why # "long"
  <2> DEFINE w == Writing(s, c, "closing")
             n == w.closeSent[Other(c)] + 1
  <2>1. /\ w \in Record /\ Goes(s, w, c, "closing")
        /\ w.pipe = s.pipe /\ w.side = s.side /\ w.closeSent = s.closeSent
    BY WritingOutcome
  <2>2. r = [w EXCEPT !.closeSent[Other(c)] = n]
    BY <1>2, <2>1 DEF CloseConnection, Record
  <2> HIDE DEF w
  <2>3. Other(c) \in Conns /\ w.closeSent \in [Conns -> Nat] /\ n \in Nat
    <3>1. Other(c) \in Conns /\ w.closeSent \in [Conns -> Nat]
      BY <2>1, OtherOne DEF Record
    <3>2. w.closeSent[Other(c)] \in Nat
      BY <3>1
    <3> QED BY <3>1, <3>2
  <2>4. /\ r \in Record /\ r.pipe = w.pipe /\ r.side = w.side
        /\ r.loop = w.loop /\ r.phase = w.phase /\ r.stops = w.stops /\ r.conn = w.conn
        /\ r.closeSent = [w.closeSent EXCEPT ![Other(c)] = n]
    <3> HIDE DEF n
    <3> QED BY <2>1, <2>2, <2>3 DEF Record
  <2>5. Goes(s, r, c, "closing") /\ r.closeSent = [s.closeSent EXCEPT ![Other(c)] = @ + 1]
    BY <2>1, <2>4 DEF Goes
  <2> QED BY <1>2, <2>1, <2>4, <2>5 DEF Answers
<1> QED BY <1>1, <1>2

(* The outcome of the rest of a handler is that of the handler. *)
LEMMA SameOutcome ==
    ASSUME NEW s, NEW a, NEW r, NEW c, SameLoops(s, a)
    PROVE  (Answers(a, r, c) => Answers(s, r, c)) /\ (Over(a, r, c) => Over(s, r, c))
BY DEF SameLoops, Answers, Over, Goes, Ends

(* set_close_state. *)
LEMMA ClosedByTyped ==
    ASSUME NEW s \in Record, NEW c \in Conns, NEW why \in {"frame", "error", "long"},
           NEW r, r = ClosedBy(s, c, why)
    PROVE  /\ r \in Record /\ SameLoops(s, r) /\ r.side = s.side /\ r.failed = s.failed
           /\ r.pipe.closed /\ r.pipe.why = why /\ r.pipe.intercept = s.pipe.intercept
           /\ r.pipe \in PipeType
<1> DEFINE q == [s.pipe EXCEPT !.closed = TRUE, !.by = c, !.why = why]
<1>1. s.pipe \in PipeType
  BY DEF Record
<1>2. q \in PipeType /\ q.closed /\ q.why = why /\ q.intercept = s.pipe.intercept
  BY <1>1 DEF PipeType
<1>3. r = [s EXCEPT !.pipe = q]
  BY <1>1 DEF ClosedBy, Record, PipeType
<1> HIDE DEF q
<1> QED BY <1>2, <1>3 DEF Record, SameLoops

(* The injected frames and messages of the destination. *)
LEMMA InjectAllStays ==
    ASSUME RelayAssumption, NEW s \in Record, NEW c \in Conns, NEW calm,
           calm => Resting(s.pipe, s.side), ~s.pipe.closed, NEW r, r = InjectAll(s, c)
    PROVE  r \in Record /\ SameLoops(s, r) /\ ~r.pipe.closed /\ (calm => Resting(r.pipe, r.side))
<1> DEFINE d == Other(c)
           q == [s.pipe EXCEPT !.frames[d] = <<>>, !.messages[d] = <<>>]
           x == [s EXCEPT !.pipe.frames[d] = <<>>, !.pipe.messages[d] = <<>>]
           queue == s.pipe.messages[d]
<1>1. d \in Conns
  BY OtherOne
<1>2. s.pipe \in PipeType
  BY DEF Record
<1>3. queue \in Seq(Messages) /\ <<>> \in Seq(Messages) /\ <<>> \in Seq({"pong"})
  BY <1>1, <1>2 DEF PipeType
<1> HIDE DEF d
<1>4. q \in PipeType /\ q.closed = s.pipe.closed /\ q.intercept = s.pipe.intercept
  BY <1>1, <1>2, <1>3 DEF PipeType
<1>5. x = [s EXCEPT !.pipe = q]
  BY <1>1, <1>2 DEF Record, PipeType
<1>6. r = FoldLeft(LAMBDA acc, op : InjectNext(acc, c, op), x, queue)
  BY DEF InjectAll, d
<1> HIDE DEF q, x, queue
<1>7. x \in Record /\ SameLoops(s, x) /\ x.pipe = q /\ x.side = s.side
  BY <1>4, <1>5 DEF Record, SameLoops
<1>8. calm => Resting(x.pipe, x.side)
  BY <1>4, <1>7 DEF Resting
<1>9. r \in Injected(x, calm)
  BY <1>3, <1>6, <1>7, <1>8, MessagesStay
<1>10. r \in Record /\ SameLoops(x, r) /\ r.pipe = x.pipe /\ (calm => Resting(r.pipe, r.side))
  BY <1>9 DEF Injected
<1> QED BY <1>4, <1>7, <1>10 DEF SameLoops

(* Failed. *)
LEMMA FailedOutcome ==
    ASSUME RelayAssumption, NEW s \in Record, NEW c \in Conns, NEW r, r = Failed(s, c)
    PROVE  /\ r \in Record /\ r.side = s.side /\ Answers(s, r, c)
           /\ r.pipe.closed /\ r.pipe.why = "error" /\ r.pipe.intercept = s.pipe.intercept
<1> DEFINE a == ClosedBy(s, c, "error")
<1>1. /\ a \in Record /\ SameLoops(s, a) /\ a.side = s.side
      /\ a.pipe.closed /\ a.pipe.why = "error" /\ a.pipe.intercept = s.pipe.intercept
  BY ClosedByTyped
<1>2. r = CloseConnection(a, c)
  BY DEF Failed
<1> HIDE DEF a
<1>3. r \in Record /\ r.pipe = a.pipe /\ r.side = a.side /\ Answers(a, r, c)
  BY <1>1, <1>2, CloseOutcome
<1> QED BY <1>1, <1>3, SameOutcome

(* What one pass of a loop over what it has read comes to. *)
LEMMA IterateOutcome ==
    ASSUME RelayAssumption, NEW s \in Record, NEW c \in Conns, NEW verdict \in Verdicts,
           NEW batch \in Seq(Frame), NEW calm, calm => Resting(s.pipe, s.side),
           calm => \A i \in 1..Len(batch) : batch[i].fin, NEW r, r = Iterate(s, c, batch, verdict)
    PROVE  /\ r \in Record /\ CloseKept(s.pipe, r.pipe) /\ (calm => Resting(r.pipe, r.side))
           /\ IF s.pipe.closed /\ s.pipe.why = "long" THEN Over(s, r, c) ELSE Answers(s, r, c)
           /\ ~s.pipe.closed /\ r.pipe.closed => r.pipe.why # "long"
<1>1. CASE s.pipe.closed
  <2>1. r = CloseConnection(s, c)
    BY <1>1 DEF Iterate
  <2>2. /\ r \in Record /\ r.pipe = s.pipe /\ r.side = s.side
        /\ IF s.pipe.why = "long" THEN Over(s, r, c) ELSE Answers(s, r, c)
    BY <1>1, <2>1, CloseOutcome
  <2> QED BY <1>1, <2>2 DEF CloseKept
<1>2. CASE ~s.pipe.closed /\ Refused(s.side[c].parser, batch)
  <2>1. r = Failed(s, c)
    BY <1>2 DEF Iterate
  <2>2. /\ r \in Record /\ r.side = s.side /\ Answers(s, r, c)
        /\ r.pipe.closed /\ r.pipe.why = "error" /\ r.pipe.intercept = s.pipe.intercept
    BY <2>1, FailedOutcome
  <2>3. calm => Resting(r.pipe, r.side)
    BY <2>2 DEF Resting
  <2> QED BY <1>2, <2>2, <2>3 DEF CloseKept
<1>3. CASE ~s.pipe.closed /\ ~Refused(s.side[c].parser, batch)
  <2> DEFINE read == FoldLeft(LAMBDA acc, f : Take(acc, c, f, verdict), s, batch)
             all  == IF read.pipe.closed \/ read.failed THEN read ELSE InjectAll(read, c)
  <2>1. r = IF all.failed THEN Failed(all, c)
            ELSE IF all.pipe.closed THEN CloseConnection(all, c)
            ELSE Writing(all, c, "writing")
    BY <1>3 DEF Iterate
  <2>2. read \in Reached(s, calm)
    BY <1>3, FramesStay
  <2> HIDE DEF read
  <2>3. /\ read \in Record /\ SameLoops(s, read) /\ (read.pipe.closed => read.pipe.why = "frame")
        /\ calm => Resting(read.pipe, read.side)
    BY <2>2 DEF Reached
  <2>4. /\ all \in Record /\ SameLoops(s, all) /\ (all.pipe.closed => all.pipe.why = "frame")
        /\ calm => Resting(all.pipe, all.side)
    <3>1. CASE read.pipe.closed \/ read.failed
      BY <2>3, <3>1
    <3>2. CASE ~(read.pipe.closed \/ read.failed)
      <4>1. all = InjectAll(read, c)
        BY <3>2
      <4> HIDE DEF all
      <4>2. /\ all \in Record /\ SameLoops(read, all) /\ ~all.pipe.closed
            /\ calm => Resting(all.pipe, all.side)
        BY <2>3, <3>2, <4>1, InjectAllStays
      <4>3. SameLoops(s, all)
        BY <2>3, <4>2 DEF SameLoops
      <4> QED BY <4>2, <4>3
    <3> QED BY <3>1, <3>2
  <2> HIDE DEF all
  <2>5. CASE all.failed
    <3>1. r = Failed(all, c)
      BY <2>1, <2>5
    <3>2. /\ r \in Record /\ r.side = all.side /\ Answers(all, r, c)
          /\ r.pipe.closed /\ r.pipe.why = "error" /\ r.pipe.intercept = all.pipe.intercept
      BY <2>4, <3>1, FailedOutcome
    <3>3. calm => Resting(r.pipe, r.side)
      BY <2>4, <3>2 DEF Resting
    <3> QED BY <1>3, <2>4, <3>2, <3>3, SameOutcome DEF CloseKept
  <2>6. CASE ~all.failed /\ all.pipe.closed
    <3>1. r = CloseConnection(all, c)
      BY <2>1, <2>6
    <3>2. r \in Record /\ r.pipe = all.pipe /\ r.side = all.side /\ Answers(all, r, c)
      BY <2>4, <2>6, <3>1, CloseOutcome
    <3> QED BY <1>3, <2>4, <2>6, <3>2, SameOutcome DEF CloseKept
  <2>7. CASE ~all.failed /\ ~all.pipe.closed
    <3>1. r = Writing(all, c, "writing")
      BY <2>1, <2>7
    <3>2. /\ r \in Record /\ r.pipe = all.pipe /\ r.side = all.side
          /\ Goes(all, r, c, "writing") /\ r.closeSent = all.closeSent
      BY <2>4, <3>1, WritingOutcome
    <3>3. Answers(all, r, c)
      BY <3>2 DEF Answers
    <3> QED BY <1>3, <2>4, <2>7, <3>2, <3>3, SameOutcome DEF CloseKept
  <2> QED BY <2>5, <2>6, <2>7
<1> QED BY <1>1, <1>2, <1>3

(* on_error: the pipeline is closed if it was not, and the loop closes.    *)
LEMMA OnErrorOutcome ==
    ASSUME RelayAssumption, NEW s \in Record, NEW c \in Conns, NEW eof \in BOOLEAN,
           NEW r, r = OnError(s, c, eof)
    PROVE  /\ r \in Record /\ r.side = s.side /\ CloseKept(s.pipe, r.pipe)
           /\ r.pipe.intercept = s.pipe.intercept
           /\ Answers(s, r, c) \/ Over(s, r, c)
<1> DEFINE a == IF s.pipe.closed THEN s ELSE ClosedBy(s, c, "error")
<1>1. /\ a \in Record /\ SameLoops(s, a) /\ a.side = s.side /\ CloseKept(s.pipe, a.pipe)
      /\ a.pipe.closed /\ a.pipe.intercept = s.pipe.intercept
  <2>1. CASE s.pipe.closed
    BY <2>1 DEF SameLoops, CloseKept
  <2>2. CASE ~s.pipe.closed
    BY <2>2, ClosedByTyped DEF CloseKept
  <2> QED BY <2>1, <2>2
<1>2. r = IF eof THEN Finished(a, c) ELSE CloseConnection(a, c)
  BY DEF OnError
<1> HIDE DEF a
<1>3. r \in Record /\ r.pipe = a.pipe /\ r.side = a.side /\ (Answers(a, r, c) \/ Over(a, r, c))
  <2>1. CASE eof
    <3>1. r = Finished(a, c)
      BY <1>2, <2>1
    <3> QED BY <1>1, <3>1, FinishedOutcome
  <2>2. CASE ~eof
    <3>1. r = CloseConnection(a, c)
      BY <1>2, <2>2
    <3> QED BY <1>1, <3>1, CloseOutcome
  <2> QED BY <2>1, <2>2
<1> QED BY <1>1, <1>3, SameOutcome

(* A close frame is sent only as the loop starts to close. *)
LEMMA ClosingGoesOn ==
    ASSUME RelayAssumption, NEW s \in Record, NEW r \in Record, NEW c \in Conns,
           CloseKept(s.pipe, r.pipe), Closing(s.loop, s.pipe, s.closeSent),
           \/ Over(s, r, c)
           \/ Answers(s, r, c) /\ s.loop[c] \notin {"closing", "finished"}
           \/ /\ Goes(s, r, c, "reading") /\ r.closeSent = s.closeSent
              /\ s.loop[c] \notin {"closing", "finished"}
    PROVE  Closing(r.loop, r.pipe, r.closeSent)
<1> DEFINE e == Other(c)
<1>1. e \in Conns /\ e # c /\ Other(e) = c /\ (\A d \in Conns : d = c \/ d = e)
  BY OtherOne
<1>2. s.loop \in [Conns -> LoopStates] /\ s.closeSent \in [Conns -> Nat]
  BY DEF Record, LoopStates
<1>3. /\ s.closeSent[c] <= 1 /\ s.closeSent[e] <= 1
      /\ s.closeSent[c] = 1 => s.pipe.closed /\ s.loop[e] \in {"closing", "finished"}
      /\ s.closeSent[e] = 1 => s.pipe.closed /\ s.loop[c] \in {"closing", "finished"}
  BY <1>1 DEF Closing
<1>4. \A v : r.loop = [s.loop EXCEPT ![c] = v] => r.loop[c] = v /\ r.loop[e] = s.loop[e]
  BY <1>1, <1>2
<1>5. s.pipe.closed => r.pipe.closed
  BY DEF CloseKept
<1>6. CASE Over(s, r, c)
  <2>1. r.closeSent = s.closeSent /\ r.loop[c] = "finished" /\ r.loop[e] = s.loop[e]
    BY <1>4, <1>6 DEF Over, Ends
  <2> QED BY <1>1, <1>3, <1>5, <2>1 DEF Closing
<1>7. CASE s.loop[c] \notin {"closing", "finished"} /\ r.closeSent = s.closeSent /\ r.loop[e] = s.loop[e]
  BY <1>1, <1>3, <1>5, <1>7 DEF Closing
<1>8. CASE /\ s.loop[c] \notin {"closing", "finished"} /\ Goes(s, r, c, "closing")
           /\ r.closeSent = [s.closeSent EXCEPT ![e] = @ + 1] /\ r.pipe.closed /\ r.pipe.why # "long"
  <2>1. r.loop[c] = "closing" /\ r.loop[e] = s.loop[e]
    BY <1>4, <1>8 DEF Goes
  <2>2. s.closeSent[e] \in Nat /\ s.closeSent[e] # 1
    BY <1>1, <1>2, <1>3, <1>8
  <2>3. s.closeSent[e] = 0
    BY <1>3, <2>2
  <2>4. r.closeSent[e] = 1 /\ r.closeSent[c] = s.closeSent[c]
    BY <1>1, <1>2, <1>8, <2>3
  <2> QED BY <1>1, <1>3, <1>8, <2>1, <2>4 DEF Closing
<1>9. Goes(s, r, c, "writing") \/ Goes(s, r, c, "reading") => r.loop[e] = s.loop[e]
  BY <1>4 DEF Goes
<1> QED BY <1>6, <1>7, <1>8, <1>9 DEF Answers, e

(***************************************************************************)
(* The steps of the two services.                                          *)
(***************************************************************************)

(* What the invariant says of the types, for the steps below. *)
LEMMA Typed ==
    ASSUME IInv
    PROVE  /\ Now \in Record /\ pipe \in PipeType /\ side \in [Conns -> Side]
           /\ loop \in [Conns -> LoopStates] /\ conn \in [Conns -> Connection]
           /\ chunks \in [Conns -> 0 .. MaxChunks] /\ unusual \in BOOLEAN /\ stops \in Nat
           /\ Legal(conn, tasks, Awaited(phase, loop))
<1>1. Awaited(phase, loop) \subseteq Conns \X Ops
  BY DEF Awaited
<1>2. /\ conn \in [Conns -> Connection] /\ tasks \in Seq(Task)
      /\ phase \in {"start", "connecting", "running", "stopped"}
      /\ loop \in [Conns -> {"unstarted", "writing", "reading", "closing", "finished"}]
      /\ chunks \in [Conns -> 0 .. MaxChunks] /\ stops \in Nat
  BY DEF IInv, TypeOK, RelayTypeOK, ConnTypeOK
<1>3. pipe \in PipeType /\ side \in [Conns -> Side] /\ closeSent \in [Conns -> Nat] /\ unusual \in BOOLEAN
  BY DEF IInv, TypeOK, WebSocketTypeOK, PipeType
<1>4. Now \in Record
  BY <1>2, <1>3 DEF Now, Record
<1> QED BY <1>1, <1>2, <1>3, <1>4 DEF IInv, Legal, LoopStates

LEMMA NowFields ==
    /\ Now.conn = conn /\ Now.loop = loop /\ Now.phase = phase /\ Now.stops = stops
    /\ Now.pipe = pipe /\ Now.side = side /\ Now.closeSent = closeSent
BY DEF Now

(* The parts of the invariant, of a record that is the next state.         *)
LEMMA Assembled ==
    ASSUME NEW r \in Record, Becomes(r), Legal(r.conn, tasks', Awaited(r.phase, r.loop)),
           Phases(r.phase, r.loop, r.stops), Closing(r.loop, r.pipe, r.closeSent),
           chunks' \in [Conns -> 0 .. MaxChunks], unusual' \in BOOLEAN,
           ~unusual' => Resting(r.pipe, r.side), service' = "websocket", r.phase # "start"
    PROVE  IInv'
<1>1. /\ conn' = r.conn /\ loop' = r.loop /\ phase' = r.phase /\ stops' = r.stops
      /\ pipe' = r.pipe /\ side' = r.side /\ closeSent' = r.closeSent
  BY DEF Becomes
<1>2. conn' \in [Conns -> Connection] /\ tasks' \in Seq(Task)
      /\ Tokens(conn', tasks', Awaited(phase', loop')) /\ Timers(conn', tasks')
  BY <1>1 DEF Legal
<1>3. /\ phase' \in {"start", "connecting", "running", "stopped"}
      /\ loop' \in [Conns -> {"unstarted", "writing", "reading", "closing", "finished"}]
      /\ stops' \in Nat /\ pipe' \in PipeType /\ side' \in [Conns -> Side]
      /\ closeSent' \in [Conns -> Nat]
  BY <1>1 DEF Record
<1>4. TypeOK'
  BY <1>2, <1>3 DEF TypeOK, RelayTypeOK, WebSocketTypeOK, ConnTypeOK, PipeType
<1>5. Phases(phase', loop', stops') /\ Closing(loop', pipe', closeSent') /\ Fresh' /\ Whole'
  BY <1>1 DEF Fresh, Whole
<1> QED BY <1>2, <1>4, <1>5 DEF IInv

(* A handler of the WebSocket loop that reads from c. *)
LEMMA WebSocketLoop ==
    ASSUME RelayAssumption, IInv, tasks # <<>>, Head(tasks).kind = "handler", phase = "running",
           NEW c \in Conns, Token(c, loop[c]) = {For(Head(tasks))}, NEW r \in Record, Becomes(r),
           tasks' = Tail(tasks), chunks' = chunks, service' = "websocket", CloseKept(pipe, r.pipe),
           \/ Over(Now, r, c)
           \/ Answers(Now, r, c) /\ loop[c] \notin {"closing", "finished"}
           \/ /\ Goes(Now, r, c, "reading") /\ r.closeSent = closeSent
              /\ loop[c] \notin {"closing", "finished"},
           unusual' \in BOOLEAN, ~unusual' => Resting(r.pipe, r.side)
    PROVE  IInv' /\ CloseKept(pipe, pipe')
<1>1. /\ Now \in Record /\ loop \in [Conns -> LoopStates] /\ conn \in [Conns -> Connection]
      /\ chunks \in [Conns -> 0 .. MaxChunks] /\ Legal(conn, tasks, Awaited(phase, loop))
  BY Typed
<1>2. r.conn \in [Conns -> Connection]
  BY DEF Record
<1>3. Ends(Now, r, c) \/ \E v \in {"reading", "writing", "closing"} : Goes(Now, r, c, v)
  BY DEF Over, Answers
<1>4. Phases("running", loop, stops)
  BY DEF IInv
<1>5. Legal(r.conn, Tail(tasks), Awaited(r.phase, r.loop)) /\ Phases(r.phase, r.loop, r.stops)
  BY <1>1, <1>2, <1>3, <1>4, NowFields, LoopSteps
<1>6. Closing(r.loop, r.pipe, r.closeSent)
  <2>1. CloseKept(Now.pipe, r.pipe) /\ Closing(Now.loop, Now.pipe, Now.closeSent)
    BY NowFields DEF IInv
  <2>2. \/ Over(Now, r, c)
        \/ Answers(Now, r, c) /\ Now.loop[c] \notin {"closing", "finished"}
        \/ /\ Goes(Now, r, c, "reading") /\ r.closeSent = Now.closeSent
           /\ Now.loop[c] \notin {"closing", "finished"}
    BY NowFields
  <2> QED BY <1>1, <2>1, <2>2, ClosingGoesOn
<1>7. r.phase # "start"
  BY <1>3, NowFields DEF Goes, Ends
<1>8. IInv'
  BY <1>1, <1>5, <1>6, <1>7, Assembled
<1>9. pipe' = r.pipe
  BY DEF Becomes
<1> QED BY <1>8, <1>9

(* The handler at the head of the queue, and the loop that it is of. *)
LEMMA ReadHandler ==
    ASSUME RelayAssumption, IInv, Runs("handler", "read")
    PROVE  /\ tasks # <<>> /\ Head(tasks).kind = "handler" /\ phase = "running"
           /\ Head(tasks).conn \in Conns /\ loop[Head(tasks).conn] = "reading"
           /\ Token(Head(tasks).conn, loop[Head(tasks).conn]) = {For(Head(tasks))}
<1>1. tasks # <<>> /\ Head(tasks).kind = "handler" /\ Head(tasks).op = "read"
  BY DEF Runs
<1>2. loop \in [Conns -> LoopStates] /\ Legal(conn, tasks, Awaited(phase, loop))
  BY Typed
<1>3. /\ Head(tasks) \in Task /\ For(Head(tasks)) = <<Head(tasks).conn, "read">>
      /\ phase = "running" /\ loop[Head(tasks).conn] = "reading"
  BY <1>1, <1>2, LoopOfHandler
<1>4. Head(tasks).conn \in Conns
  BY <1>3 DEF Task
<1> QED BY <1>1, <1>3, <1>4 DEF Token

(* The loop that a completed write belongs to, and what it awaits. *)
LEMMA WriteHandler ==
    ASSUME RelayAssumption, IInv, Runs("handler", "write"), NEW c, c = Other(Head(tasks).conn)
    PROVE  /\ tasks # <<>> /\ Head(tasks).kind = "handler" /\ phase = "running"
           /\ c \in Conns /\ loop[c] \in {"writing", "closing"}
           /\ Token(c, loop[c]) = {For(Head(tasks))}
<1>1. tasks # <<>> /\ Head(tasks).kind = "handler" /\ Head(tasks).op = "write"
  BY DEF Runs
<1>2. loop \in [Conns -> LoopStates] /\ Legal(conn, tasks, Awaited(phase, loop))
  BY Typed
<1>3. /\ Head(tasks) \in Task /\ For(Head(tasks)) = <<Head(tasks).conn, "write">>
      /\ phase = "running" /\ loop[c] \in {"writing", "closing"}
  BY <1>1, <1>2, LoopOfHandler
<1>4. c \in Conns /\ Other(c) = Head(tasks).conn
  BY <1>3, OtherOne DEF Task
<1> QED BY <1>1, <1>3, <1>4 DEF Token

(* What is read is a sequence of frames. *)
LEMMA BatchTyped ==
    ASSUME WebSocketAssumption, NEW batch \in Batches \union {<<>>}
    PROVE  /\ batch \in Seq(Frame) /\ Fragments(batch) \in BOOLEAN
           /\ ~Fragments(batch) => \A i \in 1..Len(batch) : batch[i].fin
<1>1. batch \in Seq(Frame) /\ DOMAIN batch = 1..Len(batch)
  <2>1. batch \in Seq(Frame)
    <3>1. <<>> \in Seq(Frame)
      OBVIOUS
    <3>2. Batches \subseteq Seq(Frame)
      BY DEF WebSocketAssumption
    <3> QED BY <3>1, <3>2
  <2> QED BY <2>1
<1>2. \A i \in 1..Len(batch) : batch[i] \in Frame
  BY <1>1
<1> QED BY <1>1, <1>2 DEF Fragments

(* on_read of a WebSocket loop. *)
LEMMA OnSourceReadKeeps ==
    ASSUME RelayAssumption, WebSocketAssumption, IInv, service = "websocket", OnSourceRead, UNCHANGED service
    PROVE  IInv' /\ CloseKept(pipe, pipe')
<1> DEFINE t == Head(tasks)
           c == t.conn
<1>1. /\ tasks # <<>> /\ t.kind = "handler" /\ phase = "running" /\ c \in Conns
      /\ loop[c] = "reading" /\ Token(c, loop[c]) = {For(t)}
  BY ReadHandler DEF OnSourceRead
<1>2. tasks' = Tail(tasks) /\ chunks' = chunks /\ service' = "websocket"
  BY DEF OnSourceRead
<1>3. Now \in Record /\ unusual \in BOOLEAN /\ (~unusual => Resting(Now.pipe, Now.side))
  BY Typed, NowFields DEF IInv, Whole
<1>4. CASE t.result = "ok"
  <2>1. PICK batch \in Batches, verdict \in Verdicts :
           Becomes(Iterate(Now, c, batch, verdict)) /\ Noticed(batch)
    BY <1>4 DEF OnSourceRead
  <2> DEFINE r == Iterate(Now, c, batch, verdict)
             calm == ~unusual'
  <2>2. /\ batch \in Seq(Frame) /\ Fragments(batch) \in BOOLEAN
        /\ ~Fragments(batch) => \A i \in 1..Len(batch) : batch[i].fin
    BY BatchTyped
  <2>3. unusual' \in BOOLEAN /\ (~unusual' => ~unusual /\ ~Fragments(batch))
    BY <1>3, <2>1, <2>2 DEF Noticed
  <2>4. calm => Resting(Now.pipe, Now.side) /\ \A i \in 1..Len(batch) : batch[i].fin
    BY <1>3, <2>2, <2>3
  <2> HIDE DEF calm
  <2>5. /\ r \in Record /\ CloseKept(Now.pipe, r.pipe) /\ (calm => Resting(r.pipe, r.side))
        /\ Over(Now, r, c) \/ Answers(Now, r, c)
    BY <1>1, <1>3, <2>2, <2>4, IterateOutcome
  <2>6. Becomes(r)
    BY <2>1
  <2> HIDE DEF r, c
  <2>7. Over(Now, r, c) \/ (Answers(Now, r, c) /\ loop[c] \notin {"closing", "finished"})
    BY <1>1, <2>5
  <2>8. CloseKept(pipe, r.pipe) /\ (~unusual' => Resting(r.pipe, r.side))
    BY <2>5, NowFields DEF calm
  <2> QED BY <1>1, <1>2, <2>3, <2>5, <2>6, <2>7, <2>8, WebSocketLoop
<1>5. CASE t.result # "ok"
  <2> DEFINE r == IF t.result = "aborted" /\ pipe.closed THEN CloseConnection(Now, c)
                  ELSE OnError(Now, c, t.result = "eof")
  <2>1. Becomes(r) /\ unusual' = unusual
    BY <1>5 DEF OnSourceRead
  <2>2. /\ r \in Record /\ r.side = Now.side /\ CloseKept(Now.pipe, r.pipe)
        /\ r.pipe.intercept = Now.pipe.intercept
        /\ Over(Now, r, c) \/ Answers(Now, r, c)
    <3>1. CASE t.result = "aborted" /\ pipe.closed
      <4>1. r = CloseConnection(Now, c)
        BY <3>1
      <4> HIDE DEF r, c
      <4> QED BY <1>1, <1>3, <3>1, <4>1, CloseOutcome, NowFields DEF CloseKept
    <3>2. CASE ~(t.result = "aborted" /\ pipe.closed)
      <4> DEFINE eof == t.result = "eof"
      <4>1. r = OnError(Now, c, eof) /\ eof \in BOOLEAN
        BY <3>2
      <4> HIDE DEF r, c, eof
      <4>2. RelayAssumption /\ Now \in Record /\ c \in Conns
        BY <1>1, <1>3
      <4> QED BY ONLY <4>1, <4>2, OnErrorOutcome
    <3> QED BY <3>1, <3>2
  <2> HIDE DEF r, c
  <2>3. Over(Now, r, c) \/ (Answers(Now, r, c) /\ loop[c] \notin {"closing", "finished"})
    BY <1>1, <2>2
  <2>4. CloseKept(pipe, r.pipe) /\ (~unusual' => Resting(r.pipe, r.side)) /\ unusual' \in BOOLEAN
    BY <1>3, <2>1, <2>2, NowFields DEF Resting
  <2> QED BY <1>1, <1>2, <2>1, <2>2, <2>3, <2>4, WebSocketLoop
<1> QED BY <1>4, <1>5

(* on_write of a WebSocket loop. *)
LEMMA OnDestinationWriteKeeps ==
    ASSUME RelayAssumption, IInv, service = "websocket", OnDestinationWrite, UNCHANGED service
    PROVE  IInv' /\ CloseKept(pipe, pipe')
<1> DEFINE c  == Other(Head(tasks).conn)
           ok == Head(tasks).result = "ok"
           r  == CASE loop[c] = "closing" -> Finished(Now, c)
                   [] loop[c] = "writing" /\ ok -> [Now EXCEPT !.loop[c] = "reading",
                                                              !.conn[c] = ReadStarted(@)]
                   [] loop[c] = "writing" /\ ~ok -> OnError(Now, c, FALSE)
<1>1. /\ tasks # <<>> /\ Head(tasks).kind = "handler" /\ phase = "running" /\ c \in Conns
      /\ loop[c] \in {"writing", "closing"} /\ Token(c, loop[c]) = {For(Head(tasks))}
  BY WriteHandler DEF OnDestinationWrite
<1>2. tasks' = Tail(tasks) /\ chunks' = chunks /\ service' = "websocket" /\ unusual' = unusual
  BY DEF OnDestinationWrite
<1>3. /\ Now \in Record /\ unusual \in BOOLEAN /\ (~unusual => Resting(Now.pipe, Now.side))
      /\ loop \in [Conns -> LoopStates] /\ conn \in [Conns -> Connection]
  BY Typed, NowFields DEF IInv, Whole
<1>4. Becomes(r)
  BY DEF OnDestinationWrite
<1>5. /\ r \in Record /\ r.side = Now.side /\ CloseKept(Now.pipe, r.pipe)
      /\ r.pipe.intercept = Now.pipe.intercept
      /\ \/ Over(Now, r, c)
         \/ Answers(Now, r, c) /\ loop[c] \notin {"closing", "finished"}
         \/ Goes(Now, r, c, "reading") /\ r.closeSent = closeSent /\ loop[c] \notin {"closing", "finished"}
  <2>1. CASE loop[c] = "closing"
    <3>1. r = Finished(Now, c)
      BY <2>1
    <3> HIDE DEF r, c
    <3> QED BY <1>1, <1>3, <3>1, FinishedOutcome DEF CloseKept
  <2>2. CASE loop[c] = "writing" /\ ok
    <3> DEFINE k  == ReadStarted(conn[c])
               cs == [conn EXCEPT ![c] = k]
    <3>1. r = [Now EXCEPT !.loop[c] = "reading", !.conn[c] = ReadStarted(@)]
      BY <2>2
    <3> HIDE DEF r, c
    <3>2. k \in Connection
      BY <1>1, <1>3, CallsTyped
    <3>3. cs = [conn EXCEPT ![c] = ReadStarted(@)]
      BY <1>1, <1>3
    <3>4. r = [Now EXCEPT !.loop[c] = "reading", !.conn = cs]
      BY <3>1, <3>3, NowFields DEF Now
    <3> HIDE DEF k
    <3>5. cs \in [Conns -> Connection]
      BY <1>3, <3>2
    <3> HIDE DEF cs
    <3>6. /\ r \in Record /\ r.side = Now.side /\ r.pipe = Now.pipe /\ r.closeSent = Now.closeSent
          /\ r.loop = [Now.loop EXCEPT ![c] = "reading"] /\ r.conn = cs
          /\ r.phase = Now.phase /\ r.stops = Now.stops
      BY <1>3, <3>4, <3>5 DEF Record
    <3>7. Goes(Now, r, c, "reading")
      BY <3>3, <3>6, NowFields DEF Goes
    <3> QED BY <2>2, <3>6, <3>7, NowFields DEF CloseKept
  <2>3. CASE loop[c] = "writing" /\ ~ok
    <3>1. r = OnError(Now, c, FALSE)
      BY <2>3
    <3> HIDE DEF r, c
    <3>2. /\ r \in Record /\ r.side = Now.side /\ CloseKept(Now.pipe, r.pipe)
          /\ r.pipe.intercept = Now.pipe.intercept
          /\ Answers(Now, r, c) \/ Over(Now, r, c)
      BY <1>1, <1>3, <3>1, OnErrorOutcome
    <3> QED BY <2>3, <3>2
  <2> QED BY <1>1, <2>1, <2>2, <2>3
<1> HIDE DEF r, c
<1>6. CloseKept(pipe, r.pipe) /\ (~unusual' => Resting(r.pipe, r.side)) /\ unusual' \in BOOLEAN
  BY <1>2, <1>3, <1>5, NowFields DEF Resting
<1> QED BY <1>1, <1>2, <1>4, <1>5, <1>6, WebSocketLoop

(* Nothing is under way when a service is handed the connections.          *)
LEMMA BeforeStart ==
    ASSUME RelayAssumption, IInv, phase = "start"
    PROVE  /\ tasks = <<>> /\ loop = [c \in Conns |-> "unstarted"] /\ stops = 0
           /\ \A c \in Conns : conn[c].pending = {} /\ conn[c].timer = "off" /\ closeSent[c] = 0
<1>1. Awaited(phase, loop) = {}
  BY AwaitedNone
<1>2. Legal(conn, tasks, {})
  BY <1>1, Typed
<1>3. loop = [c \in Conns |-> "unstarted"] /\ stops = 0
  BY DEF IInv, Phases
<1>4. ASSUME NEW c \in Conns PROVE closeSent[c] = 0
  <2>1. closeSent[c] \in Nat /\ closeSent[c] <= 1
    BY DEF IInv, TypeOK, WebSocketTypeOK, Closing
  <2>2. closeSent[c] # 1
    BY <1>3, OtherOne DEF IInv, Closing
  <2> QED BY <2>1, <2>2
<1> QED BY <1>2, <1>3, <1>4, NothingAwaited

(* Both loops start with a write. *)
LEMMA BothWrite ==
    ASSUME RelayAssumption, NEW lp, \A c \in Conns : lp[c] \in {"writing", "closing"}
    PROVE  Awaited("running", lp) = Conns \X {"write"}
<1>1. \A c \in Conns : Other(c) \in Conns
  BY OtherOne
<1>2. \A c \in Conns, op \in Ops : Awaits("running", lp, c, op) <=> op = "write"
  BY <1>1 DEF Awaits
<1>3. "write" \in Ops
  BY DEF Ops
<1> QED BY <1>2, <1>3 DEF Awaited

(* Both loops start with a write. *)
LEMMA WritesStart ==
    ASSUME RelayAssumption, NEW cs, \A c \in Conns : cs[c].pending = {} /\ cs[c].timer = "off",
           NEW cs2 \in [Conns -> Connection],
           \A c \in Conns : cs2[c].pending = cs[c].pending \union {"write"} /\ cs2[c].timer = cs[c].timer,
           NEW lp, \A c \in Conns : lp[c] \in {"writing", "closing"}
    PROVE  Legal(cs2, <<>>, Awaited("running", lp))
<1> DEFINE N == Conns \X {"write"}
<1>1. N \subseteq Conns \X Ops
  BY DEF Ops
<1>2. \A w \in Conns \X Ops : w[2] \in cs2[w[1]].pending <=> w \in N
  <2>1. \A w \in Conns \X Ops : w[1] \in Conns /\ w = <<w[1], w[2]>>
    OBVIOUS
  <2>2. \A c \in Conns : cs2[c].pending = {"write"}
    OBVIOUS
  <2> QED BY <2>1, <2>2
<1>3. \A c \in Conns : cs2[c].timer # "armed"
  OBVIOUS
<1> HIDE DEF N
<1>4. Legal(cs2, <<>>, N)
  <2>1. \A c \in Conns : cs2[c].timer = "armed" => \E w \in Timed(c) : w \in N
    BY ONLY <1>3
  <2> QED BY <1>1, <1>2, <2>1, OperationsStart
<1> QED BY <1>4, BothWrite DEF N

(* start of the WebSocket service. *)
LEMMA WebSocketStartKeeps ==
    ASSUME RelayAssumption, WebSocketAssumption, IInv, service = "websocket", WebSocketStart, UNCHANGED service
    PROVE  IInv' /\ CloseKept(pipe, pipe')
<1> DEFINE s == [Now EXCEPT !.phase = "running"]
<1>1. /\ Now \in Record /\ unusual \in BOOLEAN /\ (~unusual => Resting(pipe, side))
      /\ conn \in [Conns -> Connection] /\ loop \in [Conns -> LoopStates]
      /\ chunks \in [Conns -> 0 .. MaxChunks]
  BY Typed DEF IInv, Whole
<1>2. /\ tasks = <<>> /\ loop = [c \in Conns |-> "unstarted"] /\ stops = 0
      /\ \A c \in Conns : conn[c].pending = {} /\ conn[c].timer = "off" /\ closeSent[c] = 0
  BY BeforeStart DEF WebSocketStart
<1>3. PICK batch \in Batches \union {<<>>}, verdict \in Verdicts :
         LET first == Iterate([Now EXCEPT !.phase = "running"], server, batch, verdict)
         IN Becomes(Iterate([first EXCEPT !.failed = FALSE], client, <<>>, verdict)) /\ Noticed(batch)
  BY DEF WebSocketStart
<1> DEFINE first == Iterate(s, server, batch, verdict)
           second == [first EXCEPT !.failed = FALSE]
           r == Iterate(second, client, <<>>, verdict)
           calm == ~unusual'
<1>4. Becomes(r) /\ Noticed(batch)
  BY <1>3
<1>5. /\ batch \in Seq(Frame) /\ Fragments(batch) \in BOOLEAN
      /\ ~Fragments(batch) => \A i \in 1..Len(batch) : batch[i].fin
  BY BatchTyped
<1>6. unusual' \in BOOLEAN /\ (~unusual' => ~unusual /\ ~Fragments(batch))
  BY <1>1, <1>4, <1>5 DEF Noticed
<1>7. /\ s \in Record /\ s.conn = conn /\ s.loop = loop /\ s.phase = "running" /\ s.stops = stops
      /\ s.pipe = pipe /\ s.side = side /\ s.closeSent = closeSent
  BY <1>1, NowFields DEF Record
<1>8. calm => Resting(s.pipe, s.side) /\ \A i \in 1..Len(batch) : batch[i].fin
  BY <1>1, <1>5, <1>6, <1>7
<1>9. pipe.why = "open"
  BY DEF IInv, Fresh, WebSocketStart
<1>10. client \in Conns /\ server \in Conns /\ Other(client) = server /\ Other(server) = client
       /\ client # server /\ \A c \in Conns : c = client \/ c = server
  BY DEF RelayAssumption, Other
<1> HIDE DEF s, calm, first
<1>11. /\ first \in Record /\ CloseKept(s.pipe, first.pipe) /\ (calm => Resting(first.pipe, first.side))
       /\ Answers(s, first, server) /\ (first.pipe.closed => first.pipe.why # "long")
  <2>1. /\ first \in Record /\ CloseKept(s.pipe, first.pipe) /\ (calm => Resting(first.pipe, first.side))
        /\ IF s.pipe.closed /\ s.pipe.why = "long" THEN Over(s, first, server) ELSE Answers(s, first, server)
        /\ ~s.pipe.closed /\ first.pipe.closed => first.pipe.why # "long"
    BY <1>5, <1>7, <1>8, <1>10, IterateOutcome DEF first
  <2> QED BY <1>7, <1>9, <2>1 DEF CloseKept
<1>12. second \in Record /\ SameLoops(first, second) /\ second.pipe = first.pipe /\ second.side = first.side
  BY <1>11 DEF Record, SameLoops
<1> HIDE DEF second, r
<1>13. /\ r \in Record /\ CloseKept(second.pipe, r.pipe) /\ (calm => Resting(r.pipe, r.side))
       /\ Answers(second, r, client)
  <2>1. <<>> \in Seq(Frame) /\ \A i \in 1..Len(<<>>) : FALSE
    OBVIOUS
  <2>2. \A i \in 1..Len(<<>>) : <<>>[i].fin
    BY <2>1
  <2>3. calm => Resting(second.pipe, second.side)
    BY <1>11, <1>12
  <2>4. /\ r \in Record /\ CloseKept(second.pipe, r.pipe) /\ (calm => Resting(r.pipe, r.side))
        /\ IF second.pipe.closed /\ second.pipe.why = "long" THEN Over(second, r, client)
           ELSE Answers(second, r, client)
    BY <1>10, <1>12, <2>1, <2>2, <2>3, IterateOutcome DEF r
  <2> QED BY <1>11, <1>12, <2>4
<1>14. PICK v \in {"writing", "closing"} : Goes(s, first, server, v)
  BY <1>11 DEF Answers
<1>15. PICK u \in {"writing", "closing"} : Goes(first, r, client, u)
  <2>1. PICK u \in {"writing", "closing"} : Goes(second, r, client, u)
    BY <1>13 DEF Answers
  <2> QED BY <1>12, <2>1 DEF Goes, SameLoops
<1>16. /\ r.phase = "running" /\ r.stops = stops
       /\ first.loop = [loop EXCEPT ![server] = v] /\ r.loop = [first.loop EXCEPT ![client] = u]
       /\ first.conn = [conn EXCEPT ![client] = UntimedWriteStarted(@)]
       /\ r.conn = [first.conn EXCEPT ![server] = UntimedWriteStarted(@)]
  BY <1>7, <1>10, <1>14, <1>15 DEF Goes
<1>17. r.loop[server] = v /\ r.loop[client] = u
  BY <1>1, <1>10, <1>16
<1>18. r.conn[client] = UntimedWriteStarted(conn[client]) /\ r.conn[server] = UntimedWriteStarted(conn[server])
  BY <1>1, <1>10, <1>16
<1>19. Legal(r.conn, tasks', Awaited(r.phase, r.loop))
  <2>1. \A c \in Conns : /\ r.conn[c].pending = conn[c].pending \union {"write"}
                         /\ r.conn[c].timer = conn[c].timer
    BY <1>1, <1>10, <1>18, CallsTyped
  <2>2. \A c \in Conns : r.loop[c] \in {"writing", "closing"}
    BY <1>10, <1>17
  <2>3. r.conn \in [Conns -> Connection]
    BY <1>13 DEF Record
  <2>4. Legal(r.conn, <<>>, Awaited("running", r.loop))
    <3>1. \A c \in Conns : conn[c].pending = {} /\ conn[c].timer = "off"
      BY <1>2
    <3> DEFINE cs == r.conn
               lp == r.loop
    <3>2. /\ cs \in [Conns -> Connection]
          /\ \A c \in Conns : cs[c].pending = conn[c].pending \union {"write"} /\ cs[c].timer = conn[c].timer
          /\ \A c \in Conns : lp[c] \in {"writing", "closing"}
      BY <2>1, <2>2, <2>3
    <3> HIDE DEF cs, lp
    <3>3. Legal(cs, <<>>, Awaited("running", lp))
      BY <3>1, <3>2, WritesStart
    <3> QED BY <3>3 DEF cs, lp
  <2> QED BY <1>2, <1>16, <2>4 DEF WebSocketStart
<1>20. Phases(r.phase, r.loop, r.stops)
  BY <1>2, <1>10, <1>16, <1>17 DEF Phases
<1>21. Closing(r.loop, r.pipe, r.closeSent)
  <2>1. Closing(s.loop, s.pipe, s.closeSent)
    BY <1>7 DEF IInv
  <2>2. Closing(first.loop, first.pipe, first.closeSent)
    BY <1>2, <1>7, <1>10, <1>11, <2>1, ClosingGoesOn
  <2>3. Closing(second.loop, second.pipe, second.closeSent)
    BY <1>12, <2>2 DEF SameLoops
  <2>4. second.loop[client] = "unstarted"
    BY <1>2, <1>10, <1>12, <1>16 DEF SameLoops
  <2> QED BY <1>10, <1>12, <1>13, <2>3, <2>4, ClosingGoesOn
<1>22. IInv'
  <2>1. chunks' = chunks /\ service' = "websocket"
    BY DEF WebSocketStart
  <2>2. r.phase # "start"
    BY <1>16
  <2> QED BY <1>1, <1>4, <1>6, <1>13, <1>19, <1>20, <1>21, <2>1, <2>2, Assembled DEF calm
<1>23. CloseKept(pipe, pipe')
  BY <1>4, <1>7, <1>11, <1>12, <1>13 DEF Becomes, CloseKept
<1> QED BY <1>22, <1>23

(* Only a close frame that is injected replaces what was recorded. *)
KeptOrInjected ==
    pipe.closed => /\ pipe'.closed
                   /\ \/ pipe'.by = pipe.by /\ pipe'.why = pipe.why
                      \/ \E c \in Conns : InjectClose(c)

(* What keeps it needs no injection. *)
LEMMA KeptWithout ==
    ASSUME CloseKept(pipe, pipe')
    PROVE  KeptOrInjected
BY DEF CloseKept, KeptOrInjected

(* Interceptors and others leave the loops alone, and do not open again    *)
(* what is closed.                                                         *)
LEMMA OthersKeep ==
    ASSUME RelayAssumption, IInv, service = "websocket", Others, UNCHANGED service
    PROVE  IInv' /\ KeptOrInjected
<1>1. PICK c \in Conns : SetInterception(c) \/ InjectMessage(c) \/ InjectClose(c)
  BY DEF Others
<1>2. /\ phase = "running" /\ chunks[c] > 0 /\ chunks' = [chunks EXCEPT ![c] = @ - 1]
      /\ UNCHANGED <<conn, tasks, phase, loop, stops, side, closeSent>>
  BY <1>1 DEF SetInterception, InjectMessage, InjectClose, Meddles, connVars
<1>3. /\ Now \in Record /\ pipe \in PipeType /\ unusual \in BOOLEAN
      /\ chunks \in [Conns -> 0 .. MaxChunks] /\ Legal(conn, tasks, Awaited(phase, loop))
  BY Typed
<1>4. chunks' \in [Conns -> 0 .. MaxChunks]
  <2>1. chunks[c] \in 0 .. MaxChunks /\ MaxChunks \in Nat
    BY <1>3 DEF RelayAssumption
  <2>2. chunks[c] - 1 \in 0 .. MaxChunks
    BY <1>2, <2>1
  <2> QED BY <1>2, <1>3, <2>2
<1>5. ASSUME NEW q \in PipeType, pipe' = q, unusual' \in BOOLEAN,
             ~unusual' => ~unusual /\ q.intercept = pipe.intercept, pipe.closed => q.closed
      PROVE  IInv'
  <2> DEFINE r == [Now EXCEPT !.pipe = q]
  <2>1. /\ r \in Record /\ r.conn = conn /\ r.loop = loop /\ r.phase = phase /\ r.stops = stops
        /\ r.pipe = q /\ r.side = side /\ r.closeSent = closeSent
    BY <1>3, NowFields DEF Record
  <2> HIDE DEF r
  <2>2. Becomes(r)
    BY <1>2, <1>5, <2>1 DEF Becomes
  <2>3. Legal(r.conn, tasks', Awaited(r.phase, r.loop)) /\ Phases(r.phase, r.loop, r.stops)
    BY <1>2, <1>3, <2>1 DEF IInv
  <2>4. Closing(r.loop, r.pipe, r.closeSent)
    BY <1>5, <2>1 DEF IInv, Closing
  <2>5. ~unusual' => Resting(r.pipe, r.side)
    BY <1>5, <2>1 DEF IInv, Whole, Resting
  <2>6. service' = "websocket" /\ r.phase # "start"
    BY <1>2, <2>1
  <2> QED BY <1>4, <1>5, <2>1, <2>2, <2>3, <2>4, <2>5, <2>6, Assembled
<1>6. CASE SetInterception(c)
  <2> DEFINE q == [pipe EXCEPT !.intercept = ~@]
  <2>1. pipe' = q /\ unusual' = TRUE
    BY <1>6 DEF SetInterception
  <2>2. q \in PipeType /\ q.closed = pipe.closed /\ q.by = pipe.by /\ q.why = pipe.why
    BY <1>3 DEF PipeType
  <2> HIDE DEF q
  <2>3. IInv'
    BY <1>5, <2>1, <2>2
  <2>4. KeptOrInjected
    BY <2>1, <2>2 DEF KeptOrInjected
  <2> QED BY <2>3, <2>4
<1>7. CASE InjectMessage(c)
  <2> DEFINE v == Append(pipe.messages[c], "text")
             q == [pipe EXCEPT !.messages[c] = v]
  <2>1. pipe' = [pipe EXCEPT !.messages[c] = Append(@, "text")] /\ unusual' = unusual
    BY <1>7 DEF InjectMessage
  <2>2. pipe' = q
    BY <1>3, <2>1 DEF PipeType
  <2>3. v \in Seq(Messages)
    BY <1>3 DEF PipeType, Messages
  <2> HIDE DEF v
  <2>4. q \in PipeType /\ q.closed = pipe.closed /\ q.by = pipe.by /\ q.why = pipe.why
        /\ q.intercept = pipe.intercept
    BY <1>3, <2>3 DEF PipeType
  <2> HIDE DEF q
  <2>5. IInv'
    BY <1>3, <1>5, <2>1, <2>2, <2>4
  <2>6. KeptOrInjected
    BY <2>2, <2>4 DEF KeptOrInjected
  <2> QED BY <2>5, <2>6
<1>8. CASE InjectClose(c)
  <2>1. PICK why \in {"frame", "long"} : pipe' = ClosedBy(Now, Other(c), why).pipe
    BY <1>8 DEF InjectClose
  <2> DEFINE x == ClosedBy(Now, Other(c), why)
  <2>2. unusual' = unusual
    BY <1>8 DEF InjectClose
  <2>3. x.pipe \in PipeType /\ x.pipe.closed /\ x.pipe.intercept = Now.pipe.intercept
    BY <1>3, ClosedByTyped, OtherOne
  <2> DEFINE q == x.pipe
  <2>4. q \in PipeType /\ pipe' = q /\ q.closed /\ q.intercept = pipe.intercept
    BY <2>1, <2>3, NowFields
  <2> HIDE DEF q, x
  <2>5. IInv'
    BY <1>3, <1>5, <2>2, <2>4
  <2>6. KeptOrInjected
    BY <1>8, <2>4 DEF KeptOrInjected
  <2> QED BY <2>5, <2>6
<1> QED BY <1>1, <1>6, <1>7, <1>8

(* A step that leaves the pipeline alone, in either service. *)
LEMMA ConnectionsMove ==
    ASSUME IInv, UNCHANGED <<pipelineVars, service>>,
           Legal(conn', tasks', Awaited(phase', loop')), Phases(phase', loop', stops'),
           phase' \in {"start", "connecting", "running", "stopped"},
           loop' \in [Conns -> LoopStates], chunks' \in [Conns -> 0 .. MaxChunks], stops' \in Nat,
           phase' = "start" => phase = "start", service = "tunnel" \/ loop' = loop
    PROVE  IInv' /\ CloseKept(pipe, pipe')
<1>1. pipe' = pipe /\ side' = side /\ closeSent' = closeSent /\ unusual' = unusual /\ service' = service
  BY DEF pipelineVars
<1>2. /\ conn' \in [Conns -> Connection] /\ tasks' \in Seq(Task)
      /\ Tokens(conn', tasks', Awaited(phase', loop')) /\ Timers(conn', tasks')
  BY DEF Legal
<1>3. TypeOK'
  <2>1. WebSocketTypeOK'
    BY <1>1 DEF IInv, TypeOK, WebSocketTypeOK
  <2>2. RelayTypeOK'
    BY <1>2 DEF RelayTypeOK, ConnTypeOK, LoopStates
  <2> QED BY <1>1, <2>1, <2>2 DEF IInv, TypeOK
<1>4. Fresh' /\ Whole'
  <2>1. Fresh'
    BY <1>1 DEF IInv, Fresh
  <2>2. Resting(pipe', side') <=> Resting(pipe, side)
    BY <1>1
  <2> QED BY <1>1, <2>1, <2>2 DEF IInv, Whole
<1>5. Closing(loop', pipe', closeSent')
  <2>1. CASE loop' = loop
    BY <1>1, <2>1 DEF IInv
  <2>2. CASE service = "tunnel"
    BY <1>1, <2>2 DEF IInv, Fresh, Closing
  <2> QED BY <2>1, <2>2
<1> QED BY <1>1, <1>2, <1>3, <1>4, <1>5 DEF IInv, CloseKept

(* The environment, as a step of the whole. *)
LEMMA EnvironmentStep ==
    ASSUME RelayAssumption, IInv, Environment, UNCHANGED <<pipelineVars, service>>
    PROVE  IInv' /\ CloseKept(pipe, pipe')
<1>1. /\ chunks \in [Conns -> 0 .. MaxChunks] /\ Legal(conn, tasks, Awaited(phase, loop))
      /\ loop \in [Conns -> LoopStates] /\ stops \in Nat
  BY Typed
<1>2. phase \in {"start", "connecting", "running", "stopped"} /\ Phases(phase, loop, stops)
  BY DEF IInv, TypeOK, RelayTypeOK
<1>3. /\ Legal(conn', tasks', Awaited(phase, loop)) /\ phase' = phase /\ loop' = loop /\ stops' = stops
      /\ chunks' \in [Conns -> 0 .. MaxChunks]
  BY <1>1, EnvironmentKeeps DEF RelayAssumption
<1> QED BY <1>1, <1>2, <1>3, ConnectionsMove

(* The loops of the tunnel. *)
LEMMA TunnelLoop ==
    ASSUME RelayAssumption, IInv, service = "tunnel", UNCHANGED <<pipelineVars, service>>,
           tasks # <<>>, Head(tasks).kind = "handler", phase = "running",
           NEW c \in Conns, Token(c, loop[c]) = {For(Head(tasks))},
           tasks' = Tail(tasks), chunks' = chunks,
           \/ /\ loop' = [loop EXCEPT ![c] = "writing"]
              /\ conn' = [conn EXCEPT ![Other(c)] = UntimedWriteStarted(@)]
              /\ UNCHANGED <<phase, stops>>
           \/ /\ loop' = [loop EXCEPT ![c] = "reading"]
              /\ conn' = [conn EXCEPT ![c] = ReadStarted(@)]
              /\ UNCHANGED <<phase, stops>>
           \/ Finish(c)
    PROVE  IInv' /\ CloseKept(pipe, pipe')
<1> DEFINE r == [conn |-> conn', loop |-> loop', phase |-> phase', stops |-> stops']
<1>1. /\ loop \in [Conns -> LoopStates] /\ conn \in [Conns -> Connection] /\ stops \in Nat
      /\ chunks \in [Conns -> 0 .. MaxChunks] /\ Legal(conn, tasks, Awaited(phase, loop))
  BY Typed
<1>2. /\ Other(c) \in Conns /\ Other(c) # c /\ \A d \in Conns : d = c \/ d = Other(c)
  BY OtherOne
<1>3. r.conn = conn' /\ r.loop = loop' /\ r.phase = phase' /\ r.stops = stops'
  OBVIOUS
<1>4. \A d \in Conns : /\ Disconnected(conn[d]) \in Connection
                       /\ Disconnected(conn[d]).pending = conn[d].pending
                       /\ Disconnected(conn[d]).timer = "off"
                       /\ ReadStarted(conn[d]) \in Connection /\ UntimedWriteStarted(conn[d]) \in Connection
  BY <1>1, CallsTyped
<1>5. /\ "writing" \in LoopStates /\ "reading" \in LoopStates /\ "finished" \in LoopStates
  BY DEF LoopStates
<1> HIDE DEF r
<1>6. /\ conn' \in [Conns -> Connection] /\ loop' \in [Conns -> LoopStates]
      /\ phase' \in {"running", "stopped"} /\ stops' \in Nat
      /\ Ends(Now, r, c) \/ \E v \in {"reading", "writing", "closing"} : Goes(Now, r, c, v)
  <2>1. CASE /\ loop' = [loop EXCEPT ![c] = "writing"]
             /\ conn' = [conn EXCEPT ![Other(c)] = UntimedWriteStarted(@)]
             /\ UNCHANGED <<phase, stops>>
    <3>1. Goes(Now, r, c, "writing")
      BY <1>3, <2>1, NowFields DEF Goes
    <3>2. conn' \in [Conns -> Connection]
      BY <1>1, <1>2, <1>4, <2>1
    <3> QED BY <1>1, <1>5, <2>1, <3>1, <3>2
  <2>2. CASE /\ loop' = [loop EXCEPT ![c] = "reading"]
             /\ conn' = [conn EXCEPT ![c] = ReadStarted(@)]
             /\ UNCHANGED <<phase, stops>>
    <3>1. Goes(Now, r, c, "reading")
      BY <1>3, <2>2, NowFields DEF Goes
    <3>2. conn' \in [Conns -> Connection]
      BY <1>1, <1>2, <1>4, <2>2
    <3> QED BY <1>1, <1>5, <2>2, <3>1, <3>2
  <2>3. CASE Finish(c)
    <3>1. loop' = [loop EXCEPT ![c] = "finished"]
      BY <2>3 DEF Finish
    <3>2. CASE loop[Other(c)] = "finished"
      <4>1. /\ conn' = [d \in Conns |-> Disconnected(conn[d])] /\ phase' = "stopped"
            /\ stops' = stops + 1
        BY <2>3, <3>2 DEF Finish, Stop
      <4>2. conn' \in [Conns -> Connection] /\ SamePending(conn, conn') /\ TimersRun(conn, conn')
        BY <1>4, <4>1 DEF SamePending, TimersRun
      <4>3. Ends(Now, r, c)
        BY <1>3, <3>1, <3>2, <4>1, <4>2, NowFields DEF Ends
      <4> QED BY <1>1, <1>5, <3>1, <4>1, <4>2, <4>3
    <3>3. CASE loop[Other(c)] # "finished"
      <4>1. UNCHANGED <<conn, phase, stops>>
        BY <2>3, <3>3 DEF Finish
      <4>2. Ends(Now, r, c)
        BY <1>3, <3>1, <3>3, <4>1, NowFields DEF Ends, SamePending, TimersRun
      <4> QED BY <1>1, <1>5, <3>1, <4>1, <4>2
    <3> QED BY <3>2, <3>3
  <2> QED BY <2>1, <2>2, <2>3
<1>7. Phases("running", loop, stops)
  BY DEF IInv
<1>8. Legal(conn', Tail(tasks), Awaited(phase', loop')) /\ Phases(phase', loop', stops')
  <2>1. Legal(r.conn, Tail(tasks), Awaited(r.phase, r.loop)) /\ Phases(r.phase, r.loop, r.stops)
    BY <1>1, <1>3, <1>6, <1>7, NowFields, LoopSteps
  <2> QED BY <1>3, <2>1
<1> QED BY <1>1, <1>6, <1>8, ConnectionsMove

(* Both loops of the tunnel start, when nothing else is under way. *)
LEMMA InitiateKeeps ==
    ASSUME RelayAssumption, IInv, service = "tunnel", UNCHANGED <<pipelineVars, service>>, Initiate,
           \A c \in Conns : conn[c].pending = {} /\ conn[c].timer = "off", tasks' = <<>>, stops = 0
    PROVE  IInv' /\ CloseKept(pipe, pipe')
<1>1. /\ loop \in [Conns -> LoopStates] /\ conn \in [Conns -> Connection]
      /\ chunks \in [Conns -> 0 .. MaxChunks]
  BY Typed
<1>2. /\ phase' = "running" /\ loop' = [c \in Conns |-> "writing"]
      /\ conn' = [c \in Conns |-> UntimedWriteStarted(conn[c])] /\ chunks' = chunks /\ stops' = stops
  BY DEF Initiate
<1>3. \A c \in Conns : /\ UntimedWriteStarted(conn[c]) \in Connection
                       /\ UntimedWriteStarted(conn[c]).pending = conn[c].pending \union {"write"}
                       /\ UntimedWriteStarted(conn[c]).timer = conn[c].timer
  BY <1>1, CallsTyped
<1> DEFINE cs == conn'
           lp == loop'
<1>4. /\ cs \in [Conns -> Connection]
      /\ \A c \in Conns : cs[c].pending = conn[c].pending \union {"write"} /\ cs[c].timer = conn[c].timer
      /\ \A c \in Conns : lp[c] \in {"writing", "closing"}
  BY <1>2, <1>3
<1> HIDE DEF cs, lp
<1>5. Legal(cs, <<>>, Awaited("running", lp))
  BY <1>4, WritesStart
<1>6. loop' \in [Conns -> LoopStates] /\ stops' \in Nat
  BY <1>2 DEF LoopStates
<1>7. Phases(phase', loop', stops')
  <2>1. \E c \in Conns : TRUE
    BY DEF RelayAssumption
  <2> QED BY <1>2, <2>1 DEF Phases
<1>8. Legal(conn', tasks', Awaited(phase', loop'))
  BY <1>2, <1>5 DEF cs, lp
<1> QED BY <1>1, <1>2, <1>6, <1>7, <1>8, ConnectionsMove

(* start of the tunnel, with or without a connection to the server. *)
LEMMA TunnelStartKeeps ==
    ASSUME RelayAssumption, IInv, service = "tunnel", UNCHANGED <<pipelineVars, service>>, TunnelStart
    PROVE  IInv' /\ CloseKept(pipe, pipe')
<1>1. phase = "start" /\ tasks' = tasks
  BY DEF TunnelStart
<1>2. /\ tasks = <<>> /\ loop = [c \in Conns |-> "unstarted"] /\ stops = 0
      /\ \A c \in Conns : conn[c].pending = {} /\ conn[c].timer = "off"
  BY <1>1, BeforeStart
<1>3. CASE Initiate
  BY <1>1, <1>2, <1>3, InitiateKeeps
<1>4. CASE /\ phase' = "connecting" /\ conn' = [conn EXCEPT ![server] = ConnectStarted(@)]
           /\ UNCHANGED <<loop, chunks, stops>>
  <2>1. /\ loop \in [Conns -> LoopStates] /\ conn \in [Conns -> Connection]
        /\ chunks \in [Conns -> 0 .. MaxChunks] /\ stops \in Nat /\ server \in Conns
    BY Typed DEF RelayAssumption
  <2> DEFINE N == {<<server, "connect">>}
             cs == conn'
  <2>2. /\ ConnectStarted(conn[server]) \in Connection
        /\ ConnectStarted(conn[server]).pending = conn[server].pending \union {"connect"}
    BY <2>1, CallsTyped
  <2>3. /\ cs \in [Conns -> Connection] /\ cs[server].pending = {"connect"}
        /\ \A c \in Conns : c # server => cs[c] = conn[c]
    BY <1>2, <1>4, <2>1, <2>2
  <2> HIDE DEF cs
  <2>4. N \subseteq Conns \X Ops
    BY <2>1 DEF Ops
  <2>5. \A w \in Conns \X Ops : w[2] \in cs[w[1]].pending <=> w \in N
    <3>1. \A w \in Conns \X Ops : w[1] \in Conns /\ w = <<w[1], w[2]>>
      OBVIOUS
    <3> QED BY <1>2, <2>3, <3>1
  <2>6. \A c \in Conns : cs[c].timer = "armed" => \E w \in Timed(c) : w \in N
    <3>1. ASSUME NEW c \in Conns, cs[c].timer = "armed" PROVE <<server, "connect">> \in Timed(c)
      BY <1>2, <2>3, <3>1 DEF Timed
    <3> QED BY <3>1
  <2> HIDE DEF N
  <2>7. Legal(cs, <<>>, N)
    BY <2>3, <2>4, <2>5, <2>6, OperationsStart
  <2>8. Awaited(phase', loop') = N
    BY <1>4, <2>1 DEF Awaited, Awaits, Ops, N
  <2>9. Legal(conn', tasks', Awaited(phase', loop')) /\ Phases(phase', loop', stops')
    BY <1>1, <1>2, <1>4, <2>7, <2>8 DEF cs, Phases
  <2> QED BY <1>4, <2>1, <2>9, ConnectionsMove
<1> QED BY <1>3, <1>4 DEF TunnelStart

(* on_connect_server of the tunnel. *)
LEMMA OnConnectServerKeeps ==
    ASSUME RelayAssumption, IInv, service = "tunnel", UNCHANGED <<pipelineVars, service>>, OnConnectServer
    PROVE  IInv' /\ CloseKept(pipe, pipe')
<1> DEFINE W == Awaited(phase, loop)
<1>1. /\ tasks # <<>> /\ Head(tasks).kind = "handler" /\ Head(tasks).op = "connect"
      /\ tasks' = Tail(tasks)
  BY DEF OnConnectServer, Runs
<1>2. /\ loop \in [Conns -> LoopStates] /\ conn \in [Conns -> Connection] /\ stops \in Nat
      /\ chunks \in [Conns -> 0 .. MaxChunks] /\ Legal(conn, tasks, W)
  BY Typed
<1>3. phase = "connecting" /\ For(Head(tasks)) = <<server, "connect">>
  BY <1>1, <1>2, LoopOfHandler
<1>4. W \subseteq {<<server, "connect">>}
  BY <1>3 DEF Awaited, Awaits
<1>5. loop = [c \in Conns |-> "unstarted"] /\ stops = 0
  BY <1>3 DEF IInv, Phases
<1> HIDE DEF W
<1>6. /\ Tail(tasks) = <<>>
      /\ \A c \in Conns : conn[c].pending = {} /\ conn[c].timer = "off"
  <2> DEFINE N == {}
  <2>1. N \subseteq Conns \X Ops /\ (\A w \in N : w \in W => w = For(Head(tasks)))
    OBVIOUS
  <2>2. \A w \in Conns \X Ops : w[2] \in conn[w[1]].pending <=> w[2] \in conn[w[1]].pending \/ w \in N
    OBVIOUS
  <2>3. \A c \in Conns : conn[c].timer = "armed" => conn[c].timer = "armed" \/ \E w \in Timed(c) : w \in N
    OBVIOUS
  <2>4. Legal(conn, Tail(tasks), (W \ {For(Head(tasks))}) \union N)
    <3> HIDE DEF N
    <3> QED BY <1>1, <1>2, <2>1, <2>2, <2>3, HandlerRuns
  <2>5. (W \ {For(Head(tasks))}) \union N = {}
    BY <1>3, <1>4
  <2>6. Legal(conn, Tail(tasks), {})
    BY <2>4, <2>5
  <2> QED BY <2>6, NothingAwaited
<1>7. CASE Head(tasks).result = "ok"
  <2>1. Initiate
    BY <1>7 DEF OnConnectServer
  <2> QED BY <1>1, <1>5, <1>6, <2>1, InitiateKeeps
<1>8. CASE Head(tasks).result # "ok"
  <2>1. /\ conn' = [c \in Conns |-> Disconnected(conn[c])] /\ phase' = "stopped" /\ stops' = stops + 1
        /\ loop' = loop /\ chunks' = chunks
    BY <1>8 DEF OnConnectServer, Stop
  <2>2. \A c \in Conns : /\ Disconnected(conn[c]) \in Connection
                         /\ Disconnected(conn[c]).pending = conn[c].pending
                         /\ Disconnected(conn[c]).timer = "off"
    BY <1>2, CallsTyped
  <2> DEFINE cs == conn'
  <2>3. /\ cs \in [Conns -> Connection]
        /\ \A c \in Conns : cs[c].pending = {} /\ cs[c].timer = "off"
    BY <1>6, <2>1, <2>2
  <2> HIDE DEF cs
  <2>4. Legal(cs, <<>>, {})
    <3> DEFINE N == {}
    <3>1. N \subseteq Conns \X Ops /\ (\A w \in Conns \X Ops : w[2] \in cs[w[1]].pending <=> w \in N)
      BY <2>3
    <3>2. \A c \in Conns : cs[c].timer = "armed" => \E w \in Timed(c) : w \in N
      BY <2>3
    <3>3. Legal(cs, <<>>, N)
      <4> HIDE DEF N
      <4> QED BY <2>3, <3>1, <3>2, OperationsStart
    <3> QED BY <3>3
  <2>5. Awaited(phase', loop') = {}
    BY <2>1, AwaitedNone
  <2>6. Legal(conn', tasks', Awaited(phase', loop'))
    BY <1>1, <1>6, <2>4, <2>5 DEF cs
  <2>7. Phases(phase', loop', stops')
    BY <1>5, <2>1 DEF Phases
  <2> QED BY <1>2, <2>1, <2>6, <2>7, ConnectionsMove
<1> QED BY <1>7, <1>8

(* on_read of a tunnel loop. *)
LEMMA LoopReadKeeps ==
    ASSUME RelayAssumption, IInv, service = "tunnel", UNCHANGED <<pipelineVars, service>>, LoopRead
    PROVE  IInv' /\ CloseKept(pipe, pipe')
<1> DEFINE c == Head(tasks).conn
<1>1. /\ tasks # <<>> /\ Head(tasks).kind = "handler" /\ phase = "running" /\ c \in Conns
      /\ Token(c, loop[c]) = {For(Head(tasks))}
  BY ReadHandler DEF LoopRead
<1>2. tasks' = Tail(tasks) /\ chunks' = chunks
  BY DEF LoopRead
<1>3. \/ /\ loop' = [loop EXCEPT ![c] = "writing"]
         /\ conn' = [conn EXCEPT ![Other(c)] = UntimedWriteStarted(@)]
         /\ UNCHANGED <<phase, stops>>
      \/ Finish(c)
  BY DEF LoopRead
<1> HIDE DEF c
<1> QED BY <1>1, <1>2, <1>3, TunnelLoop

(* on_write of a tunnel loop. *)
LEMMA LoopWriteKeeps ==
    ASSUME RelayAssumption, IInv, service = "tunnel", UNCHANGED <<pipelineVars, service>>, LoopWrite
    PROVE  IInv' /\ CloseKept(pipe, pipe')
<1> DEFINE c == Other(Head(tasks).conn)
<1>1. /\ tasks # <<>> /\ Head(tasks).kind = "handler" /\ phase = "running" /\ c \in Conns
      /\ Token(c, loop[c]) = {For(Head(tasks))}
  BY WriteHandler DEF LoopWrite
<1>2. tasks' = Tail(tasks) /\ chunks' = chunks
  BY DEF LoopWrite
<1>3. \/ /\ loop' = [loop EXCEPT ![c] = "reading"]
         /\ conn' = [conn EXCEPT ![c] = ReadStarted(@)]
         /\ UNCHANGED <<phase, stops>>
      \/ Finish(c)
  BY DEF LoopWrite
<1> HIDE DEF c
<1> QED BY <1>1, <1>2, <1>3, TunnelLoop

(***************************************************************************)
(* The theorems.                                                           *)
(***************************************************************************)

(* The invariant holds before the service starts. *)
LEMMA InitInv ==
    ASSUME RelayAssumption, Init
    PROVE  IInv
<1>1. client \in Conns /\ server \in Conns
  BY DEF RelayAssumption
<1>2. /\ conn \in [Conns -> [peer : {"alive", "closed", "reset"}, socket : {"closed", "open", "shut"},
                             connected : BOOLEAN, timer : {"off"}, pending : {{}}]]
      /\ tasks = <<>> /\ phase = "start" /\ loop = [c \in Conns |-> "unstarted"]
      /\ chunks \in [Conns -> 0 .. MaxChunks] /\ stops = 0 /\ service \in {"tunnel", "websocket"}
  BY DEF Init, RelayInit
<1>3. /\ pipe \in [intercept : BOOLEAN, closed : {FALSE}, by : {client}, why : {"open"},
                   frames : {[c \in Conns |-> <<>>]}, messages : {[c \in Conns |-> <<>>]}]
      /\ side = [c \in Conns |-> [parser |-> InitialParser, ready |-> TRUE, held |-> "none",
                                  sent |-> "none", torn |-> FALSE]]
      /\ closeSent = [c \in Conns |-> 0] /\ unusual = FALSE
  BY DEF Init, WebSocketInit
<1>4. conn \in [Conns -> Connection] /\ \A c \in Conns : conn[c].pending = {} /\ conn[c].timer = "off"
  <2>1. ASSUME NEW c \in Conns
        PROVE  conn[c] \in Connection /\ conn[c].pending = {} /\ conn[c].timer = "off"
    <3>1. conn[c] \in [peer : {"alive", "closed", "reset"}, socket : {"closed", "open", "shut"},
                       connected : BOOLEAN, timer : {"off"}, pending : {{}}]
      BY <1>2
    <3> QED BY <3>1 DEF Connection
  <2> QED BY <1>2, <2>1
<1>5. RelayTypeOK
  BY <1>2, <1>4 DEF RelayTypeOK, ConnTypeOK
<1>6. WebSocketTypeOK
  <2>1. pipe \in PipeType
    <3>1. /\ [c \in Conns |-> <<>>] \in [Conns -> Seq({"pong"})]
          /\ [c \in Conns |-> <<>>] \in [Conns -> Seq(Messages)]
      OBVIOUS
    <3> QED BY <1>1, <1>3, <3>1 DEF PipeType
  <2>2. InitialParser \in Parser
    BY DEF InitialParser, Parser
  <2>3. side \in [Conns -> Side]
    BY <1>3, <2>2 DEF Side, Parts
  <2>4. closeSent \in [Conns -> Nat] /\ unusual \in BOOLEAN
    BY <1>3
  <2> QED BY <2>1, <2>3, <2>4 DEF WebSocketTypeOK, PipeType
<1>7. TypeOK
  BY <1>2, <1>5, <1>6 DEF TypeOK
<1>8. Legal(conn, tasks, Awaited(phase, loop))
  <2>1. Awaited(phase, loop) = {}
    BY <1>2, AwaitedNone
  <2> DEFINE N == {}
  <2>2. N \subseteq Conns \X Ops /\ (\A w \in Conns \X Ops : w[2] \in conn[w[1]].pending <=> w \in N)
    BY <1>4
  <2>3. \A c \in Conns : conn[c].timer = "armed" => \E w \in Timed(c) : w \in N
    BY <1>4
  <2>4. Legal(conn, <<>>, N)
    <3> HIDE DEF N
    <3> QED BY <1>4, <2>2, <2>3, OperationsStart
  <2> QED BY <1>2, <2>1, <2>4
<1>9. Phases(phase, loop, stops) /\ Fresh /\ Closing(loop, pipe, closeSent)
  BY <1>2, <1>3 DEF Phases, Fresh, Closing
<1>10. Whole
  BY <1>3 DEF Whole, Resting, InitialParser
<1> QED BY <1>7, <1>8, <1>9, <1>10 DEF IInv, Legal

(* Every step keeps the invariant, and the first reason to close unless a  *)
(* close frame is injected.                                                *)
LEMMA StepKeeps ==
    ASSUME RelayAssumption, WebSocketAssumption, IInv, [Next]_vars
    PROVE  IInv' /\ KeptOrInjected
<1>1. CASE UNCHANGED vars
  <2>1. UNCHANGED <<conn, tasks, phase, loop, chunks, stops, pipelineVars, service>>
    BY <1>1 DEF vars, webSocketVars, connVars, relayVars, pipelineVars
  <2>2. /\ chunks \in [Conns -> 0 .. MaxChunks] /\ Legal(conn, tasks, Awaited(phase, loop))
        /\ loop \in [Conns -> LoopStates] /\ stops \in Nat
    BY Typed
  <2>3. phase \in {"start", "connecting", "running", "stopped"} /\ Phases(phase, loop, stops)
    BY DEF IInv, TypeOK, RelayTypeOK
  <2>4. /\ Legal(conn', tasks', Awaited(phase', loop')) /\ Phases(phase', loop', stops')
    BY <2>1, <2>2, <2>3
  <2> QED BY <2>1, <2>2, <2>3, <2>4, ConnectionsMove, KeptWithout
<1>2. CASE TunnelStep /\ UNCHANGED service
  <2>1. service = "tunnel" /\ UNCHANGED <<pipelineVars, service>>
    BY <1>2 DEF TunnelStep
  <2>2. CASE TunnelStart
    BY <2>1, <2>2, TunnelStartKeeps, KeptWithout
  <2>3. CASE OnConnectServer
    BY <2>1, <2>3, OnConnectServerKeeps, KeptWithout
  <2>4. CASE LoopRead
    BY <2>1, <2>4, LoopReadKeeps, KeptWithout
  <2>5. CASE LoopWrite
    BY <2>1, <2>5, LoopWriteKeeps, KeptWithout
  <2>6. CASE Environment
    BY <2>1, <2>6, EnvironmentStep, KeptWithout
  <2> QED BY <1>2, <2>2, <2>3, <2>4, <2>5, <2>6 DEF TunnelStep, TunnelNext
<1>3. CASE WebSocketStep /\ UNCHANGED service
  <2>1. service = "websocket" /\ UNCHANGED service
    BY <1>3 DEF WebSocketStep
  <2>2. CASE WebSocketStart
    BY <2>1, <2>2, WebSocketStartKeeps, KeptWithout
  <2>3. CASE OnSourceRead
    BY <2>1, <2>3, OnSourceReadKeeps, KeptWithout
  <2>4. CASE OnDestinationWrite
    BY <2>1, <2>4, OnDestinationWriteKeeps, KeptWithout
  <2>5. CASE Others
    BY <2>1, <2>5, OthersKeep
  <2>6. CASE Environment /\ UNCHANGED pipelineVars
    BY <2>1, <2>6, EnvironmentStep, KeptWithout
  <2> QED BY <1>3, <2>2, <2>3, <2>4, <2>5, <2>6 DEF WebSocketStep, WebSocketNext
<1> QED BY <1>1, <1>2, <1>3 DEF Next

(* The invariant holds in every behaviour of the two services. *)
THEOREM RelaysInvariant == Spec => []IInv
<1>1. Init => IInv
  BY RelayAssumption, InitInv
<1>2. IInv /\ [Next]_vars => IInv'
  BY RelayAssumption, WebSocketAssumption, StepKeeps
<1> QED BY <1>1, <1>2, PTL DEF Spec

(* Every variable keeps its type. *)
THEOREM RelaysTypes == Spec => []TypeOK
<1>1. IInv => TypeOK
  BY DEF IInv
<1> QED BY <1>1, RelaysInvariant, PTL

(* What a loop waits for is in the reactor or in the run queue, and nothing else. *)
LEMMA AwaitedPair ==
    ASSUME NEW ph, NEW lp, NEW c \in Conns, NEW op \in Ops
    PROVE  <<c, op>> \in Awaited(ph, lp) <=> Awaits(ph, lp, c, op)
<1>1. \A w \in Conns \X Ops :
         w = <<c, op>> => (w \in Awaited(ph, lp) <=> Awaits(ph, lp, c, op))
  BY DEF Awaited
<1> QED BY <1>1

(* What is in progress is exactly what is awaited. *)
LEMMA InProgressAwaited ==
    ASSUME IInv, NEW c \in Conns, NEW op \in Ops
    PROVE  InProgress(c, {op}) <=> Awaits(phase, loop, c, op)
<1> DEFINE w == <<c, op>>
           W == Awaited(phase, loop)
<1>1. Tokens(conn, tasks, W) /\ tasks \in Seq(Task)
  BY DEF IInv, TypeOK, RelayTypeOK, ConnTypeOK
<1>2. w \in Conns \X Ops /\ w[1] = c /\ w[2] = op
  OBVIOUS
<1>3. w \in W <=> Awaits(phase, loop, c, op)
  BY AwaitedPair
<1>4. \A i \in 1..Len(tasks) : tasks[i].kind \in {"completion", "handler", "expiry"}
  <2>1. \A i \in 1..Len(tasks) : tasks[i] \in Task
    BY <1>1
  <2>2. \A t \in Task : t.kind \in {"completion", "handler", "expiry"}
    BY DEF Task
  <2> QED BY <2>1, <2>2
<1>5. DOMAIN tasks = 1..Len(tasks)
  BY <1>1
<1> HIDE DEF W
<1>6. ASSUME InProgress(c, {op}) PROVE w \in W
  <2>1. CASE op \in conn[c].pending
    <3> HIDE DEF w
    <3> QED BY <1>1, <1>2, <2>1 DEF Tokens
  <2>2. CASE \E i \in 1..Len(tasks) : Busy(tasks[i]) /\ tasks[i].conn = c /\ tasks[i].op = op
    <3>1. PICK i \in 1..Len(tasks) : Busy(tasks[i]) /\ tasks[i].conn = c /\ tasks[i].op = op
      BY <2>2
    <3>2. For(tasks[i]) = w
      BY <3>1 DEF For
    <3> HIDE DEF w
    <3> QED BY <1>1, <3>1, <3>2 DEF Tokens
  <2> QED BY <1>5, <1>6, <2>1, <2>2 DEF InProgress, Queued, Busy
<1>7. ASSUME w \in W PROVE InProgress(c, {op})
  <2>1. op \in conn[c].pending \/ \E i \in 1..Len(tasks) : Busy(tasks[i]) /\ For(tasks[i]) = w
    <3> HIDE DEF w
    <3> QED BY <1>1, <1>2, <1>7 DEF Tokens
  <2>2. CASE op \in conn[c].pending
    BY <2>2 DEF InProgress
  <2>3. CASE \E i \in 1..Len(tasks) : Busy(tasks[i]) /\ For(tasks[i]) = w
    <3>1. PICK i \in 1..Len(tasks) : Busy(tasks[i]) /\ For(tasks[i]) = w
      BY <2>3
    <3>2. tasks[i].kind \in {"completion", "handler"} /\ tasks[i].conn = c /\ tasks[i].op = op
      BY <1>4, <3>1 DEF Busy, For
    <3> QED BY <1>5, <3>1, <3>2 DEF InProgress, Queued
  <2> QED BY <2>1, <2>2, <2>3
<1> QED BY <1>3, <1>6, <1>7

(* Each loop has exactly the operation in progress that it waits for: in   *)
(* tunnel_loop and websocket_loop no byte is read while the previous one   *)
(* is being written, and no loop is forgotten.                             *)
THEOREM OneOperation == Spec => []OneOperationPerLoop
<1>1. IInv => OneOperationPerLoop
  <2> SUFFICES ASSUME IInv, phase = "running", NEW c \in Conns
               PROVE  /\ InProgress(c, {"read"}) <=> loop[c] = "reading"
                      /\ InProgress(Other(c), {"write"}) <=> loop[c] \in {"writing", "closing"}
    BY DEF OneOperationPerLoop
  <2>1. Other(c) \in Conns /\ Other(Other(c)) = c
    BY RelayAssumption, OtherOne
  <2>2. /\ InProgress(c, {"read"}) <=> Awaits(phase, loop, c, "read")
        /\ InProgress(Other(c), {"write"}) <=> Awaits(phase, loop, Other(c), "write")
    BY <2>1, InProgressAwaited DEF Ops
  <2> QED BY <2>1, <2>2 DEF Awaits
<1> QED BY <1>1, RelaysInvariant, PTL

(* connection_handler::stop is called once, when neither the reactor nor   *)
(* the run queue holds a pointer to the connections it destroys.           *)
THEOREM RelayStopsOnce == Spec => []StopsOnceAndQuiet
<1>1. IInv => StopsOnceAndQuiet
  <2> SUFFICES ASSUME IInv PROVE StopsOnceAndQuiet
    OBVIOUS
  <2>1. stops <= 1 /\ (phase = "stopped" => stops = 1)
    BY DEF IInv, Phases
  <2>2. ASSUME phase = "stopped" PROVE Quiet
    <3>1. Awaited(phase, loop) = {}
      BY <2>2, RelayAssumption, AwaitedNone
    <3>2. Legal(conn, tasks, {})
      BY <3>1, Typed
    <3> QED BY <3>2, NothingAwaited DEF Quiet
  <2> QED BY <2>1, <2>2 DEF StopsOnceAndQuiet
<1> QED BY <1>1, RelaysInvariant, PTL

(* close_connection sends each side at most one close frame, whatever      *)
(* fails meanwhile, and none before the pipeline is closed.                *)
THEOREM OneCloseFrame == Spec => []CloseSentOnce
<1>1. IInv => CloseSentOnce
  BY DEF IInv, Closing, CloseSentOnce
<1> QED BY <1>1, RelaysInvariant, PTL

(* on_message_frame forwards every message whole and on its own, whatever  *)
(* is injected meanwhile, as long as nobody sends fragments or switches    *)
(* interception.                                                           *)
THEOREM MessagesStayWhole == Spec => []MessagesIntact
<1>1. IInv => MessagesIntact
  BY DEF IInv, Whole, Resting, MessagesIntact
<1> QED BY <1>1, RelaysInvariant, PTL

(* Once set_close_state has recorded who closed the connection, and why,   *)
(* nothing the service does for a later frame, error or aborted read of    *)
(* either side changes it; only inject_frame does, with a close frame.     *)
THEOREM CloseStateKept == Spec => FirstCloseKept
<1>1. IInv /\ [Next]_vars =>
         [pipe.closed =>
            /\ pipe'.closed
            /\ \/ pipe'.by = pipe.by /\ pipe'.why = pipe.why
               \/ \E c \in Conns : InjectClose(c)]_webSocketVars
  BY RelayAssumption, WebSocketAssumption, StepKeeps DEF KeptOrInjected
<1> QED BY <1>1, RelaysInvariant, PTL DEF Spec, FirstCloseKept
==============================================================================
