----------------------------- MODULE PoolProofs -----------------------------
(* Theorems about ConnectionSupervisor and Pool, for every value of their  *)
(* constants.                                                              *)
EXTENDS Pool, FiniteSetTheorems, TLAPS

-----------------------------------------------------------------------------
(* The supervisor.                                                         *)

\* At first the state is Disconnected, and the loop believes it is.
LEMMA SupervisorInit == Init => TypeOK
  BY SupervisorAssumption DEF Init, TypeOK

\* The loop is the only writer of the state, and it writes after it has read.
LEMMA SupervisorStep == TypeOK /\ [Next]_vars => TypeOK'
<1> SUFFICES ASSUME TypeOK, [Next]_vars PROVE TypeOK'
  OBVIOUS
<1> USE SupervisorAssumption DEF TypeOK
<1>1. CASE GoDown
  <2>1. outages' \in 0..MaxOutages
    BY <1>1 DEF GoDown
  <2> QED BY <1>1, <2>1 DEF GoDown, loop
<1>2. CASE GoUp
  BY <1>2 DEF GoUp, loop
<1>3. CASE ReadState
  BY <1>3 DEF ReadState, redis
<1>4. CASE PingOk
  BY <1>4 DEF PingOk, redis
<1>5. CASE PingFail
  <2>1. failures' \in 0..(BackoffAfter + 1)
    BY <1>5 DEF PingFail
  <2>2. sup' \in {"disconnect", "backoff", "reconnect"}
    BY <1>5 DEF PingFail, Recover
  <2> QED BY <1>5, <2>1, <2>2 DEF PingFail, redis
<1>6. CASE SetDisconnected
  BY <1>6 DEF SetDisconnected, Recover, redis
<1>7. CASE Backoff
  BY <1>7 DEF Backoff, redis
<1>8. CASE ReconnectOk
  BY <1>8 DEF ReconnectOk, redis
<1>9. CASE ReconnectFail
  <2>1. attempt' \in 1..MaxAttempts /\ sup' \in {"reconnect", "sleep"}
    BY <1>9 DEF ReconnectFail
  <2> QED BY <1>9, <2>1 DEF ReconnectFail, redis
<1>10. CASE SetConnected
  BY <1>10 DEF SetConnected, redis
<1>11. CASE Notify
  BY <1>11 DEF Notify, redis
<1>12. CASE Sleep
  BY <1>12 DEF Sleep, redis
<1>13. ASSUME NEW w \in Waiters, Call(w) \/ Check(w) \/ Block(w) \/ Return(w)
       PROVE  TypeOK'
  <2>1. waiter' \in [Waiters -> {"idle", "check", "unlocked", "blocked", "ready"}]
    BY <1>13 DEF Call, Check, Block, Return
  <2> QED BY <1>13, <2>1 DEF Call, Check, Block, Return, redis, loop
<1>14. CASE UNCHANGED vars
  BY <1>14 DEF vars, redis, loop
<1> QED
  BY <1>1, <1>2, <1>3, <1>4, <1>5, <1>6, <1>7, <1>8, <1>9, <1>10, <1>11, <1>12,
     <1>13, <1>14 DEF Next, Supervise

\* What the supervision loop has read of the shared state holds until it writes,
\* however Redis and the callers of wait_ready interleave with it.
THEOREM SupervisorTypeCorrect == Spec => []TypeOK
  BY SupervisorInit, SupervisorStep, PTL DEF Spec

-----------------------------------------------------------------------------
(* The queue of requests for the lock.                                     *)

Asked(s, r) == \E i \in DOMAIN s : s[i] = r

OneEach(s) == \A i, j \in DOMAIN s : i # j => s[i].task # s[j].task

\* A task that is not in the queue joins it.
LEMMA Joined ==
  ASSUME NEW s \in Seq(M!Request), NEW r \in M!Request, OneEach(s),
         \A i \in DOMAIN s : s[i].task # r.task
  PROVE  /\ Append(s, r) \in Seq(M!Request) /\ OneEach(Append(s, r))
         /\ \A x : Asked(Append(s, r), x) <=> Asked(s, x) \/ x = r
<1>1. /\ Append(s, r) \in Seq(M!Request) /\ Len(s) + 1 \notin DOMAIN s
      /\ DOMAIN Append(s, r) = DOMAIN s \cup {Len(s) + 1}
      /\ \A i \in DOMAIN s : Append(s, r)[i] = s[i]
      /\ Append(s, r)[Len(s) + 1] = r
  OBVIOUS
<1>2. OneEach(Append(s, r))
  BY <1>1 DEF OneEach
<1> QED BY <1>1, <1>2 DEF Asked

\* The first of the queue is served.
LEMMA Served ==
  ASSUME NEW s \in Seq(M!Request), s # <<>>, OneEach(s)
  PROVE  /\ Tail(s) \in Seq(M!Request) /\ OneEach(Tail(s))
         /\ Head(s) \in M!Request /\ Asked(s, Head(s))
         /\ \A x : Asked(Tail(s), x) <=> Asked(s, x) /\ x # Head(s)
         /\ \A i \in DOMAIN Tail(s) : Tail(s)[i].task # Head(s).task
<1>1. /\ Tail(s) \in Seq(M!Request) /\ Head(s) = s[1] /\ Len(s) \in Nat
      /\ DOMAIN s = 1..Len(s) /\ DOMAIN Tail(s) = 1..(Len(s) - 1) /\ Len(s) > 0
      /\ \A i \in DOMAIN Tail(s) : Tail(s)[i] = s[i + 1]
      /\ \A i \in DOMAIN s : s[i] \in M!Request
  OBVIOUS
<1>2. /\ 1 \in DOMAIN s
      /\ \A i \in DOMAIN Tail(s) : i + 1 \in DOMAIN s /\ i + 1 # 1
      /\ \A i \in DOMAIN s : i # 1 => i - 1 \in DOMAIN Tail(s) /\ (i - 1) + 1 = i
  BY <1>1
<1>3. OneEach(Tail(s)) /\ \A i \in DOMAIN Tail(s) : Tail(s)[i].task # Head(s).task
  <2>1. \A i, j \in DOMAIN Tail(s) : i # j => i + 1 # j + 1
    BY <1>1
  <2> QED BY <1>1, <1>2, <2>1 DEF OneEach
<1>4. ASSUME NEW x PROVE Asked(Tail(s), x) <=> Asked(s, x) /\ x # Head(s)
  <2>1. ASSUME Asked(Tail(s), x) PROVE Asked(s, x) /\ x # Head(s)
    BY <1>1, <1>2, <1>3, <2>1 DEF Asked
  <2>2. ASSUME Asked(s, x), x # Head(s) PROVE Asked(Tail(s), x)
    <3>1. PICK i \in DOMAIN s : s[i] = x /\ i # 1
      BY <1>1, <2>2 DEF Asked
    <3>2. i - 1 \in DOMAIN Tail(s) /\ Tail(s)[i - 1] = x
      BY <1>1, <1>2, <3>1
    <3> QED BY <3>2 DEF Asked
  <2> QED BY <2>1, <2>2
<1> QED BY <1>1, <1>2, <1>3, <1>4 DEF Asked

-----------------------------------------------------------------------------
(* The calls of get_connection: the inductive invariant.                   *)

\* A pool that get_connection is called on has registered its queue, for good.
KnownFromOpening == \A o \in opened : entry.known \/ Asks(o, "register")

\* Only callers of get_connection record, after the queue has become known.
RecordersAreCallers ==
    \A t \in Tasks : \A op \in {"success", "failure", "error"} :
        Asks(t, op) => t \in Waiters /\ entry.known

\* A caller waits for its connection before it asks for the lock.
OneThingAtATime ==
    \A w \in Waiters : waiter[w] # "idle" => entry.known /\ ~M!Busy(w)

CallsInv ==
    /\ PoolTypeOK
    /\ KnownFromOpening
    /\ RecordersAreCallers
    /\ OneThingAtATime
    /\ IsFiniteSet(Uncounted) /\ IsFiniteSet(BetweenRecords)
    /\ EveryCallCounted
    /\ forgotten = 0 => Cardinality(BetweenRecords) <= entry.failed
    /\ ErrorsMatchFailures

\* What the metrics part of PoolTypeOK says, spelled out.
MetricsParts ==
    /\ waiting \in Seq(M!Request) /\ OneEach(waiting) /\ guards \subseteq Tasks
    /\ entry \in [known : BOOLEAN, ok : Nat, failed : Nat, errors : Seq(Tasks)]
    /\ Len(entry.errors) <= MaxErrors

CountParts ==
    /\ opened \subseteq Openers
    /\ calls \in 0..MaxCalls /\ checks \in 0..MaxChecks /\ forgotten \in Nat

\* The parts are the whole.
LEMMA TypeParts == PoolTypeOK <=> TypeOK /\ MetricsParts /\ CountParts
  BY DEF PoolTypeOK, M!MetricsTypeOK, MetricsParts, CountParts, OneEach

\* A task that asks is busy.
LEMMA AsksIsBusy == \A t, op : Asks(t, op) => M!Busy(t)
  BY DEF Asks, M!Busy

\* Asks is about the queue as it is now.
LEMMA AsksAsked == \A t, op : Asks(t, op) <=> Asked(waiting, [task |-> t, op |-> op])
  BY DEF Asks, Asked

\* Whoever records is done with its connection.
LEMMA RecorderIdle ==
  ASSUME OneThingAtATime, NEW w \in Waiters, NEW op, Asks(w, op)
  PROVE  waiter[w] = "idle"
  BY AsksIsBusy DEF OneThingAtATime

\* The supervisor, the callers that wait and Redis: no call begins or ends.
LEMMA ConnectionStep ==
  ASSUME CallsInv, Connection
  PROVE  CallsInv'
<1>1. /\ [Next]_vars /\ UNCHANGED <<metrics, counts>>
      /\ \A w \in Waiters : waiter'[w] = "idle" <=> waiter[w] = "idle"
  BY DEF Connection, Next, GoDown, GoUp, Supervise, ReadState, PingOk, PingFail,
         SetDisconnected, Backoff, ReconnectOk, ReconnectFail, SetConnected, Notify,
         Sleep, Check, Block, CallsInv, PoolTypeOK, TypeOK
<1>2. UNCHANGED <<waiting, guards, entry, opened, calls, checks, forgotten>>
  BY <1>1 DEF metrics, counts
<1>3. PoolTypeOK'
  BY <1>1, <1>2, SupervisorStep DEF CallsInv, PoolTypeOK, M!MetricsTypeOK
<1>4. \A t, op : Asks(t, op)' <=> Asks(t, op)
  BY <1>2 DEF Asks
<1>5. Uncounted' = Uncounted /\ BetweenRecords' = BetweenRecords
  BY <1>1, <1>4 DEF Uncounted, BetweenRecords
<1>6. EveryCallCounted' /\ ErrorsMatchFailures'
  BY <1>2, <1>5 DEF CallsInv, EveryCallCounted, ErrorsMatchFailures
<1>7. KnownFromOpening' /\ RecordersAreCallers'
  BY <1>2, <1>4 DEF CallsInv, KnownFromOpening, RecordersAreCallers
<1>8. OneThingAtATime'
  BY <1>1, <1>2 DEF CallsInv, OneThingAtATime, M!Busy
<1> QED BY <1>2, <1>3, <1>5, <1>6, <1>7, <1>8 DEF CallsInv

\* A task that was idle asks for the lock.
LEMMA AskStep ==
  ASSUME CallsInv, NEW t \in Tasks, NEW op \in M!Writes \cup M!Reads, ~M!Busy(t),
         waiting' = M!Ask(t, op), UNCHANGED <<guards, entry>>
  PROVE  /\ MetricsParts'
         /\ \A u, q : Asks(u, q)' <=> Asks(u, q) \/ (u = t /\ q = op)
         /\ \A u : M!Busy(u)' <=> M!Busy(u) \/ u = t
<1> DEFINE r == [task |-> t, op |-> op]
<1>1. waiting \in Seq(M!Request) /\ OneEach(waiting) /\ MetricsParts
  BY TypeParts DEF CallsInv, MetricsParts
<1>2. r \in M!Request /\ waiting' = Append(waiting, r) /\ r.task = t /\ r.op = op
  BY DEF M!Request, M!Ask
<1>3. \A i \in DOMAIN waiting : waiting[i].task # t
  BY DEF M!Busy
<1> HIDE DEF r
<1>4. /\ waiting' \in Seq(M!Request) /\ OneEach(waiting')
      /\ \A x : Asked(waiting', x) <=> Asked(waiting, x) \/ x = r
  BY <1>1, <1>2, <1>3, Joined
<1>5. MetricsParts'
  BY <1>1, <1>4 DEF MetricsParts
<1>6. ASSUME NEW u, NEW q PROVE Asks(u, q)' <=> Asks(u, q) \/ (u = t /\ q = op)
  <2>1. [task |-> u, op |-> q] = r <=> u = t /\ q = op
    BY DEF r
  <2> QED BY <1>4, <2>1 DEF Asks, Asked
<1>7. ASSUME NEW u PROVE M!Busy(u)' <=> M!Busy(u) \/ u = t
  <2>1. (\E i \in DOMAIN waiting' : waiting'[i].task = u)
           <=> (\E i \in DOMAIN waiting : waiting[i].task = u) \/ u = t
    <3>1. (\E x : Asked(waiting', x) /\ x.task = u)
             <=> (\E x : Asked(waiting, x) /\ x.task = u) \/ u = t
      BY <1>2, <1>4
    <3> QED BY <3>1 DEF Asked
  <2> QED BY <2>1 DEF M!Busy
<1> QED BY <1>5, <1>6, <1>7

\* with_config registers the queue of the new pool.
LEMMA OpenStep ==
  ASSUME CallsInv, NEW o \in Openers, Open(o)
  PROVE  CallsInv'
<1>1. /\ o \in Tasks /\ ~M!Busy(o) /\ waiting' = M!Ask(o, "register")
      /\ opened' = opened \cup {o} /\ (o \in Waiters => waiter[o] = "idle")
      /\ UNCHANGED <<vars, guards, entry, calls, checks, forgotten>>
      /\ "register" \in M!Writes \cup M!Reads
  BY DEF Open, Idle, Tasks, M!Writes
<1>2. /\ MetricsParts'
      /\ \A u, q : Asks(u, q)' <=> Asks(u, q) \/ (u = o /\ q = "register")
      /\ \A u : M!Busy(u)' <=> M!Busy(u) \/ u = o
  BY <1>1, AskStep
<1>3. PoolTypeOK'
  <2>1. TypeOK' /\ CountParts'
    BY <1>1, TypeParts, SupervisorStep DEF CallsInv, CountParts
  <2> QED BY <1>2, <2>1 DEF PoolTypeOK, M!MetricsTypeOK, MetricsParts, CountParts, OneEach
<1>4. waiter' = waiter
  BY <1>1 DEF vars
<1>5. Uncounted' = Uncounted /\ BetweenRecords' = BetweenRecords
  BY <1>2, <1>4 DEF Uncounted, BetweenRecords
<1>6. EveryCallCounted' /\ ErrorsMatchFailures'
  BY <1>1, <1>5 DEF CallsInv, EveryCallCounted, ErrorsMatchFailures
<1>7. KnownFromOpening' /\ RecordersAreCallers' /\ OneThingAtATime'
  BY <1>1, <1>2, <1>4 DEF CallsInv, KnownFromOpening, RecordersAreCallers, OneThingAtATime
<1> QED BY <1>1, <1>3, <1>5, <1>6, <1>7 DEF CallsInv

\* A health check waits for its turn.
LEMMA AskHealthStep ==
  ASSUME CallsInv, NEW c \in Checkers, NEW op \in {"check", "all"}, AskHealth(c, op)
  PROVE  CallsInv'
<1>1. /\ c \in Tasks /\ ~M!Busy(c) /\ waiting' = M!Ask(c, op)
      /\ checks < MaxChecks /\ checks' = checks + 1
      /\ (c \in Waiters => waiter[c] = "idle")
      /\ UNCHANGED <<vars, guards, entry, opened, calls, forgotten>>
      /\ op \in M!Writes \cup M!Reads
  BY DEF AskHealth, Idle, Tasks, M!Reads
<1>2. /\ MetricsParts'
      /\ \A u, q : Asks(u, q)' <=> Asks(u, q) \/ (u = c /\ q = op)
      /\ \A u : M!Busy(u)' <=> M!Busy(u) \/ u = c
  BY <1>1, AskStep
<1>3. PoolTypeOK'
  <2>1. TypeOK' /\ CountParts'
    BY <1>1, TypeParts, SupervisorStep, PoolAssumption DEF CallsInv, CountParts
  <2> QED BY <1>2, <2>1 DEF PoolTypeOK, M!MetricsTypeOK, MetricsParts, CountParts, OneEach
<1>4. waiter' = waiter
  BY <1>1 DEF vars
<1>5. Uncounted' = Uncounted /\ BetweenRecords' = BetweenRecords
  BY <1>2, <1>4 DEF Uncounted, BetweenRecords
<1>6. EveryCallCounted' /\ ErrorsMatchFailures'
  BY <1>1, <1>5 DEF CallsInv, EveryCallCounted, ErrorsMatchFailures
<1>7. KnownFromOpening' /\ RecordersAreCallers' /\ OneThingAtATime'
  BY <1>1, <1>2, <1>4 DEF CallsInv, KnownFromOpening, RecordersAreCallers, OneThingAtATime
<1> QED BY <1>1, <1>3, <1>5, <1>6, <1>7 DEF CallsInv

\* get_connection begins on a pool whose queue is registered.
LEMMA GetConnectionStep ==
  ASSUME CallsInv, NEW w \in Waiters, GetConnection(w)
  PROVE  CallsInv'
<1>1. /\ ~M!Busy(w) /\ waiter[w] = "idle" /\ waiter' = [waiter EXCEPT ![w] = "check"]
      /\ calls < MaxCalls /\ calls' = calls + 1 /\ [Next]_vars
      /\ UNCHANGED <<waiting, guards, entry, opened, checks, forgotten>>
  BY DEF GetConnection, Idle, Call, metrics, Next
<1>2. entry.known
  BY AsksIsBusy DEF GetConnection, CallsInv, KnownFromOpening
<1>3. waiter \in [Waiters -> {"idle", "check", "unlocked", "blocked", "ready"}]
  BY DEF CallsInv, PoolTypeOK, TypeOK
<1>4. \A t, op : Asks(t, op)' <=> Asks(t, op)
  BY <1>1 DEF Asks
<1>5. PoolTypeOK'
  <2>1. TypeOK' /\ calls' \in 0..MaxCalls
    BY <1>1, SupervisorStep, PoolAssumption DEF CallsInv, PoolTypeOK
  <2> QED BY <1>1, <2>1 DEF CallsInv, PoolTypeOK, M!MetricsTypeOK
<1>6. Uncounted' = Uncounted \cup {w} /\ w \notin Uncounted
  BY <1>1, <1>3, <1>4, AsksIsBusy DEF Uncounted
<1>7. BetweenRecords' = BetweenRecords
  BY <1>4 DEF BetweenRecords
<1>8. /\ IsFiniteSet(Uncounted') /\ Cardinality(Uncounted') = Cardinality(Uncounted) + 1
      /\ Cardinality(Uncounted) \in Nat
  BY <1>6, FS_AddElement, FS_CardinalityType DEF CallsInv
<1>9. EveryCallCounted'
  <2>1. /\ calls \in Nat /\ forgotten \in Nat /\ entry.ok \in Nat /\ entry.failed \in Nat
        /\ calls = entry.ok + entry.failed + forgotten + Cardinality(Uncounted)
    BY TypeParts, PoolAssumption
       DEF CallsInv, EveryCallCounted, MetricsParts, CountParts
  <2> QED BY <1>1, <1>8, <2>1 DEF EveryCallCounted
<1>10. ErrorsMatchFailures'
  BY <1>1, <1>7 DEF CallsInv, ErrorsMatchFailures
<1>11. KnownFromOpening' /\ RecordersAreCallers'
  BY <1>1, <1>4 DEF CallsInv, KnownFromOpening, RecordersAreCallers
<1>12. OneThingAtATime'
  BY <1>1, <1>2, <1>3 DEF CallsInv, OneThingAtATime, M!Busy
<1> QED
  BY <1>1, <1>5, <1>7, <1>8, <1>9, <1>10, <1>11, <1>12 DEF CallsInv

\* The caller has its connection, or an error, and will record it.
LEMMA ConnectedStep ==
  ASSUME CallsInv, NEW w \in Waiters, Connected(w)
  PROVE  CallsInv'
<1>1. PICK op \in {"success", "failure"} : waiting' = M!Ask(w, op)
  BY DEF Connected
<1>2. /\ waiter[w] = "ready" /\ waiter' = [waiter EXCEPT ![w] = "idle"] /\ [Next]_vars
      /\ UNCHANGED <<guards, entry, opened, calls, checks, forgotten>>
  BY DEF Connected, Return, Next, counts
<1>3. /\ entry.known /\ ~M!Busy(w) /\ w \in Tasks /\ op \in M!Writes \cup M!Reads
      /\ waiter \in [Waiters -> {"idle", "check", "unlocked", "blocked", "ready"}]
  BY <1>2 DEF CallsInv, OneThingAtATime, Tasks, M!Writes, PoolTypeOK, TypeOK
<1>4. /\ MetricsParts'
      /\ \A u, q : Asks(u, q)' <=> Asks(u, q) \/ (u = w /\ q = op)
      /\ \A u : M!Busy(u)' <=> M!Busy(u) \/ u = w
  BY <1>1, <1>2, <1>3, AskStep
<1>5. PoolTypeOK'
  <2>1. TypeOK' /\ CountParts'
    BY <1>2, TypeParts, SupervisorStep DEF CallsInv, CountParts
  <2> QED BY <1>4, <2>1 DEF PoolTypeOK, M!MetricsTypeOK, MetricsParts, CountParts, OneEach
<1>6. Uncounted' = Uncounted /\ BetweenRecords' = BetweenRecords
  BY <1>2, <1>3, <1>4 DEF Uncounted, BetweenRecords
<1>7. EveryCallCounted' /\ ErrorsMatchFailures'
  BY <1>2, <1>6 DEF CallsInv, EveryCallCounted, ErrorsMatchFailures
<1>8. KnownFromOpening' /\ RecordersAreCallers'
  BY <1>2, <1>3, <1>4 DEF CallsInv, KnownFromOpening, RecordersAreCallers
<1>9. OneThingAtATime'
  BY <1>2, <1>3, <1>4 DEF CallsInv, OneThingAtATime
<1> QED BY <1>2, <1>5, <1>6, <1>7, <1>8, <1>9 DEF CallsInv

-----------------------------------------------------------------------------
(* The sections under the lock.                                            *)

\* The first request is served and leaves the queue.
LEMMA ServeStep ==
  ASSUME CallsInv, NEW t \in Tasks, NEW op, M!Granted(t, op),
         waiting' = Tail(waiting), guards' \subseteq guards \cup {t}
  PROVE  /\ waiting' \in Seq(M!Request) /\ OneEach(waiting') /\ Asks(t, op)
         /\ \A u, q : Asks(u, q)' <=> Asks(u, q) /\ ~(u = t /\ q = op)
         /\ \A u : M!Busy(u)' => M!Busy(u)
<1> DEFINE r == [task |-> t, op |-> op]
<1>1. waiting \in Seq(M!Request) /\ OneEach(waiting)
  BY TypeParts DEF CallsInv, MetricsParts
<1>2. waiting # <<>> /\ Head(waiting) = r /\ r.task = t
  BY DEF M!Granted
<1>3. \A u, q : [task |-> u, op |-> q] = r <=> u = t /\ q = op
  OBVIOUS
<1> HIDE DEF r
<1>4. /\ waiting' \in Seq(M!Request) /\ OneEach(waiting') /\ Asked(waiting, r)
      /\ \A x : Asked(waiting', x) <=> Asked(waiting, x) /\ x # r
  BY <1>1, <1>2, Served
<1>5. Asks(t, op)
  BY <1>3, <1>4, AsksAsked
<1>6. ASSUME NEW u, NEW q PROVE Asks(u, q)' <=> Asks(u, q) /\ ~(u = t /\ q = op)
  <2> DEFINE x == [task |-> u, op |-> q]
  <2>1. Asks(u, q)' <=> Asked(waiting', x)
    BY DEF Asks, Asked
  <2>2. x = r <=> u = t /\ q = op
    BY <1>3
  <2> HIDE DEF x
  <2>3. Asked(waiting', x) <=> Asked(waiting, x) /\ x # r
    BY <1>4
  <2>4. Asks(u, q) <=> Asked(waiting, x)
    BY AsksAsked DEF x
  <2> QED BY <2>1, <2>2, <2>3, <2>4
<1>7. ASSUME NEW u, M!Busy(u)' PROVE M!Busy(u)
  <2>1. (\E i \in DOMAIN waiting' : waiting'[i].task = u)
           => (\E i \in DOMAIN waiting : waiting[i].task = u)
    BY <1>4 DEF Asked
  <2>2. M!Busy(t)
    BY <1>5, AsksIsBusy
  <2> QED BY <1>7, <2>1, <2>2 DEF M!Busy
<1> QED BY <1>4, <1>5, <1>6, <1>7

\* The first request is served, and its task is back at the end of the queue.
LEMMA ServeAndAskStep ==
  ASSUME CallsInv, NEW t \in Tasks, NEW op, M!Granted(t, op),
         NEW next \in M!Writes \cup M!Reads,
         waiting' = M!AskAgain(t, next), guards' \subseteq guards \cup {t}
  PROVE  /\ waiting' \in Seq(M!Request) /\ OneEach(waiting') /\ Asks(t, op)
         /\ \A u, q : Asks(u, q)' <=> (Asks(u, q) /\ ~(u = t /\ q = op))
                                        \/ (u = t /\ q = next)
         /\ \A u : M!Busy(u)' => M!Busy(u)
<1> DEFINE r == [task |-> t, op |-> op]
           n == [task |-> t, op |-> next]
<1>1. waiting \in Seq(M!Request) /\ OneEach(waiting)
  BY TypeParts DEF CallsInv, MetricsParts
<1>2. /\ waiting # <<>> /\ Head(waiting) = r /\ r.task = t /\ n.task = t
      /\ n \in M!Request /\ waiting' = Append(Tail(waiting), n)
  BY DEF M!Granted, M!AskAgain, M!Request
<1>3. /\ \A u, q : [task |-> u, op |-> q] = r <=> u = t /\ q = op
      /\ \A u, q : [task |-> u, op |-> q] = n <=> u = t /\ q = next
  OBVIOUS
<1> HIDE DEF r, n
<1>4. /\ Tail(waiting) \in Seq(M!Request) /\ OneEach(Tail(waiting))
      /\ Asked(waiting, r)
      /\ \A x : Asked(Tail(waiting), x) <=> Asked(waiting, x) /\ x # r
      /\ \A i \in DOMAIN Tail(waiting) : Tail(waiting)[i].task # n.task
  BY <1>1, <1>2, Served
<1> DEFINE rest == Tail(waiting)
<1> HIDE DEF rest
<1>5. /\ waiting' \in Seq(M!Request) /\ OneEach(waiting')
      /\ \A x : Asked(waiting', x) <=> (Asked(waiting, x) /\ x # r) \/ x = n
  <2>1. /\ rest \in Seq(M!Request) /\ OneEach(rest) /\ waiting' = Append(rest, n)
        /\ \A i \in DOMAIN rest : rest[i].task # n.task
        /\ \A x : Asked(rest, x) <=> Asked(waiting, x) /\ x # r
    BY <1>2, <1>4 DEF rest
  <2>2. /\ Append(rest, n) \in Seq(M!Request) /\ OneEach(Append(rest, n))
        /\ \A x : Asked(Append(rest, n), x) <=> Asked(rest, x) \/ x = n
    BY <1>2, <2>1, Joined
  <2> QED BY <2>1, <2>2
<1>6. Asks(t, op)
  BY <1>3, <1>4, AsksAsked
<1>7. ASSUME NEW u, NEW q
      PROVE  Asks(u, q)' <=> (Asks(u, q) /\ ~(u = t /\ q = op))
                                \/ (u = t /\ q = next)
  <2> DEFINE x == [task |-> u, op |-> q]
  <2>1. Asks(u, q)' <=> Asked(waiting', x)
    BY DEF Asks, Asked
  <2>2. (x = r <=> u = t /\ q = op) /\ (x = n <=> u = t /\ q = next)
    BY <1>3
  <2> HIDE DEF x
  <2>3. Asked(waiting', x) <=> (Asked(waiting, x) /\ x # r) \/ x = n
    BY <1>5
  <2>4. Asks(u, q) <=> Asked(waiting, x)
    BY AsksAsked DEF x
  <2> QED BY <2>1, <2>2, <2>3, <2>4
<1>8. ASSUME NEW u, M!Busy(u)' PROVE M!Busy(u)
  <2>1. M!Busy(t)
    BY <1>6, AsksIsBusy
  <2>2. (\E i \in DOMAIN waiting' : waiting'[i].task = u)
           => (\E i \in DOMAIN waiting : waiting[i].task = u) \/ u = t
    BY <1>2, <1>5 DEF Asked
  <2> QED BY <1>8, <2>1, <2>2 DEF M!Busy
<1> QED BY <1>5, <1>6, <1>7, <1>8

\* What the steps below share: the types, from those of the metrics.
LEMMA SectionTypes ==
  ASSUME CallsInv, MetricsParts', forgotten' \in Nat,
         UNCHANGED <<vars, opened, calls, checks>>
  PROVE  PoolTypeOK'
<1>1. TypeOK' /\ CountParts'
  BY TypeParts, SupervisorStep DEF CallsInv, CountParts
<1> QED BY <1>1 DEF PoolTypeOK, M!MetricsTypeOK, MetricsParts, CountParts, OneEach

\* A new pool of the queue replaces the record; its calls are forgotten.
LEMMA RegisterStep ==
  ASSUME CallsInv, NEW t \in Tasks, M!RegisterQueue(t),
         forgotten' = forgotten + entry.ok + entry.failed,
         UNCHANGED <<vars, opened, calls, checks>>
  PROVE  CallsInv'
<1>1. /\ entry' = [known |-> TRUE, ok |-> 0, failed |-> 0, errors |-> <<>>]
      /\ guards' = guards /\ M!Granted(t, "register") /\ waiting' = Tail(waiting)
      /\ waiter' = waiter
  BY DEF M!RegisterQueue, M!Fresh, vars
<1>2. /\ waiting' \in Seq(M!Request) /\ OneEach(waiting') /\ Asks(t, "register")
      /\ \A u, q : Asks(u, q)' <=> Asks(u, q) /\ ~(u = t /\ q = "register")
      /\ \A u : M!Busy(u)' => M!Busy(u)
  BY <1>1, ServeStep
<1>3. /\ entry.ok \in Nat /\ entry.failed \in Nat /\ forgotten \in Nat
      /\ guards \subseteq Tasks /\ MaxErrors \in Nat \ {0}
  BY TypeParts, PoolAssumption DEF CallsInv, MetricsParts, CountParts
<1>4. MetricsParts' /\ forgotten' \in Nat
  BY <1>1, <1>2, <1>3 DEF MetricsParts
<1>5. PoolTypeOK'
  BY <1>4, SectionTypes
<1>6. Uncounted' = Uncounted /\ BetweenRecords' = BetweenRecords
  BY <1>1, <1>2 DEF Uncounted, BetweenRecords
<1>7. EveryCallCounted'
  <2>1. Cardinality(Uncounted) \in Nat
    BY FS_CardinalityType DEF CallsInv
  <2>2. calls = entry.ok + entry.failed + forgotten + Cardinality(Uncounted)
    BY DEF CallsInv, EveryCallCounted
  <2>3. calls' = calls /\ entry'.ok = 0 /\ entry'.failed = 0
    BY <1>1
  <2>4. calls' = entry'.ok + entry'.failed + forgotten' + Cardinality(Uncounted)
    BY <1>3, <2>1, <2>2, <2>3
  <2> QED BY <1>6, <2>4 DEF EveryCallCounted
<1>8. forgotten' = 0 => Cardinality(BetweenRecords) = 0
  <2>1. Cardinality(BetweenRecords) \in Nat
    BY FS_CardinalityType DEF CallsInv
  <2>2. forgotten' = 0 => forgotten = 0 /\ entry.failed = 0
    BY <1>3
  <2> QED BY <1>3, <2>1, <2>2 DEF CallsInv
<1>9. ErrorsMatchFailures' /\ (forgotten' = 0 => Cardinality(BetweenRecords') <= entry'.failed)
  BY <1>1, <1>3, <1>6, <1>8 DEF ErrorsMatchFailures
<1>10. KnownFromOpening' /\ RecordersAreCallers' /\ OneThingAtATime'
  BY <1>1, <1>2 DEF CallsInv, KnownFromOpening, RecordersAreCallers, OneThingAtATime
<1> QED BY <1>5, <1>6, <1>7, <1>9, <1>10 DEF CallsInv

\* A caller that is served waits for nothing else, so counting it removes it
\* from the calls that are not counted yet.
LEMMA Recorded ==
  ASSUME CallsInv, NEW t \in Tasks, NEW op \in {"success", "failure", "error"},
         Asks(t, op)
  PROVE  /\ t \in Waiters /\ entry.known /\ waiter[t] = "idle"
         /\ \A q : Asks(t, q) => q = op
<1>1. t \in Waiters /\ entry.known
  BY DEF CallsInv, RecordersAreCallers
<1>2. waiter[t] = "idle"
  BY <1>1, RecorderIdle DEF CallsInv
<1>3. ASSUME NEW q, Asks(t, q) PROVE q = op
  <2>1. PICK i \in DOMAIN waiting : waiting[i] = [task |-> t, op |-> op]
    BY DEF Asks
  <2>2. PICK j \in DOMAIN waiting : waiting[j] = [task |-> t, op |-> q]
    BY <1>3 DEF Asks
  <2>3. waiting[i].task = t /\ waiting[j].task = t
    BY <2>1, <2>2
  <2>4. i = j
    BY <2>3, TypeParts DEF CallsInv, MetricsParts, OneEach
  <2> QED BY <2>1, <2>2, <2>4
<1> QED BY <1>1, <1>2, <1>3

\* One call less to count.
LEMMA CountedOne ==
  ASSUME CallsInv, NEW t \in Uncounted, Uncounted' = Uncounted \ {t},
         calls' = calls, forgotten' = forgotten,
         entry'.ok \in Nat, entry'.failed \in Nat,
         entry'.ok + entry'.failed = entry.ok + entry.failed + 1
  PROVE  IsFiniteSet(Uncounted') /\ EveryCallCounted'
<1>1. /\ IsFiniteSet(Uncounted \ {t}) /\ Cardinality(Uncounted) \in Nat
      /\ Cardinality(Uncounted \ {t}) = Cardinality(Uncounted) - 1
  BY FS_RemoveElement, FS_CardinalityType DEF CallsInv
<1>2. /\ entry.ok \in Nat /\ entry.failed \in Nat /\ forgotten \in Nat
      /\ calls = entry.ok + entry.failed + forgotten + Cardinality(Uncounted)
  BY TypeParts DEF CallsInv, MetricsParts, CountParts, EveryCallCounted
<1>3. calls' = entry'.ok + entry'.failed + forgotten' + Cardinality(Uncounted')
  BY <1>1, <1>2
<1> QED BY <1>1, <1>3 DEF EveryCallCounted

\* record_operation of a connection.
LEMMA RecordSuccessStep ==
  ASSUME CallsInv, NEW t \in Tasks, M!RecordSuccess(t),
         forgotten' = forgotten, UNCHANGED <<vars, opened, calls, checks>>
  PROVE  CallsInv'
<1>1. /\ guards' = guards /\ M!Granted(t, "success") /\ waiting' = Tail(waiting)
      /\ waiter' = waiter
      /\ entry' = IF entry.known THEN [entry EXCEPT !.ok = @ + 1] ELSE entry
  BY DEF M!RecordSuccess, vars
<1>2. /\ waiting' \in Seq(M!Request) /\ OneEach(waiting') /\ Asks(t, "success")
      /\ \A u, q : Asks(u, q)' <=> Asks(u, q) /\ ~(u = t /\ q = "success")
      /\ \A u : M!Busy(u)' => M!Busy(u)
  BY <1>1, ServeStep
<1>3. /\ t \in Waiters /\ entry.known /\ waiter[t] = "idle"
      /\ \A q : Asks(t, q) => q = "success"
  BY <1>2, Recorded
<1>4. MetricsParts /\ forgotten \in Nat
  BY TypeParts DEF CallsInv, CountParts
<1>5. /\ entry' \in [known : BOOLEAN, ok : Nat, failed : Nat, errors : Seq(Tasks)]
      /\ entry'.known /\ entry'.ok = entry.ok + 1 /\ entry'.failed = entry.failed
      /\ entry'.errors = entry.errors
  BY <1>1, <1>3, <1>4 DEF MetricsParts
<1>6. PoolTypeOK'
  <2>1. MetricsParts'
    BY <1>1, <1>2, <1>4, <1>5 DEF MetricsParts
  <2> QED BY <1>4, <2>1, SectionTypes
<1>7. t \in Uncounted /\ Uncounted' = Uncounted \ {t} /\ BetweenRecords' = BetweenRecords
  BY <1>1, <1>2, <1>3 DEF Uncounted, BetweenRecords
<1>8. IsFiniteSet(Uncounted') /\ EveryCallCounted'
  <2>1. /\ entry'.ok \in Nat /\ entry'.failed \in Nat /\ calls' = calls
        /\ entry'.ok + entry'.failed = entry.ok + entry.failed + 1
    BY <1>4, <1>5 DEF MetricsParts
  <2> QED BY <1>7, <2>1, CountedOne
<1>9. /\ ErrorsMatchFailures'
      /\ forgotten' = 0 => Cardinality(BetweenRecords') <= entry'.failed
  BY <1>5, <1>7 DEF CallsInv, ErrorsMatchFailures
<1>10. KnownFromOpening' /\ RecordersAreCallers' /\ OneThingAtATime'
  BY <1>1, <1>2, <1>5 DEF CallsInv, KnownFromOpening, RecordersAreCallers, OneThingAtATime
<1> QED BY <1>6, <1>7, <1>8, <1>9, <1>10 DEF CallsInv

\* record_operation of an error; record_error is to follow.
LEMMA RecordFailureStep ==
  ASSUME CallsInv, NEW t \in Tasks, M!RecordFailure(t),
         forgotten' = forgotten, UNCHANGED <<vars, opened, calls, checks>>
  PROVE  CallsInv'
<1>1. /\ guards' = guards /\ M!Granted(t, "failure") /\ waiting' = M!AskAgain(t, "error")
      /\ waiter' = waiter /\ "error" \in M!Writes \cup M!Reads
      /\ entry' = IF entry.known THEN [entry EXCEPT !.failed = @ + 1] ELSE entry
  BY DEF M!RecordFailure, M!Writes, vars
<1>2. /\ waiting' \in Seq(M!Request) /\ OneEach(waiting') /\ Asks(t, "failure")
      /\ \A u, q : Asks(u, q)' <=> (Asks(u, q) /\ ~(u = t /\ q = "failure"))
                                     \/ (u = t /\ q = "error")
      /\ \A u : M!Busy(u)' => M!Busy(u)
  BY <1>1, ServeAndAskStep
<1>3. /\ t \in Waiters /\ entry.known /\ waiter[t] = "idle"
      /\ \A q : Asks(t, q) => q = "failure"
  BY <1>2, Recorded
<1>4. MetricsParts /\ forgotten \in Nat
  BY TypeParts DEF CallsInv, CountParts
<1>5. /\ entry' \in [known : BOOLEAN, ok : Nat, failed : Nat, errors : Seq(Tasks)]
      /\ entry'.known /\ entry'.ok = entry.ok /\ entry'.failed = entry.failed + 1
      /\ entry'.errors = entry.errors
  BY <1>1, <1>3, <1>4 DEF MetricsParts
<1>6. PoolTypeOK'
  <2>1. MetricsParts'
    BY <1>1, <1>2, <1>4, <1>5 DEF MetricsParts
  <2> QED BY <1>4, <2>1, SectionTypes
<1>7. /\ t \in Uncounted /\ Uncounted' = Uncounted \ {t}
      /\ t \notin BetweenRecords /\ BetweenRecords' = BetweenRecords \cup {t}
  BY <1>1, <1>2, <1>3 DEF Uncounted, BetweenRecords
<1>8. IsFiniteSet(Uncounted') /\ EveryCallCounted'
  <2>1. /\ entry'.ok \in Nat /\ entry'.failed \in Nat /\ calls' = calls
        /\ entry'.ok + entry'.failed = entry.ok + entry.failed + 1
    BY <1>4, <1>5 DEF MetricsParts
  <2> QED BY <1>7, <2>1, CountedOne
<1>9. /\ IsFiniteSet(BetweenRecords') /\ Cardinality(BetweenRecords) \in Nat
      /\ Cardinality(BetweenRecords') = Cardinality(BetweenRecords) + 1
  BY <1>7, FS_AddElement, FS_CardinalityType DEF CallsInv
<1>10. entry.failed \in Nat
  BY <1>4 DEF MetricsParts
<1>11. ErrorsMatchFailures'
  <2>1. entry'.failed - Cardinality(BetweenRecords')
           = entry.failed - Cardinality(BetweenRecords)
    BY <1>5, <1>9, <1>10
  <2> QED BY <1>5, <2>1 DEF CallsInv, ErrorsMatchFailures
<1>12. forgotten' = 0 => Cardinality(BetweenRecords') <= entry'.failed
  BY <1>5, <1>9, <1>10 DEF CallsInv
<1>13. KnownFromOpening' /\ RecordersAreCallers' /\ OneThingAtATime'
  BY <1>1, <1>2, <1>3, <1>5
     DEF CallsInv, KnownFromOpening, RecordersAreCallers, OneThingAtATime
<1> QED BY <1>6, <1>8, <1>9, <1>11, <1>12, <1>13 DEF CallsInv

\* One error more, without the oldest when there are more than MaxErrors.
LEMMA KeptErrors ==
  ASSUME NEW s \in Seq(Tasks), NEW t \in Tasks, Len(s) <= MaxErrors
  PROVE  /\ M!Kept(Append(s, t)) \in Seq(Tasks)
         /\ Len(M!Kept(Append(s, t))) = IF Len(s) < MaxErrors THEN Len(s) + 1 ELSE MaxErrors
<1>1. /\ Append(s, t) \in Seq(Tasks) /\ Len(Append(s, t)) = Len(s) + 1
      /\ Len(s) \in Nat /\ MaxErrors \in Nat
  BY PoolAssumption
<1> DEFINE a == Append(s, t)
<1>2. a # <<>>
  BY <1>1
<1> HIDE DEF a
<1>3. Tail(a) \in Seq(Tasks) /\ Len(Tail(a)) = Len(s)
  <2>1. a \in Seq(Tasks) /\ Len(a) = Len(s) + 1
    BY <1>1 DEF a
  <2> QED BY <1>1, <1>2, <2>1
<1> QED BY <1>1, <1>3 DEF a, M!Kept

\* record_error after the failure was counted.
LEMMA RecordErrorStep ==
  ASSUME CallsInv, NEW t \in Tasks, M!RecordError(t),
         forgotten' = forgotten, UNCHANGED <<vars, opened, calls, checks>>
  PROVE  CallsInv'
<1>1. /\ guards' = guards /\ M!Granted(t, "error") /\ waiting' = Tail(waiting)
      /\ waiter' = waiter
      /\ entry' = IF entry.known
                  THEN [entry EXCEPT !.errors = M!Kept(Append(@, t))] ELSE entry
  BY DEF M!RecordError, vars
<1>2. /\ waiting' \in Seq(M!Request) /\ OneEach(waiting') /\ Asks(t, "error")
      /\ \A u, q : Asks(u, q)' <=> Asks(u, q) /\ ~(u = t /\ q = "error")
      /\ \A u : M!Busy(u)' => M!Busy(u)
  BY <1>1, ServeStep
<1>3. /\ t \in Waiters /\ entry.known /\ waiter[t] = "idle"
      /\ \A q : Asks(t, q) => q = "error"
  BY <1>2, Recorded
<1>4. MetricsParts /\ forgotten \in Nat /\ MaxErrors \in Nat
  BY TypeParts, PoolAssumption DEF CallsInv, CountParts
<1> DEFINE errors == M!Kept(Append(entry.errors, t))
<1>5. /\ errors \in Seq(Tasks)
      /\ Len(errors) = IF Len(entry.errors) < MaxErrors
                       THEN Len(entry.errors) + 1 ELSE MaxErrors
  BY <1>4, KeptErrors DEF MetricsParts
<1>6. Len(entry.errors) \in Nat /\ entry.failed \in Nat
  BY <1>4 DEF MetricsParts
<1>7. entry' = [entry EXCEPT !.errors = errors]
  BY <1>1, <1>3
<1> HIDE DEF errors
<1>8. /\ entry' \in [known : BOOLEAN, ok : Nat, failed : Nat, errors : Seq(Tasks)]
      /\ entry'.known /\ entry'.ok = entry.ok /\ entry'.failed = entry.failed
      /\ entry'.errors = errors /\ Len(errors) <= MaxErrors
  BY <1>3, <1>4, <1>5, <1>6, <1>7 DEF MetricsParts
<1>9. PoolTypeOK'
  <2>1. MetricsParts'
    BY <1>1, <1>2, <1>4, <1>8 DEF MetricsParts
  <2> QED BY <1>4, <2>1, SectionTypes
<1>10. /\ Uncounted' = Uncounted
       /\ t \in BetweenRecords /\ BetweenRecords' = BetweenRecords \ {t}
  BY <1>1, <1>2, <1>3 DEF Uncounted, BetweenRecords
<1>11. EveryCallCounted'
  BY <1>8, <1>10 DEF CallsInv, EveryCallCounted
<1>12. /\ IsFiniteSet(BetweenRecords') /\ Cardinality(BetweenRecords) \in Nat
       /\ Cardinality(BetweenRecords') = Cardinality(BetweenRecords) - 1
  BY <1>10, FS_RemoveElement, FS_CardinalityType DEF CallsInv
<1>13. ASSUME forgotten' = 0
       PROVE  /\ Cardinality(BetweenRecords') <= entry'.failed
              /\ LET logged == entry'.failed - Cardinality(BetweenRecords') IN
                 Len(errors) = IF logged < MaxErrors THEN logged ELSE MaxErrors
  <2> DEFINE logged == entry.failed - Cardinality(BetweenRecords)
  <2>1. Len(entry.errors) = IF logged < MaxErrors THEN logged ELSE MaxErrors
    BY <1>13 DEF CallsInv, ErrorsMatchFailures
  <2>2. logged \in Nat /\ Cardinality(BetweenRecords) <= entry.failed
    BY <1>6, <1>12, <1>13 DEF CallsInv
  <2>3. entry'.failed - Cardinality(BetweenRecords') = logged + 1
    BY <1>6, <1>8, <1>12
  <2>4. Cardinality(BetweenRecords') <= entry'.failed
    BY <1>6, <1>8, <1>12, <2>2
  <2> HIDE DEF logged
  <2> QED BY <1>4, <1>5, <1>6, <2>1, <2>2, <2>3, <2>4
<1>14. ErrorsMatchFailures'
  BY <1>8, <1>13 DEF ErrorsMatchFailures
<1>15. KnownFromOpening' /\ RecordersAreCallers' /\ OneThingAtATime'
  BY <1>1, <1>2, <1>8
     DEF CallsInv, KnownFromOpening, RecordersAreCallers, OneThingAtATime
<1> QED BY <1>9, <1>10, <1>11, <1>12, <1>13, <1>14, <1>15 DEF CallsInv

\* The health checks leave the record and the recorders alone.
LEMMA ReadOnlyStep ==
  ASSUME CallsInv, waiting' \in Seq(M!Request), OneEach(waiting'), guards' \subseteq Tasks,
         \A u : M!Busy(u)' => M!Busy(u),
         \A u : \A q \in M!Writes : Asks(u, q)' <=> Asks(u, q),
         UNCHANGED entry, UNCHANGED forgotten, UNCHANGED <<vars, opened, calls, checks>>
  PROVE  CallsInv'
<1>1. waiter' = waiter /\ {"register", "success", "failure", "error"} \subseteq M!Writes
  BY DEF vars, M!Writes
<1>2. MetricsParts /\ forgotten \in Nat
  BY TypeParts DEF CallsInv, CountParts
<1>3. PoolTypeOK'
  <2>1. MetricsParts'
    BY <1>2 DEF MetricsParts
  <2> QED BY <1>2, <2>1, SectionTypes
<1>4. Uncounted' = Uncounted /\ BetweenRecords' = BetweenRecords
  BY <1>1 DEF Uncounted, BetweenRecords
<1>5. EveryCallCounted' /\ ErrorsMatchFailures'
  BY <1>4 DEF CallsInv, EveryCallCounted, ErrorsMatchFailures
<1>6. KnownFromOpening' /\ RecordersAreCallers' /\ OneThingAtATime'
  BY <1>1 DEF CallsInv, KnownFromOpening, RecordersAreCallers, OneThingAtATime
<1> QED BY <1>3, <1>4, <1>5, <1>6 DEF CallsInv

\* health_check reads once; health_check_all reads, and reads again.
LEMMA HealthStep ==
  ASSUME CallsInv, NEW t \in Tasks, forgotten' = forgotten,
         M!HealthCheck(t) \/ M!HealthCheckAll(t) \/ M!HealthCheckAllReturns(t),
         UNCHANGED <<vars, opened, calls, checks>>
  PROVE  CallsInv'
<1>1. guards \subseteq Tasks
  BY TypeParts DEF CallsInv, MetricsParts
<1>2. /\ entry' = entry /\ guards' \subseteq guards \cup {t}
      /\ "inner" \in M!Writes \cup M!Reads
      /\ \A op \in {"check", "all", "inner"} : op \notin M!Writes
  BY DEF M!HealthCheck, M!HealthCheckAll, M!HealthCheckAllReturns, M!Writes, M!Reads
<1>3. CASE M!Granted(t, "all") /\ waiting' = M!AskAgain(t, "inner")
  <2>1. /\ waiting' \in Seq(M!Request) /\ OneEach(waiting')
        /\ \A u, q : Asks(u, q)' <=> (Asks(u, q) /\ ~(u = t /\ q = "all"))
                                       \/ (u = t /\ q = "inner")
        /\ \A u : M!Busy(u)' => M!Busy(u)
    BY <1>2, <1>3, ServeAndAskStep
  <2> QED BY <1>1, <1>2, <2>1, ReadOnlyStep
<1>4. ASSUME NEW op \in {"check", "all", "inner"}, M!Granted(t, op),
             waiting' = Tail(waiting)
      PROVE  CallsInv'
  <2>1. /\ waiting' \in Seq(M!Request) /\ OneEach(waiting')
        /\ \A u, q : Asks(u, q)' <=> Asks(u, q) /\ ~(u = t /\ q = op)
        /\ \A u : M!Busy(u)' => M!Busy(u)
    BY <1>2, <1>4, ServeStep
  <2> QED BY <1>1, <1>2, <2>1, ReadOnlyStep
<1> QED
  BY <1>3, <1>4 DEF M!HealthCheck, M!HealthCheckAll, M!HealthCheckAllReturns

\* A section is a registration, one of the records or a health check.
LEMMA SectionStep ==
  ASSUME CallsInv, NEW t \in Tasks, Section(t)
  PROVE  CallsInv'
<1>1. UNCHANGED <<vars, opened, calls, checks>>
  BY DEF Section
<1>2. CASE M!RegisterQueue(t)
  <2>1. forgotten' = forgotten + entry.ok + entry.failed
    BY <1>2 DEF Section, M!RegisterQueue
  <2> QED BY <1>1, <1>2, <2>1, RegisterStep
<1>3. ASSUME NEW op, op # "register", M!Granted(t, op) PROVE forgotten' = forgotten
  <2>1. ~M!Granted(t, "register")
    <3>1. [task |-> t, op |-> op].op # [task |-> t, op |-> "register"].op
      BY <1>3
    <3> QED BY <1>3, <3>1 DEF M!Granted
  <2> QED BY <2>1 DEF Section
<1>4. CASE M!RecordSuccess(t)
  BY <1>1, <1>3, <1>4, RecordSuccessStep DEF M!RecordSuccess
<1>5. CASE M!RecordFailure(t)
  BY <1>1, <1>3, <1>5, RecordFailureStep DEF M!RecordFailure
<1>6. CASE M!RecordError(t)
  BY <1>1, <1>3, <1>6, RecordErrorStep DEF M!RecordError
<1>7. CASE M!HealthCheck(t) \/ M!HealthCheckAll(t) \/ M!HealthCheckAllReturns(t)
  <2>1. forgotten' = forgotten
    BY <1>3, <1>7 DEF M!HealthCheck, M!HealthCheckAll, M!HealthCheckAllReturns
  <2> QED BY <1>1, <1>7, <2>1, HealthStep
<1> QED BY <1>2, <1>4, <1>5, <1>6, <1>7 DEF Section, M!Section

-----------------------------------------------------------------------------
(* The theorems about Pool.                                                *)

\* Nothing is registered, called or recorded yet.
LEMMA CallsInit == PoolInit => CallsInv
<1> SUFFICES ASSUME PoolInit PROVE CallsInv
  OBVIOUS
<1>1. /\ waiting = <<>> /\ guards = {} /\ opened = {} /\ calls = 0 /\ checks = 0
      /\ forgotten = 0 /\ TypeOK /\ \A w \in Waiters : waiter[w] = "idle"
      /\ entry = [known |-> FALSE, ok |-> 0, failed |-> 0, errors |-> <<>>]
  BY SupervisorInit DEF PoolInit, M!MetricsInit, M!Fresh, Init
<1>2. \A t, op : ~Asks(t, op)
  BY <1>1 DEF Asks
<1>3. PoolTypeOK
  <2>1. MetricsParts /\ CountParts
    BY <1>1, PoolAssumption DEF MetricsParts, CountParts, OneEach
  <2> QED BY <1>1, <2>1, TypeParts
<1>4. Uncounted = {} /\ BetweenRecords = {}
  BY <1>1, <1>2 DEF Uncounted, BetweenRecords
<1>5. IsFiniteSet({}) /\ Cardinality({}) = 0
  BY FS_EmptySet
<1>6. EveryCallCounted
  BY <1>1, <1>4, <1>5 DEF EveryCallCounted
<1>7. ErrorsMatchFailures
  BY <1>1, <1>4, <1>5, PoolAssumption DEF ErrorsMatchFailures
<1>8. KnownFromOpening /\ RecordersAreCallers /\ OneThingAtATime
  BY <1>1, <1>2 DEF KnownFromOpening, RecordersAreCallers, OneThingAtATime
<1> QED BY <1>1, <1>3, <1>4, <1>5, <1>6, <1>7, <1>8 DEF CallsInv

\* Every step of the composition.
LEMMA CallsStep == CallsInv /\ [PoolNext]_poolVars => CallsInv'
<1> SUFFICES ASSUME CallsInv, [PoolNext]_poolVars PROVE CallsInv'
  OBVIOUS
<1>1. CASE Connection
  BY <1>1, ConnectionStep
<1>2. ASSUME NEW o \in Openers, Open(o) PROVE CallsInv'
  BY <1>2, OpenStep
<1>3. ASSUME NEW w \in Waiters, GetConnection(w) PROVE CallsInv'
  BY <1>3, GetConnectionStep
<1>4. ASSUME NEW w \in Waiters, Connected(w) PROVE CallsInv'
  BY <1>4, ConnectedStep
<1>5. ASSUME NEW c \in Checkers, AskHealth(c, "check") \/ AskHealth(c, "all")
      PROVE  CallsInv'
  BY <1>5, AskHealthStep
<1>6. ASSUME NEW t \in Tasks, Section(t) PROVE CallsInv'
  BY <1>6, SectionStep
<1>7. CASE UNCHANGED poolVars
  <2>1. UNCHANGED <<vars, waiting, guards, entry, opened, calls, checks, forgotten>>
    BY <1>7 DEF poolVars, metrics, counts
  <2>2. /\ \A u : M!Busy(u)' => M!Busy(u)
        /\ \A u : \A q \in M!Writes : Asks(u, q)' <=> Asks(u, q)
    BY <2>1 DEF M!Busy, Asks
  <2>3. waiting \in Seq(M!Request) /\ OneEach(waiting) /\ guards \subseteq Tasks
    BY TypeParts DEF CallsInv, MetricsParts
  <2> QED BY <2>1, <2>2, <2>3, ReadOnlyStep
<1> QED BY <1>1, <1>2, <1>3, <1>4, <1>5, <1>6, <1>7 DEF PoolNext

\* The supervisor's state, the queue for the lock and the record of the queue have
\* their types, and a task waits for one lock at a time, whoever opens a pool,
\* connects or checks (pool.rs, metrics.rs).
THEOREM PoolTypeCorrect == PoolSpec => []PoolTypeOK
<1>1. CallsInv => PoolTypeOK
  BY DEF CallsInv
<1> QED BY <1>1, CallsInit, CallsStep, PTL DEF PoolSpec

\* Every call of get_connection is counted once, has yet to reach the counters,
\* or was counted in a record that another pool of the queue has replaced.
THEOREM CallsAreCounted == PoolSpec => []EveryCallCounted
<1>1. CallsInv => EveryCallCounted
  BY DEF CallsInv
<1> QED BY <1>1, CallsInit, CallsStep, PTL DEF PoolSpec

\* The list of errors is that of the failures counted, up to its limit and to the
\* calls between the two sections in which a failure is recorded.
THEOREM ErrorsAreTheFailures == PoolSpec => []ErrorsMatchFailures
<1>1. CallsInv => ErrorsMatchFailures
  BY DEF CallsInv
<1> QED BY <1>1, CallsInit, CallsStep, PTL DEF PoolSpec

-----------------------------------------------------------------------------
(* The lock that has been locked out.                                      *)

\* Whoever keeps a guard across an await asks for a second one.
GuardsAsk == \A t \in guards : Asks(t, "inner")

\* The lock serves its first request: a guard is kept, dropped, or neither.
Serves ==
    /\ waiting # <<>> /\ (Head(waiting).op \in M!Writes => guards = {})
    /\ \/ /\ \/ waiting' = Tail(waiting)
             \/ \E r \in M!Request : waiting' = Append(Tail(waiting), r)
          /\ guards' = guards /\ Head(waiting).op # "inner"
       \/ \E t \in Tasks :
             /\ waiting' = Append(Tail(waiting), [task |-> t, op |-> "inner"])
             /\ guards' = guards \cup {t} /\ Head(waiting).op # "inner"
       \/ waiting' = Tail(waiting) /\ guards' = guards \ {Head(waiting).task}

Joins == \E r \in M!Request : waiting' = Append(waiting, r) /\ guards' = guards

\* A section is what the lock serves.
LEMMA SectionServes ==
  ASSUME NEW t \in Tasks, M!Section(t)
  PROVE  Serves
<1>1. ASSUME NEW op, M!Granted(t, op)
      PROVE  /\ waiting # <<>> /\ Head(waiting).op = op /\ Head(waiting).task = t
             /\ op \in M!Writes => guards = {}
  BY <1>1 DEF M!Granted
<1>2. CASE M!RegisterQueue(t) \/ M!RecordSuccess(t) \/ M!RecordError(t) \/ M!HealthCheck(t)
  BY <1>1, <1>2
     DEF M!RegisterQueue, M!RecordSuccess, M!RecordError, M!HealthCheck, Serves
<1>3. CASE M!RecordFailure(t)
  <2>1. [task |-> t, op |-> "error"] \in M!Request
    BY DEF M!Request, M!Writes
  <2> QED BY <1>1, <1>3, <2>1 DEF M!RecordFailure, M!AskAgain, Serves
<1>4. CASE M!HealthCheckAll(t)
  <2>1. M!Granted(t, "all") /\ "all" \notin M!Writes
    BY <1>4 DEF M!HealthCheckAll, M!Writes
  <2> QED BY <1>1, <1>4, <2>1 DEF M!HealthCheckAll, M!AskAgain, Serves
<1>5. CASE M!HealthCheckAllReturns(t)
  BY <1>1, <1>5 DEF M!HealthCheckAllReturns, Serves
<1> QED BY <1>2, <1>3, <1>4, <1>5 DEF M!Section

\* Every step leaves the lock alone, joins its queue or is served.
LEMMA LockStep ==
  ASSUME [PoolNext]_poolVars
  PROVE  UNCHANGED <<waiting, guards>> \/ Joins \/ Serves
<1>1. ASSUME NEW t \in Tasks, NEW op \in M!Writes \cup M!Reads,
             waiting' = M!Ask(t, op), guards' = guards
      PROVE  Joins
  BY <1>1 DEF M!Ask, M!Request, Joins
<1>2. CASE Connection \/ UNCHANGED poolVars
  BY <1>2 DEF Connection, poolVars, metrics
<1>3. ASSUME NEW o \in Openers, Open(o) PROVE Joins
  BY <1>1, <1>3 DEF Open, Tasks, M!Writes
<1>4. ASSUME NEW w \in Waiters, GetConnection(w) PROVE UNCHANGED <<waiting, guards>>
  BY <1>4 DEF GetConnection, metrics
<1>5. ASSUME NEW w \in Waiters, Connected(w) PROVE Joins
  BY <1>1, <1>5 DEF Connected, Tasks, M!Writes
<1>6. ASSUME NEW c \in Checkers, AskHealth(c, "check") \/ AskHealth(c, "all") PROVE Joins
  BY <1>1, <1>6 DEF AskHealth, Tasks, M!Reads
<1>7. ASSUME NEW t \in Tasks, Section(t) PROVE Serves
  BY <1>7, SectionServes DEF Section
<1> QED BY <1>2, <1>3, <1>4, <1>5, <1>6, <1>7 DEF PoolNext

\* Those behind the first move up.
LEMMA MovedUp ==
  ASSUME NEW s \in Seq(M!Request), s # <<>>, NEW z,
         z = Tail(s) \/ \E r \in M!Request : z = Append(Tail(s), r)
  PROVE  \A i \in DOMAIN s : i # 1 => i - 1 \in DOMAIN z /\ z[i - 1] = s[i]
<1>1. /\ Tail(s) \in Seq(M!Request) /\ Len(s) \in Nat /\ DOMAIN s = 1..Len(s)
      /\ DOMAIN Tail(s) = 1..(Len(s) - 1)
      /\ \A i \in DOMAIN Tail(s) : Tail(s)[i] = s[i + 1]
  OBVIOUS
<1>2. \A i \in DOMAIN s : i # 1 => i - 1 \in DOMAIN Tail(s) /\ Tail(s)[i - 1] = s[i]
  BY <1>1
<1>3. \A r \in M!Request :
         /\ DOMAIN Tail(s) \subseteq DOMAIN Append(Tail(s), r)
         /\ \A i \in DOMAIN Tail(s) : Append(Tail(s), r)[i] = Tail(s)[i]
  BY <1>1
<1> QED BY <1>2, <1>3

\* A reader that waits for itself waits for ever: the writer before it is not served.
LEMMA StuckStep ==
  ASSUME CallsInv, Stuck, [PoolNext]_poolVars
  PROVE  Stuck'
<1>1. PICK i, j \in DOMAIN waiting :
         i < j /\ waiting[i].op \in M!Writes /\ waiting[j].task \in guards
  BY DEF Stuck
<1>2. waiting \in Seq(M!Request) /\ OneEach(waiting) /\ DOMAIN waiting \subseteq Nat \ {0}
  <2>1. waiting \in Seq(M!Request) /\ OneEach(waiting)
    BY TypeParts DEF CallsInv, MetricsParts
  <2> QED BY <2>1
<1>3. CASE UNCHANGED <<waiting, guards>>
  BY <1>1, <1>3 DEF Stuck
<1>4. CASE Joins
  <2>1. PICK r \in M!Request : waiting' = Append(waiting, r) /\ guards' = guards
    BY <1>4 DEF Joins
  <2>2. /\ DOMAIN waiting \subseteq DOMAIN waiting'
        /\ \A k \in DOMAIN waiting : waiting'[k] = waiting[k]
    BY <1>2, <2>1
  <2> QED BY <1>1, <2>1, <2>2 DEF Stuck
<1>5. CASE Serves
  <2>1. Head(waiting) = waiting[1] /\ waiting # <<>>
    BY <1>2, <1>5 DEF Serves
  <2>2. i # 1 /\ j # 1
    BY <1>1, <1>2, <1>5, <2>1 DEF Serves
  <2>3. waiting[j].task \in guards'
    <3>1. waiting[j].task # Head(waiting).task
      <4>1. 1 \in DOMAIN waiting
        BY <1>2, <2>1
      <4> QED BY <1>1, <1>2, <2>1, <2>2, <4>1 DEF OneEach
    <3> QED BY <1>1, <1>5, <3>1 DEF Serves
  <2>4. waiting' = Tail(waiting) \/ \E r \in M!Request : waiting' = Append(Tail(waiting), r)
    BY <1>5 DEF Serves, M!Request, M!Reads
  <2>5. /\ i - 1 \in DOMAIN waiting' /\ waiting'[i - 1] = waiting[i]
        /\ j - 1 \in DOMAIN waiting' /\ waiting'[j - 1] = waiting[j]
    BY <1>1, <1>2, <2>1, <2>2, <2>4, MovedUp
  <2>6. i - 1 < j - 1
    BY <1>1, <1>2
  <2> QED BY <1>1, <2>3, <2>5, <2>6 DEF Stuck
<1> QED BY <1>3, <1>4, <1>5, LockStep

\* Nothing frees a health_check_all that has locked itself out, for any number of
\* tasks and calls (metrics.rs health_check_all).
THEOREM LockedOutForGood == PoolSpec => StuckForGood
<1>1. CallsInv /\ [PoolNext]_poolVars => [Stuck => Stuck']_poolVars
  BY StuckStep
<1> QED BY <1>1, CallsInit, CallsStep, PTL DEF PoolSpec, StuckForGood

\* A guard is dropped when its second request is served, and not before.
LEMMA GuardsAskStep ==
  ASSUME CallsInv, GuardsAsk, [PoolNext]_poolVars
  PROVE  GuardsAsk'
<1>1. waiting \in Seq(M!Request)
  BY TypeParts DEF CallsInv, MetricsParts
<1>2. CASE UNCHANGED <<waiting, guards>>
  BY <1>2 DEF GuardsAsk, Asks
<1>3. CASE Joins
  <2>1. PICK r \in M!Request : waiting' = Append(waiting, r) /\ guards' = guards
    BY <1>3 DEF Joins
  <2>2. /\ DOMAIN waiting \subseteq DOMAIN waiting'
        /\ \A k \in DOMAIN waiting : waiting'[k] = waiting[k]
    BY <1>1, <2>1
  <2> QED BY <2>1, <2>2 DEF GuardsAsk, Asks
<1>4. CASE Serves
  <2>1. Head(waiting) = waiting[1] /\ waiting # <<>>
    BY <1>1, <1>4 DEF Serves
  <2>2. waiting' = Tail(waiting) \/ \E r \in M!Request : waiting' = Append(Tail(waiting), r)
    BY <1>4 DEF Serves, M!Request, M!Reads
  <2>3. \A i \in DOMAIN waiting :
           i # 1 => i - 1 \in DOMAIN waiting' /\ waiting'[i - 1] = waiting[i]
    BY <1>1, <2>1, <2>2, MovedUp
  <2>4. ASSUME NEW t \in guards, [task |-> t, op |-> "inner"] # Head(waiting)
        PROVE  \E i \in DOMAIN waiting' : waiting'[i] = [task |-> t, op |-> "inner"]
    <3>1. PICK i \in DOMAIN waiting : waiting[i] = [task |-> t, op |-> "inner"]
      BY DEF GuardsAsk, Asks
    <3>2. i # 1
      BY <2>1, <2>4, <3>1
    <3> QED BY <2>3, <3>1, <3>2
  <2>5. CASE guards' = guards /\ Head(waiting).op # "inner"
    BY <2>4, <2>5 DEF GuardsAsk, Asks
  <2>6. ASSUME NEW t \in Tasks, guards' = guards \cup {t}, Head(waiting).op # "inner",
               waiting' = Append(Tail(waiting), [task |-> t, op |-> "inner"])
        PROVE  GuardsAsk'
    <3>1. \E i \in DOMAIN waiting' : waiting'[i] = [task |-> t, op |-> "inner"]
      <4>1. /\ Len(Tail(waiting)) + 1 \in DOMAIN waiting'
            /\ waiting'[Len(Tail(waiting)) + 1] = [task |-> t, op |-> "inner"]
        BY <1>1, <2>1, <2>6
      <4> QED BY <4>1
    <3>2. ASSUME NEW u \in guards
          PROVE  \E i \in DOMAIN waiting' : waiting'[i] = [task |-> u, op |-> "inner"]
      <4>1. [task |-> u, op |-> "inner"] # Head(waiting)
        BY <2>6
      <4> QED BY <2>4, <4>1
    <3> QED BY <2>6, <3>1, <3>2 DEF GuardsAsk, Asks
  <2>7. CASE guards' = guards \ {Head(waiting).task}
    BY <2>4, <2>7 DEF GuardsAsk, Asks
  <2> QED BY <1>4, <2>5, <2>6, <2>7 DEF Serves
<1> QED BY <1>2, <1>3, <1>4, LockStep

\* Nothing but a health_check_all that waits for itself keeps the lock from its
\* first request, for any number of tasks and calls (metrics.rs).
THEOREM FirstIsAlwaysServed == PoolSpec => []FirstIsServed
<1>1. PoolInit => GuardsAsk
  BY DEF PoolInit, M!MetricsInit, GuardsAsk
<1>2. CallsInv /\ GuardsAsk => FirstIsServed
  <2> SUFFICES ASSUME CallsInv, GuardsAsk, waiting # <<>>, guards # {},
                      Head(waiting).op \in M!Writes
               PROVE  Stuck
    BY DEF FirstIsServed
  <2>1. waiting \in Seq(M!Request)
    BY TypeParts DEF CallsInv, MetricsParts
  <2>2. 1 \in DOMAIN waiting /\ waiting[1].op \in M!Writes /\ DOMAIN waiting \subseteq Nat \ {0}
    BY <2>1
  <2>3. PICK t \in guards, j \in DOMAIN waiting : waiting[j] = [task |-> t, op |-> "inner"]
    BY DEF GuardsAsk, Asks
  <2>4. j # 1
    BY <2>2, <2>3 DEF M!Writes
  <2>5. 1 < j
    BY <2>2, <2>3, <2>4
  <2> QED BY <2>2, <2>3, <2>5 DEF Stuck
<1>3. CallsInv /\ GuardsAsk /\ [PoolNext]_poolVars => GuardsAsk'
  BY GuardsAskStep
<1> QED BY <1>1, <1>2, <1>3, CallsInit, CallsStep, PTL DEF PoolSpec

=============================================================================
