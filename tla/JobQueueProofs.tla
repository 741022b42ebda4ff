--------------------------- MODULE JobQueueProofs ---------------------------
(* Theorems about JobQueue, for every value of its constants.              *)
EXTENDS JobQueue, TLAPS

-----------------------------------------------------------------------------
(* Facts about the operators the actions are built from.                   *)

\* Unix seconds are natural numbers and never decrease.
LEMMA SecondsType == \A t \in Nat : Seconds(t) \in Nat
  BY ClockAssumption DEF Seconds

LEMMA SecondsMonotone == \A t \in Nat : Seconds(t) <= Seconds(t + 1)
  BY ClockAssumption DEF Seconds

\* Where the elements of a list are after RPUSH and after LPOP.
LEMMA AppendPositions ==
  ASSUME NEW s \in Seq(Jobs), NEW j \in Jobs
  PROVE  /\ DOMAIN Append(s, j) = DOMAIN s \cup {Len(s) + 1}
         /\ Append(s, j)[Len(s) + 1] = j
         /\ \A i \in DOMAIN s : Append(s, j)[i] = s[i] /\ i < Len(s) + 1
  OBVIOUS

LEMMA TailPositions ==
  ASSUME NEW s \in Seq(Jobs), s # <<>>
  PROVE  /\ DOMAIN Tail(s) = 1..(Len(s) - 1) /\ DOMAIN s = 1..Len(s)
         /\ Head(s) = s[1] /\ Len(s) \in Nat \ {0}
         /\ \A i \in 1..(Len(s) - 1) : Tail(s)[i] = s[i + 1]
  OBVIOUS

LEMMA TakeType ==
  ASSUME RedisTypeOK, NEW c \in Consumers, NEW r \in Jobs, Take(c, r)
  PROVE  popped' \subseteq Jobs /\ counter' \in Nat /\ taken' \in [Consumers -> Nat]
<1>1. CASE Info[c] = NoInfo
  BY <1>1 DEF Take, RedisTypeOK
<1>2. CASE Info[c] # NoInfo
  BY <1>2 DEF Take, RedisTypeOK
<1> QED BY <1>1, <1>2

\* One run of a dequeue script leaves the types of the Redis data alone.
LEMMA ScriptType ==
  ASSUME RedisTypeOK, NEW c \in Consumers, NEW t \in Nat,
         NEW r \in Jobs \cup {None}, Script(c, t, r)
  PROVE  RedisTypeOK'
<1>1. CASE TakeScheduled(c, t, r)
  <2>1. r \in Jobs /\ Take(c, r) /\ zset' \subseteq Jobs /\ list' \in Seq(Jobs)
    BY <1>1 DEF TakeScheduled, FirstReady, Ready, RedisTypeOK
  <2> QED BY <2>1, TakeType DEF RedisTypeOK
<1>2. CASE TakeRegular(c, t, r)
  <2>1. list \in Seq(Jobs) /\ list # <<>> /\ zset' \subseteq Jobs
    BY <1>2 DEF TakeRegular, RedisTypeOK
  <2>2. r \in Jobs /\ Take(c, r) /\ list' \in Seq(Jobs)
    BY <1>2, <2>1 DEF TakeRegular
  <2> QED BY <2>1, <2>2, TakeType DEF RedisTypeOK
<1>3. CASE TakeNothing(c, t, r)
  BY <1>3 DEF TakeNothing, redis, RedisTypeOK
<1> QED BY <1>1, <1>2, <1>3 DEF Script

\* So does one run of RPUSH or ZADD.
LEMMA StoreType ==
  ASSUME RedisTypeOK, NEW j \in Jobs, Store(j), UNCHANGED <<counter, popped, taken>>
  PROVE  RedisTypeOK'
<1>1. CASE eta[j] = None
  <2>1. Append(list, j) \in Seq(Jobs)
    BY DEF RedisTypeOK
  <2> QED BY <1>1, <2>1 DEF Store, RedisTypeOK
<1>2. CASE eta[j] # None
  BY <1>2 DEF Store, RedisTypeOK
<1> QED BY <1>1, <1>2

\* What an action leaves alone keeps its types.
LEMMA RedisUnchanged == RedisTypeOK /\ UNCHANGED redis => RedisTypeOK'
  BY DEF RedisTypeOK, redis

LEMMA ProducersUnchanged ==
  ProducerTypeOK /\ UNCHANGED <<producers, latePush>> => ProducerTypeOK'
  BY DEF ProducerTypeOK, producers

LEMMA WorkersUnchanged ==
  WorkerTypeOK /\ HoldsWhileRunning /\ UNCHANGED <<workers, latePop>> =>
    WorkerTypeOK' /\ HoldsWhileRunning'
  BY DEF WorkerTypeOK, HoldsWhileRunning, workers

-----------------------------------------------------------------------------
(* Type correctness.                                                       *)

LEMMA TypeInit == Init => TypeOK
  BY DEF Init, TypeOK, RedisTypeOK, ProducerTypeOK, WorkerTypeOK,
         HoldsWhileRunning, NoCall

LEMMA TypeStep == TypeOK /\ [Next]_vars => TypeOK'
<1> SUFFICES ASSUME TypeOK, [Next]_vars PROVE TypeOK'
  OBVIOUS
<1> USE DEF TypeOK
<1>1. CASE Tick
  BY <1>1, RedisUnchanged, ProducersUnchanged, WorkersUnchanged DEF Tick
<1>2. ASSUME NEW j \in Jobs, NEW e \in Etas \cup {None}, Begin(j, e) PROVE TypeOK'
  <2>1. ProducerTypeOK'
    BY <1>2 DEF Begin, ProducerTypeOK
  <2> QED BY <1>2, <2>1, RedisUnchanged, WorkersUnchanged DEF Begin
<1>3. ASSUME NEW j \in Jobs, Push(j) PROVE TypeOK'
  <2>1. ProducerTypeOK'
    BY <1>3 DEF Push, ProducerTypeOK
  <2> QED BY <1>3, <2>1, StoreType, WorkersUnchanged DEF Push
<1>4. ASSUME NEW j \in Jobs, SendOk(j) PROVE TypeOK'
  <2>1. ProducerTypeOK'
    BY <1>4 DEF SendOk, ProducerTypeOK
  <2> QED BY <1>4, <2>1, RedisUnchanged, WorkersUnchanged DEF SendOk
<1>5. ASSUME NEW j \in Jobs, SendError(j) PROVE TypeOK'
  <2>1. send' \in [Jobs -> {"idle", "wait", "applied", "ok", "failed"}]
    BY <1>5 DEF SendError, ProducerTypeOK
  <2>2. tries' \in [Jobs -> Nat] /\ latePush' \in [Jobs -> Nat]
    BY <1>5 DEF SendError, ProducerTypeOK
  <2>3. ProducerTypeOK'
    BY <1>5, <2>1, <2>2 DEF SendError, ProducerTypeOK
  <2> QED BY <1>5, <2>3, RedisUnchanged, WorkersUnchanged DEF SendError
<1>6. ASSUME NEW j \in Jobs, LatePush(j) PROVE TypeOK'
  <2>1. latePush' \in [Jobs -> Nat]
    BY <1>6 DEF LatePush, ProducerTypeOK
  <2>2. ProducerTypeOK'
    BY <1>6, <2>1 DEF LatePush, ProducerTypeOK, producers
  <2> QED BY <1>6, <2>2, StoreType, WorkersUnchanged DEF LatePush
<1>7. ASSUME NEW w \in Workers, Poll(w) PROVE TypeOK'
  <2>1. Seconds(now) \in Nat
    BY SecondsType
  <2>2. WorkerTypeOK' /\ HoldsWhileRunning'
    BY <1>7, <2>1 DEF Poll, WorkerTypeOK, HoldsWhileRunning
  <2> QED BY <1>7, <2>2, RedisUnchanged, ProducersUnchanged DEF Poll
<1>8. ASSUME NEW w \in Workers, Execute(w) PROVE TypeOK'
  <2>1. PICK r \in Jobs \cup {None} :
          Script(Owner[w], call[w].asOf, r) /\ got' = [got EXCEPT ![w] = r]
    BY <1>8 DEF Execute
  <2>2. RedisTypeOK'
    <3>1. Owner[w] \in Consumers /\ call[w].asOf \in Nat
      BY OwnerAssumption DEF WorkerTypeOK
    <3> QED BY <2>1, <3>1, ScriptType
  <2>3. WorkerTypeOK' /\ HoldsWhileRunning'
    BY <1>8, <2>1 DEF Execute, WorkerTypeOK, HoldsWhileRunning
  <2> QED BY <1>8, <2>2, <2>3, ProducersUnchanged DEF Execute
<1>9. ASSUME NEW w \in Workers, Receive(w) PROVE TypeOK'
  <2>1. WorkerTypeOK' /\ HoldsWhileRunning'
    <3>1. call' \in [Workers -> [asOf : Nat, attempt : Nat]]
      BY <1>9 DEF Receive, NoCall, WorkerTypeOK
    <3>2. CASE got[w] = None
      BY <1>9, <3>1, <3>2 DEF Receive, WorkerTypeOK, HoldsWhileRunning
    <3>3. CASE got[w] # None
      BY <1>9, <3>1, <3>3 DEF Receive, WorkerTypeOK, HoldsWhileRunning
    <3> QED BY <3>2, <3>3
  <2> QED BY <1>9, <2>1, RedisUnchanged, ProducersUnchanged DEF Receive
<1>10. ASSUME NEW w \in Workers, Finish(w) PROVE TypeOK'
  <2>1. WorkerTypeOK' /\ HoldsWhileRunning'
    BY <1>10 DEF Finish, WorkerTypeOK, HoldsWhileRunning
  <2> QED BY <1>10, <2>1, RedisUnchanged, ProducersUnchanged DEF Finish
<1>11. ASSUME NEW w \in Workers, Abandon(w) PROVE TypeOK'
  <2>1. latePop' \subseteq [worker : Workers, asOf : Nat, n : Nat]
    BY <1>11 DEF Abandon, Orphan, WorkerTypeOK
  <2>2. call' \in [Workers -> [asOf : Nat, attempt : Nat]]
    BY <1>11 DEF Abandon, NoCall, WorkerTypeOK
  <2>3. /\ pc' \in [Workers -> {"idle", "wait", "replied", "run", "dead"}]
        /\ HoldsWhileRunning'
    BY <1>11 DEF Abandon, WorkerTypeOK, HoldsWhileRunning
  <2>4. WorkerTypeOK'
    BY <1>11, <2>1, <2>2, <2>3 DEF Abandon, WorkerTypeOK
  <2> QED BY <1>11, <2>3, <2>4, RedisUnchanged, ProducersUnchanged DEF Abandon
<1>12. ASSUME NEW w \in Workers, Panic(w) PROVE TypeOK'
  <2>1. WorkerTypeOK' /\ HoldsWhileRunning'
    BY <1>12 DEF Panic, WorkerTypeOK, HoldsWhileRunning
  <2> QED BY <1>12, <2>1, RedisUnchanged, ProducersUnchanged DEF Panic
<1>13. ASSUME NEW o \in latePop, LatePop(o) PROVE TypeOK'
  <2>1. PICK r \in Jobs \cup {None} : Script(Owner[o.worker], o.asOf, r)
    BY <1>13 DEF LatePop
  <2>2. Owner[o.worker] \in Consumers /\ o.asOf \in Nat
    BY OwnerAssumption DEF WorkerTypeOK
  <2>3. RedisTypeOK'
    BY <2>1, <2>2, ScriptType
  <2>4. WorkerTypeOK' /\ HoldsWhileRunning'
    BY <1>13 DEF LatePop, workers, WorkerTypeOK, HoldsWhileRunning
  <2> QED BY <1>13, <2>3, <2>4, ProducersUnchanged DEF LatePop
<1>14. ASSUME NEW c \in Consumers, Crash(c) PROVE TypeOK'
  <2>1. latePop' \subseteq [worker : Workers, asOf : Nat, n : Nat]
    BY <1>14 DEF Crash, Orphan, WorkerTypeOK
  <2>2. call' \in [Workers -> [asOf : Nat, attempt : Nat]]
    BY <1>14 DEF Crash, NoCall, WorkerTypeOK
  <2>3. WorkerTypeOK' /\ HoldsWhileRunning'
    BY <1>14, <2>1, <2>2 DEF Crash, WorkerTypeOK, HoldsWhileRunning
  <2> QED BY <1>14, <2>3, RedisUnchanged, ProducersUnchanged DEF Crash
<1>15. CASE UNCHANGED vars
  BY <1>15, RedisUnchanged, ProducersUnchanged, WorkersUnchanged DEF vars
<1> QED
  BY <1>1, <1>2, <1>3, <1>4, <1>5, <1>6, <1>7, <1>8, <1>9, <1>10, <1>11, <1>12,
     <1>13, <1>14, <1>15 DEF Next

\* Every variable keeps its type, and a worker holds a job exactly in the
\* states in which its loop (registry.rs run) has one.
THEOREM TypeCorrect == Spec => []TypeOK
  BY TypeInit, TypeStep, PTL DEF Spec

-----------------------------------------------------------------------------
(* Order and timing: the inductive invariant.                              *)

\* Redis has never seen a job whose send() has not begun.
UnknownBeforeBegin ==
    \A j \in Jobs : send[j] = "idle" =>
        j \notin zset \cup popped /\ ~Queued(j) /\ latePush[j] = 0

\* Regular jobs are in the list, scheduled ones in the sorted set.
Sorted ==
    /\ \A i \in DOMAIN list : eta[list[i]] = None
    /\ \A j \in zset : eta[j] # None

\* Every dequeue request carries a second that has begun.
RequestsFromThePast ==
    /\ \A w \in Workers : call[w].asOf <= Seconds(now)
    /\ \A o \in latePop : o.asOf <= Seconds(now)

BeforeAccepted == \A k \in Jobs : \A j \in before[k] : send[j] = "ok"

\* Ahead of every copy of k in the list is a copy of each regular job accepted
\* before send(k) began, unless that job has been handed out.
ListFifo ==
    \A i \in DOMAIN list : \A j \in before[list[i]] : IsRegular(j) =>
        j \in popped \/ \E h \in DOMAIN list : h < i /\ list[h] = j

OrderInv ==
    /\ TypeOK
    /\ UnknownBeforeBegin
    /\ Sorted
    /\ RequestsFromThePast
    /\ BeforeAccepted
    /\ AcceptedAccounted
    /\ ListFifo
    /\ Fifo
    /\ NotASecondEarly
    /\ EarliestEtaFirst

LEMMA ScoreType ==
  \A j \in Jobs : ProducerTypeOK /\ IsScheduled(j) => Score(j) \in Nat
  BY EtasAssumption, SecondsType DEF ProducerTypeOK, IsScheduled, Score

LEMMA OrderInit == Init => OrderInv
<1> SUFFICES ASSUME Init PROVE OrderInv
  OBVIOUS
<1>1. TypeOK
  BY TypeInit
<1>2. /\ list = <<>> /\ zset = {} /\ popped = {}
      /\ \A j \in Jobs : send[j] = "idle" /\ latePush[j] = 0 /\ before[j] = {}
  BY DEF Init
<1>3. UnknownBeforeBegin /\ Sorted /\ BeforeAccepted /\ AcceptedAccounted /\ ListFifo
  BY <1>2 DEF UnknownBeforeBegin, Sorted, BeforeAccepted, AcceptedAccounted,
              ListFifo, Queued
<1>4. Fifo /\ NotASecondEarly /\ EarliestEtaFirst
  BY <1>2 DEF Fifo, NotASecondEarly, EarliestEtaFirst
<1>5. RequestsFromThePast
  <2>1. Seconds(now) \in Nat /\ latePop = {} /\ \A w \in Workers : call[w].asOf = 0
    BY SecondsType DEF Init, NoCall
  <2> QED BY <2>1 DEF RequestsFromThePast
<1> QED BY <1>1, <1>3, <1>4, <1>5 DEF OrderInv

\* A step that leaves Redis's data, the ETAs and the histories alone.
LEMMA QuietStep ==
  ASSUME OrderInv, TypeOK', RequestsFromThePast',
         UNCHANGED <<list, zset, popped, eta, before>>,
         now' = now \/ now' = now + 1,
         \A j \in Jobs :
            /\ send'[j] = "idle" => send[j] = "idle" /\ latePush'[j] = latePush[j]
            /\ send[j] = "ok" => send'[j] = "ok"
            /\ send'[j] \in {"applied", "ok"} => send[j] \in {"applied", "ok"}
  PROVE  OrderInv'
<1> USE DEF OrderInv
<1>1. UnknownBeforeBegin'
  BY DEF UnknownBeforeBegin, Queued
<1>2. Sorted' /\ ListFifo' /\ Fifo'
  BY DEF Sorted, ListFifo, Fifo, IsRegular
<1>3. BeforeAccepted'
  BY DEF BeforeAccepted, TypeOK, ProducerTypeOK
<1>4. AcceptedAccounted'
  BY DEF AcceptedAccounted, Queued
<1>5. EarliestEtaFirst'
  BY DEF EarliestEtaFirst, IsScheduled, Score
<1>6. NotASecondEarly'
  <2>1. Seconds(now) \in Nat /\ Seconds(now)' \in Nat /\ Seconds(now) <= Seconds(now)'
    BY SecondsType, SecondsMonotone DEF TypeOK
  <2>2. ASSUME NEW j \in popped, IsScheduled(j) PROVE Score(j) <= Seconds(now)'
    <3>1. Score(j) \in Nat /\ Score(j) <= Seconds(now)
      BY <2>2, ScoreType DEF NotASecondEarly, TypeOK, RedisTypeOK
    <3> QED BY <2>1, <3>1
  <2> QED BY <2>2 DEF NotASecondEarly, IsScheduled, Score
<1> QED BY <1>1, <1>2, <1>3, <1>4, <1>5, <1>6

\* RPUSH or ZADD of a job whose send() has begun, now or late.
LEMMA StoreStep ==
  ASSUME OrderInv, TypeOK', NEW j \in Jobs, Store(j), send[j] # "idle",
         UNCHANGED <<now, popped, eta, before, call, latePop>>,
         send' = send \/ send' = [send EXCEPT ![j] = "applied"],
         send[j] = "ok" => send' = send,
         \A k \in Jobs : k # j => latePush'[k] = latePush[k]
  PROVE  OrderInv'
<1> USE DEF OrderInv, TypeOK
<1>1. \A k \in Jobs : k # j => send'[k] = send[k]
  BY DEF ProducerTypeOK
<1>2. send'[j] # "idle" /\ (send[j] = "ok" => send'[j] = "ok")
  BY DEF ProducerTypeOK
<1>3. \/ /\ IsRegular(j) /\ zset' = zset
         /\ list' = Append(list, j)
      \/ /\ IsScheduled(j) /\ list' = list
         /\ zset' = zset \cup {j}
  BY DEF Store, IsRegular, IsScheduled
<1>4. \/ list' = list
      \/ /\ IsRegular(j)
         /\ DOMAIN list' = DOMAIN list \cup {Len(list) + 1}
         /\ list'[Len(list) + 1] = j
         /\ \A i \in DOMAIN list : list'[i] = list[i] /\ i < Len(list) + 1
  <2>1. list \in Seq(Jobs)
    BY DEF RedisTypeOK
  <2>2. CASE IsRegular(j) /\ list' = Append(list, j)
    BY <2>1, <2>2, AppendPositions
  <2> QED BY <1>3, <2>2
<1>5. DOMAIN list \subseteq DOMAIN list' /\ \A i \in DOMAIN list : list'[i] = list[i]
  BY <1>4
<1>6. \A k \in Jobs : Queued(k)' <=> Queued(k) \/ (IsRegular(j) /\ k = j)
  <2>1. CASE IsRegular(j) /\ list' = Append(list, j)
    <3>1. Queued(j)'
      BY <2>1, <1>4 DEF Queued, RedisTypeOK
    <3>2. \A k \in Jobs : k # j => (Queued(k)' <=> Queued(k))
      BY <2>1, <1>4, <1>5 DEF Queued
    <3> QED BY <2>1, <3>1, <3>2
  <2>2. CASE IsScheduled(j) /\ list' = list
    BY <2>2 DEF Queued, IsScheduled, IsRegular
  <2> QED BY <1>3, <2>1, <2>2
<1>7. UnknownBeforeBegin'
  BY <1>1, <1>2, <1>3, <1>6 DEF UnknownBeforeBegin
<1>8. Sorted'
  BY <1>3, <1>4 DEF Sorted, IsRegular, IsScheduled
<1>9. RequestsFromThePast' /\ Fifo' /\ NotASecondEarly' /\ EarliestEtaFirst'
  BY DEF RequestsFromThePast, Fifo, NotASecondEarly, EarliestEtaFirst, IsRegular,
         IsScheduled, Score
<1>10. BeforeAccepted'
  BY <1>1, <1>2 DEF BeforeAccepted, ProducerTypeOK
<1>11. AcceptedAccounted'
  <2>1. Queued(j)' \/ j \in zset'
    BY <1>3, <1>6
  <2> QED BY <1>1, <1>3, <1>6, <2>1 DEF AcceptedAccounted
<1>12. ListFifo'
  <2>1. ASSUME NEW k \in before[j], IsRegular(k), k \notin popped
        PROVE  \E h \in DOMAIN list : list[h] = k
    <3>1. k \in Jobs /\ send[k] = "ok"
      BY DEF BeforeAccepted, ProducerTypeOK
    <3>2. k \notin zset
      BY <2>1 DEF Sorted, IsRegular
    <3> QED BY <2>1, <3>1, <3>2 DEF AcceptedAccounted, Queued
  <2>2. ASSUME NEW i \in DOMAIN list', NEW k \in before[list'[i]], IsRegular(k),
               k \notin popped
        PROVE  \E h \in DOMAIN list' : h < i /\ list'[h] = k
    <3>1. CASE i \in DOMAIN list
      BY <2>2, <3>1, <1>5 DEF ListFifo
    <3>2. CASE i \notin DOMAIN list
      <4>1. i = Len(list) + 1 /\ list'[i] = j /\ \A h \in DOMAIN list : h < i
        BY <2>2, <3>2, <1>4
      <4>2. PICK h \in DOMAIN list : list[h] = k
        BY <2>2, <4>1, <2>1
      <4> QED BY <4>1, <4>2, <1>5
    <3> QED BY <3>1, <3>2
  <2> QED BY <2>2 DEF ListFifo, IsRegular
<1> QED
  BY <1>7, <1>8, <1>9, <1>10, <1>11, <1>12

\* One run of a dequeue script with a current_time that has begun.
LEMMA ScriptStep ==
  ASSUME OrderInv, TypeOK', RequestsFromThePast',
         NEW c \in Consumers, NEW t \in Nat, t <= Seconds(now),
         NEW r \in Jobs \cup {None}, Script(c, t, r),
         UNCHANGED <<now, producers, latePush>>
  PROVE  OrderInv'
<1> USE DEF OrderInv, TypeOK, producers
<1>1. CASE TakeNothing(c, t, r)
  BY <1>1, QuietStep DEF TakeNothing, redis
<1>2. CASE TakeScheduled(c, t, r)
  <2>1. /\ r \in zset /\ Score(r) <= t /\ list' = list
        /\ zset' = zset \ {r} /\ popped' = popped \cup {r}
        /\ \A k \in zset : Score(k) <= t => Score(r) <= Score(k)
    BY <1>2 DEF TakeScheduled, Take, FirstReady, Ready
  <2>2. IsScheduled(r) /\ send[r] # "idle" /\ r \in Jobs
    BY <2>1 DEF Sorted, IsScheduled, UnknownBeforeBegin, RedisTypeOK
  <2>3. UnknownBeforeBegin' /\ Sorted' /\ BeforeAccepted' /\ AcceptedAccounted'
    BY <2>1, <2>2 DEF UnknownBeforeBegin, Sorted, BeforeAccepted,
       AcceptedAccounted, Queued
  <2>4. ListFifo' /\ Fifo'
    BY <2>1, <2>2 DEF ListFifo, Fifo, IsRegular, IsScheduled
  <2>5. NotASecondEarly'
    <3>1. Score(r) <= Seconds(now)
      BY <2>1, <2>2, ScoreType, SecondsType
    <3> QED BY <2>1, <3>1 DEF NotASecondEarly, IsScheduled, Score
  <2>6. EarliestEtaFirst'
    <3>1. ASSUME NEW k \in before[r], IsScheduled(k), Score(k) < Score(r)
          PROVE  k \in popped
      <4>1. k \in Jobs /\ send[k] = "ok"
        BY <2>2 DEF BeforeAccepted, ProducerTypeOK
      <4>2. ~Queued(k)
        BY <3>1 DEF Queued, Sorted, IsScheduled
      <4>3. k \notin zset
        <5>1. Score(k) \in Nat /\ Score(r) \in Nat
          BY <2>2, <3>1, <4>1, ScoreType
        <5> QED BY <2>1, <3>1, <5>1
      <4> QED BY <4>1, <4>2, <4>3 DEF AcceptedAccounted
    <3> QED BY <2>1, <3>1 DEF EarliestEtaFirst, IsScheduled, Score
  <2> QED BY <2>3, <2>4, <2>5, <2>6
<1>3. CASE TakeRegular(c, t, r)
  <2>1. /\ list \in Seq(Jobs) /\ list # <<>> /\ r = Head(list)
        /\ list' = Tail(list) /\ zset' = zset /\ popped' = popped \cup {r}
    BY <1>3 DEF TakeRegular, Take, RedisTypeOK
  <2>2. /\ DOMAIN list' = 1..(Len(list) - 1) /\ DOMAIN list = 1..Len(list)
        /\ r = list[1] /\ Len(list) \in Nat \ {0}
        /\ \A i \in 1..(Len(list) - 1) : list'[i] = list[i + 1]
    BY <2>1, TailPositions
  <2>3. /\ \A i \in DOMAIN list' : i + 1 \in DOMAIN list /\ list'[i] = list[i + 1]
        /\ 1 \in DOMAIN list
        /\ \A i \in DOMAIN list : i = 1 \/ (i - 1 \in DOMAIN list' /\ list'[i - 1] = list[i])
    BY <2>2
  <2>4. r \in Jobs /\ IsRegular(r) /\ send[r] # "idle"
    <3>1. r \in Jobs /\ Queued(r)
      BY <2>1, <2>2, <2>3 DEF Queued
    <3> QED BY <2>2, <2>3, <3>1 DEF Sorted, IsRegular, UnknownBeforeBegin
  <2>5. \A k \in Jobs : (Queued(k)' => Queued(k)) /\ (Queued(k) => k = r \/ Queued(k)')
    BY <2>2, <2>3 DEF Queued
  <2>6. UnknownBeforeBegin' /\ BeforeAccepted' /\ AcceptedAccounted'
    BY <2>1, <2>4, <2>5 DEF UnknownBeforeBegin, BeforeAccepted, AcceptedAccounted
  <2>7. Sorted'
    BY <2>1, <2>3 DEF Sorted
  <2>8. NotASecondEarly' /\ EarliestEtaFirst'
    BY <2>1, <2>4 DEF NotASecondEarly, EarliestEtaFirst, IsRegular, IsScheduled, Score
  <2>9. Fifo'
    <3>1. ASSUME NEW j \in before[r], IsRegular(j) PROVE j \in popped
      <4>1. j \in popped \/ \E h \in DOMAIN list : h < 1 /\ list[h] = j
        BY <2>2, <2>3, <3>1 DEF ListFifo
      <4> QED BY <2>2, <4>1
    <3> QED BY <2>1, <3>1 DEF Fifo, IsRegular
  <2>10. ListFifo'
    <3>1. ASSUME NEW i \in DOMAIN list', NEW j \in before[list'[i]], IsRegular(j)
          PROVE  j \in popped' \/ \E h \in DOMAIN list' : h < i /\ list'[h] = j
      <4>1. j \in popped \/ \E h \in DOMAIN list : h < i + 1 /\ list[h] = j
        BY <2>3, <3>1 DEF ListFifo
      <4>2. ASSUME NEW h \in DOMAIN list, h < i + 1, list[h] = j
            PROVE  j = r \/ \E g \in DOMAIN list' : g < i /\ list'[g] = j
        <5>1. CASE h = 1
          BY <2>2, <4>2, <5>1
        <5>2. CASE h # 1
          <6>1. h - 1 \in DOMAIN list' /\ list'[h - 1] = j /\ h - 1 < i
            BY <2>2, <2>3, <4>2, <5>2
          <6> QED BY <6>1
        <5> QED BY <5>1, <5>2
      <4> QED BY <2>1, <4>1, <4>2
    <3> QED BY <3>1 DEF ListFifo, IsRegular
  <2> QED BY <2>6, <2>7, <2>8, <2>9, <2>10
<1> QED BY <1>1, <1>2, <1>3 DEF Script

LEMMA BeginStep ==
  ASSUME OrderInv, TypeOK', NEW j \in Jobs, NEW e \in Etas \cup {None}, Begin(j, e)
  PROVE  OrderInv'
<1> USE DEF OrderInv, TypeOK
<1>1. /\ send[j] = "idle" /\ j \notin zset \cup popped /\ ~Queued(j)
      /\ \A k \in Jobs : j \notin before[k]
  BY DEF Begin, UnknownBeforeBegin, BeforeAccepted
<1>2. \A k \in Jobs : k # j =>
        send'[k] = send[k] /\ eta'[k] = eta[k] /\ before'[k] = before[k]
  BY DEF Begin, ProducerTypeOK
<1>3. /\ send'[j] = "wait" /\ before'[j] = {k \in Jobs : send[k] = "ok"}
      /\ UNCHANGED <<now, list, zset, popped, call, latePop, latePush>>
  BY DEF Begin, ProducerTypeOK, redis, workers
<1>4. \A i \in DOMAIN list : list[i] \in Jobs /\ list[i] # j
  BY <1>1 DEF Queued, RedisTypeOK
<1>5. UnknownBeforeBegin' /\ AcceptedAccounted'
  BY <1>1, <1>2, <1>3 DEF UnknownBeforeBegin, AcceptedAccounted, Queued
<1>6. Sorted'
  BY <1>1, <1>2, <1>3, <1>4 DEF Sorted, RedisTypeOK
<1>7. RequestsFromThePast'
  BY <1>3 DEF RequestsFromThePast
<1>8. \A k \in Jobs : before[k] \subseteq Jobs
  BY DEF ProducerTypeOK
<1>9. BeforeAccepted'
  <2>1. ASSUME NEW k \in Jobs, NEW m \in before'[k] PROVE send'[m] = "ok"
    <3>1. CASE k = j
      BY <1>1, <1>2, <1>3, <2>1, <3>1
    <3>2. CASE k # j
      BY <1>1, <1>2, <1>8, <2>1, <3>2 DEF BeforeAccepted
    <3> QED BY <3>1, <3>2
  <2> QED BY <2>1 DEF BeforeAccepted
<1>10. ListFifo'
  <2>1. ASSUME NEW i \in DOMAIN list, NEW k \in before'[list[i]], eta'[k] = None
        PROVE  k \in popped \/ \E h \in DOMAIN list : h < i /\ list[h] = k
    <3>1. k \in before[list[i]] /\ k \in Jobs /\ k # j
      BY <1>1, <1>2, <1>4, <1>8
    <3>2. IsRegular(k)
      BY <1>2, <2>1, <3>1 DEF IsRegular
    <3> QED BY <3>1, <3>2 DEF ListFifo
  <2> QED BY <1>3, <2>1 DEF ListFifo, IsRegular
<1>12. Fifo'
  BY <1>1, <1>2, <1>3, <1>8 DEF Fifo, IsRegular, RedisTypeOK
<1>11. NotASecondEarly' /\ EarliestEtaFirst'
  BY <1>1, <1>2, <1>3, <1>8
     DEF NotASecondEarly, EarliestEtaFirst, IsScheduled, Score, RedisTypeOK
<1> QED BY <1>5, <1>6, <1>7, <1>9, <1>10, <1>11, <1>12

LEMMA OrderStep == OrderInv /\ [Next]_vars => OrderInv'
<1> SUFFICES ASSUME OrderInv, [Next]_vars PROVE OrderInv'
  OBVIOUS
<1>1. TypeOK /\ TypeOK' /\ RequestsFromThePast
  BY TypeStep DEF OrderInv
<1>2. Seconds(now) \in Nat
  BY <1>1, SecondsType DEF TypeOK
<1>3. UNCHANGED <<now, call, latePop>> => RequestsFromThePast'
  BY <1>1 DEF RequestsFromThePast
<1>4. CASE Tick
  <2>1. RequestsFromThePast'
    <3>1. Seconds(now)' \in Nat /\ Seconds(now) <= Seconds(now)'
      BY <1>1, <1>4, SecondsType, SecondsMonotone DEF Tick, TypeOK
    <3>2. /\ call' = call /\ latePop' = latePop
          /\ \A w \in Workers : call[w].asOf \in Nat
          /\ \A o \in latePop : o.asOf \in Nat
      BY <1>1, <1>4 DEF Tick, workers, TypeOK, WorkerTypeOK
    <3> QED BY <1>1, <1>2, <3>1, <3>2 DEF RequestsFromThePast
  <2> QED BY <1>1, <1>4, <2>1, QuietStep DEF Tick, redis, producers
<1>5. ASSUME NEW j \in Jobs, NEW e \in Etas \cup {None}, Begin(j, e) PROVE OrderInv'
  BY <1>1, <1>5, BeginStep
<1>6. ASSUME NEW j \in Jobs, Push(j) PROVE OrderInv'
  BY <1>1, <1>6, StoreStep DEF Push, workers
<1>7. ASSUME NEW j \in Jobs, SendOk(j) PROVE OrderInv'
  <2>1. \A k \in Jobs :
            /\ send'[k] = "idle" => send[k] = "idle" /\ latePush'[k] = latePush[k]
            /\ send[k] = "ok" => send'[k] = "ok"
            /\ send'[k] \in {"applied", "ok"} => send[k] \in {"applied", "ok"}
    BY <1>1, <1>7 DEF SendOk, TypeOK, ProducerTypeOK
  <2> QED BY <1>1, <1>3, <1>7, <2>1, QuietStep DEF SendOk, redis, workers
<1>8. ASSUME NEW j \in Jobs, SendError(j) PROVE OrderInv'
  <2>1. \A k \in Jobs : k # j => send'[k] = send[k] /\ latePush'[k] = latePush[k]
    BY <1>1, <1>8 DEF SendError, TypeOK, ProducerTypeOK
  <2>2. send'[j] \in {"wait", "failed"} /\ send[j] # "ok"
    BY <1>1, <1>8 DEF SendError, TypeOK, ProducerTypeOK
  <2> QED BY <1>1, <1>3, <1>8, <2>1, <2>2, QuietStep DEF SendError, redis, workers
<1>9. ASSUME NEW j \in Jobs, LatePush(j) PROVE OrderInv'
  <2>1. send[j] # "idle" /\ \A k \in Jobs : k # j => latePush'[k] = latePush[k]
    BY <1>9 DEF LatePush, OrderInv, UnknownBeforeBegin, TypeOK, ProducerTypeOK
  <2> QED BY <1>1, <1>9, <2>1, StoreStep DEF LatePush, producers, workers
<1>10. ASSUME NEW w \in Workers, Poll(w) PROVE OrderInv'
  <2>1. RequestsFromThePast'
    BY <1>1, <1>2, <1>10 DEF Poll, RequestsFromThePast, TypeOK, WorkerTypeOK
  <2> QED BY <1>1, <1>10, <2>1, QuietStep DEF Poll, redis, producers
<1>11. ASSUME NEW w \in Workers, Execute(w) PROVE OrderInv'
  <2>1. PICK r \in Jobs \cup {None} : Script(Owner[w], call[w].asOf, r)
    BY <1>11 DEF Execute
  <2>2. /\ Owner[w] \in Consumers /\ call[w].asOf \in Nat
        /\ call[w].asOf <= Seconds(now)
    BY <1>1, OwnerAssumption DEF TypeOK, WorkerTypeOK, RequestsFromThePast
  <2> QED BY <1>1, <1>3, <1>11, <2>1, <2>2, ScriptStep DEF Execute
<1>12. ASSUME NEW w \in Workers, Receive(w) PROVE OrderInv'
  <2>1. RequestsFromThePast'
    BY <1>1, <1>2, <1>12
       DEF Receive, NoCall, RequestsFromThePast, TypeOK, WorkerTypeOK
  <2> QED BY <1>1, <1>12, <2>1, QuietStep DEF Receive, redis, producers
<1>13. ASSUME NEW w \in Workers, Finish(w) PROVE OrderInv'
  BY <1>1, <1>3, <1>13, QuietStep DEF Finish, redis, producers
<1>14. ASSUME NEW w \in Workers, Abandon(w) PROVE OrderInv'
  <2>1. \A o \in latePop' : o.asOf <= Seconds(now)
    BY <1>1, <1>14 DEF Abandon, Orphan, RequestsFromThePast
  <2>2. \A v \in Workers : call'[v].asOf <= Seconds(now)
    BY <1>1, <1>2, <1>14
       DEF Abandon, NoCall, RequestsFromThePast, TypeOK, WorkerTypeOK
  <2>3. RequestsFromThePast'
    BY <1>14, <2>1, <2>2 DEF Abandon, RequestsFromThePast
  <2> QED BY <1>1, <1>14, <2>3, QuietStep DEF Abandon, redis, producers
<1>15. ASSUME NEW w \in Workers, Panic(w) PROVE OrderInv'
  BY <1>1, <1>3, <1>15, QuietStep DEF Panic, redis, producers
<1>16. ASSUME NEW o \in latePop, LatePop(o) PROVE OrderInv'
  <2>1. PICK r \in Jobs \cup {None} : Script(Owner[o.worker], o.asOf, r)
    BY <1>16 DEF LatePop
  <2>2. /\ Owner[o.worker] \in Consumers /\ o.asOf \in Nat
        /\ o.asOf <= Seconds(now)
    BY <1>1, OwnerAssumption DEF TypeOK, WorkerTypeOK, RequestsFromThePast
  <2>3. RequestsFromThePast'
    BY <1>1, <1>16 DEF LatePop, workers, RequestsFromThePast
  <2> QED BY <1>1, <1>16, <2>1, <2>2, <2>3, ScriptStep DEF LatePop
<1>17. ASSUME NEW c \in Consumers, Crash(c) PROVE OrderInv'
  <2>1. \A o \in latePop' : o.asOf <= Seconds(now)
    BY <1>1, <1>17 DEF Crash, Orphan, RequestsFromThePast
  <2>2. \A v \in Workers : call'[v].asOf <= Seconds(now)
    BY <1>1, <1>2, <1>17
       DEF Crash, NoCall, RequestsFromThePast, TypeOK, WorkerTypeOK
  <2>3. RequestsFromThePast'
    BY <1>17, <2>1, <2>2 DEF Crash, RequestsFromThePast
  <2> QED BY <1>1, <1>17, <2>3, QuietStep DEF Crash, redis, producers
<1>18. CASE UNCHANGED vars
  BY <1>1, <1>3, <1>18, QuietStep DEF vars, redis, producers, workers
<1> QED
  BY <1>4, <1>5, <1>6, <1>7, <1>8, <1>9, <1>10, <1>11, <1>12, <1>13, <1>14,
     <1>15, <1>16, <1>17, <1>18 DEF Next

LEMMA OrderCorrect == Spec => []OrderInv
  BY OrderInit, OrderStep, PTL DEF Spec

\* What Redis has answered to a producer is stored or has been handed out,
\* for any number of producers, workers, retries, late requests and crashes.
THEOREM AcceptedStaysAccounted == Spec => []AcceptedAccounted
  BY OrderCorrect, PTL DEF OrderInv

\* Regular jobs are handed out in the order of their acceptance.
THEOREM RegularJobsFifo == Spec => []Fifo
  BY OrderCorrect, PTL DEF OrderInv

\* A scheduled job is never handed out before the second of its ETA.
THEOREM ScheduledNotASecondEarly == Spec => []NotASecondEarly
  BY OrderCorrect, PTL DEF OrderInv

\* Scheduled jobs are handed out in the order of the seconds of their ETAs.
THEOREM ScheduledByEta == Spec => []EarliestEtaFirst
  BY OrderCorrect, PTL DEF OrderInv

-----------------------------------------------------------------------------
(* The queue that has stopped.                                             *)

\* A consumer without the turn takes nothing and moves nothing.
LEMMA NoTurnNoJob ==
  ASSUME NEW c, NEW t, NEW r, ~Turn(c), Script(c, t, r)
  PROVE  UNCHANGED <<counter, popped>>
  BY DEF Script, TakeScheduled, TakeRegular, TakeNothing, redis

\* No turn returns while the dead stay dead and whoever asks is alive.
LEMMA HopelessKept ==
  ASSUME Hopeless, UNCHANGED <<counter, popped>>,
         \A w \in Workers : pc[w] = "dead" => pc'[w] = "dead",
         \A o \in latePop' :
            o \in latePop \/ \E w \in Workers : pc[w] # "dead" /\ o.worker = w
  PROVE  Hopeless' /\ popped' = popped
<1>1. \A c : Turn(c)' <=> Turn(c)
  BY DEF Turn
<1>2. \A w \in Workers : pc[w] # "dead" => ~Turn(Owner[w])
  BY DEF Hopeless, Stalled, Live, Dead
<1>3. Stalled'
  BY <1>1, <1>2 DEF Stalled, Live, Dead
<1>4. \A o \in latePop' : ~Turn(Owner[o.worker])
  BY <1>2 DEF Hopeless
<1> QED BY <1>1, <1>3, <1>4 DEF Hopeless

\* Every step leaves a queue hopeless that is.
LEMMA HopelessStep ==
  ASSUME TypeOK, Hopeless, [Next]_vars
  PROVE  Hopeless' /\ popped' = popped
<1>1. ASSUME UNCHANGED <<counter, popped, pc, latePop>>
      PROVE  Hopeless' /\ popped' = popped
  BY <1>1, HopelessKept
<1>2. CASE Tick \/ UNCHANGED vars
  BY <1>1, <1>2 DEF Tick, vars, redis, workers
<1>3. ASSUME NEW j \in Jobs, \/ \E e \in Etas \cup {None} : Begin(j, e)
                             \/ Push(j) \/ SendOk(j) \/ SendError(j) \/ LatePush(j)
      PROVE  Hopeless' /\ popped' = popped
  BY <1>1, <1>3 DEF Begin, Push, SendOk, SendError, LatePush, redis, workers
<1>4. ASSUME NEW w \in Workers, Poll(w) \/ Receive(w) \/ Finish(w) \/ Panic(w)
      PROVE  Hopeless' /\ popped' = popped
  <2>1. /\ UNCHANGED <<counter, popped, latePop>> /\ pc[w] # "dead"
        /\ \A v \in Workers : v # w => pc'[v] = pc[v]
    BY <1>4 DEF Poll, Receive, Finish, Panic, redis, TypeOK, WorkerTypeOK
  <2> QED BY <2>1, HopelessKept
<1>5. ASSUME NEW w \in Workers, Execute(w) PROVE Hopeless' /\ popped' = popped
  <2>1. pc[w] # "dead" /\ ~Turn(Owner[w])
    BY <1>5 DEF Execute, Hopeless, Stalled, Live, Dead
  <2>2. UNCHANGED <<counter, popped, latePop>>
    BY <1>5, <2>1, NoTurnNoJob DEF Execute
  <2>3. \A v \in Workers : v # w => pc'[v] = pc[v]
    BY <1>5 DEF Execute, TypeOK, WorkerTypeOK
  <2> QED BY <2>1, <2>2, <2>3, HopelessKept
<1>6. ASSUME NEW w \in Workers, Abandon(w) PROVE Hopeless' /\ popped' = popped
  <2>1. /\ UNCHANGED <<counter, popped>> /\ pc[w] # "dead"
        /\ \A v \in Workers : v # w => pc'[v] = pc[v]
        /\ latePop' \subseteq latePop \cup {Orphan(w)} /\ Orphan(w).worker = w
    BY <1>6 DEF Abandon, Orphan, redis, TypeOK, WorkerTypeOK
  <2> QED BY <2>1, HopelessKept
<1>7. ASSUME NEW o \in latePop, LatePop(o) PROVE Hopeless' /\ popped' = popped
  <2>1. ~Turn(Owner[o.worker])
    BY DEF Hopeless
  <2>2. UNCHANGED <<counter, popped, pc>> /\ latePop' \subseteq latePop
    BY <1>7, <2>1, NoTurnNoJob DEF LatePop, workers
  <2> QED BY <2>2, HopelessKept
<1>8. ASSUME NEW c \in Consumers, Crash(c) PROVE Hopeless' /\ popped' = popped
  <2>1. /\ UNCHANGED <<counter, popped>>
        /\ \A v \in Workers : pc[v] = "dead" => pc'[v] = "dead"
    BY <1>8 DEF Crash, redis
  <2>2. \A w : Orphan(w).worker = w
    BY DEF Orphan
  <2>3. \A o \in latePop' :
           o \in latePop \/ \E w \in Workers : pc[w] # "dead" /\ o.worker = w
    BY <1>8, <2>2 DEF Crash
  <2> QED BY <2>1, <2>3, HopelessKept
<1> QED BY <1>2, <1>3, <1>4, <1>5, <1>6, <1>7, <1>8 DEF Next

\* Once the turn belongs to the dead the queue never gives another job away, for
\* any number of workers and jobs, whatever producers, retries and crashes do
\* (queue.rs both scripts).
THEOREM HopelessStaysHopeless == Spec => StalledForGood
<1>1. TypeOK /\ [Next]_vars => [Hopeless => Hopeless' /\ popped' = popped]_vars
  BY HopelessStep
<1> QED BY <1>1, TypeCorrect, PTL DEF Spec, StalledForGood

=============================================================================
