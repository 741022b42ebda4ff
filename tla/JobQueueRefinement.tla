------------------------- MODULE JobQueueRefinement -------------------------
(* JobQueue implements Turns and Delivery, and inherits what TurnsProofs   *)
(* and DeliveryProofs show of them; what it can lose, and what QueueStats  *)
(* counts of it, for every value of the constants.                         *)
EXTENDS JobQueueProofs, QueueStats, FiniteSetTheorems

-----------------------------------------------------------------------------
(* The turns.                                                              *)

TP == INSTANCE TurnsProofs WITH info <- Info

\* A request that runs is a turn of its consumer or leaves the turns alone.
LEMMA ScriptTurn ==
  ASSUME TypeOK, NEW c \in Consumers, NEW t \in Nat,
         NEW r \in Jobs \cup {None}, Script(c, t, r)
  PROVE  T!TakeTurn(c) \/ UNCHANGED <<counter, taken>>
<1>1. ASSUME Turn(c), Take(c, r) PROVE T!TakeTurn(c) \/ UNCHANGED <<counter, taken>>
  <2>1. CASE Info[c] = NoInfo
    BY <1>1, <2>1 DEF Take
  <2>2. CASE Info[c] # NoInfo
    BY <1>1, <2>2 DEF Take, Turn, T!TakeTurn, T!Designated
  <2> QED BY <2>1, <2>2
<1>2. CASE TakeScheduled(c, t, r)
  BY <1>1, <1>2 DEF TakeScheduled
<1>3. CASE TakeRegular(c, t, r)
  BY <1>1, <1>3 DEF TakeRegular
<1>4. CASE TakeNothing(c, t, r)
  BY <1>4 DEF TakeNothing, redis
<1> QED BY <1>2, <1>3, <1>4 DEF Script

\* The positions of the processes are fixed before the first job.
LEMMA TurnsInit == Init => T!Init
  BY InfoAssumption DEF Init, T!Init, ConsumerInfo, T!ConsumerInfo

\* Only a request that Redis runs, awaited or abandoned, can move the turn.
LEMMA TurnsStep == TypeOK /\ [Next]_vars => [T!Next]_(T!turnVars)
<1> SUFFICES ASSUME TypeOK, [Next]_vars PROVE [T!Next]_(T!turnVars)
  OBVIOUS
<1>1. UNCHANGED <<counter, taken>> => UNCHANGED T!turnVars
  BY DEF T!turnVars
<1>2. ASSUME NEW c \in Consumers, T!TakeTurn(c) PROVE T!Next
  BY <1>2 DEF T!Next
<1>3. ASSUME NEW w \in Workers, Execute(w) PROVE [T!Next]_(T!turnVars)
  <2>1. PICK r \in Jobs \cup {None} : Script(Owner[w], call[w].asOf, r)
    BY <1>3 DEF Execute
  <2>2. Owner[w] \in Consumers /\ call[w].asOf \in Nat
    BY OwnerAssumption DEF TypeOK, WorkerTypeOK
  <2> QED BY <1>1, <1>2, <2>1, <2>2, ScriptTurn
<1>4. ASSUME NEW o \in latePop, LatePop(o) PROVE [T!Next]_(T!turnVars)
  <2>1. PICK r \in Jobs \cup {None} : Script(Owner[o.worker], o.asOf, r)
    BY <1>4 DEF LatePop
  <2>2. Owner[o.worker] \in Consumers /\ o.asOf \in Nat
    BY OwnerAssumption DEF TypeOK, WorkerTypeOK
  <2> QED BY <1>1, <1>2, <2>1, <2>2, ScriptTurn
<1>5. CASE Tick
  BY <1>1, <1>5 DEF Tick, redis
<1>6. ASSUME NEW j \in Jobs, \/ \E e \in Etas \cup {None} : Begin(j, e)
                             \/ Push(j) \/ SendOk(j) \/ SendError(j) \/ LatePush(j)
      PROVE  UNCHANGED <<counter, taken>>
  BY <1>6 DEF Begin, Push, SendOk, SendError, LatePush, redis
<1>7. ASSUME NEW w \in Workers, \/ Poll(w) \/ Receive(w) \/ Finish(w)
                                \/ Abandon(w) \/ Panic(w)
      PROVE  UNCHANGED <<counter, taken>>
  BY <1>7 DEF Poll, Receive, Finish, Abandon, Panic, redis
<1>8. ASSUME NEW c \in Consumers, Crash(c) PROVE UNCHANGED <<counter, taken>>
  BY <1>8 DEF Crash, redis
<1>9. CASE UNCHANGED vars
  BY <1>1, <1>9 DEF vars, redis
<1> QED BY <1>1, <1>3, <1>4, <1>5, <1>6, <1>7, <1>8, <1>9 DEF Next

\* The counter moves only when the consumer it designates takes a job, for
\* retried, late and lost requests as well (queue.rs DEQUEUE_CONSUMER_SCRIPT).
THEOREM TurnsImplemented == Spec => ImplementsTurns
<1>1. Spec => T!Init /\ [][T!Next]_(T!turnVars)
  BY TurnsInit, TurnsStep, TypeCorrect, PTL DEF Spec
<1> QED BY <1>1 DEF ImplementsTurns, T!Spec

\* The members of a group that agrees on its positions remove equally many
\* jobs, give or take two, for any size of the group
\* (queue.rs DEQUEUE_CONSUMER_SCRIPT).
THEOREM GroupTakesWithinTwo == Spec => []TakenWithinTwo
<1>1. T!Init => TP!SharesInv
  <2>1. T!Init => TP!Init
    BY DEF T!Init, TP!Init, T!ConsumerInfo, TP!ConsumerInfo
  <2> QED BY <2>1, TP!SharesInit
<1>2. TP!SharesInv /\ [T!Next]_(T!turnVars) => TP!SharesInv'
  <2>1. T!Next => TP!Next
    BY DEF T!Next, TP!Next, T!TakeTurn, TP!TakeTurn, T!Designated, TP!Designated,
           T!Join, TP!Join, T!ConsumerInfo, TP!ConsumerInfo
  <2>2. UNCHANGED T!turnVars => UNCHANGED TP!turnVars
    BY DEF T!turnVars, TP!turnVars
  <2> QED BY <2>1, <2>2, TP!SharesStep
<1>3. TP!SharesInv => TakenWithinTwo
  <2>1. TP!FairShares => TakenWithinTwo
    BY DEF TakenWithinTwo, T!FairShares, TP!FairShares, T!Agreeing, TP!Agreeing,
           T!Members, TP!Members
  <2> QED BY <2>1, TP!SharesEven
<1>4. Spec => T!Init /\ [][T!Next]_(T!turnVars)
  BY TurnsImplemented DEF ImplementsTurns, T!Spec
<1> QED BY <1>1, <1>2, <1>3, <1>4, PTL

-----------------------------------------------------------------------------
(* The size of an image.                                                   *)

\* A finite set has a finite image that is not larger.
LEMMA ImageSize ==
  ASSUME NEW S, IsFiniteSet(S), NEW f
  PROVE  /\ IsFiniteSet({f[x] : x \in S})
         /\ Cardinality({f[x] : x \in S}) <= Cardinality(S)
<1> DEFINE image == {f[x] : x \in S}
           g == [x \in S |-> f[x]]
<1>1. g \in Surjection(S, image)
  BY DEF Surjection
<1> HIDE DEF g, image
<1>2. IsFiniteSet(image) /\ Cardinality(image) <= Cardinality(S)
  BY <1>1, FS_Surjection
<1> QED BY <1>2 DEF image

-----------------------------------------------------------------------------
(* The copies of a job.                                                    *)

DP == INSTANCE DeliveryProofs WITH
        attempts <- tries,
        pending <- [j \in Jobs |-> Pending(j)],
        stored <- [j \in Jobs |-> Copies(j)],
        held <- got,
        running <- {w \in Workers : pc[w] = "run"},
        strays <- Cardinality(latePop)

Places(s, j) == {i \in DOMAIN s : s[i] = j}

\* The places of a job in a list are finitely many.
LEMMA PlacesType ==
  ASSUME NEW s \in Seq(Jobs), NEW j
  PROVE  IsFiniteSet(Places(s, j)) /\ Cardinality(Places(s, j)) \in Nat
<1>1. IsFiniteSet(1..Len(s)) /\ DOMAIN s = 1..Len(s)
  BY FS_Interval
<1>2. Places(s, j) \in SUBSET (1..Len(s))
  BY <1>1 DEF Places
<1> QED BY <1>1, <1>2, FS_Subset, FS_CardinalityType

\* RPUSH adds one place of its job.
LEMMA AppendPlaces ==
  ASSUME NEW s \in Seq(Jobs), NEW j \in Jobs, NEW k \in Jobs
  PROVE  Cardinality(Places(Append(s, k), j)) =
           Cardinality(Places(s, j)) + IF j = k THEN 1 ELSE 0
<1>1. Len(s) + 1 \notin DOMAIN s
  OBVIOUS
<1>2. CASE j = k
  <2>1. Places(Append(s, k), j) = Places(s, j) \cup {Len(s) + 1}
    BY <1>2, AppendPositions DEF Places
  <2>2. Len(s) + 1 \notin Places(s, j)
    BY <1>1 DEF Places
  <2> QED BY <1>2, <2>1, <2>2, PlacesType, FS_AddElement
<1>3. CASE j # k
  <2>1. Places(Append(s, k), j) = Places(s, j)
    BY <1>1, <1>3, AppendPositions DEF Places
  <2> QED BY <1>3, <2>1, PlacesType
<1> QED BY <1>2, <1>3

\* LPOP takes the place of the head away and moves the others up.
LEMMA TailPlaces ==
  ASSUME NEW s \in Seq(Jobs), s # <<>>, NEW j \in Jobs
  PROVE  Cardinality(Places(s, j)) =
           Cardinality(Places(Tail(s), j)) + IF j = Head(s) THEN 1 ELSE 0
<1> DEFINE moved == [i \in Places(Tail(s), j) |-> i + 1]
           rest == Places(s, j) \ {1}
<1>1. /\ DOMAIN Tail(s) = 1..(Len(s) - 1) /\ DOMAIN s = 1..Len(s)
      /\ Head(s) = s[1] /\ Len(s) \in Nat \ {0}
      /\ \A i \in 1..(Len(s) - 1) : Tail(s)[i] = s[i + 1]
  BY TailPositions
<1>2. Tail(s) \in Seq(Jobs)
  OBVIOUS
<1>3. moved \in Bijection(Places(Tail(s), j), rest)
  <2>1. moved \in [Places(Tail(s), j) -> rest]
    BY <1>1 DEF Places
  <2>2. \A a, b \in Places(Tail(s), j) : moved[a] = moved[b] => a = b
    BY <1>1 DEF Places
  <2>3. \A b \in rest : \E a \in Places(Tail(s), j) : moved[a] = b
    <3> SUFFICES ASSUME NEW b \in rest
                 PROVE  \E a \in Places(Tail(s), j) : moved[a] = b
      OBVIOUS
    <3>1. b - 1 \in Places(Tail(s), j) /\ (b - 1) + 1 = b
      BY <1>1 DEF Places
    <3> QED BY <3>1
  <2> QED BY <2>1, <2>2, <2>3 DEF Bijection, Injection, Surjection, IsInjective
<1>4. Cardinality(rest) = Cardinality(Places(Tail(s), j))
  <2>1. ExistsBijection(Places(Tail(s), j), rest)
    BY <1>3 DEF ExistsBijection
  <2>2. IsFiniteSet(Places(Tail(s), j))
    BY <1>2, PlacesType
  <2> HIDE DEF rest
  <2> QED BY <2>1, <2>2, FS_Bijection
<1>5. Cardinality(rest) =
        IF 1 \in Places(s, j) THEN Cardinality(Places(s, j)) - 1
                              ELSE Cardinality(Places(s, j))
  BY PlacesType, FS_RemoveElement
<1>6. 1 \in Places(s, j) <=> j = Head(s)
  BY <1>1 DEF Places
<1> QED BY <1>2, <1>4, <1>5, <1>6, PlacesType

\* The copies of a job and its pending pushes are counted by numbers.
LEMMA CopiesType ==
  ASSUME TypeOK, NEW j \in Jobs
  PROVE  /\ Copies(j) \in Nat /\ Pending(j) \in Nat
         /\ Copies(j) = Cardinality(Places(list, j)) + IF j \in zset THEN 1 ELSE 0
<1>1. list \in Seq(Jobs)
  BY DEF TypeOK, RedisTypeOK
<1>2. Copies(j) = Cardinality(Places(list, j)) + IF j \in zset THEN 1 ELSE 0
  BY DEF Copies, Places
<1>3. Cardinality(Places(list, j)) \in Nat
  BY <1>1, PlacesType
<1>4. Pending(j) \in Nat
  BY DEF Pending, TypeOK, ProducerTypeOK
<1> QED BY <1>2, <1>3, <1>4

\* RPUSH and ZADD store a copy or find one.
LEMMA StoreCopies ==
  ASSUME TypeOK, NEW k \in Jobs, Store(k)
  PROVE  \/ \A j \in Jobs : Copies(j)' = Copies(j) + IF j = k THEN 1 ELSE 0
         \/ Copies(k) > 0 /\ UNCHANGED <<list, zset>>
<1>1. list \in Seq(Jobs)
  BY DEF TypeOK, RedisTypeOK
<1>2. \A j \in Jobs :
         /\ Copies(j) = Cardinality(Places(list, j)) + IF j \in zset THEN 1 ELSE 0
         /\ Copies(j)' = Cardinality(Places(list', j)) + IF j \in zset' THEN 1 ELSE 0
         /\ Cardinality(Places(list, j)) \in Nat
  BY <1>1, PlacesType DEF Copies, Places
<1>3. CASE eta[k] = None
  <2>1. list' = Append(list, k) /\ zset' = zset
    BY <1>3 DEF Store
  <2>2. \A j \in Jobs : Cardinality(Places(list', j)) =
                          Cardinality(Places(list, j)) + IF j = k THEN 1 ELSE 0
    BY <1>1, <2>1, AppendPlaces
  <2> QED BY <1>2, <2>1, <2>2
<1>4. CASE eta[k] # None
  <2>1. list' = list /\ zset' = zset \cup {k}
    BY <1>4 DEF Store
  <2>2. CASE k \in zset
    BY <1>2, <2>1, <2>2
  <2>3. CASE k \notin zset
    BY <1>2, <2>1, <2>3
  <2> QED BY <2>2, <2>3
<1> QED BY <1>3, <1>4

\* A dequeue script takes one copy of the job it replies with.
LEMMA ScriptCopies ==
  ASSUME TypeOK, NEW c \in Consumers, NEW t \in Nat, NEW r \in Jobs, Script(c, t, r)
  PROVE  /\ Copies(r) > 0
         /\ \A j \in Jobs : Copies(j)' = Copies(j) - IF j = r THEN 1 ELSE 0
<1>1. list \in Seq(Jobs) /\ r # None
  BY NoneAssumption DEF TypeOK, RedisTypeOK
<1>2. \A j \in Jobs :
         /\ Copies(j) = Cardinality(Places(list, j)) + IF j \in zset THEN 1 ELSE 0
         /\ Copies(j)' = Cardinality(Places(list', j)) + IF j \in zset' THEN 1 ELSE 0
         /\ Cardinality(Places(list, j)) \in Nat
  BY <1>1, CopiesType, PlacesType DEF Copies, Places
<1>3. CASE TakeScheduled(c, t, r)
  <2>1. list' = list /\ zset' = zset \ {r} /\ r \in zset
    BY <1>3 DEF TakeScheduled, FirstReady, Ready
  <2> QED BY <1>2, <2>1
<1>4. CASE TakeRegular(c, t, r)
  <2>1. list # <<>> /\ r = Head(list) /\ list' = Tail(list) /\ zset' = zset
    BY <1>4 DEF TakeRegular
  <2>2. \A j \in Jobs :
           /\ Cardinality(Places(list, j)) =
                Cardinality(Places(list', j)) + IF j = r THEN 1 ELSE 0
           /\ Cardinality(Places(list', j)) \in Nat
    <3>1. Tail(list) \in Seq(Jobs)
      BY <1>1, <2>1
    <3> QED BY <1>1, <2>1, <3>1, TailPlaces, PlacesType
  <2> QED BY <1>2, <2>1, <2>2
<1> QED BY <1>1, <1>3, <1>4 DEF Script, TakeNothing

\* A script that replies with no job changes nothing.
LEMMA NothingTaken ==
  ASSUME NEW c \in Consumers, NEW t \in Nat, NEW r, r \notin Jobs,
         TypeOK, Script(c, t, r)
  PROVE  UNCHANGED redis
<1>1. CASE TakeScheduled(c, t, r)
  BY <1>1 DEF TakeScheduled, FirstReady, Ready, TypeOK, RedisTypeOK
<1>2. CASE TakeRegular(c, t, r)
  BY <1>2 DEF TakeRegular, TypeOK, RedisTypeOK
<1> QED BY <1>1, <1>2 DEF Script, TakeNothing

-----------------------------------------------------------------------------
(* JobQueue implements Delivery.                                           *)

\* An abandoned request is known by its worker and by the number of faults
\* before it: the worker of a request as old as the last fault is dead.
StraysInv ==
    /\ IsFiniteSet(latePop)
    /\ \A j \in Jobs : send[j] = "idle" => tries[j] = 0
    /\ \A o \in latePop :
          o.n <= faults /\ (o.n = faults => pc[o.worker] = "dead")

\* At first no request has been abandoned.
LEMMA StraysInit == Init => StraysInv
  BY FS_EmptySet DEF Init, StraysInv

\* A request that is given up now was not given up before.
LEMMA OrphansAreNew ==
  ASSUME StraysInv, NEW w \in Workers, pc[w] # "dead"
  PROVE  Orphan(w) \notin latePop
  BY DEF StraysInv, Orphan

\* A set of workers leaves one request each behind.
LEMMA OrphansSize ==
  ASSUME NEW S \in SUBSET Workers
  PROVE  /\ IsFiniteSet(S) /\ IsFiniteSet({Orphan(w) : w \in S})
         /\ Cardinality({Orphan(w) : w \in S}) <= Cardinality(S)
<1> DEFINE f == [w \in Workers |-> Orphan(w)]
<1>1. IsFiniteSet(S)
  BY WorkersAssumption, FS_Subset
<1>2. {f[w] : w \in S} = {Orphan(w) : w \in S}
  OBVIOUS
<1> HIDE DEF f
<1>3. IsFiniteSet({f[w] : w \in S}) /\ Cardinality({f[w] : w \in S}) <= Cardinality(S)
  BY <1>1, ImageSize
<1> QED BY <1>1, <1>2, <1>3

\* Giving up a request and dying keep the abandoned requests apart.
LEMMA StraysStep == TypeOK /\ StraysInv /\ [Next]_vars => StraysInv'
<1> SUFFICES ASSUME TypeOK, StraysInv, [Next]_vars PROVE StraysInv'
  OBVIOUS
<1>0. faults \in Nat /\ send \in [Jobs -> {"idle", "wait", "applied", "ok", "failed"}]
      /\ tries \in [Jobs -> Nat]
      /\ pc \in [Workers -> {"idle", "wait", "replied", "run", "dead"}]
      /\ latePop \subseteq [worker : Workers, asOf : Nat, n : Nat]
  BY DEF TypeOK, ProducerTypeOK, WorkerTypeOK
<1>1. ASSUME UNCHANGED <<latePop, faults>>,
             \A w \in Workers : pc[w] = "dead" => pc'[w] = "dead",
             \A j \in Jobs : send'[j] = "idle" => send[j] = "idle" /\ tries'[j] = tries[j]
      PROVE  StraysInv'
  BY <1>0, <1>1 DEF StraysInv
<1>2. CASE Tick
  BY <1>1, <1>2 DEF Tick, producers, workers
<1>3. ASSUME NEW j \in Jobs, \/ \E e \in Etas \cup {None} : Begin(j, e)
                             \/ Push(j) \/ SendOk(j) \/ LatePush(j)
      PROVE  StraysInv'
  BY <1>0, <1>1, <1>3 DEF Begin, Push, SendOk, LatePush, producers, workers
<1>4. ASSUME NEW j \in Jobs, SendError(j) PROVE StraysInv'
  <2>1. /\ latePop' = latePop /\ faults' = faults + 1 /\ pc' = pc
        /\ \A k \in Jobs :
              send'[k] = "idle" => send[k] = "idle" /\ tries'[k] = tries[k]
    BY <1>0, <1>4 DEF SendError, workers
  <2> QED BY <1>0, <2>1 DEF StraysInv
<1>5. ASSUME NEW w \in Workers, \/ Poll(w) \/ Execute(w) \/ Receive(w)
                                \/ Finish(w) \/ Panic(w)
      PROVE  StraysInv'
  BY <1>0, <1>1, <1>5 DEF Poll, Execute, Receive, Finish, Panic, producers
<1>6. ASSUME NEW w \in Workers, Abandon(w) PROVE StraysInv'
  <2>1. /\ latePop' \subseteq latePop \cup {Orphan(w)} /\ faults' = faults + 1
        /\ send' = send /\ tries' = tries
    BY <1>6 DEF Abandon, producers
  <2>2. IsFiniteSet(latePop \cup {Orphan(w)})
    BY FS_AddElement DEF StraysInv
  <2>3. IsFiniteSet(latePop')
    BY <2>1, <2>2, FS_Subset
  <2>4. \A o \in latePop' : o.n \in Nat /\ o.n <= faults
    BY <1>0, <2>1 DEF StraysInv, Orphan
  <2> QED BY <1>0, <2>1, <2>3, <2>4 DEF StraysInv
<1>7. ASSUME NEW o \in latePop, LatePop(o) PROVE StraysInv'
  <2>1. /\ latePop' = latePop \ {o} /\ faults' = faults /\ pc' = pc
        /\ send' = send /\ tries' = tries
    BY <1>7 DEF LatePop, producers, workers
  <2>2. IsFiniteSet(latePop')
    BY <2>1, FS_RemoveElement DEF StraysInv
  <2> QED BY <2>1, <2>2 DEF StraysInv
<1>8. ASSUME NEW c \in Consumers, Crash(c) PROVE StraysInv'
  <2> DEFINE mine == {w \in Workers : Owner[w] = c /\ pc[w] # "dead"}
             asking == {w \in mine : pc[w] = "wait"}
             orphans == {Orphan(w) : w \in asking}
  <2>1. /\ latePop' = latePop \cup orphans /\ faults' = faults
        /\ pc' = [w \in Workers |-> IF w \in mine THEN "dead" ELSE pc[w]]
        /\ send' = send /\ tries' = tries
    BY <1>8 DEF Crash, producers
  <2>2. IsFiniteSet(orphans)
    BY OrphansSize
  <2>3. IsFiniteSet(latePop')
    BY <2>1, <2>2, FS_Union DEF StraysInv
  <2>4. \A o \in orphans : o.n = faults /\ pc'[o.worker] = "dead"
    BY <2>1 DEF Orphan
  <2>5. \A o \in latePop : pc[o.worker] = "dead" => pc'[o.worker] = "dead"
    BY <1>0, <2>1
  <2> QED BY <1>0, <2>1, <2>3, <2>4, <2>5 DEF StraysInv
<1>9. CASE UNCHANGED vars
  BY <1>1, <1>9 DEF vars, producers, workers
<1> QED
  BY <1>2, <1>3, <1>4, <1>5, <1>6, <1>7, <1>8, <1>9 DEF Next


\* Steps that Delivery does not see.
LEMMA Unseen ==
  ASSUME UNCHANGED <<list, zset, tries, latePush, got, runs, done, latePop>>,
         \A j \in Jobs : send'[j] = "wait" <=> send[j] = "wait",
         \A w \in Workers : pc'[w] = "run" <=> pc[w] = "run"
  PROVE  UNCHANGED D!deliveryVars
<1>1. UNCHANGED [j \in Jobs |-> Pending(j)]
  BY DEF Pending
<1>2. UNCHANGED [j \in Jobs |-> Copies(j)]
  BY DEF Copies
<1>3. UNCHANGED {w \in Workers : pc[w] = "run"}
  OBVIOUS
<1> QED BY <1>1, <1>2, <1>3 DEF D!deliveryVars, D!copies, D!hands

\* The producers' requests do not touch the workers.
LEMMA HandsUnchanged == UNCHANGED <<workers, latePop>> =>
    /\ UNCHANGED D!hands
    /\ UNCHANGED Cardinality(latePop)
  BY DEF D!hands, workers

\* The workers do not touch the producers' requests or what is stored.
LEMMA CopiesUnchanged ==
  UNCHANGED <<list, zset, producers, latePush>> => UNCHANGED D!copies
<1> SUFFICES ASSUME UNCHANGED <<list, zset, producers, latePush>>
             PROVE  UNCHANGED D!copies
  OBVIOUS
<1>1. UNCHANGED [j \in Jobs |-> Pending(j)] /\ UNCHANGED [j \in Jobs |-> Copies(j)]
  BY DEF Pending, Copies, producers
<1> QED BY <1>1 DEF D!copies, producers

\* The first attempt of send() and every retry.
LEMMA AttemptStep ==
  ASSUME TypeOK, NEW k \in Jobs, UNCHANGED <<list, zset, workers, latePop>>,
         tries' = [tries EXCEPT ![k] = @ + 1],
         \A j \in Jobs : Pending(j)' = IF j = k THEN Pending(j) + 1 ELSE Pending(j)
  PROVE  D!Attempt(k)
<1>1. [j \in Jobs |-> Pending(j)]' = [[j \in Jobs |-> Pending(j)] EXCEPT ![k] = @ + 1]
  OBVIOUS
<1>2. UNCHANGED [j \in Jobs |-> Copies(j)]
  BY DEF Copies
<1> QED BY <1>1, <1>2, HandsUnchanged DEF D!Attempt

\* RPUSH or ZADD, awaited or late.
LEMMA PutStep ==
  ASSUME TypeOK, NEW k \in Jobs, Store(k), UNCHANGED <<tries, workers, latePop>>,
         \A j \in Jobs : Pending(j)' = IF j = k THEN Pending(j) - 1 ELSE Pending(j),
         Pending(k) > 0
  PROVE  D!Put(k)
<1>1. \A j \in Jobs : Pending(j) \in Nat /\ Copies(j) \in Nat
  BY CopiesType
<1>2. [j \in Jobs |-> Pending(j)]' = [[j \in Jobs |-> Pending(j)] EXCEPT ![k] = @ - 1]
  BY <1>1
<1>3. \/ [j \in Jobs |-> Copies(j)]' = [[j \in Jobs |-> Copies(j)] EXCEPT ![k] = @ + 1]
      \/ Copies(k) > 0 /\ UNCHANGED [j \in Jobs |-> Copies(j)]
  <2>1. CASE \A j \in Jobs : Copies(j)' = Copies(j) + IF j = k THEN 1 ELSE 0
    <3>1. \A j \in Jobs : Copies(j)' = IF j = k THEN Copies(j) + 1 ELSE Copies(j)
      BY <1>1, <2>1
    <3> QED BY <3>1
  <2>2. CASE Copies(k) > 0 /\ UNCHANGED <<list, zset>>
    BY <2>2 DEF Copies
  <2> QED BY <2>1, <2>2, StoreCopies
<1> QED BY <1>2, <1>3, HandsUnchanged DEF D!Put

\* A request that Redis runs takes a copy out of the queue, or nothing.
LEMMA RemoveStep ==
  ASSUME TypeOK, NEW c \in Consumers, NEW t \in Nat, NEW r \in Jobs, Script(c, t, r)
  PROVE  D!Remove(r)
<1>1. Copies(r) > 0 /\ \A j \in Jobs : Copies(j) \in Nat
  BY ScriptCopies, CopiesType
<1>2. \A j \in Jobs : Copies(j)' = IF j = r THEN Copies(j) - 1 ELSE Copies(j)
  BY <1>1, ScriptCopies
<1>3. [j \in Jobs |-> Copies(j)]' = [[j \in Jobs |-> Copies(j)] EXCEPT ![r] = @ - 1]
  BY <1>2
<1> QED BY <1>1, <1>3 DEF D!Remove

\* The reply to a worker that waits.
LEMMA ExecuteStep ==
  ASSUME TypeOK, NEW w \in Workers, Execute(w)
  PROVE  [D!Next]_(D!deliveryVars)
<1>1. PICK r \in Jobs \cup {None} :
        Script(Owner[w], call[w].asOf, r) /\ got' = [got EXCEPT ![w] = r]
  BY DEF Execute
<1>2. /\ Owner[w] \in Consumers /\ call[w].asOf \in Nat /\ got[w] = None
      /\ got \in [Workers -> Jobs \cup {None}]
  BY OwnerAssumption DEF Execute, TypeOK, WorkerTypeOK, HoldsWhileRunning
<1>3. \A v \in Workers : pc'[v] = "run" <=> pc[v] = "run"
  BY DEF Execute, TypeOK, WorkerTypeOK
<1>4. CASE r \notin Jobs
  <2>1. got' = got /\ UNCHANGED redis
    BY <1>1, <1>2, <1>4, NothingTaken
  <2> QED BY <1>3, <2>1, Unseen DEF Execute, producers, redis
<1>5. CASE r \in Jobs
  <2>1. D!Remove(r)
    BY <1>1, <1>2, <1>5, RemoveStep
  <2>2. UNCHANGED [j \in Jobs |-> Pending(j)] /\ UNCHANGED tries
    BY DEF Execute, producers, Pending
  <2>3. UNCHANGED {v \in Workers : pc[v] = "run"}
    BY <1>3
  <2>4. UNCHANGED <<runs, done, Cardinality(latePop)>>
    BY DEF Execute
  <2>5. D!Hand(w, r)
    BY <1>1, <1>2, <2>1, <2>2, <2>3, <2>4 DEF D!Hand
  <2> QED BY <1>5, <2>5 DEF D!Next
<1> QED BY <1>4, <1>5

\* The reply that nobody reads.
LEMMA LatePopStep ==
  ASSUME TypeOK, StraysInv, NEW o \in latePop, LatePop(o)
  PROVE  D!Stray
<1>1. PICK r \in Jobs \cup {None} : Script(Owner[o.worker], o.asOf, r)
  BY DEF LatePop
<1>2. Owner[o.worker] \in Consumers /\ o.asOf \in Nat
  BY OwnerAssumption DEF TypeOK, WorkerTypeOK
<1>3. /\ Cardinality(latePop) > 0 /\ Cardinality(latePop)' = Cardinality(latePop) - 1
  <2>1. /\ IsFiniteSet(latePop) /\ latePop' = latePop \ {o}
        /\ Cardinality(latePop) \in Nat /\ latePop # {}
    BY FS_CardinalityType DEF LatePop, StraysInv
  <2> QED BY <2>1, FS_RemoveElement, FS_EmptySet
<1>4. UNCHANGED <<tries, [j \in Jobs |-> Pending(j)]>> /\ UNCHANGED D!hands
  BY DEF LatePop, producers, workers, Pending, D!hands
<1>5. (\E j \in Jobs : D!Remove(j)) \/ UNCHANGED [j \in Jobs |-> Copies(j)]
  <2>1. CASE r \in Jobs
    BY <1>1, <1>2, <2>1, RemoveStep
  <2>2. CASE r \notin Jobs
    BY <1>1, <1>2, <2>2, NothingTaken DEF redis, Copies
  <2> QED BY <2>1, <2>2
<1> QED BY <1>3, <1>4, <1>5 DEF D!Stray

\* What workers leave behind when they give up or die.
LEMMA GiveUpStep ==
  ASSUME TypeOK, StraysInv, NEW gone \in SUBSET Workers, NEW asking \in SUBSET gone,
         UNCHANGED <<list, zset, producers, latePush, runs, done>>,
         \A w \in asking : pc[w] # "dead",
         latePop' = latePop \cup {Orphan(w) : w \in asking},
         got' = [w \in Workers |-> IF w \in gone THEN None ELSE got[w]],
         \A w \in Workers : pc'[w] = "run" <=> pc[w] = "run" /\ w \notin gone
  PROVE  D!Next
<1> DEFINE orphans == {Orphan(w) : w \in asking}
<1>1. /\ IsFiniteSet(orphans) /\ Cardinality(orphans) \in Nat
      /\ Cardinality(orphans) <= Cardinality(asking)
  BY OrphansSize, FS_CardinalityType
<1>2. /\ IsFiniteSet(gone) /\ Cardinality(gone) \in Nat /\ Cardinality(asking) \in Nat
      /\ Cardinality(asking) <= Cardinality(gone)
  BY WorkersAssumption, FS_Subset, FS_CardinalityType
<1>3. orphans \cap latePop = {}
  BY OrphansAreNew
<1>4. Cardinality(latePop)' = Cardinality(latePop) + Cardinality(orphans)
  <2>1. latePop' = latePop \cup orphans /\ IsFiniteSet(latePop)
    BY DEF StraysInv
  <2>2. latePop \cap orphans = {}
    BY <1>3
  <2> HIDE DEF orphans
  <2>3. /\ Cardinality(latePop \cup orphans) =
             Cardinality(latePop) + Cardinality(orphans)
               - Cardinality(latePop \cap orphans)
        /\ Cardinality(latePop) \in Nat
    BY <1>1, <2>1, FS_Union, FS_CardinalityType
  <2>4. Cardinality(latePop \cap orphans) = 0
    BY <2>2, FS_EmptySet
  <2>5. Cardinality(latePop \cup orphans) = Cardinality(latePop) + Cardinality(orphans)
    BY <1>1, <2>3, <2>4
  <2> QED BY <2>1, <2>5
<1>5. UNCHANGED D!copies
  BY CopiesUnchanged
<1>6. {w \in Workers : pc[w] = "run"}' = {w \in Workers : pc[w] = "run"} \ gone
  OBVIOUS
<1> HIDE DEF orphans
<1>7. PICK n \in Nat : n = Cardinality(orphans)
  BY <1>1
<1>8. n \in 0..D!Cardinality(gone)
  <2>1. D!Cardinality(gone) = Cardinality(gone)
    BY DEF D!Cardinality, Cardinality
  <2> QED BY <1>1, <1>2, <1>7, <2>1
<1>9. D!GiveUp(gone, n)
  BY <1>4, <1>5, <1>6, <1>7 DEF D!GiveUp
<1> QED BY <1>8, <1>9 DEF D!Next

\* An empty queue is an initial state of Delivery.
LEMMA DeliveryInitial == Init => D!Init
<1> SUFFICES ASSUME Init PROVE D!Init
  OBVIOUS
<1>1. /\ \A j \in Jobs : tries[j] = 0 /\ send[j] = "idle" /\ latePush[j] = 0
      /\ list = <<>> /\ zset = {} /\ latePop = {} /\ tries = [j \in Jobs |-> 0]
      /\ got = [w \in Workers |-> None] /\ runs = [j \in Jobs |-> 0] /\ done = {}
      /\ \A w \in Workers : pc[w] = "idle"
  BY DEF Init
<1>2. \A j \in Jobs : Pending(j) = 0
  BY <1>1 DEF Pending
<1>3. \A j \in Jobs : Copies(j) = 0
  <2>1. \A j \in Jobs : {i \in DOMAIN list : list[i] = j} = {}
    BY <1>1
  <2>2. Cardinality({}) = 0
    BY FS_EmptySet
  <2> QED BY <1>1, <2>1, <2>2 DEF Copies
<1>4. Cardinality(latePop) = 0
  BY <1>1, FS_EmptySet
<1> QED BY <1>1, <1>2, <1>3, <1>4 DEF D!Init

\* Every step of the queue is a step of Delivery or leaves it alone.
LEMMA DeliverySteps ==
  TypeOK /\ StraysInv /\ [Next]_vars => [D!Next]_(D!deliveryVars)
<1> SUFFICES ASSUME TypeOK, StraysInv, [Next]_vars PROVE [D!Next]_(D!deliveryVars)
  OBVIOUS
<1>0. /\ send \in [Jobs -> {"idle", "wait", "applied", "ok", "failed"}]
      /\ tries \in [Jobs -> Nat] /\ latePush \in [Jobs -> Nat]
      /\ pc \in [Workers -> {"idle", "wait", "replied", "run", "dead"}]
      /\ got \in [Workers -> Jobs \cup {None}]
      /\ \A j \in Jobs : Pending(j) \in Nat
  BY CopiesType DEF TypeOK, ProducerTypeOK, WorkerTypeOK
<1>1. CASE Tick
  BY <1>1, Unseen DEF Tick, redis, producers, workers
<1>2. ASSUME NEW j \in Jobs, NEW e \in Etas \cup {None}, Begin(j, e)
      PROVE  [D!Next]_(D!deliveryVars)
  <2>1. tries' = [tries EXCEPT ![j] = @ + 1]
    <3>1. tries[j] = 0 /\ tries[j] + 1 = 1
      BY <1>2 DEF Begin, StraysInv
    <3> QED BY <1>2, <3>1 DEF Begin
  <2>2. \A k \in Jobs : Pending(k)' = IF k = j THEN Pending(k) + 1 ELSE Pending(k)
    BY <1>0, <1>2 DEF Begin, Pending
  <2>3. D!Attempt(j)
    BY <1>2, <2>1, <2>2, AttemptStep DEF Begin, redis
  <2> QED BY <2>3 DEF D!Next
<1>3. ASSUME NEW j \in Jobs, Push(j) PROVE [D!Next]_(D!deliveryVars)
  <2>1. /\ Pending(j) > 0
        /\ \A k \in Jobs : Pending(k)' = IF k = j THEN Pending(k) - 1 ELSE Pending(k)
    BY <1>0, <1>3 DEF Push, Pending
  <2>2. D!Put(j)
    BY <1>3, <2>1, PutStep DEF Push
  <2> QED BY <2>2 DEF D!Next
<1>4. ASSUME NEW j \in Jobs, SendOk(j) PROVE [D!Next]_(D!deliveryVars)
  <2>1. \A k \in Jobs : send'[k] = "wait" <=> send[k] = "wait"
    BY <1>0, <1>4 DEF SendOk
  <2> QED BY <1>4, <2>1, Unseen DEF SendOk, redis, workers
<1>5. ASSUME NEW j \in Jobs, SendError(j) PROVE [D!Next]_(D!deliveryVars)
  <2>1. CASE /\ tries' = [tries EXCEPT ![j] = @ + 1]
             /\ send' = [send EXCEPT ![j] = "wait"]
    <3>1. \A k \in Jobs : Pending(k)' = IF k = j THEN Pending(k) + 1 ELSE Pending(k)
      BY <1>0, <1>5, <2>1 DEF SendError, Pending
    <3>2. D!Attempt(j)
      BY <1>5, <2>1, <3>1, AttemptStep DEF SendError, redis
    <3> QED BY <3>2 DEF D!Next
  <2>2. CASE send' = [send EXCEPT ![j] = "failed"] /\ UNCHANGED tries
    <3>1. \A k \in Jobs : Pending(k)' = Pending(k)
      BY <1>0, <1>5, <2>2 DEF SendError, Pending
    <3>2. UNCHANGED [k \in Jobs |-> Pending(k)] /\ UNCHANGED [k \in Jobs |-> Copies(k)]
      BY <1>5, <3>1 DEF SendError, redis, Copies
    <3>3. UNCHANGED <<workers, latePop>>
      BY <1>5 DEF SendError
    <3> QED BY <2>2, <3>2, <3>3, HandsUnchanged DEF D!deliveryVars, D!copies
  <2> QED BY <1>5, <2>1, <2>2 DEF SendError
<1>6. ASSUME NEW j \in Jobs, LatePush(j) PROVE [D!Next]_(D!deliveryVars)
  <2>1. /\ Pending(j) > 0
        /\ \A k \in Jobs : Pending(k)' = IF k = j THEN Pending(k) - 1 ELSE Pending(k)
    BY <1>0, <1>6 DEF LatePush, Pending, producers
  <2>2. D!Put(j)
    BY <1>6, <2>1, PutStep DEF LatePush, producers
  <2> QED BY <2>2 DEF D!Next
<1>7. ASSUME NEW w \in Workers, Poll(w) PROVE [D!Next]_(D!deliveryVars)
  <2>1. \A v \in Workers : pc'[v] = "run" <=> pc[v] = "run"
    BY <1>0, <1>7 DEF Poll
  <2> QED BY <1>7, <2>1, Unseen DEF Poll, redis, producers
<1>8. ASSUME NEW w \in Workers, Receive(w) PROVE [D!Next]_(D!deliveryVars)
  <2>1. UNCHANGED D!copies
    BY <1>8, CopiesUnchanged DEF Receive, redis
  <2>2. CASE got[w] = None
    <3>1. \A v \in Workers : pc'[v] = "run" <=> pc[v] = "run"
      BY <1>0, <1>8, <2>2 DEF Receive
    <3> QED BY <1>8, <2>2, <3>1, Unseen DEF Receive, redis, producers
  <2>3. CASE got[w] # None
    <3>1. {v \in Workers : pc[v] = "run"}' = {v \in Workers : pc[v] = "run"} \cup {w}
      BY <1>0, <1>8, <2>3 DEF Receive
    <3>2. w \notin {v \in Workers : pc[v] = "run"}
      BY <1>8 DEF Receive
    <3>3. D!Run(w)
      BY <1>8, <2>1, <2>3, <3>1, <3>2 DEF Receive, D!Run
    <3> QED BY <3>3 DEF D!Next
  <2> QED BY <2>2, <2>3
<1>9. ASSUME NEW w \in Workers, Finish(w) PROVE [D!Next]_(D!deliveryVars)
  <2>1. UNCHANGED D!copies
    BY <1>9, CopiesUnchanged DEF Finish, redis
  <2>2. /\ {v \in Workers : pc[v] = "run"}' = {v \in Workers : pc[v] = "run"} \ {w}
        /\ w \in {v \in Workers : pc[v] = "run"}
    BY <1>0, <1>9 DEF Finish
  <2>3. D!Finish(w)
    BY <1>9, <2>1, <2>2 DEF Finish, D!Finish
  <2> QED BY <2>3 DEF D!Next
<1>10. ASSUME NEW w \in Workers, Abandon(w) PROVE [D!Next]_(D!deliveryVars)
  <2> DEFINE asking == IF pc[w] = "wait" THEN {w} ELSE {}
  <2>1. /\ latePop' = latePop \cup {Orphan(v) : v \in asking}
        /\ \A v \in asking : pc[v] # "dead"
    BY <1>10 DEF Abandon
  <2>2. got' = [v \in Workers |-> IF v \in {w} THEN None ELSE got[v]]
    BY <1>0, <1>10 DEF Abandon
  <2>3. \A v \in Workers : pc'[v] = "run" <=> pc[v] = "run" /\ v \notin {w}
    BY <1>0, <1>10 DEF Abandon
  <2>4. {w} \in SUBSET Workers /\ asking \in SUBSET {w}
    OBVIOUS
  <2> HIDE DEF asking
  <2> QED BY <1>10, <2>1, <2>2, <2>3, <2>4, GiveUpStep DEF Abandon, redis
<1>11. ASSUME NEW w \in Workers, Panic(w) PROVE [D!Next]_(D!deliveryVars)
  <2>1. latePop' = latePop \cup {Orphan(v) : v \in {}}
    BY <1>11 DEF Panic
  <2>2. got' = [v \in Workers |-> IF v \in {w} THEN None ELSE got[v]]
    BY <1>0, <1>11 DEF Panic
  <2>3. \A v \in Workers : pc'[v] = "run" <=> pc[v] = "run" /\ v \notin {w}
    BY <1>0, <1>11 DEF Panic
  <2>4. {w} \in SUBSET Workers /\ {} \in SUBSET {w}
    OBVIOUS
  <2> QED BY <1>11, <2>1, <2>2, <2>3, <2>4, GiveUpStep DEF Panic, redis
<1>12. ASSUME NEW o \in latePop, LatePop(o) PROVE [D!Next]_(D!deliveryVars)
  BY <1>12, LatePopStep DEF D!Next
<1>13. ASSUME NEW c \in Consumers, Crash(c) PROVE [D!Next]_(D!deliveryVars)
  <2> DEFINE mine == {w \in Workers : Owner[w] = c /\ pc[w] # "dead"}
             asking == {v \in mine : pc[v] = "wait"}
  <2>1. /\ latePop' = latePop \cup {Orphan(v) : v \in asking}
        /\ \A v \in asking : pc[v] # "dead"
        /\ got' = [v \in Workers |-> IF v \in mine THEN None ELSE got[v]]
        /\ pc' = [v \in Workers |-> IF v \in mine THEN "dead" ELSE pc[v]]
        /\ UNCHANGED <<list, zset, producers, latePush, runs, done>>
    BY <1>13 DEF Crash, redis
  <2>2. mine \in SUBSET Workers /\ asking \in SUBSET mine
    OBVIOUS
  <2> HIDE DEF asking, mine
  <2>3. \A v \in Workers : pc'[v] = "run" <=> pc[v] = "run" /\ v \notin mine
    BY <2>1
  <2> QED BY <2>1, <2>2, <2>3, GiveUpStep
<1>14. CASE UNCHANGED vars
  BY <1>14, Unseen DEF vars, redis, producers, workers
<1> QED
  BY <1>1, <1>2, <1>3, <1>4, <1>5, <1>6, <1>7, <1>8, <1>9, <1>10, <1>11, <1>12,
     <1>13, <1>14, ExecuteStep DEF Next

\* The copies of a job come only from attempts of its send(), go to one worker
\* or to one abandoned request each, and are run once by that worker, for any
\* number of retries, faults and crashes (queue.rs send and dequeue, retry.rs
\* loop, registry.rs worker loops).
THEOREM DeliveryImplemented == Spec => ImplementsDelivery
<1>1. TypeOK /\ StraysInv /\ [Next]_vars => (StraysInv' /\ [D!Next]_(D!deliveryVars))
  BY StraysStep, DeliverySteps
<1>2. Spec => D!Init /\ [][D!Next]_(D!deliveryVars)
  BY <1>1, DeliveryInitial, StraysInit, TypeCorrect, PTL DEF Spec
<1> QED BY <1>2 DEF ImplementsDelivery, D!Spec

\* The handlers of a job are called at most once for each attempt to send it,
\* however many of its copies are lost on the way.
THEOREM HandlersOncePerAttempt == Spec => []OncePerAttempt
<1>1. D!Init => DP!DeliveryInv
  <2>1. D!Init => DP!Init
    BY DEF D!Init, DP!Init
  <2> QED BY <2>1, DP!DeliveryInit
<1>2. DP!DeliveryInv /\ [D!Next]_(D!deliveryVars) => DP!DeliveryInv'
  <2>1. \A S : D!Cardinality(S) = DP!Cardinality(S)
    BY DEF D!Cardinality, DP!Cardinality
  <2>2. D!Next => DP!Next
    BY <2>1 DEF D!Next, DP!Next, D!Attempt, DP!Attempt, D!Put, DP!Put, D!Hand, DP!Hand,
           D!Remove, DP!Remove, D!Run, DP!Run, D!Finish, DP!Finish, D!GiveUp,
           DP!GiveUp, D!Stray, DP!Stray, D!copies, DP!copies, D!hands, DP!hands
  <2>3. UNCHANGED D!deliveryVars => UNCHANGED DP!deliveryVars
    BY DEF D!deliveryVars, DP!deliveryVars, D!copies, DP!copies, D!hands, DP!hands
  <2> QED BY <2>2, <2>3, DP!DeliveryStep
<1>3. DP!DeliveryInv => OncePerAttempt
  <2>1. DP!OncePerAttempt => OncePerAttempt
    BY DEF OncePerAttempt, D!OncePerAttempt, DP!OncePerAttempt
  <2> QED BY <2>1, DP!DeliveryOnce
<1>4. Spec => D!Init /\ [][D!Next]_(D!deliveryVars)
  BY DeliveryImplemented DEF ImplementsDelivery, D!Spec
<1> QED BY <1>1, <1>2, <1>3, <1>4, PTL

-----------------------------------------------------------------------------
(* What can be lost.                                                       *)

\* A request that was given up before Redis ran it may still take a job that
\* nobody will read: it counts as a loss from the beginning.
LossInv ==
    /\ IsFiniteSet(Lost)
    /\ Cardinality(Lost) + Cardinality(latePop) <= faults + Cardinality(Dead)

\* Jobs join the lost ones.
LEMMA LostWith ==
  ASSUME NEW L, NEW M, NEW X, IsFiniteSet(L), IsFiniteSet(X), M \subseteq L \cup X
  PROVE  /\ IsFiniteSet(M) /\ Cardinality(M) \in Nat /\ Cardinality(X) \in Nat
         /\ Cardinality(L) \in Nat /\ Cardinality(M) <= Cardinality(L) + Cardinality(X)
<1>1. /\ IsFiniteSet(L \cup X) /\ Cardinality(L) \in Nat /\ Cardinality(X) \in Nat
      /\ Cardinality(L \cup X) =
           Cardinality(L) + Cardinality(X) - Cardinality(L \cap X)
  BY FS_Union, FS_CardinalityType
<1>2. Cardinality(L \cap X) \in Nat
  BY FS_Intersection, FS_CardinalityType
<1>3. /\ IsFiniteSet(M) /\ Cardinality(M) \in Nat /\ Cardinality(L \cup X) \in Nat
      /\ Cardinality(M) <= Cardinality(L \cup X)
  BY <1>1, FS_Subset, FS_CardinalityType
<1> QED BY <1>1, <1>2, <1>3

\* The numbers in LossInv are natural numbers.
LEMMA LossNumbers ==
  ASSUME TypeOK, StraysInv, LossInv
  PROVE  /\ Cardinality(Lost) \in Nat /\ Cardinality(latePop) \in Nat
         /\ IsFiniteSet(Dead) /\ Cardinality(Dead) \in Nat /\ faults \in Nat
<1>1. IsFiniteSet(Dead)
  BY WorkersAssumption, FS_Subset DEF Dead
<1> QED BY <1>1, FS_CardinalityType DEF LossInv, StraysInv, TypeOK

\* A step that loses no job, gives up at most its own request and raises no dead.
LEMMA NoLoss ==
  ASSUME TypeOK, StraysInv, LossInv, Lost' \subseteq Lost,
         UNCHANGED <<latePop, Dead>>, faults' \in Nat, faults <= faults'
  PROVE  LossInv'
<1>1. /\ IsFiniteSet(Lost') /\ Cardinality(Lost') \in Nat
      /\ Cardinality(Lost') <= Cardinality(Lost)
  BY FS_Subset, FS_CardinalityType DEF LossInv
<1>2. Cardinality(latePop') = Cardinality(latePop) /\ Cardinality(Dead') = Cardinality(Dead)
  OBVIOUS
<1> QED BY <1>1, <1>2, LossNumbers DEF LossInv

\* A script hands out the job it replies with and no other.
LEMMA ScriptPopped ==
  ASSUME TypeOK, NEW c \in Consumers, NEW t \in Nat, NEW r, Script(c, t, r)
  PROVE  popped' = IF r \in Jobs THEN popped \cup {r} ELSE popped
<1>1. CASE r \in Jobs
  <2>1. r # None
    BY <1>1, NoneAssumption
  <2> QED BY <1>1, <2>1 DEF Script, TakeScheduled, TakeRegular, TakeNothing, Take
<1>2. CASE r \notin Jobs
  BY <1>2, NothingTaken DEF redis
<1> QED BY <1>1, <1>2

\* What a worker held when its step ended is all that its step can lose.
LEMMA LostByWorkers ==
  ASSUME TypeOK, NEW gone \in SUBSET Workers, UNCHANGED <<popped, done>>,
         got' = [w \in Workers |-> IF w \in gone THEN None ELSE got[w]]
  PROVE  Lost' \subseteq Lost \cup {got[w] : w \in {v \in gone : got[v] # None}}
<1> SUFFICES ASSUME NEW j \in Lost', j \notin Lost
             PROVE  j \in {got[w] : w \in {v \in gone : got[v] # None}}
  OBVIOUS
<1>1. j \in Held /\ j \notin Held'
  BY DEF Lost
<1>2. PICK w \in Workers : got[w] = j /\ j # None
  BY <1>1 DEF Held
<1>3. w \in gone
  BY <1>1, <1>2 DEF Held
<1> QED BY <1>2, <1>3

\* At first nothing is lost.
LEMMA LossInit == Init => LossInv
<1> SUFFICES ASSUME Init PROVE LossInv
  OBVIOUS
<1>1. Lost = {} /\ latePop = {} /\ Dead = {} /\ faults = 0
  BY DEF Init, Lost, Dead
<1>2. IsFiniteSet({}) /\ Cardinality({}) = 0
  BY FS_EmptySet
<1> QED BY <1>1, <1>2 DEF LossInv

\* An attempt given up before Redis runs it leaves a request that may lose a
\* job, one given up later has lost the job of the reply.
LEMMA AbandonLoss ==
  ASSUME TypeOK, StraysInv, LossInv, NEW w \in Workers, Abandon(w)
  PROVE  LossInv'
<1>1. /\ got \in [Workers -> Jobs \cup {None}] /\ faults' = faults + 1
      /\ pc \in [Workers -> {"idle", "wait", "replied", "run", "dead"}]
      /\ UNCHANGED <<popped, done>>
  BY DEF Abandon, redis, TypeOK, WorkerTypeOK
<1>2. Dead' = Dead
  BY <1>1 DEF Abandon, Dead
<1>3. CASE pc[w] = "wait"
  <2>1. got' = got
    BY <1>1, <1>3 DEF Abandon, TypeOK, HoldsWhileRunning
  <2>2. Lost' = Lost
    BY <1>1, <2>1 DEF Lost, Held
  <2>3. Cardinality(latePop') = Cardinality(latePop) + 1
    <3>1. latePop' = latePop \cup {Orphan(w)} /\ Orphan(w) \notin latePop
      BY <1>3, OrphansAreNew DEF Abandon
    <3>2. IsFiniteSet(latePop)
      BY DEF StraysInv
    <3> QED BY <3>1, <3>2, FS_AddElement
  <2> QED BY <1>1, <1>2, <2>2, <2>3, LossNumbers DEF LossInv
<1>4. CASE pc[w] # "wait"
  <2>1. latePop' = latePop
    BY <1>4 DEF Abandon
  <2>2. Lost' \subseteq Lost \cup {got[w]}
    BY <1>1 DEF Abandon, Lost, Held
  <2>3. IsFiniteSet({got[w]}) /\ Cardinality({got[w]}) = 1
    BY FS_Singleton
  <2>4. /\ IsFiniteSet(Lost') /\ Cardinality(Lost') \in Nat
        /\ Cardinality(Lost') <= Cardinality(Lost) + 1
    BY <2>2, <2>3, LostWith DEF LossInv
  <2> QED BY <1>1, <1>2, <2>1, <2>4, LossNumbers DEF LossInv
<1> QED BY <1>3, <1>4

\* A late request has lost the job it takes.
LEMMA LatePopLoss ==
  ASSUME TypeOK, StraysInv, LossInv, NEW o \in latePop, LatePop(o)
  PROVE  LossInv'
<1>1. PICK r \in Jobs \cup {None} : Script(Owner[o.worker], o.asOf, r)
  BY DEF LatePop
<1>2. Owner[o.worker] \in Consumers /\ o.asOf \in Nat
  BY OwnerAssumption DEF TypeOK, WorkerTypeOK
<1>3. popped' \subseteq popped \cup {r} /\ UNCHANGED <<got, done, pc, faults>>
  BY <1>1, <1>2, ScriptPopped DEF LatePop, workers
<1>4. Lost' \subseteq Lost \cup {r} /\ Dead' = Dead
  BY <1>3 DEF Lost, Held, Dead
<1>5. IsFiniteSet({r}) /\ Cardinality({r}) = 1
  BY FS_Singleton
<1>6. /\ IsFiniteSet(Lost') /\ Cardinality(Lost') \in Nat
      /\ Cardinality(Lost') <= Cardinality(Lost) + 1
  BY <1>4, <1>5, LostWith DEF LossInv
<1>7. Cardinality(latePop') = Cardinality(latePop) - 1
  <2>1. latePop' = latePop \ {o} /\ IsFiniteSet(latePop)
    BY DEF LatePop, StraysInv
  <2> QED BY <2>1, FS_RemoveElement
<1> QED BY <1>3, <1>4, <1>6, <1>7, LossNumbers DEF LossInv

\* A panic and a crash lose one job or leave one request per dead worker.
LEMMA DeathLoss ==
  ASSUME TypeOK, StraysInv, LossInv, NEW mine \in SUBSET Workers,
         NEW asking \in SUBSET mine, UNCHANGED <<popped, done, faults>>,
         \A w \in mine : pc[w] # "dead",
         \A w \in asking : got[w] = None,
         latePop' = latePop \cup {Orphan(w) : w \in asking},
         got' = [w \in Workers |-> IF w \in mine THEN None ELSE got[w]],
         \A w \in Workers : pc'[w] = "dead" <=> pc[w] = "dead" \/ w \in mine
  PROVE  LossInv'
<1> DEFINE holding == {w \in mine : got[w] # None}
           orphans == {Orphan(w) : w \in asking}
           lost == {got[w] : w \in holding}
<1>1. IsFiniteSet(mine) /\ Cardinality(mine) \in Nat
  BY WorkersAssumption, FS_Subset, FS_CardinalityType
<1>2. /\ IsFiniteSet(holding) /\ IsFiniteSet(asking)
      /\ Cardinality(holding) \in Nat /\ Cardinality(asking) \in Nat
  BY <1>1, FS_Subset, FS_CardinalityType
<1>3. Cardinality(holding) + Cardinality(asking) <= Cardinality(mine)
  <2>1. holding \cap asking = {} /\ holding \cup asking \subseteq mine
    OBVIOUS
  <2> HIDE DEF holding
  <2>2. Cardinality(holding \cap asking) = 0
    BY <2>1, FS_EmptySet
  <2>3. Cardinality(holding \cup asking) =
          Cardinality(holding) + Cardinality(asking)
            - Cardinality(holding \cap asking)
    BY <1>2, FS_Union
  <2>4. Cardinality(holding \cup asking) <= Cardinality(mine)
    BY <1>1, <2>1, FS_Subset
  <2> QED BY <1>2, <2>2, <2>3, <2>4
<1>4. IsFiniteSet(lost) /\ Cardinality(lost) <= Cardinality(holding)
  <2> HIDE DEF holding
  <2> QED BY <1>2, ImageSize
<1>5. /\ IsFiniteSet(orphans) /\ Cardinality(orphans) <= Cardinality(asking)
  BY OrphansSize
<1>6. Lost' \subseteq Lost \cup lost
  BY LostByWorkers
<1>7. Dead' = Dead \cup mine /\ Dead \cap mine = {}
  BY DEF Dead
<1> HIDE DEF holding, orphans, lost
<1>8. Cardinality(Dead') = Cardinality(Dead) + Cardinality(mine)
  <2>1. Cardinality(Dead \cap mine) = 0
    BY <1>7, FS_EmptySet
  <2>2. Cardinality(Dead \cup mine) =
          Cardinality(Dead) + Cardinality(mine) - Cardinality(Dead \cap mine)
    BY <1>1, LossNumbers, FS_Union
  <2> QED BY <1>1, <1>7, <2>1, <2>2, LossNumbers
<1>9. /\ IsFiniteSet(Lost') /\ Cardinality(Lost') \in Nat /\ Cardinality(lost) \in Nat
      /\ Cardinality(Lost') <= Cardinality(Lost) + Cardinality(lost)
  BY <1>4, <1>6, LostWith DEF LossInv
<1>10. /\ Cardinality(latePop') \in Nat /\ Cardinality(orphans) \in Nat
       /\ Cardinality(latePop') <= Cardinality(latePop) + Cardinality(orphans)
  BY <1>5, LostWith DEF orphans, StraysInv
<1> QED
  BY <1>1, <1>2, <1>3, <1>4, <1>5, <1>8, <1>9, <1>10, LossNumbers DEF LossInv

\* Each step that loses a job or leaves a request behind is to blame for it.
LEMMA LossStep == TypeOK /\ StraysInv /\ LossInv /\ [Next]_vars => LossInv'
<1> SUFFICES ASSUME TypeOK, StraysInv, LossInv, [Next]_vars PROVE LossInv'
  OBVIOUS
<1>0. /\ faults \in Nat /\ got \in [Workers -> Jobs \cup {None}]
      /\ pc \in [Workers -> {"idle", "wait", "replied", "run", "dead"}]
  BY DEF TypeOK, WorkerTypeOK
<1>1. ASSUME UNCHANGED <<popped, done, got, pc, latePop>>,
             faults' = faults \/ faults' = faults + 1
      PROVE  LossInv'
  BY <1>0, <1>1, NoLoss DEF Lost, Held, Dead
<1>2. CASE Tick
  BY <1>1, <1>2 DEF Tick, redis, workers
<1>3. ASSUME NEW j \in Jobs, \/ \E e \in Etas \cup {None} : Begin(j, e)
                             \/ Push(j) \/ SendOk(j) \/ SendError(j) \/ LatePush(j)
      PROVE  LossInv'
  BY <1>1, <1>3 DEF Begin, Push, SendOk, SendError, LatePush, redis, workers
<1>4. ASSUME NEW w \in Workers, Poll(w) \/ Receive(w) PROVE LossInv'
  <2>1. UNCHANGED <<popped, done, got, latePop, faults>>
    BY <1>4 DEF Poll, Receive, redis
  <2>2. Dead' = Dead
    BY <1>0, <1>4 DEF Poll, Receive, Dead
  <2> QED BY <1>0, <2>1, <2>2, NoLoss DEF Lost, Held
<1>5. ASSUME NEW w \in Workers, Execute(w) PROVE LossInv'
  <2>1. PICK r \in Jobs \cup {None} :
          Script(Owner[w], call[w].asOf, r) /\ got' = [got EXCEPT ![w] = r]
    BY <1>5 DEF Execute
  <2>2. Owner[w] \in Consumers /\ call[w].asOf \in Nat /\ got[w] = None
    BY <1>5, OwnerAssumption DEF Execute, TypeOK, WorkerTypeOK, HoldsWhileRunning
  <2>3. popped' = IF r \in Jobs THEN popped \cup {r} ELSE popped
    BY <2>1, <2>2, ScriptPopped
  <2>4. Held \subseteq Held' /\ (r \in Jobs => r \in Held')
    BY <1>0, <2>1, <2>2, NoneAssumption DEF Held
  <2>5. Lost' \subseteq Lost
    BY <1>5, <2>3, <2>4 DEF Execute, Lost
  <2>6. Dead' = Dead
    BY <1>0, <1>5 DEF Execute, Dead
  <2> QED BY <1>0, <1>5, <2>5, <2>6, NoLoss DEF Execute
<1>6. ASSUME NEW w \in Workers, Finish(w) PROVE LossInv'
  <2>1. /\ popped' = popped /\ done' = done \cup {got[w]}
        /\ got' = [got EXCEPT ![w] = None]
    BY <1>6 DEF Finish, redis
  <2>2. Held \subseteq Held' \cup {got[w]}
    BY <1>0, <2>1 DEF Held
  <2>3. Lost' \subseteq Lost
    BY <2>1, <2>2 DEF Lost
  <2>4. Dead' = Dead
    BY <1>0, <1>6 DEF Finish, Dead
  <2> QED BY <1>0, <1>6, <2>3, <2>4, NoLoss DEF Finish
<1>7. ASSUME NEW w \in Workers, Panic(w) PROVE LossInv'
  <2>1. latePop' = latePop \cup {Orphan(v) : v \in {}}
    BY <1>7 DEF Panic
  <2>2. got' = [v \in Workers |-> IF v \in {w} THEN None ELSE got[v]]
    BY <1>0, <1>7 DEF Panic
  <2>3. /\ \A v \in Workers : pc'[v] = "dead" <=> pc[v] = "dead" \/ v \in {w}
        /\ \A v \in {w} : pc[v] # "dead"
    BY <1>0, <1>7 DEF Panic
  <2>4. {w} \in SUBSET Workers /\ {} \in SUBSET {w} /\ \A v \in {} : got[v] = None
    OBVIOUS
  <2> QED BY <1>7, <2>1, <2>2, <2>3, <2>4, DeathLoss DEF Panic, redis
<1>8. ASSUME NEW c \in Consumers, Crash(c) PROVE LossInv'
  <2> DEFINE mine == {w \in Workers : Owner[w] = c /\ pc[w] # "dead"}
             asking == {v \in mine : pc[v] = "wait"}
  <2>1. /\ latePop' = latePop \cup {Orphan(v) : v \in asking}
        /\ \A v \in mine : pc[v] # "dead"
        /\ got' = [v \in Workers |-> IF v \in mine THEN None ELSE got[v]]
        /\ pc' = [v \in Workers |-> IF v \in mine THEN "dead" ELSE pc[v]]
        /\ UNCHANGED <<popped, done, faults>>
    BY <1>8 DEF Crash, redis
  <2>2. \A v \in asking : got[v] = None
    BY DEF TypeOK, HoldsWhileRunning
  <2>3. mine \in SUBSET Workers /\ asking \in SUBSET mine
    OBVIOUS
  <2> HIDE DEF asking, mine
  <2>4. \A v \in Workers : pc'[v] = "dead" <=> pc[v] = "dead" \/ v \in mine
    BY <2>1
  <2> QED BY <2>1, <2>2, <2>3, <2>4, DeathLoss
<1>9. CASE UNCHANGED vars
  BY <1>1, <1>9 DEF vars, redis, workers
<1> QED
  BY <1>2, <1>3, <1>4, <1>5, <1>6, <1>7, <1>8, <1>9, AbandonLoss, LatePopLoss
     DEF Next

\* Every lost job has a given-up request or a dead worker of its own to blame,
\* for any number of jobs, workers, retries and crashes.
THEOREM LossIsBounded == Spec => []LossBounded
<1>1. Spec => [](TypeOK /\ StraysInv)
  BY StraysInit, StraysStep, TypeCorrect, PTL DEF Spec
<1>2. Spec => []LossInv
  BY <1>1, LossInit, LossStep, PTL DEF Spec
<1>3. TypeOK /\ StraysInv /\ LossInv => LossBounded
  BY LossNumbers DEF LossInv, LossBounded
<1> QED BY <1>1, <1>2, <1>3, PTL

-----------------------------------------------------------------------------
(* The statistics.                                                         *)

\* A job whose send() has begun keeps its ETA, and so the key it is stored in.
LEMMA EtaKept ==
  ASSUME TypeOK, [Next]_vars, NEW j \in Jobs, send[j] # "idle"
  PROVE  eta'[j] = eta[j] /\ send'[j] # "idle"
<1>0. eta \in [Jobs -> Etas \cup {None}]
      /\ send \in [Jobs -> {"idle", "wait", "applied", "ok", "failed"}]
  BY DEF TypeOK, ProducerTypeOK
<1>1. ASSUME UNCHANGED <<send, eta>> PROVE eta'[j] = eta[j] /\ send'[j] # "idle"
  BY <1>1
<1>2. ASSUME NEW k \in Jobs, NEW e \in Etas \cup {None}, Begin(k, e)
      PROVE  eta'[j] = eta[j] /\ send'[j] # "idle"
  BY <1>0, <1>2 DEF Begin
<1>3. ASSUME NEW k \in Jobs, Push(k) \/ SendOk(k) \/ SendError(k) \/ LatePush(k)
      PROVE  eta'[j] = eta[j] /\ send'[j] # "idle"
  BY <1>0, <1>3 DEF Push, SendOk, SendError, LatePush, producers
<1>4. CASE \/ Tick
           \/ \E w \in Workers : \/ Poll(w) \/ Execute(w) \/ Receive(w) \/ Finish(w)
                                 \/ Abandon(w) \/ Panic(w)
           \/ \E o \in latePop : LatePop(o)
           \/ \E c \in Consumers : Crash(c)
           \/ UNCHANGED vars
  BY <1>1, <1>4
     DEF Tick, Poll, Execute, Receive, Finish, Abandon, Panic, LatePop, Crash, vars,
         producers
<1> QED BY <1>2, <1>3, <1>4 DEF Next

\* What the commands sent so far have seen of the jobs that stay in the queue:
\* each of these is under one key, the same all the time.
StatsInv ==
    /\ OrderInv
    /\ steady \subseteq Listed \cup zset
    /\ \A j \in CountedByLlen \cup scheduled : j \in Jobs /\ send[j] # "idle"
    /\ \A j \in CountedByLlen : IsRegular(j)
    /\ \A j \in scheduled : IsScheduled(j)
    /\ probe = "keys schedule" => \A j \in steady : IsRegular(j) => listed
    /\ probe \in {"llen", "zcard", "done"} => (steady # {} => listed)
    /\ probe \in {"zcard", "done"} => \A j \in steady : IsRegular(j) => j \in CountedByLlen
    /\ probe = "done" => \A j \in steady : IsScheduled(j) => j \in scheduled

\* The jobs in the list are regular ones, those in the sorted set are not.
LEMMA StoredJobs ==
  ASSUME OrderInv
  PROVE  /\ \A j \in Listed : j \in Jobs /\ send[j] # "idle" /\ IsRegular(j)
         /\ \A j \in zset : j \in Jobs /\ send[j] # "idle" /\ IsScheduled(j)
         /\ list = <<>> <=> Listed = {}
<1>1. list \in Seq(Jobs) /\ zset \subseteq Jobs
  BY DEF OrderInv, TypeOK, RedisTypeOK
<1>2. ASSUME NEW j \in Listed PROVE j \in Jobs /\ send[j] # "idle" /\ IsRegular(j)
  <2>1. PICK i \in DOMAIN list : list[i] = j
    BY DEF Listed
  <2>2. j \in Jobs
    BY <1>1, <2>1
  <2> QED BY <2>1, <2>2 DEF OrderInv, Sorted, UnknownBeforeBegin, Queued, IsRegular
<1>3. ASSUME NEW j \in zset PROVE j \in Jobs /\ send[j] # "idle" /\ IsScheduled(j)
  BY <1>1 DEF OrderInv, Sorted, UnknownBeforeBegin, IsScheduled
<1>4. list = <<>> <=> Listed = {}
  <2>1. CASE list = <<>>
    BY <2>1 DEF Listed
  <2>2. CASE list # <<>>
    <3>1. 1 \in DOMAIN list
      BY <1>1, <2>2
    <3> QED BY <2>2, <3>1 DEF Listed
  <2> QED BY <2>1, <2>2
<1> QED BY <1>2, <1>3, <1>4

\* Before the call nothing has been counted.
LEMMA StatsInitially == StatsInit => StatsInv
<1> SUFFICES ASSUME StatsInit PROVE StatsInv
  OBVIOUS
<1>1. OrderInv
  BY OrderInit DEF StatsInit
<1> QED BY <1>1 DEF StatsInit, StatsInv, CountedByLlen

\* The queue goes on: the jobs that stay keep their keys.
LEMMA WorkStep ==
  ASSUME StatsInv, Work
  PROVE  StatsInv'
<1>1. OrderInv' /\ TypeOK /\ [Next]_vars
  BY OrderStep DEF Work, StatsInv, OrderInv
<1>2. /\ steady' \subseteq steady /\ steady' \subseteq (Listed \cup zset)'
      /\ UNCHANGED <<probe, listed, CountedByLlen, scheduled>>
  BY DEF Work, stats, CountedByLlen
<1>3. \A j \in Listed \cup zset \cup CountedByLlen \cup scheduled :
         /\ send'[j] # "idle"
         /\ IsRegular(j)' = IsRegular(j) /\ IsScheduled(j)' = IsScheduled(j)
  <2> SUFFICES ASSUME NEW j \in Listed \cup zset \cup CountedByLlen \cup scheduled
               PROVE  /\ send'[j] # "idle"
                      /\ IsRegular(j)' = IsRegular(j)
                      /\ IsScheduled(j)' = IsScheduled(j)
    OBVIOUS
  <2>1. j \in Jobs /\ send[j] # "idle"
    BY StoredJobs DEF StatsInv
  <2>2. eta'[j] = eta[j] /\ send'[j] # "idle"
    BY <1>1, <2>1, EtaKept
  <2> QED BY <2>2 DEF IsRegular, IsScheduled
<1>4. steady \subseteq Listed \cup zset
  BY DEF StatsInv
<1>5. \A j \in steady' : /\ j \in steady
                         /\ IsRegular(j)' = IsRegular(j)
                         /\ IsScheduled(j)' = IsScheduled(j)
  BY <1>2, <1>3, <1>4
<1>6. \A j \in CountedByLlen \cup scheduled :
         /\ j \in Jobs /\ send'[j] # "idle"
         /\ IsRegular(j)' = IsRegular(j) /\ IsScheduled(j)' = IsScheduled(j)
  BY <1>3 DEF StatsInv
<1> QED BY <1>1, <1>2, <1>5, <1>6 DEF StatsInv

\* Each command of the call sees all jobs that stay under its key.
LEMMA StatsStep == StatsInv /\ [StatsNext]_statsVars => StatsInv'
<1> SUFFICES ASSUME StatsInv, [StatsNext]_statsVars PROVE StatsInv'
  OBVIOUS
<1>0. OrderInv
  BY DEF StatsInv
<1>1. UNCHANGED vars => OrderInv' /\ UNCHANGED <<Listed, zset, send, eta>>
  <2>1. UNCHANGED vars => OrderInv'
    BY <1>0, OrderStep
  <2> QED BY <2>1 DEF vars, redis, producers, Listed
<1>2. UNCHANGED eta => \A j : IsRegular(j)' = IsRegular(j) /\ IsScheduled(j)' = IsScheduled(j)
  BY DEF IsRegular, IsScheduled
<1>3. CASE ListAll
  BY <1>1, <1>2, <1>3 DEF ListAll, Ask, StatsInv, CountedByLlen
<1>4. CASE KeysQueue
  <2>1. \A j \in steady : IsRegular(j) => list # <<>>
    BY <1>0, StoredJobs DEF StatsInv, IsRegular, IsScheduled
  <2> QED BY <1>1, <1>2, <1>4, <2>1 DEF KeysQueue, Ask, StatsInv, CountedByLlen
<1>5. CASE KeysSchedule
  <2>1. \A j \in steady : IsRegular(j) => listed
    BY <1>5 DEF KeysSchedule, Ask, StatsInv
  <2>2. \A j \in steady : ~IsRegular(j) => zset # {}
    BY <1>0, StoredJobs DEF StatsInv
  <2>3. steady # {} => listed'
    BY <1>5, <2>1, <2>2 DEF KeysSchedule
  <2>4. probe' = "llen" \/ (probe' = "done" /\ ~listed')
    BY <1>5 DEF KeysSchedule, Ask
  <2> QED BY <1>1, <1>2, <1>5, <2>3, <2>4 DEF KeysSchedule, Ask, StatsInv, CountedByLlen
<1>6. CASE Llen
  <2>1. CountedByLlen' = Listed
    BY <1>6 DEF Llen, CountedByLlen, Listed
  <2> QED
    BY <1>0, <1>1, <1>2, <1>6, <2>1, StoredJobs
       DEF Llen, Ask, StatsInv, IsScheduled, IsRegular
<1>7. CASE Zcard
  BY <1>0, <1>1, <1>2, <1>7, StoredJobs
     DEF Zcard, Ask, StatsInv, IsScheduled, IsRegular, CountedByLlen
<1>8. CASE StatsError
  BY <1>1, <1>2, <1>8 DEF StatsError, Ask, StatsInv, CountedByLlen
<1>9. CASE UNCHANGED statsVars
  BY <1>1, <1>2, <1>9 DEF statsVars, stats, StatsInv, CountedByLlen
<1> QED
  BY <1>3, <1>4, <1>5, <1>6, <1>7, <1>8, <1>9, WorkStep DEF StatsNext

\* A job that stays in the queue during the whole call is counted, under one of the
\* two keys and in a queue that is listed, whatever producers, workers and faults do
\* between the four commands.
THEOREM SteadyJobsAreCounted == StatsSpec => []SteadyJobsCounted
<1>1. StatsInv => SteadyJobsCounted
  <2>1. \A j : IsRegular(j) \/ IsScheduled(j)
    BY DEF IsRegular, IsScheduled
  <2>2. \A j : ~(IsRegular(j) /\ IsScheduled(j))
    BY DEF IsRegular, IsScheduled
  <2> QED BY <2>1, <2>2 DEF StatsInv, SteadyJobsCounted
<1> QED BY <1>1, StatsInitially, StatsStep, PTL DEF StatsSpec

=============================================================================
