------------------------------ MODULE JobQueue ------------------------------
(***************************************************************************)
(* One queue of liteq: producers call send(), worker loops call dequeue()  *)
(* or dequeue_with_consumer(), and Redis, a third party between them, runs *)
(* each request atomically (src/src/queue.rs, the retry loop of            *)
(* src/src/retry.rs and the worker loops of src/src/registry.rs).          *)
(*                                                                         *)
(* A request and its reply are separate steps: the client may stop waiting *)
(* at any moment between them (response timeout, reset connection), in     *)
(* which case Redis may already have run the request, may run it later     *)
(* (latePush, latePop) or may never see it.  A job is one call of send();  *)
(* its JSON is unique because its id is, so a job stands for its JSON.     *)
(***************************************************************************)
EXTENDS Integers, Sequences, FiniteSets

CONSTANTS
    Jobs,            \* calls of send(), each one a job of its own
    Etas,            \* the ETAs a producer may choose, in ticks
    Workers,         \* worker tasks
    Consumers,       \* processes that run workers
    Owner,           \* [Workers -> Consumers]
    Info,            \* the ConsumerInfo each process froze at startup
    NoInfo,          \* registration failed: the process calls dequeue()
    None,            \* no ETA; an empty reply
    MaxAttempts,     \* RetryConfig.max_attempts
    TicksPerSecond,  \* clock ticks in a Unix second
    MaxTime,         \* bound: the clock stops here
    MaxFaults,       \* bound: requests given up by their client
    MaxCrashes       \* bound: crashed processes and panicked handlers

ConsumerInfo == { i \in [id : Nat, total : Nat \ {0}] : i.id < i.total }

ASSUME NoneAssumption == None \notin Jobs \cup Nat
ASSUME EtasAssumption == Etas \subseteq Nat
ASSUME WorkersAssumption == IsFiniteSet(Workers)
ASSUME OwnerAssumption == Owner \in [Workers -> Consumers]
ASSUME InfoAssumption ==
    /\ NoInfo \notin ConsumerInfo
    /\ Info \in [Consumers -> ConsumerInfo \cup {NoInfo}]
ASSUME ClockAssumption == TicksPerSecond \in Nat \ {0} /\ MaxTime \in Nat
ASSUME BudgetAssumption ==
    MaxAttempts \in Nat \ {0} /\ MaxFaults \in Nat /\ MaxCrashes \in Nat

VARIABLES
    now,       \* the wall clock, in ticks
    list,      \* the Redis list queue:<name>
    zset,      \* the members of the sorted set schedule:<name>; scores: Score
    counter,   \* field counter of the Redis hash <name>:meta
    send,      \* state of each call of send()
    tries,     \* attempts made by each call of send()
    eta,       \* the ETA of each job, None for a regular job
    pc,        \* state of each worker loop
    call,      \* locals of each worker's dequeue: current_time and attempt
    got,       \* the reply, then the job, each worker holds
    latePush,  \* abandoned pushes of each job that Redis may still run
    latePop,   \* abandoned dequeue requests that Redis may still run
    faults,    \* requests given up so far
    crashes,   \* crashes and panics so far
    popped,    \* history: the jobs Redis has removed and put in a reply
    runs,      \* history: handler calls for each job
    done,      \* history: the jobs whose handler returned
    before,    \* history: jobs accepted when the send() of a job began
    taken      \* history: jobs each consumer's requests removed in turn

redis == <<list, zset, counter, popped, taken>>
producers == <<send, tries, eta, before>>
workers == <<pc, call, got, runs, done>>
vars == <<now, redis, producers, workers, latePush, latePop, faults, crashes>>

\* The locals of a worker that is not in dequeue.
NoCall == [asOf |-> 0, attempt |-> 0]

Init ==
    /\ now = 0
    /\ list = <<>> /\ zset = {} /\ counter = 0
    /\ send = [j \in Jobs |-> "idle"]
    /\ tries = [j \in Jobs |-> 0]
    /\ eta = [j \in Jobs |-> None]
    /\ before = [j \in Jobs |-> {}]
    /\ pc = [w \in Workers |-> "idle"]
    /\ call = [w \in Workers |-> NoCall]
    /\ got = [w \in Workers |-> None]
    /\ latePush = [j \in Jobs |-> 0]
    /\ latePop = {}
    /\ faults = 0 /\ crashes = 0
    /\ popped = {} /\ done = {}
    /\ runs = [j \in Jobs |-> 0]
    /\ taken = [c \in Consumers |-> 0]

-----------------------------------------------------------------------------
(* Time.  Scores and current_time are whole seconds: DateTime::timestamp() *)
(* drops the fraction.                                                     *)

Seconds(t) == t \div TicksPerSecond

Score(j) == Seconds(eta[j])

Tick ==
    /\ now < MaxTime
    /\ now' = now + 1
    /\ UNCHANGED <<redis, producers, workers, latePush, latePop, faults, crashes>>

-----------------------------------------------------------------------------
(* Producers: Enqueuer::send and the retry loop around ZADD or RPUSH.      *)

\* Mutant: LPUSH instead of RPUSH.
StoreAtHead(j) ==
    IF eta[j] = None
    THEN list' = <<j>> \o list /\ UNCHANGED zset
    ELSE zset' = zset \cup {j} /\ UNCHANGED list

\* Redis runs the ZADD of a scheduled job (a second ZADD of the same member
\* changes nothing) or the RPUSH of a regular one (a second one duplicates).
Store(j) ==
    IF eta[j] = None
    THEN list' = Append(list, j) /\ UNCHANGED zset
    ELSE zset' = zset \cup {j} /\ UNCHANGED list

Begin(j, e) ==
    /\ send[j] = "idle"
    /\ send' = [send EXCEPT ![j] = "wait"]
    /\ tries' = [tries EXCEPT ![j] = 1]
    /\ eta' = [eta EXCEPT ![j] = e]
    /\ before' = [before EXCEPT ![j] = {k \in Jobs : send[k] = "ok"}]
    /\ UNCHANGED <<now, redis, workers, latePush, latePop, faults, crashes>>

Push(j) ==
    /\ send[j] = "wait"
    /\ Store(j)
    /\ send' = [send EXCEPT ![j] = "applied"]
    /\ UNCHANGED <<now, counter, popped, taken, tries, eta, before, workers,
                   latePush, latePop, faults, crashes>>

SendOk(j) ==
    /\ send[j] = "applied"
    /\ send' = [send EXCEPT ![j] = "ok"]
    /\ UNCHANGED <<now, redis, tries, eta, before, workers, latePush, latePop,
                   faults, crashes>>

\* The attempt fails: retry while attempts remain, or return the error
\* (attempts exhausted, an error that is not retryable, the breaker open).
SendError(j) ==
    /\ send[j] \in {"wait", "applied"}
    /\ faults < MaxFaults
    /\ faults' = faults + 1
    /\ latePush' = IF send[j] = "wait" THEN [latePush EXCEPT ![j] = @ + 1]
                                       ELSE latePush
    /\ \/ /\ tries[j] < MaxAttempts
          /\ tries' = [tries EXCEPT ![j] = @ + 1]
          /\ send' = [send EXCEPT ![j] = "wait"]
       \/ /\ send' = [send EXCEPT ![j] = "failed"]
          /\ UNCHANGED tries
    /\ UNCHANGED <<now, redis, eta, before, workers, latePop, crashes>>

LatePush(j) ==
    /\ latePush[j] > 0
    /\ latePush' = [latePush EXCEPT ![j] = @ - 1]
    /\ Store(j)
    /\ UNCHANGED <<now, counter, popped, taken, producers, workers, latePop,
                   faults, crashes>>

-----------------------------------------------------------------------------
(* The dequeue scripts, run by Redis for consumer c with current_time t.   *)

\* Mutant: the score is rounded the other way.
ReadyASecondAhead(t) == {j \in zset : Score(j) <= t + 1}

Ready(t) == {j \in zset : Score(j) <= t}

\* Mutant: ZREVRANGEBYSCORE.
LastReady(t) == {j \in Ready(t) : \A k \in Ready(t) : Score(k) <= Score(j)}

\* ZRANGEBYSCORE's first element; members with equal scores are ordered by
\* their JSON, which nobody controls.
FirstReady(t) == {j \in Ready(t) : \A k \in Ready(t) : Score(j) <= Score(k)}

\* Mutants: ids from 1 instead of 0; every earlier turn is open to an id.
TurnFromOne(c) ==
    Info[c] # NoInfo => counter = 0 \/ counter % Info[c].total = Info[c].id + 1

TurnAtLeast(c) ==
    Info[c] # NoInfo => counter = 0 \/ counter % Info[c].total >= Info[c].id

\* dequeue() has no turns; dequeue_with_consumer() lets anyone take the first
\* job (counter 0) and then serves the consumer the counter designates.
Turn(c) ==
    Info[c] # NoInfo => counter = 0 \/ counter % Info[c].total = Info[c].id

Take(c, j) ==
    /\ popped' = popped \cup {j}
    /\ IF Info[c] = NoInfo
       THEN UNCHANGED <<counter, taken>>
       ELSE /\ counter' = counter + 1
            /\ taken' = [taken EXCEPT ![c] = @ + 1]

\* Mutants: the list is popped before the sorted set is looked at; the ZREM is
\* forgotten.
TakeScheduledAfterPop(c, t, r) ==
    /\ Turn(c)
    /\ r \in FirstReady(t)
    /\ zset' = zset \ {r}
    /\ list' = IF list = <<>> THEN list ELSE Tail(list)
    /\ Take(c, r)

TakeScheduledAgain(c, t, r) ==
    /\ Turn(c)
    /\ r \in FirstReady(t)
    /\ Take(c, r)
    /\ UNCHANGED <<list, zset>>

TakeScheduled(c, t, r) ==
    /\ Turn(c)
    /\ r \in FirstReady(t)
    /\ zset' = zset \ {r}
    /\ Take(c, r)
    /\ UNCHANGED list

\* Mutant: the turn is looked at for scheduled jobs only.
TakeRegularAnyTurn(c, t, r) ==
    /\ Ready(t) = {}
    /\ list # <<>>
    /\ r = Head(list)
    /\ list' = Tail(list)
    /\ Take(c, r)
    /\ UNCHANGED zset

TakeRegular(c, t, r) ==
    /\ Turn(c)
    /\ Ready(t) = {}
    /\ list # <<>>
    /\ r = Head(list)
    /\ list' = Tail(list)
    /\ Take(c, r)
    /\ UNCHANGED zset

\* Mutant: the counter is incremented although no job was taken.
TakeNothingCounted(c, t, r) ==
    /\ Turn(c) => Ready(t) = {} /\ list = <<>>
    /\ r = None
    /\ counter' = IF Info[c] # NoInfo /\ Turn(c) THEN counter + 1 ELSE counter
    /\ UNCHANGED <<list, zset, popped, taken>>

TakeNothing(c, t, r) ==
    /\ Turn(c) => Ready(t) = {} /\ list = <<>>
    /\ r = None
    /\ UNCHANGED redis

Script(c, t, r) ==
    \/ TakeScheduled(c, t, r)
    \/ TakeRegular(c, t, r)
    \/ TakeNothing(c, t, r)

-----------------------------------------------------------------------------
(* Workers: the loop of SubscriberRegistry::run around dequeue.            *)

\* current_time is read once, before the retry loop.
Poll(w) ==
    /\ pc[w] = "idle"
    /\ pc' = [pc EXCEPT ![w] = "wait"]
    /\ call' = [call EXCEPT ![w] = [asOf |-> Seconds(now), attempt |-> 1]]
    /\ UNCHANGED <<now, redis, producers, got, runs, done, latePush, latePop,
                   faults, crashes>>

Execute(w) ==
    /\ pc[w] = "wait"
    /\ \E r \in Jobs \cup {None} :
          /\ Script(Owner[w], call[w].asOf, r)
          /\ got' = [got EXCEPT ![w] = r]
    /\ pc' = [pc EXCEPT ![w] = "replied"]
    /\ UNCHANGED <<now, producers, call, runs, done, latePush, latePop,
                   faults, crashes>>

\* Mutant: the loop is `while let Ok(Some(job))`.
ReceiveOrStop(w) ==
    /\ pc[w] = "replied"
    /\ \/ /\ got[w] = None
          /\ pc' = [pc EXCEPT ![w] = "stopped"]
          /\ UNCHANGED runs
       \/ /\ got[w] # None
          /\ pc' = [pc EXCEPT ![w] = "run"]
          /\ runs' = [runs EXCEPT ![got[w]] = @ + 1]
    /\ call' = [call EXCEPT ![w] = NoCall]
    /\ UNCHANGED <<now, redis, producers, got, done, latePush, latePop, faults,
                   crashes>>

\* dequeue returns; Ok(Some(job)) starts the handler, Ok(None) sleeps.
Receive(w) ==
    /\ pc[w] = "replied"
    /\ \/ /\ got[w] = None
          /\ pc' = [pc EXCEPT ![w] = "idle"]
          /\ UNCHANGED runs
       \/ /\ got[w] # None
          /\ pc' = [pc EXCEPT ![w] = "run"]
          /\ runs' = [runs EXCEPT ![got[w]] = @ + 1]
    /\ call' = [call EXCEPT ![w] = NoCall]
    /\ UNCHANGED <<now, redis, producers, got, done, latePush, latePop, faults,
                   crashes>>

\* The handler returns.  Ok and Err are treated alike: the job is over.
Finish(w) ==
    /\ pc[w] = "run"
    /\ done' = done \cup {got[w]}
    /\ got' = [got EXCEPT ![w] = None]
    /\ pc' = [pc EXCEPT ![w] = "idle"]
    /\ UNCHANGED <<now, redis, producers, call, runs, latePush, latePop, faults,
                   crashes>>

\* The request that worker w is waiting for, once nobody waits for it.
Orphan(w) == [worker |-> w, asOf |-> call[w].asOf, n |-> faults]

\* Mutant: the reply of an attempt is kept for the next one.
AbandonKeepsReply(w) ==
    /\ pc[w] \in {"wait", "replied"}
    /\ faults < MaxFaults /\ faults' = faults + 1
    /\ call[w].attempt < MaxAttempts
    /\ call' = [call EXCEPT ![w].attempt = @ + 1]
    /\ pc' = [pc EXCEPT ![w] = "wait"]
    /\ UNCHANGED <<now, redis, producers, got, runs, done, latePush, latePop,
                   crashes>>

\* The attempt fails with its reply unread: retry with the same current_time
\* or return the error, after which the loop sleeps and polls anew.
Abandon(w) ==
    /\ pc[w] \in {"wait", "replied"}
    /\ faults < MaxFaults
    /\ faults' = faults + 1
    /\ latePop' = IF pc[w] = "wait" THEN latePop \cup {Orphan(w)} ELSE latePop
    /\ got' = [got EXCEPT ![w] = None]
    /\ \/ /\ call[w].attempt < MaxAttempts
          /\ call' = [call EXCEPT ![w].attempt = @ + 1]
          /\ pc' = [pc EXCEPT ![w] = "wait"]
       \/ /\ call' = [call EXCEPT ![w] = NoCall]
          /\ pc' = [pc EXCEPT ![w] = "idle"]
    /\ UNCHANGED <<now, redis, producers, runs, done, latePush, crashes>>

\* Redis runs a request nobody waits for; its reply goes nowhere.
LatePop(o) ==
    /\ o \in latePop
    /\ latePop' = latePop \ {o}
    /\ \E r \in Jobs \cup {None} : Script(Owner[o.worker], o.asOf, r)
    /\ UNCHANGED <<now, producers, workers, latePush, faults, crashes>>

\* Mutant: the loop catches the panic, drops the job and goes on.
PanicCaught(w) ==
    /\ pc[w] = "run"
    /\ crashes < MaxCrashes
    /\ crashes' = crashes + 1
    /\ pc' = [pc EXCEPT ![w] = "idle"]
    /\ got' = [got EXCEPT ![w] = None]
    /\ UNCHANGED <<now, redis, producers, call, runs, done, latePush, latePop,
                   faults>>

\* A handler panics: tokio ends the task of its worker.  The tasks of the others go
\* on, although run() returns an error if its join has come to this one; a caller
\* that ends the process because of it is a Crash.
Panic(w) ==
    /\ pc[w] = "run"
    /\ crashes < MaxCrashes
    /\ crashes' = crashes + 1
    /\ pc' = [pc EXCEPT ![w] = "dead"]
    /\ got' = [got EXCEPT ![w] = None]
    /\ UNCHANGED <<now, redis, producers, call, runs, done, latePush, latePop,
                   faults>>

\* Process c dies with its workers and whatever they hold.
Crash(c) ==
    LET mine == {w \in Workers : Owner[w] = c /\ pc[w] # "dead"} IN
    /\ mine # {}
    /\ crashes < MaxCrashes
    /\ crashes' = crashes + 1
    /\ pc' = [w \in Workers |-> IF w \in mine THEN "dead" ELSE pc[w]]
    /\ got' = [w \in Workers |-> IF w \in mine THEN None ELSE got[w]]
    /\ latePop' = latePop \cup {Orphan(w) : w \in {v \in mine : pc[v] = "wait"}}
    /\ call' = [w \in Workers |-> IF w \in mine THEN NoCall ELSE call[w]]
    /\ UNCHANGED <<now, redis, producers, runs, done, latePush, faults>>

-----------------------------------------------------------------------------
Next ==
    \/ Tick
    \/ \E j \in Jobs :
          \/ \E e \in Etas \cup {None} : Begin(j, e)
          \/ Push(j) \/ SendOk(j) \/ SendError(j) \/ LatePush(j)
    \/ \E w \in Workers :
          \/ Poll(w) \/ Execute(w) \/ Receive(w) \/ Finish(w)
          \/ Abandon(w) \/ Panic(w)
    \/ \E o \in latePop : LatePop(o)
    \/ \E c \in Consumers : Crash(c)

Spec == Init /\ [][Next]_vars

\* Time passes, Redis answers a request in the end, a handler returns, and a
\* loop that sleeps wakes up.  Nothing makes a producer call send(), a fault
\* or a crash happen, or an abandoned request run.
Fairness ==
    /\ WF_vars(Tick)
    /\ \A j \in Jobs : WF_vars(Push(j) \/ SendOk(j))
    /\ \A w \in Workers : WF_vars(Poll(w) \/ Execute(w) \/ Receive(w) \/ Finish(w))

FairSpec == Spec /\ Fairness

-----------------------------------------------------------------------------
(* Properties.                                                             *)

IsScheduled(j) == eta[j] # None
IsRegular(j) == eta[j] = None
Queued(j) == \E i \in DOMAIN list : list[i] = j
Held == {got[w] : w \in Workers} \ {None}
Dead == {w \in Workers : pc[w] = "dead"}

\* Jobs Redis gave away whose handler will not return: neither finished nor
\* in the hands of a worker.
Lost == popped \ (done \cup Held)

RedisTypeOK ==
    /\ list \in Seq(Jobs) /\ zset \subseteq Jobs /\ counter \in Nat
    /\ popped \subseteq Jobs /\ taken \in [Consumers -> Nat]

ProducerTypeOK ==
    /\ send \in [Jobs -> {"idle", "wait", "applied", "ok", "failed"}]
    /\ tries \in [Jobs -> Nat] /\ latePush \in [Jobs -> Nat]
    /\ eta \in [Jobs -> Etas \cup {None}]
    /\ before \in [Jobs -> SUBSET Jobs]

WorkerTypeOK ==
    /\ pc \in [Workers -> {"idle", "wait", "replied", "run", "dead"}]
    /\ call \in [Workers -> [asOf : Nat, attempt : Nat]]
    /\ got \in [Workers -> Jobs \cup {None}]
    /\ latePop \subseteq [worker : Workers, asOf : Nat, n : Nat]
    /\ runs \in [Jobs -> Nat] /\ done \subseteq Jobs

\* A worker has a job exactly while its loop does (registry.rs run).
HoldsWhileRunning ==
    \A w \in Workers :
        /\ pc[w] \in {"idle", "wait", "dead"} => got[w] = None
        /\ pc[w] = "run" => got[w] # None

\* Every variable has its type, and a worker holds a job exactly in the states
\* in which the loop of registry.rs run has one.
TypeOK ==
    /\ now \in Nat /\ faults \in Nat /\ crashes \in Nat
    /\ RedisTypeOK
    /\ ProducerTypeOK
    /\ WorkerTypeOK
    /\ HoldsWhileRunning

\* A job whose send() Redis has answered is stored or has been handed out:
\* the scripts remove only what they reply (queue.rs, both Lua scripts).
AcceptedAccounted ==
    \A j \in Jobs : send[j] \in {"applied", "ok"} =>
        j \in zset \cup popped \/ Queued(j)

\* A scheduled job leaves the zset in the second of its ETA at the earliest,
\* however long the request that takes it was delayed (queue.rs dequeue).
NotASecondEarly ==
    \A j \in popped : IsScheduled(j) => Score(j) <= Seconds(now)

\* Regular jobs leave in the order their send() calls were answered: when k
\* is handed out, so is every regular job accepted before send(k) began,
\* retries and late pushes included (queue.rs RPUSH and LPOP).
Fifo ==
    \A k \in popped : IsRegular(k) =>
        \A j \in before[k] : IsRegular(j) => j \in popped

\* Scheduled jobs leave by ETA: when k is handed out, so is every job with an
\* ETA in an earlier second that was accepted before send(k) began.
EarliestEtaFirst ==
    \A k \in popped : IsScheduled(k) =>
        \A j \in before[k] :
            IsScheduled(j) /\ Score(j) < Score(k) => j \in popped

\* A job is lost only to a request given up by its client or to a worker that
\* died, and each of these loses one job at most (registry.rs worker loops).
LossBounded == Cardinality(Lost) <= faults + Cardinality(Dead)

T == INSTANCE Turns WITH info <- Info

\* The counter moves only when the consumer it designates takes a job, for
\* retried, late and lost requests as well (queue.rs DEQUEUE_CONSUMER_SCRIPT).
ImplementsTurns == T!Spec

\* The jobs a group of agreeing consumers has removed so far differ by two at
\* most: one for the turn in progress, one for the first job, which anyone
\* may take (queue.rs DEQUEUE_CONSUMER_SCRIPT).
TakenWithinTwo == T!FairShares

\* Copies of job j in the list and the sorted set.
Copies(j) ==
    Cardinality({i \in DOMAIN list : list[i] = j}) + IF j \in zset THEN 1 ELSE 0

\* Pushes of job j that Redis may still run.
Pending(j) == latePush[j] + IF send[j] = "wait" THEN 1 ELSE 0

D == INSTANCE Delivery WITH
        attempts <- tries,
        pending <- [j \in Jobs |-> Pending(j)],
        stored <- [j \in Jobs |-> Copies(j)],
        held <- got,
        running <- {w \in Workers : pc[w] = "run"},
        strays <- Cardinality(latePop)

\* Copies of a job come only from attempts of its send, go to one worker or to
\* one abandoned request each, and are run once by that worker (queue.rs send
\* and dequeue, retry.rs loop, registry.rs worker loops).
ImplementsDelivery == D!Spec

\* Retrying RPUSH or ZADD after a lost reply may run a handler more than once
\* for one job, but at most once per attempt (queue.rs send, retry.rs loop).
OncePerAttempt == D!OncePerAttempt

\* No worker that is left may take a job.
Live == Workers \ Dead
Stalled == \A w \in Live : ~Turn(Owner[w])
Hopeless == Stalled /\ \A o \in latePop : ~Turn(Owner[o.worker])

\* Once the turn is one that no worker left has, and no request that is still
\* under way either, no job is ever taken again: neither retries, late requests
\* and new jobs nor the deaths of others give the turn to anybody (queue.rs both
\* scripts, registry.rs worker loops).
StalledForGood == [][Hopeless => Hopeless' /\ popped' = popped]_vars

\* An accepted job is finished or lost in the end, unless the turn has come to
\* a consumer that is dead and every worker without turns is dead as well: a
\* group beside a process whose registration failed outlives any other crash
\* (registry.rs worker loops, queue.rs both scripts).
SettledUnlessStalled ==
    \A j \in Jobs : send[j] = "ok" ~> j \in done \cup Lost \/ Stalled

-----------------------------------------------------------------------------
(* What the documentation says and the code does not do.                   *)

\* src/README.md: after a consumer crash the jobs are redistributed.
CrashRedistributes ==
    \A j \in Jobs : send[j] = "ok" ~> j \in done \cup Lost \/ Live = {}

=============================================================================
