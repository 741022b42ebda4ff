# liteq: specifications, model checking and proofs

liteq is a Rust library for job queues on Redis. Producers call `send()`, worker
processes poll Redis with Lua scripts, and several consumer processes share a
queue by taking turns. Everything that is hard about it lies between the
processes: a request and its reply can be separated by a timeout, a retry or a
crash; processes count each other at different moments; and every component
retries on its own. The modules in this directory specify those protocols, TLC
checks them on small instances, and TLAPS proves their safety properties for
every value of the constants.

Paths below are relative to the repository; the crate is in `src/src/`.

## 1. Inventory

| Component | State it keeps | Operations | What is hard | What makes it correct |
|---|---|---|---|---|
| Job queue, `queue.rs`, `job.rs` | in Redis: list `queue:<n>`, sorted set `schedule:<n>`, hash field `<n>:meta counter`; in the caller: `current_time`, the attempt | `send` (RPUSH or ZADD), `dequeue`, `dequeue_with_consumer` (one atomic Lua script each), counts and statistics | lost replies, retries of requests Redis has run, late requests, old `current_time`, clock in whole seconds | accepted jobs are stored or handed out; FIFO; ETA order; never a second early; bounded loss and duplication; fair turns |
| Worker loops, `registry.rs` `run` | one tokio task per worker, the frozen `ConsumerInfo` | poll, run the handler, sleep | panic or crash while a job is held; dead consumer owns a turn | every accepted job is finished or its loss is explained; the queue never stalls |
| Retry, `retry.rs`, and breaker, `circuit_breaker.rs` | attempts of a call; one thread-local breaker: state, two counters, time of opening | `retry_async`, `try_is_request_allowed`, `try_record_success`, `try_record_failure` | tasks resume on other threads after every await, calls share breakers | opens after a streak, closes after trials, does not refuse for ever |
| Consumer registry, `consumer_registry.rs` | one key with TTL per process in Redis; position and total in the process | `register_and_start_heartbeat`, `heartbeat_task`, `get_consumer_position` | HSET and EXPIRE are two commands, reads overlap registrations, heartbeats fail or wait for Redis | equal totals, one process per slot; live keys stay or come back, dead keys go |
| Connection supervisor, `connection_supervisor.rs` | shared `ConnectionState`, a `Notify`, failure counters | `supervision_loop`, `attempt_reconnect`, `wait_ready`, `get_connection` | wakeups against the state lock, outages in the middle of a recovery | Connected in the end; blocked callers are woken |
| Pool, `pool.rs` | a supervisor, a share of the metrics | `with_config`, `get_connection`, `status` | a failure is recorded in two sections, two pools of one queue share an entry | every call is counted, failures keep their errors |
| Metrics and health, `metrics.rs` | a map of counters behind a fair `RwLock` | record, update, `health_check`, `health_check_all` | a read lock taken twice by one task | whoever asks for the lock gets it |
| Publish and subscribe, `pubsub.rs` | the connection and the task of a subscriber | `publish`, `subscribe` with reconnection | loss during a reconnection, duplicate publishes, a connection lost between two subscriptions | messages in order and once, a listener gets all, it listens again |
| Configuration and data, `config.rs`, `job.rs`, `error.rs` | none | builders, JSON | - | - |

How they interact: `SubscriberRegistry::run` registers a consumer per queue
(consumer registry), creates a pool (supervisor) and a `JobQueue` per queue and
spawns the worker loops. A worker passes the frozen `ConsumerInfo` of its process
to `dequeue_with_consumer`, or calls `dequeue` when the registration failed.
Every Redis call of queue, registry (registration only) and pubsub goes through
`retry_async` and, where the configuration has a threshold, through the breaker of
the thread it runs on. Workers never call `wait_ready`; only
`RedisPool::get_connection` does, for users of the crate who take connections from
a pool themselves. Pools and workers record in one `MetricsRegistry`, and whoever
has that registry may check the health of the queues.

The hazards of this code, each at its line and with the properties that would
catch it, are in `PROJECT.json`.

## 2. Modules

| Module | Models | Role |
|---|---|---|
| `JobQueue` | `queue.rs`, the retry loop around it, the worker loops of `registry.rs` | specification |
| `QueueStats` | `list_all`, `get_job_counts`, `get_all_queue_stats` beside a `JobQueue` in use | composition, extends `JobQueue` |
| `Delivery` | what a queue promises about the copies of a job | abstract specification, implemented by `JobQueue` |
| `Turns` | what the turns promise to the consumers of a queue | abstract specification, implemented by `JobQueue` and `MultiConsumer` |
| `MCJobQueue`, `MCQueueStats` | processes, their workers and positions | instances for TLC |
| `JobQueueProofs` | - | theorems about `JobQueue` |
| `TurnsProofs` | - | the theorem about `Turns` |
| `DeliveryProofs` | - | the theorem about `Delivery` |
| `JobQueueRefinement` | - | `JobQueue` implements `Turns` and `Delivery`, and what follows; what it can lose; the theorem about `QueueStats` |
| `ConsumerRegistry` | `consumer_registry.rs` and the fallback in `registry.rs` | specification |
| `MultiConsumer` | positions from `ConsumerRegistry` and the queue that uses them | composition, extends `ConsumerRegistry` |
| `MultiConsumerProofs` | - | theorems about `ConsumerRegistry`; `MultiConsumer` implements `Turns`, and what follows |
| `MCConsumerRegistry`, `MCMultiConsumer` | the proportions of the real delays, as an assumption | instances for TLC |
| `ConnectionSupervisor` | `connection_supervisor.rs` | specification |
| `Metrics` | `metrics.rs` over a fair read-write lock | component without a next-state relation of its own |
| `Pool` | `pool.rs`: supervisor and metrics together | composition, checked directly |
| `PoolProofs` | - | theorems about `ConnectionSupervisor`, `Metrics` and `Pool` |
| `CircuitBreaker` | the methods of `circuit_breaker.rs` as functions on a value | used by `Retry` |
| `Retry` | `retry.rs` over the breakers of several threads | specification, checked directly |
| `RetryProofs` | - | theorems about `CircuitBreaker` and `Retry` |
| `PubSub` | `pubsub.rs` | specification |
| `MCPubSub` | two channels with a message each | instance for TLC |
| `PubSubProofs` | - | theorems about `PubSub` |

Operators named as mutants in the modules are deliberate mistakes next to the
definition they would replace (a dropped guard, a swapped order). They are used
nowhere; they exist to show that each property is able to fail.

### JobQueue

A call of `send()` and the job it creates are one value of `Jobs`: job ids are
unique, hence so are their JSON strings, which are what Redis stores. A send goes
through `Begin` (the job and, if any, its ETA), `Push` (Redis runs RPUSH or ZADD),
`SendOk` (the reply arrives). A dequeue goes through `Poll` (`current_time` is read,
once), `Execute` (Redis runs the script), `Receive` (the reply arrives; a job starts
the handler) and `Finish`. Between a request and its reply the client may give up
(`SendError`, `Abandon`): it retries, with the same `current_time`, or returns the
error. Redis may have run the request already, or may run it later (`LatePush`,
`LatePop`), or never. `Panic` ends one worker task, `Crash` a process with all its
workers; neither is ever restarted, which is what the code does for a panic and
the worst case for a crash.

The scripts are `Script(c, t, r)`: process `c` asks with time `t` and gets `r`.
`Turn` is the bootstrap rule (`counter` 0 is open to everyone) and the modulo
rule; `Ready`/`FirstReady` is ZRANGEBYSCORE, with members of equal score in an
unknown order because it is the order of their JSON; `Take` is the removal and,
with turns, HINCRBY. A consumer whose `Info` is `NoInfo` runs the script without
turns. The clock has fractions of a second so that the truncation of `timestamp()`
is visible.

`popped`, `runs`, `done`, `before`, `taken` are history variables: they record
what happened and no guard reads them.

Left out: formatting and parsing of jobs (a worker parses into a JSON `Value`, which
what `send` wrote always is) and Redis connections (a failed connection is an
abandoned request). The operations that only read are in `QueueStats`: KEYS, KEYS,
LLEN and ZCARD are one action each, with the whole of `JobQueue` between them, and a
count is represented by what it counts: the list as LLEN finds it, where a job that a retry
has pushed twice is two elements, and the members of the sorted set.

### Delivery and Turns

`Delivery` says what becomes of the copies of a job: each attempt of a send stores at
most one, each copy goes to one worker or to a request that nobody waits for, and a
worker runs what it was handed once. It has no clock, no order and no scripts.
`JobQueue` implements it under the mapping `D`: `stored` is the number of copies in
list and sorted set, `pending` the pushes that Redis may still run, `strays` the
abandoned dequeue requests. `Turns` has a counter that designates one consumer at a
time and moves only when that consumer takes a job; positions are final once a
consumer has one. `JobQueue` implements it with constant positions (`T`), and
`MultiConsumer` with the positions that registrations produce: there `info` is that of
`ConsumerRegistry` for the processes that have ever served, and no position for the
others, so the mapping also says that a position does not change under a worker.

### ConsumerRegistry

Time is counted in ticks, and what falls into one tick happens in any order. A tick takes one
from every sleep and every TTL and waits for no task: a task whose sleep is over, or which
awaits Redis, may go on in this tick or in any later one. So a connection (30 s for each of 20
retries, with up to a minute between them), a command (20 s until it fails), and the sleeps
between retries take as long as they take, and a sleep is a lower bound. Whether a command or its
answer is slow makes no difference: a late answer is the next command sent late. A registration is
`Start`, `Hset`, `Expire`, then several `Read`s, each a `get_consumer_position`
with the rule of the code for larger totals; `RegisterError` retries the pair of
commands or gives up, `ReadError` gives up (reads are not retried), and giving up
means single-consumer mode. The heartbeat connects (`Connect`, or `ConnectError`,
which ends the task while the workers go on) and repeats `BeatHset`,
`BeatExpire` after each sleep; `BeatError` skips the rest of one heartbeat. A
failing command may have been executed or not, but a command that the client has given
up is not executed after that (in `JobQueue` it may be). Keys and their TTLs follow the
semantics of HSET, EXPIRE and expiry: EXPIRE finds no key when the one that HSET met has
expired in the meantime, and then a registration or a heartbeat succeeds without a key.
There is one clock for Redis and all processes. A crashed process stays dead; a restart has
a new id and is another element of `Processes`. Processes are numbers in the order
of their keys, which is not the order they start in. `members`, `age`, `spread` and
`shrunk` are the history of the group: who has registered since there were no keys,
over what time, and whether a key has expired since or has come back: a heartbeat that
is late enough to find its key expired creates it again (`Disturb`). `late` says by how
much the next renewal of a key is later than one heartbeat after the last: the reads of the
registration, the heartbeats that failed or found no key, and the ticks in which the task has
waited for Redis.

### MultiConsumer

The registry runs as it is (`Register`), and the queue is reduced to a number of jobs
and the counter: `TakeInTurn` for a process with a position, `TakeFreely` for one
whose registration failed. The positions come from the registry, so here the turns
meet groups that are incomplete, that grow, that have a dead member, or that come
after an earlier group and inherit its counter.

### ConnectionSupervisor

One action per step between two awaits of `supervision_loop`, with the local
`current_state` apart from the shared state, and `attempt_reconnect` attempt by
attempt. `wait_ready` is `Check` (read the state, drop the lock), `Block` (start to
wait on the `Notify`), and a wakeup that returns to the check. `Notify` wakes
whoever is blocked at that moment and leaves no permit behind, as `notify_waiters`
does. Sleeps are states that are left at any time.

### Metrics and Pool

tokio's `RwLock` is fair: requests are served in the order in which they came,
readers included. `Metrics` is the queue of those requests (`waiting`) and the entry
of one queue of jobs. A section of the code that has no await between taking and
dropping its guard is one step, taken when its request is first and the lock allows
it. Only `health_check_all` awaits under its guard, so it has two steps and is in
`guards` between them. `Pool` extends the supervisor: a caller waits in
`get_connection` (`GetConnection`, `Check`, `Block`), comes back with a connection or
an error (`Connected`), and asks for the lock to record it; an error is recorded by
two sections. `Open` is `with_config`, which registers the queue; a second pool of the
same queue replaces the entry. `AskHealth` is any of the calls that read.

### PubSub

Redis keeps no messages: `Run` gives a message to the subscriber's connection if that
is open and subscribed to the channel at this moment. `stream` is what has been sent on
the connection and not been handled; when the connection is lost an unknown suffix of it
is lost too, and the client handles the rest before it sees the end. The task is
`Connect` (with retries, `ConnectError`), `Subscribe` for one channel after the other,
`Listen`, then `Handle` for each message, and `Drop` and `Wake` around the sleep of
5 s. A publish fails before or after Redis has run it, or leaves a request that runs
later (`LatePublish`). `log`, `handled` and `due` are history.

### CircuitBreaker and Retry

A breaker is thread-local and none of its methods awaits, so its methods never
overlap and its `try_read`/`try_write` never fail: each is one step, a function
from breaker to breaker. `Retry` has a breaker per thread, created when the first
call starts there, and tasks that may resume on any thread after an operation or
a backoff, where they find another breaker, or none (then nothing is recorded or
refused). `Begin`/`Again` ask the breaker and start the operation; `Succeed`,
`Fail` and `Reject` (an error that is not retryable) end it. Operations that
overlap an outage may fail or succeed. The counter of failures stops at its threshold and the elapsed time at
the timeout: nothing distinguishes larger values (the u32 counter of the code
would wrap after 2^32 failures on one thread, which is not modelled).

## 3. Runs

| Run | Question | Instance | Result |
|---|---|---|---|
| `queue_faults` | Do order, ETAs, accounting and shares survive lost replies, late requests and crashes, and does the queue implement `Delivery` and `Turns`? | 2 jobs with ETAs in two different seconds or none, 2 workers in 2 processes with ids 0 and 1 of 2, 2 attempts, 1 fault, 1 crash or panic | holds |
| `queue_group` | Is every job settled beside a group that has lost a member, and do statistics see the jobs that wait? | 2 jobs, a process of a group whose other process is gone, a process without turns, 2 crashes or panics, one call of `get_all_queue_stats` | holds |
| `registry` | Do positions agree, and what does it take to lose a key? | 3 processes, 1 failed command, 1 crash, 1 tick of waiting for Redis | holds |
| `group` | Do the positions of real registrations give fair turns, does the queue drain, and do lost keys come back? | 2 processes, 3 jobs, 1 failed command, 1 crash, 1 tick of waiting | holds |
| `supervisor` | Does the state recover, are blocked callers woken, do the metrics count every call and serve everyone? | 2 callers that each open a pool, 2 calls, 1 health check of either kind, 1 outage | holds |
| `retry` | Do breakers open, close and recover as intended when tasks migrate? | 2 tasks, 2 threads, unlimited outages | holds |
| `pubsub` | Are messages in order and once, does a listener get all, does it listen again? | 2 messages on 2 channels, one that does not decode, 2 attempts, 2 outages, 1 fault, 1 panic | holds |
| `group_crash` | Are jobs redistributed after a crash? (`README.md:164`) | 2 consumers, 1 crash | violated |
| `registry_startup` | Do added instances rebalance? (`MULTI_CONSUMER_FLOW.md:662`) | 3 processes, no fault | violated |
| `registry_ghost` | Does the key of a crashed process expire? (`IMPLEMENTATION_COMPLETE.md:336`) | 2 processes, 1 crash | violated |
| `supervisor_wakeup` | Does a reconnection notify every waiting caller? (`README.md:411`) | 1 caller, 1 outage | violated |
| `metrics_deadlock` | Does a health check of all queues return? (`src/metrics.rs:232`) | 1 caller, 1 checker, no outage | violated |

The properties:

- `JobQueue`. `AcceptedAccounted`: a job whose send Redis answered is stored or was
  handed out. `OncePerAttempt`: a handler runs at most once per attempt of the
  send. `NotASecondEarly`, `EarliestEtaFirst`, `Fifo`: order and time, stated for
  jobs accepted before another send began, so that they speak about what a
  producer can rely on. `LossBounded`: lost jobs are paid for one by one by
  abandoned requests and dead workers. `TakenWithinTwo`: the shares of a group
  differ by two at most, one more than the turns alone would give because the
  first job is open to everyone (`MULTI_CONSUMER_FLOW.md:760` speaks of one).
  `StalledForGood`: when the turn is one that nobody alive and no request under way has, no
  job leaves the queue any more.
  `SettledUnlessStalled`: accepted jobs are finished or lost in the end, unless the
  turn is a dead process's and no worker without turns is left. `ImplementsDelivery`
  and `ImplementsTurns` are the refinements.
- `QueueStats`. `SteadyJobsCounted`: a job that waits during the whole call is counted
  in a listed queue, and none is counted under both keys, because no job ever moves from the
  sorted set to the list. (A job that is in the list twice counts twice, as in the code. A queue
  that is never empty may still be missed by `list_all`, when its last scheduled job leaves and a regular one arrives between the
  two KEYS: that is why the property speaks of a job and not of the queue.)
- `ConsumerRegistry`. `StartedTogetherAgree`: processes that register within the
  duration of one registration agree on the total and share no slot, in a later
  group too. `EqualTotalsDistinctIds`: those who count the same total never share a
  slot, however far apart they start. Both say nothing once a key has expired or come back.
  `LiveKeyKept`: a process loses its key only when its renewal is late by 20 s, the TTL less
  one heartbeat. One failed heartbeat is late by 10 s, so it does not lose the key unless
  Redis also takes its time. `KeysComeBack`: a process that lives gets its key again, unless its
  heartbeat could not connect (checked in `group`).
- `MultiConsumer`. `StartedTogetherShareFairly`: a group that starts together shares
  within two jobs from the first job on, also while members are still registering.
  `ImplementsTurns`. `DrainedInTheEnd`: the queue drains while someone has the turn for
  good, also with what an earlier group has left in the counter, which here is one process that
  was alone and has died.
- `ConnectionSupervisor` and `Pool`. `ConnectedInTheEnd`, `BlockedAreWoken`.
  `EveryCallCounted`: counters, calls in flight and calls forgotten by a second pool add
  up to the calls made. `ErrorsMatchFailures`: the error list has an error for every
  failure up to its limit, but for callers between the two sections.
  `MetricsServed`: every request for the lock is served whatever Redis does, unless a
  `health_check_all` has locked itself out. `FirstIsServed`: nothing else keeps the lock from
  its first request. `StuckForGood`: nobody gets out of that.
- `PubSub`. `InOrderOncePerAttempt`, `ListenerGetsAll`, `ListensInTheEnd`. `NothingMissed`: while
  a connection holds, what was published since the subscriber listens has been handled or is on
  the connection.
- `Retry`. `OpensAfterStreak`, `ClosesAfterTrials`, `RefusalsEnd`.

What the violated runs show:

- `group_crash`: consumer B dies while the counter designates it; A asks for ever
  and gets nothing, since the total is never computed again.
- `registry_startup`: of three processes the first freezes (0, 3), (1, 2), (2, 3)
  or the like, and the counter reaches a value that is nobody's turn, 4 in the
  trace: the queue stops without any failure.
- `registry_ghost`: the process dies between HSET and EXPIRE; the key stays.
- `supervisor_wakeup`: the state becomes Connected between the check and the wait.
  The caller sleeps until the next outage and recovery.
- `metrics_deadlock`: `health_check_all` holds a read guard, a record asks for the write
  lock, and `health_check` asks for a second read guard behind it. From then on every
  task that uses the metrics waits, `get_connection` included. This concerns users who share a
  `MetricsRegistry` with a `RedisPool`: the worker loops have a registry of their own, which
  nobody can check beside them because `run(self)` consumes it.

### Bounds

`MaxFaults`, `MaxCrashes`, `MaxOutages` and `MaxTime` bound how often the
environment acts; `Retry` needs none. Each property of `queue_faults` concerns two
jobs at most (order) or counts one fault against one job, so two jobs, one fault
and one crash exercise every action, including late pushes after a
retry and late pops after a crash; times 0 to 2 with two ticks to the second give
ETAs at the end of one second and the start of the next; two jobs and a duplicate
make three removals, enough for a share to be three ahead if turns are wrong. In
`queue_group` the third process of the story is dead from the start, which is one of
the moments it may die, and saves its states; the ETA 0 makes scheduled jobs that are
ready at once. In `group` three jobs take the counter once around a group of two and
on. In `supervisor` one error is kept instead of 100, so two failures reach the limit,
and `MaxCalls` and `MaxChecks` bound the calls; one call of each kind suffices for the
lock-out. In `pubsub` two outages and a fault lose the connection up to three times.
Three processes are the fewest for which totals 2 and 3 coexist with a
slot nobody serves. In `registry_startup` and `registry_ghost` a tick
is 2.5 s: 3 ticks of registration (7.5 s with the sleeps of `get_consumer_position`, merged
into three), 4 between heartbeats, 12 of TTL. `registry` and `group` make do with 5 s: the
registration is rounded up to 2 ticks, then 2 between heartbeats and 6 of TTL. `MaxWaits`
bounds the ticks in which some task waits for Redis; there is one in `registry` and `group`.
Registration, a failed heartbeat and one such tick are late by 5 ticks, more than the 4 of
`LiveKeyKept`, so a key expires and comes back; longer waits, and any timing, are left to the
proof of `LiveKeysAreKept`. Two attempts instead of 3, 5,
10 or 20 keep the difference between a retry and the last attempt, and one
failure before the backoff instead of three keeps both kinds of recovery.

### Fairness and deadlock

Liveness assumes what the runtime and Redis give: time passes, a sleeping task
wakes up, an awaited request is answered or times out, a handler returns, a ready
task is polled. It is weak fairness throughout, of one action or of the consecutive
steps of one task: once such a step is enabled it stays so until it happens. That a
listener whose connection has silently died comes back (`ListensInTheEnd`) assumes that the
operating system reports the connection broken in the end; `pubsub.rs:141` waits for messages with
no timeout and no keepalive of its own. No fairness is assumed of
faults, crashes, outages, producers that decide to send, processes that decide to
start, or abandoned requests. In `Retry` tasks call again and again, as the worker loops
do; the properties of `ConnectionSupervisor` and `ListensInTheEnd` are conditional on Redis
staying up. The lock of `Metrics` is given to the request it is due to, which is what
tokio does. Deadlock is checked except for `JobQueue`, where with bounded time and all
jobs given a system whose workers have all died really stops, and for `PubSub`, where
a subscriber that listens has nothing to do once all messages are published.

## 4. Proofs

TLAPS checks all of `JobQueueProofs`, `TurnsProofs`, `DeliveryProofs`,
`JobQueueRefinement`, `MultiConsumerProofs`, `RetryProofs`, `PubSubProofs` and
`PoolProofs`. Nothing in them is assumed beyond the named assumptions on the constants
in the specifications, which TLC evaluates in every run. Every safety property that a
run finds to hold is a theorem, and so are the three refinements. Two assumptions say
more than what a constant is: workers are a finite set (`WorkersAssumption`; a process
spawns as many as it has registered), and so are consumer processes
(`ProcessesAssumption`). The delays of the registry are any positive numbers.

`JobQueueProofs`, for any set of jobs, workers, consumers and infos, and any
bounds:

- `TypeCorrect` (`TypeOK`), inductive as it stands: facts about RPUSH, LPOP and
  the scripts, then one step per action.
- `AcceptedStaysAccounted` (`AcceptedAccounted`), `RegularJobsFifo` (`Fifo`),
  `ScheduledNotASecondEarly` (`NotASecondEarly`), `ScheduledByEta`
  (`EarliestEtaFirst`). They are proved together by one inductive invariant,
  because each alone says nothing of the jobs still queued. Its additional parts:
  a job not yet begun is nowhere (`UnknownBeforeBegin`); the jobs of list and zset
  are of their kind (`Sorted`); no request, waiting or abandoned, carries a time
  in the future (`RequestsFromThePast`); whatever was accepted before `send(j)` began
  was accepted and stays so (`BeforeAccepted`); and an accepted regular job that
  is still queued stands, by its first copy, ahead of every copy of a job sent
  after it (`ListFifo`), which is what survives late duplicates.
- `HopelessStaysHopeless` (`StalledForGood`): the counter moves only with a job, a job leaves only
  by a request that has the turn, and requests come only from workers alive. It shows what
  `group_crash` shows on one instance: the queue of a group that has lost the member whose turn it is
  has stopped for good.

`TurnsProofs`, for any consumers, group size and order of joining: `EvenShares`
(`FairShares`). The shares alone are not inductive, since a step says nothing of how
often the others have had their turn. The invariant `SharesInv` says it: after
`counter` turns of a group of n, slot i has been served `Served(counter, i, n)` times,
whole rounds plus one if the turn has passed it in this round, less one for slot 0,
whose first turn is open to everyone; each member has taken the jobs of its slot
(`Level`), and one job more at most; and a slot nobody has joined is not served, so
who joins late with nothing taken is level. The proof rests on division with remainder being
unique (`OneDivision`), which gives the step from one turn to the next.

`DeliveryProofs`: `RunOncePerAttempt`. The runs alone are not inductive; the invariant
`Accounted` adds up where the attempts of a job have got to: those that Redis may still run,
the copies stored, the workers that have been handed one, and the runs are together no
more than the attempts.

`JobQueueRefinement`:

- `TurnsImplemented` (`ImplementsTurns`): each action of `JobQueue` is a turn or leaves the
  turns alone. `GroupTakesWithinTwo` (`TakenWithinTwo`) carries the invariant of
  `TurnsProofs` through the refinement.
- `DeliveryImplemented` (`ImplementsDelivery`): likewise each action is a step of `Delivery`
  or a stutter. The mapping counts copies in the list and abandoned requests, so the proof
  needs what RPUSH and LPOP do to the number of copies, and that a request is never
  abandoned twice: `StraysInv` says that an abandoned request is known by its worker
  and by the number of faults before it. `HandlersOncePerAttempt` (`OncePerAttempt`)
  carries the invariant of `DeliveryProofs` through.
- `LossIsBounded` (`LossBounded`): a request that is given up before Redis has run it loses its
  job only later, so the invariant `LossInv` counts the abandoned requests with the
  lost jobs from the moment they are given up.
- `SteadyJobsAreCounted` (`SteadyJobsCounted`): the invariant `StatsInv` relates what each of
  the four commands has seen to the jobs that have been in the queue since the call
  began; it rests on `Sorted`, because a job that changed from one key to the other could
  be missed or counted under both.

`MultiConsumerProofs`, for any finite set of processes and any number of reads, faults and
crashes:

- `RegistryTypeCorrect` (`TypeOK`). A position in range needs that the keys below one's
  own are fewer than all keys (`PositionInRange`).
- `LiveKeysAreKept` (`LiveKeyKept`). The property speaks of heartbeats, but what a key has left
  is decided during the reads of the registration already. The invariant `Timely` is a schedule: at each point
  of a registration or of a heartbeat the key lasts as long as the TTL exceeds what `late` and
  the sleep so far have used up (`Left`). Every tick takes one from both sides, from the sleep or,
  when the task waits for Redis, through `late`; a failed heartbeat takes a heartbeat from
  what is left; EXPIRE gives it back only if it finds the key.
- `StartupsAgree` (`StartedTogetherAgree`) and `SlotsOfATotalDiffer`
  (`EqualTotalsDistinctIds`) have the invariant `GroupInv` in common. While no key goes or
  comes back the keys are the members (`KeysAreMembers`). A member still has a read due at least
  `Window` after the group began, and who has finished did so no earlier
  (`ReadsSpanWindow`), so that a group that has registered within a `Window` is complete at
  everybody's last read (`AllFound`). What two processes read are sets one of which
  contains the other (`GrowingSnapshots`), so equal totals are equal sets, in
  which two processes have two places (`PlacesDiffer`).
- `GroupTakesTurns` (`ImplementsTurns`) and `StartupsShareFairly`
  (`StartedTogetherShareFairly`): `GroupInv`, stated for all processes that have ever
  served, the dead included, makes a position final, and the invariant of `TurnsProofs` does the rest.

The proof of `StartedTogetherAgree` showed that the property was false as first stated, for two
failed commands or more: a process whose key has expired after late heartbeats creates it
again with the next, and the total others count then depends on whether they read before
or after. The registry does that, the run with one fault does not reach it, and
`shrunk` now records it, as it does an expiry.

`RetryProofs`, for any number of threads and tasks and any thresholds:

- `TypeCorrect` (`TypeOK`): breakers stay below their thresholds and an open one
  has a time, so it can expire.
- `BreakersOpenAfterStreak` (`OpensAfterStreak`) and `BreakersCloseAfterTrials`
  (`ClosesAfterTrials`), from the invariant that relates the counters of each breaker to the
  history (`Counted`: failures of a closed breaker at most the streak, successes
  of a half-open one at most the trials). Each method of the breaker has a lemma;
  `OneThread` lifts it to all threads.

`PubSubProofs`, for any messages, channels and number of faults: `PubSubTypeCorrect`
(`TypeOK`) and `CallbackInOrderOncePerAttempt` (`InOrderOncePerAttempt`). The second is not
inductive: it speaks of the concatenation of what was handled and what is on the connection.
`OrderInv` says that both increase, that all that was handled comes before all that is on the
connection (`HandledBefore`), also when that is new, and that the places of a message in
the log and the requests that may still run are no more than the attempts
(`PublishedOncePerAttempt`). `ListenerMissesNothing` (`NothingMissed`) is the safety half of
`ListenerGetsAll`. It needs `Subscribed`: an open connection carries the channels that are not still
to be subscribed to, and a subscriber that listens has none of those.

`PoolProofs`, for any number of callers, pools and checks: `SupervisorTypeCorrect`,
`PoolTypeCorrect` (`PoolTypeOK`), `CallsAreCounted` (`EveryCallCounted`) and
`ErrorsAreTheFailures` (`ErrorsMatchFailures`), from the invariant `CallsInv`. A call is
counted because its queue is known once a pool was opened (`KnownFromOpening`), because only
callers record (`RecordersAreCallers`), and because a caller either waits for its connection or
has one record due (`OneThingAtATime`); the callers between the two sections of a failure are
no more than the failures counted, until a second pool of the queue resets the counters.
Lemmas about the queue of the lock say what joining and serving do to who has asked for what.
`FirstIsAlwaysServed` (`FirstIsServed`), from the invariant that a guard kept across an await has its
second request in the queue (`GuardsAsk`), and `LockedOutForGood` (`StuckForGood`) together say
that the lock-out of `metrics_deadlock` is the only one, and final.

Only model-checked: what is about liveness (`SettledUnlessStalled`,
`DrainedInTheEnd`, `KeysComeBack`, `ConnectedInTheEnd`, `BlockedAreWoken`, `MetricsServed`,
`ListenerGetsAll`, `ListensInTheEnd`, `RefusalsEnd`), which is out of the prover's
reach, and the violated properties. `StalledForGood`, `FirstIsServed`, `StuckForGood`, `NothingMissed` and `LiveKeyKept` are
what can be proved of five of these: what the liveness property excepts is final, or what it
promises is on its way.

## 5. Not modelled, and the plan

Not modelled: `update_job_counts`, which nothing in the crate calls; latencies and the
arithmetic of the health status; the join of `run`, which returns an error as soon as the first
worker task in its order has panicked, while the others go on without it, and which does not
notice a panic of a later task while an earlier one lives (here a panic ends one worker, and a
caller that ends the process because of an error is a `Crash`); a registry of metrics with several queues (`health_check_all`
locks itself out with one). Examples, builders and wording are left out for good. The
breaker used by several threads at once (it is public and built from locks and
atomics) is left out because the crate never does that.

Observed and not a run of their own:

- A worker that dies after the script has removed its job loses the job, since nothing
  acknowledges it; `MULTI_CONSUMER_DESIGN.md:50` says "jobs not lost". `LossBounded`
  says how many.
- A success that was in flight when a breaker opened resets `failure_count`, after which
  a failed trial does not reopen it.
- Workers do not wait for the supervisor (`CONNECTION_SUPERVISION.md:96` says they do).
- A scheduled job may be passed over by a regular one when `current_time` is old.
- `available` is never set, so `health_check` reports every queue as Unhealthy;
  `MONITORING.md:103` describes Healthy ones. `MONITORING.md:280` calls the registry
  while it runs, which `run(self)` does not allow.
- Messages published while a subscriber reconnects are lost;
  `PUBSUB_AUTORECONNECT.md:199` says that none are.
- A process that restarts before the key of its predecessor expires counts that key.
- A heartbeat that fails after the 20 s of `response_timeout_secs` has used up, with the 10 s of
  sleep, the TTL of 30 s, and connecting may take longer than the TTL without any failure: the key
  of a living process can be gone after one failed heartbeat, or none. `LiveKeyKept` says when
  it cannot.
- A heartbeat whose EXPIRE finds no key logs success. So does a registration: its process then
  reads no key of its own and takes itself for the only consumer.

Next, in this order:

1. The safety half of `BlockedAreWoken`: a caller that is blocked while the state is Connected has
   its notification still to come, or lost it between the check and the wait.
2. A sharper `FairShares`, slot by slot, which `SharesInv` already implies.
3. `SettledUnlessStalled` and `DrainedInTheEnd` have no safety half yet: an accepted job that is not
   lost is always within reach of a worker whose turn can come.
