------------------------------- MODULE Retry -------------------------------
(***************************************************************************)
(* retry_async (src/src/retry.rs) around the Redis operations of many      *)
(* tasks, each of which calls it again and again.  The breaker is a        *)
(* thread_local: a task that awaits an operation or sleeps may resume on   *)
(* another thread of the runtime, where it meets another breaker or none.  *)
(* Backoff delays are left out: a sleeping task resumes at any moment.     *)
(***************************************************************************)
EXTENDS CircuitBreaker

CONSTANTS
    Tasks,        \* tasks that call retry_async
    Threads,      \* threads of the runtime
    NoBreaker,    \* the thread has not started a call yet
    MaxAttempts   \* RetryConfig.max_attempts

ASSUME RetryAssumption ==
    MaxAttempts \in Nat \ {0} /\ NoBreaker \notin Breaker

VARIABLES
    healthy,  \* Redis answers everything that is started now
    shaky,    \* tasks whose operation overlaps a time when Redis did not
    breaker,  \* CIRCUIT_BREAKER of each thread
    pc,       \* each task is between calls, awaits the operation, or backs off
    attempt,  \* the attempt each call is at
    refused,  \* tasks whose last call ended because a breaker was open
    streak,   \* history: failures a thread recorded since its last success
    trials    \* history: successes it recorded since it was last half open

history == <<streak, trials>>
vars == <<healthy, shaky, breaker, pc, attempt, refused, history>>

Init ==
    /\ healthy \in BOOLEAN
    /\ shaky = {}
    /\ breaker = [t \in Threads |-> NoBreaker]
    /\ pc = [k \in Tasks |-> "idle"]
    /\ attempt = [k \in Tasks |-> 0]
    /\ refused = {}
    /\ streak = [t \in Threads |-> 0]
    /\ trials = [t \in Threads |-> 0]

-----------------------------------------------------------------------------
(* Redis and time.                                                         *)

GoDown ==
    /\ healthy /\ healthy' = FALSE
    /\ shaky' = {k \in Tasks : pc[k] = "await"}
    /\ UNCHANGED <<breaker, pc, attempt, refused, history>>

GoUp ==
    /\ ~healthy /\ healthy' = TRUE
    /\ UNCHANGED <<shaky, breaker, pc, attempt, refused, history>>

Tick ==
    /\ breaker' = [t \in Threads |->
          IF breaker[t] = NoBreaker THEN NoBreaker ELSE Aged(breaker[t])]
    /\ UNCHANGED <<healthy, shaky, pc, attempt, refused, history>>

-----------------------------------------------------------------------------
(* retry_async.                                                            *)

\* The call ends and its task is between calls.
End(k) ==
    /\ pc' = [pc EXCEPT ![k] = "idle"]
    /\ attempt' = [attempt EXCEPT ![k] = 0]

\* A thread without a breaker refuses nothing.
Refused(b) == b # NoBreaker /\ ~Allowed(b)

\* The loop reaches its next attempt on thread t with breaker b (or none there)
\* and starts the operation, unless the breaker refuses: that ends the call.
Try(k, t, b) ==
    /\ breaker' = [breaker EXCEPT ![t] = IF b = NoBreaker THEN b ELSE Asked(b)]
    /\ trials' = [trials EXCEPT ![t] = IF b # NoBreaker /\ Expired(b) THEN 0 ELSE @]
    /\ \/ /\ ~Refused(b)
          /\ pc' = [pc EXCEPT ![k] = "await"]
          /\ attempt' = [attempt EXCEPT ![k] = @ + 1]
          /\ shaky' = IF healthy THEN shaky ELSE shaky \cup {k}
          /\ refused' = refused \ {k}
       \/ /\ Refused(b)
          /\ End(k)
          /\ refused' = refused \cup {k}
          /\ UNCHANGED shaky
    /\ UNCHANGED <<healthy, streak>>

\* A call begins: its thread gets a breaker if it has none.
Begin(k, t) ==
    /\ pc[k] = "idle"
    /\ Try(k, t, IF breaker[t] = NoBreaker THEN New ELSE breaker[t])

\* The backoff is over; the task may wake up on any thread.
Again(k, t) ==
    /\ pc[k] = "backoff"
    /\ Try(k, t, breaker[t])

\* The operation of task k ends while t is the thread that runs the task.
Settle(k, t, b, n) ==
    /\ pc[k] = "await"
    /\ shaky' = shaky \ {k}
    /\ breaker' = [breaker EXCEPT ![t] = IF @ = NoBreaker THEN @ ELSE b]
    /\ streak' = [streak EXCEPT ![t] = IF breaker[t] = NoBreaker THEN @ ELSE n]
    /\ UNCHANGED <<healthy, refused>>

Succeed(k, t) ==
    /\ Settle(k, t, Succeeded(breaker[t]), 0)
    /\ trials' = [trials EXCEPT ![t] =
          IF breaker[t] # NoBreaker /\ breaker[t].state = "HalfOpen" THEN @ + 1 ELSE @]
    /\ End(k)

\* A connection error: recorded, and retried while attempts remain.
Fail(k, t) ==
    /\ k \in shaky
    /\ Settle(k, t, Failed(breaker[t]), OneMore(streak[t]))
    /\ \/ /\ attempt[k] < MaxAttempts
          /\ pc' = [pc EXCEPT ![k] = "backoff"]
          /\ UNCHANGED attempt
       \/ /\ attempt[k] = MaxAttempts
          /\ End(k)
    /\ UNCHANGED trials

\* Any other error is neither recorded nor retried.
Reject(k) ==
    /\ pc[k] = "await"
    /\ shaky' = shaky \ {k}
    /\ End(k)
    /\ UNCHANGED <<healthy, breaker, refused, history>>

-----------------------------------------------------------------------------
Next ==
    \/ GoDown \/ GoUp \/ Tick
    \/ \E k \in Tasks :
          \/ \E t \in Threads :
                Begin(k, t) \/ Again(k, t) \/ Succeed(k, t) \/ Fail(k, t)
          \/ Reject(k)

Spec == Init /\ [][Next]_vars

\* Time passes, a sleeping task wakes up, an operation ends (response timeout),
\* and the worker loops and heartbeats call again and again.
FairSpec ==
    /\ Spec
    /\ WF_vars(Tick)
    /\ \A k \in Tasks :
          /\ WF_vars(\E t \in Threads : Begin(k, t) \/ Again(k, t))
          /\ WF_vars(Reject(k) \/ \E t \in Threads : Succeed(k, t) \/ Fail(k, t))

-----------------------------------------------------------------------------
(* Properties.                                                             *)

State(t) == IF breaker[t] = NoBreaker THEN "None" ELSE breaker[t].state

ThreadsTypeOK ==
    /\ breaker \in [Threads -> Breaker \cup {NoBreaker}]
    /\ \A t \in Threads : breaker[t] = NoBreaker \/ Sound(breaker[t])
    /\ streak \in [Threads -> Nat] /\ trials \in [Threads -> Nat]

TasksTypeOK ==
    /\ healthy \in BOOLEAN
    /\ pc \in [Tasks -> {"idle", "await", "backoff"}]
    /\ attempt \in [Tasks -> 0..MaxAttempts]
    /\ \A k \in Tasks :
          /\ pc[k] = "idle" => attempt[k] = 0
          /\ pc[k] = "await" => attempt[k] > 0
          /\ pc[k] = "backoff" => attempt[k] < MaxAttempts
    /\ refused \subseteq {k \in Tasks : pc[k] = "idle"}
    /\ shaky \subseteq {k \in Tasks : pc[k] = "await"}
    /\ ~healthy => \A k \in Tasks : pc[k] = "await" => k \in shaky

\* Every variable has its type, every breaker is sound, and the tasks whose
\* operation may fail are those that started or waited during an outage.
TypeOK == ThreadsTypeOK /\ TasksTypeOK

\* A closed breaker opens only after FailureThreshold failures on its thread
\* with no success between them, whatever calls they belong to and however
\* often it was open before (circuit_breaker.rs try_record_failure).
OpensAfterStreak ==
    [][\A t \in Threads :
          State(t) = "Closed" /\ State(t)' = "Open"
          => streak'[t] >= FailureThreshold]_vars

\* A breaker closes again only after SuccessThreshold successes recorded since
\* it was last half open (circuit_breaker.rs try_record_success).
ClosesAfterTrials ==
    [][\A t \in Threads :
          State(t) = "HalfOpen" /\ State(t)' = "Closed"
          => trials'[t] >= SuccessThreshold]_vars

\* Once Redis answers for good, calls are refused no longer: no breaker stays
\* open on a thread that runs calls (try_is_request_allowed, the timeout).
RefusalsEnd == <>[]healthy => <>[](refused = {})

=============================================================================
