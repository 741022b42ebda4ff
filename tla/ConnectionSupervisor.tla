------------------------ MODULE ConnectionSupervisor ------------------------
(***************************************************************************)
(* The connection supervisor of one queue                                  *)
(* (src/src/connection_supervisor.rs): one task pings Redis and keeps a    *)
(* shared state; callers of wait_ready block on a tokio Notify until that  *)
(* state is Connected.  Time is left out: a sleep is a state a task leaves *)
(* at any moment.                                                          *)
(***************************************************************************)
EXTENDS Integers

CONSTANTS
    Waiters,       \* tasks that call wait_ready
    MaxAttempts,   \* max_attempts of attempt_reconnect
    BackoffAfter,  \* consecutive failures that are not followed by a backoff
    MaxOutages     \* bound: how often Redis goes down

ASSUME SupervisorAssumption ==
    MaxAttempts \in Nat \ {0} /\ BackoffAfter \in Nat /\ MaxOutages \in Nat

VARIABLES
    up,        \* Redis answers
    outages,
    state,     \* the shared ConnectionState
    sup,       \* what the supervision loop is about to do
    current,   \* its local current_state
    failures,  \* its consecutive_failures, counted up to BackoffAfter + 1
    attempt,   \* attempt number of attempt_reconnect
    waiter     \* what each caller of wait_ready is about to do

redis == <<up, outages>>
loop == <<sup, current, failures, attempt>>
vars == <<redis, state, loop, waiter>>

Init ==
    /\ up \in BOOLEAN /\ outages = 0
    /\ state = "Disconnected"
    /\ sup = "read" /\ current = "Disconnected" /\ failures = 0 /\ attempt = 1
    /\ waiter = [w \in Waiters |-> "idle"]

-----------------------------------------------------------------------------
(* Redis.                                                                  *)

GoDown ==
    /\ up /\ outages < MaxOutages
    /\ up' = FALSE
    /\ outages' = outages + 1
    /\ UNCHANGED <<state, loop, waiter>>

GoUp ==
    /\ ~up
    /\ up' = TRUE
    /\ UNCHANGED <<outages, state, loop, waiter>>

-----------------------------------------------------------------------------
(* supervision_loop.                                                       *)

ReadState ==
    /\ sup = "read"
    /\ current' = state
    /\ sup' = "ping"
    /\ UNCHANGED <<redis, state, failures, attempt, waiter>>

\* Mutant: the comparison with the last state is inverted.
PingOkInverted ==
    /\ sup = "ping" /\ up
    /\ sup' = IF current = "Connected" THEN "connect" ELSE "sleep"
    /\ failures' = IF current = "Connected" THEN failures ELSE 0
    /\ UNCHANGED <<redis, state, current, attempt, waiter>>

PingOk ==
    /\ sup = "ping" /\ up
    /\ sup' = IF current # "Connected" THEN "connect" ELSE "sleep"
    /\ failures' = IF current # "Connected" THEN failures ELSE 0
    /\ UNCHANGED <<redis, state, current, attempt, waiter>>

\* From the fourth failure in a row on, a sleep precedes the reconnection.
Recover(n) == IF n > BackoffAfter THEN "backoff" ELSE "reconnect"

PingFail ==
    /\ sup = "ping" /\ ~up
    /\ failures' = IF failures > BackoffAfter THEN failures ELSE failures + 1
    /\ sup' = IF current # "Disconnected" THEN "disconnect" ELSE Recover(failures')
    /\ attempt' = 1
    /\ UNCHANGED <<redis, state, current, waiter>>

SetDisconnected ==
    /\ sup = "disconnect"
    /\ state' = "Disconnected"
    /\ sup' = Recover(failures)
    /\ UNCHANGED <<redis, current, failures, attempt, waiter>>

Backoff ==
    /\ sup = "backoff"
    /\ sup' = "reconnect"
    /\ UNCHANGED <<redis, state, current, failures, attempt, waiter>>

ReconnectOk ==
    /\ sup = "reconnect" /\ up
    /\ sup' = "connect"
    /\ UNCHANGED <<redis, state, current, failures, attempt, waiter>>

\* Mutant: one attempt too many.
ReconnectFailOnceMore ==
    /\ sup = "reconnect" /\ ~up
    /\ IF attempt <= MaxAttempts
       THEN attempt' = attempt + 1 /\ UNCHANGED sup
       ELSE sup' = "sleep" /\ UNCHANGED attempt
    /\ UNCHANGED <<redis, state, current, failures, waiter>>

ReconnectFail ==
    /\ sup = "reconnect" /\ ~up
    /\ IF attempt < MaxAttempts
       THEN attempt' = attempt + 1 /\ UNCHANGED sup
       ELSE sup' = "sleep" /\ UNCHANGED attempt
    /\ UNCHANGED <<redis, state, current, failures, waiter>>

SetConnected ==
    /\ sup = "connect"
    /\ state' = "Connected"
    /\ sup' = "notify"
    /\ UNCHANGED <<redis, current, failures, attempt, waiter>>

\* Mutant: notify_one instead of notify_waiters.
NotifyOne ==
    /\ sup = "notify"
    /\ \/ /\ \A w \in Waiters : waiter[w] # "blocked"
          /\ UNCHANGED waiter
       \/ \E w \in Waiters :
             /\ waiter[w] = "blocked"
             /\ waiter' = [waiter EXCEPT ![w] = "check"]
    /\ failures' = 0
    /\ sup' = "sleep"
    /\ UNCHANGED <<redis, state, current, attempt>>

\* notify_waiters wakes the tasks that wait at this moment and stores nothing
\* for those that come later.
Notify ==
    /\ sup = "notify"
    /\ waiter' = [w \in Waiters |->
          IF waiter[w] = "blocked" THEN "check" ELSE waiter[w]]
    /\ failures' = 0
    /\ sup' = "sleep"
    /\ UNCHANGED <<redis, state, current, attempt>>

Sleep ==
    /\ sup = "sleep"
    /\ sup' = "read"
    /\ UNCHANGED <<redis, state, current, failures, attempt, waiter>>

Supervise ==
    \/ ReadState \/ PingOk \/ PingFail \/ SetDisconnected \/ Backoff
    \/ ReconnectOk \/ ReconnectFail \/ SetConnected \/ Notify \/ Sleep

-----------------------------------------------------------------------------
(* wait_ready and get_connection.                                          *)

Call(w) ==
    /\ waiter[w] = "idle"
    /\ waiter' = [waiter EXCEPT ![w] = "check"]
    /\ UNCHANGED <<redis, state, loop>>

\* The state is read and its lock dropped ...
Check(w) ==
    /\ waiter[w] = "check"
    /\ waiter' = [waiter EXCEPT ![w] =
          IF state = "Connected" THEN "ready" ELSE "unlocked"]
    /\ UNCHANGED <<redis, state, loop>>

\* ... before notified() starts to wait.
Block(w) ==
    /\ waiter[w] = "unlocked"
    /\ waiter' = [waiter EXCEPT ![w] = "blocked"]
    /\ UNCHANGED <<redis, state, loop>>

\* wait_ready has returned and the caller goes on.
Return(w) ==
    /\ waiter[w] = "ready"
    /\ waiter' = [waiter EXCEPT ![w] = "idle"]
    /\ UNCHANGED <<redis, state, loop>>

-----------------------------------------------------------------------------
Next ==
    \/ GoDown \/ GoUp \/ Supervise
    \/ \E w \in Waiters : Call(w) \/ Check(w) \/ Block(w) \/ Return(w)

\* The runtime polls every ready task; nothing makes a caller call, and Redis
\* need not come back.
Spec ==
    /\ Init /\ [][Next]_vars
    /\ WF_vars(Supervise)
    /\ \A w \in Waiters : WF_vars(Check(w)) /\ WF_vars(Block(w)) /\ WF_vars(Return(w))

-----------------------------------------------------------------------------
(* Properties.                                                             *)

\* Every variable has its type; the loop is the only writer of the state, so
\* what it read is still true until it writes.
TypeOK ==
    /\ up \in BOOLEAN /\ outages \in 0..MaxOutages
    /\ state \in {"Connected", "Disconnected"}
    /\ sup \in {"read", "ping", "disconnect", "backoff", "reconnect", "connect",
                "notify", "sleep"}
    /\ current \in {"Connected", "Disconnected"}
    /\ sup \in {"ping", "disconnect"} => current = state
    /\ failures \in 0..(BackoffAfter + 1) /\ attempt \in 1..MaxAttempts
    /\ waiter \in [Waiters -> {"idle", "check", "unlocked", "blocked", "ready"}]

\* Once Redis stays up the state becomes Connected for good, whatever outages
\* came before (supervision_loop).
ConnectedInTheEnd == <>[]up => <>[](state = "Connected")

\* A task that waits while the state is Disconnected is woken by the next
\* connection (set the state, then notify_waiters).
BlockedAreWoken ==
    <>[]up => \A w \in Waiters :
        waiter[w] = "blocked" /\ state = "Disconnected" ~> waiter[w] # "blocked"

-----------------------------------------------------------------------------
(* What the documentation says and the code does not do.                   *)

\* src/README.md: a reconnection notifies all waiting workers.
CallersGetReady ==
    <>[]up => \A w \in Waiters : waiter[w] = "check" ~> waiter[w] = "ready"

=============================================================================
