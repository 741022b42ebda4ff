-------------------------------- MODULE Pool --------------------------------
(***************************************************************************)
(* RedisPool (src/src/pool.rs) and what it is made of: the supervisor of a *)
(* queue, whose connections get_connection hands out, and the registry of  *)
(* metrics, in which it records each of them, beside tasks that check the  *)
(* health of the queue.                                                    *)
(***************************************************************************)
EXTENDS ConnectionSupervisor, Sequences, FiniteSets

CONSTANTS
    Openers,    \* tasks that create a pool for the queue
    Checkers,   \* tasks that call health_check or health_check_all
    MaxErrors,  \* errors the registry keeps
    MaxCalls,   \* bound: calls of get_connection
    MaxChecks   \* bound: calls of the health checks

Tasks == Waiters \cup Openers \cup Checkers

ASSUME PoolAssumption ==
    MaxErrors \in Nat \ {0} /\ MaxCalls \in Nat /\ MaxChecks \in Nat

VARIABLES
    waiting, guards, entry,  \* the metrics
    opened,     \* tasks that have created their pool or are at it
    calls,      \* calls of get_connection so far
    checks,     \* calls of the health checks so far
    forgotten   \* history: calls whose record a later pool has replaced

M == INSTANCE Metrics

metrics == <<waiting, guards, entry>>
counts == <<opened, calls, checks, forgotten>>
poolVars == <<vars, metrics, counts>>

PoolInit ==
    /\ Init /\ M!MetricsInit
    /\ opened = {} /\ calls = 0 /\ checks = 0 /\ forgotten = 0

\* A task does one thing at a time.
Idle(t) == ~M!Busy(t) /\ (t \in Waiters => waiter[t] = "idle")

-----------------------------------------------------------------------------
(* The supervisor runs on its own.                                         *)
Connection ==
    /\ GoDown \/ GoUp \/ Supervise \/ \E w \in Waiters : Check(w) \/ Block(w)
    /\ UNCHANGED <<metrics, counts>>

\* with_config: the supervisor is started and the queue registered.
Open(o) ==
    /\ o \notin opened /\ Idle(o)
    /\ opened' = opened \cup {o}
    /\ waiting' = M!Ask(o, "register")
    /\ UNCHANGED <<vars, guards, entry, calls, checks, forgotten>>

\* get_connection of a pool that with_config has returned.
GetConnection(w) ==
    /\ \E o \in opened : ~M!Busy(o)
    /\ Idle(w)
    /\ calls < MaxCalls
    /\ calls' = calls + 1
    /\ Call(w)
    /\ UNCHANGED <<metrics, opened, checks, forgotten>>

\* Mutant: an error is returned before anything is recorded.
ConnectedOrReturn(w) ==
    /\ Return(w)
    /\ waiting' = IF up THEN M!Ask(w, "success") ELSE waiting
    /\ UNCHANGED <<guards, entry, counts>>

\* wait_ready has returned, and the connection is established or, after the
\* retries of its manager, is not.
Connected(w) ==
    /\ Return(w)
    /\ waiting' = M!Ask(w, IF up THEN "success" ELSE "failure")
    /\ UNCHANGED <<guards, entry, counts>>

AskHealth(t, op) ==
    /\ Idle(t)
    /\ checks < MaxChecks
    /\ checks' = checks + 1
    /\ waiting' = M!Ask(t, op)
    /\ UNCHANGED <<vars, guards, entry, opened, calls, forgotten>>

\* Mutant: the guard is held while Redis is asked.
SectionWhileUp(t) ==
    /\ up
    /\ M!Section(t)
    /\ forgotten' = IF M!Granted(t, "register")
                    THEN forgotten + entry.ok + entry.failed ELSE forgotten
    /\ UNCHANGED <<vars, opened, calls, checks>>

Section(t) ==
    /\ M!Section(t)
    /\ forgotten' = IF M!Granted(t, "register")
                    THEN forgotten + entry.ok + entry.failed ELSE forgotten
    /\ UNCHANGED <<vars, opened, calls, checks>>

PoolNext ==
    \/ Connection
    \/ \E o \in Openers : Open(o)
    \/ \E w \in Waiters : GetConnection(w) \/ Connected(w)
    \/ \E c \in Checkers : AskHealth(c, "check") \/ AskHealth(c, "all")
    \/ \E t \in Tasks : Section(t)

\* The supervisor's fairness, and the lock is given to the task it is due to.
PoolSpec ==
    /\ PoolInit /\ [][PoolNext]_poolVars
    /\ WF_poolVars(Supervise /\ Connection)
    /\ \A w \in Waiters : WF_poolVars((Check(w) \/ Block(w)) /\ Connection)
                          /\ WF_poolVars(Connected(w))
    /\ \A t \in Tasks : WF_poolVars(Section(t))

-----------------------------------------------------------------------------
(* Properties.                                                             *)

Asks(t, op) == \E i \in DOMAIN waiting : waiting[i] = [task |-> t, op |-> op]

\* Calls of get_connection that record_operation has not reached.
Uncounted ==
    {w \in Waiters : waiter[w] # "idle" \/ Asks(w, "success") \/ Asks(w, "failure")}

\* Calls between record_operation and record_error.
BetweenRecords == {w \in Waiters : Asks(w, "error")}

\* Every variable of the composition has its type, and a task waits for one
\* lock at a time.
PoolTypeOK ==
    /\ TypeOK /\ M!MetricsTypeOK
    /\ opened \subseteq Openers
    /\ calls \in 0..MaxCalls /\ checks \in 0..MaxChecks /\ forgotten \in Nat
    /\ \A i, j \in DOMAIN waiting :
          i # j => waiting[i].task # waiting[j].task

\* No call of get_connection gets past the counters, neither before its queue is
\* known nor while another pool of the same queue resets them (pool.rs
\* with_config and get_connection, metrics.rs register_queue).
EveryCallCounted ==
    calls = entry.ok + entry.failed + forgotten + Cardinality(Uncounted)

\* The errors kept are those of the failures counted, up to the limit and to
\* the calls between the two sections in which get_connection records a failure.
ErrorsMatchFailures ==
    LET logged == entry.failed - Cardinality(BetweenRecords) IN
    forgotten = 0 =>
        Len(entry.errors) = IF logged < MaxErrors THEN logged ELSE MaxErrors

\* A health_check_all waits for a read behind a writer that waits for its guard.
Stuck ==
    \E i, j \in DOMAIN waiting :
        i < j /\ waiting[i].op \in M!Writes /\ waiting[j].task \in guards

\* Nothing else keeps the lock from its first request, whichever tasks record,
\* register and read in whichever order (metrics.rs).
FirstIsServed ==
    waiting # <<>> /\ Head(waiting).op \in M!Writes /\ guards # {} => Stuck

\* And nobody gets out of it: neither a return of Redis nor any call of another
\* task frees a lock on which a health_check_all has locked itself out
\* (metrics.rs health_check_all).
StuckForGood == [][Stuck => Stuck']_poolVars

\* Whatever Redis does, whoever waits for the metrics is served, unless a
\* health_check_all has locked itself out (the sections of metrics.rs have no
\* await in them, and pool.rs asks for the lock after the connection).
MetricsServed ==
    \A t \in Tasks : M!Busy(t) ~> ~M!Busy(t) \/ Stuck

-----------------------------------------------------------------------------
(* What the documentation says and the code does not do.                   *)

\* src/src/metrics.rs: health_check_all returns the health of all queues.
ChecksReturn ==
    \A c \in Checkers : M!Busy(c) ~> ~M!Busy(c)

=============================================================================
