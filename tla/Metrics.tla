------------------------------- MODULE Metrics -------------------------------
(***************************************************************************)
(* MetricsRegistry (src/src/metrics.rs): the counters of one queue behind  *)
(* a tokio RwLock.  The lock serves its requests in their order, readers   *)
(* included, so a reader waits behind a writer that came before it.  A     *)
(* section without an await is one step, since the lock keeps the others   *)
(* out; only health_check_all keeps its guard across one.                  *)
(***************************************************************************)
EXTENDS Integers, Sequences

CONSTANTS
    Tasks,      \* tasks that use the registry
    MaxErrors   \* errors that are kept, 100 in the code

VARIABLES
    waiting,    \* requests for the lock, in order
    guards,     \* tasks that keep a read guard across an await
    entry       \* QueueMetrics of the queue

Writes == {"register", "success", "failure", "error"}
Reads == {"check", "all", "inner"}
Request == [task : Tasks, op : Writes \cup Reads]

\* QueueMetrics; known tells whether the map has an entry for the queue.
Fresh == [known |-> TRUE, ok |-> 0, failed |-> 0, errors |-> <<>>]

MetricsInit ==
    /\ waiting = <<>> /\ guards = {}
    /\ entry = [Fresh EXCEPT !.known = FALSE]

Busy(t) == t \in guards \/ \E i \in DOMAIN waiting : waiting[i].task = t

\* read().await or write().await.
Ask(t, op) == Append(waiting, [task |-> t, op |-> op])

\* The guard is given to the first request, to a writer once all others are back.
Granted(t, op) ==
    /\ waiting # <<>>
    /\ Head(waiting) = [task |-> t, op |-> op]
    /\ op \in Writes => guards = {}

\* t asks again as soon as it has left its section.
AskAgain(t, op) == Append(Tail(waiting), [task |-> t, op |-> op])

-----------------------------------------------------------------------------
(* insert replaces the entry that a pool of the same queue left.           *)
RegisterQueue(t) ==
    /\ Granted(t, "register")
    /\ entry' = Fresh
    /\ waiting' = Tail(waiting)
    /\ UNCHANGED guards

\* record_operation after a connection; an unknown queue is ignored.
RecordSuccess(t) ==
    /\ Granted(t, "success")
    /\ entry' = IF entry.known THEN [entry EXCEPT !.ok = @ + 1] ELSE entry
    /\ waiting' = Tail(waiting)
    /\ UNCHANGED guards

\* record_operation after an error, followed by record_error in a section of
\* its own.
RecordFailure(t) ==
    /\ Granted(t, "failure")
    /\ entry' = IF entry.known THEN [entry EXCEPT !.failed = @ + 1] ELSE entry
    /\ waiting' = AskAgain(t, "error")
    /\ UNCHANGED guards

\* Mutant: the oldest error goes when there are MaxErrors of them.
KeptOneLess(errors) == IF Len(errors) >= MaxErrors THEN Tail(errors) ELSE errors

\* Only the last errors are kept.
Kept(errors) == IF Len(errors) > MaxErrors THEN Tail(errors) ELSE errors

RecordError(t) ==
    /\ Granted(t, "error")
    /\ entry' = IF entry.known
                THEN [entry EXCEPT !.errors = Kept(Append(@, t))]
                ELSE entry
    /\ waiting' = Tail(waiting)
    /\ UNCHANGED guards

\* health_check, get_metrics, get_pool_status and get_all_metrics read once.
HealthCheck(t) ==
    /\ Granted(t, "check")
    /\ waiting' = Tail(waiting)
    /\ UNCHANGED <<guards, entry>>

\* health_check_all keeps its guard and calls health_check for each queue ...
HealthCheckAll(t) ==
    /\ Granted(t, "all")
    /\ IF entry.known
       THEN guards' = guards \cup {t} /\ waiting' = AskAgain(t, "inner")
       ELSE waiting' = Tail(waiting) /\ UNCHANGED guards
    /\ UNCHANGED entry

\* Mutant: the guard is not dropped when the health has been collected.
HealthCheckAllKeepsGuard(t) ==
    /\ Granted(t, "inner")
    /\ waiting' = Tail(waiting)
    /\ UNCHANGED <<guards, entry>>

\* Mutant: it waits for a timeout at most and then gives the check up.
HealthCheckAllTimesOut(t) ==
    /\ t \in guards
    /\ waiting' = SelectSeq(waiting, LAMBDA r : r.task # t)
    /\ guards' = guards \ {t}
    /\ UNCHANGED entry

\* ... which reads under the lock again.
HealthCheckAllReturns(t) ==
    /\ Granted(t, "inner")
    /\ waiting' = Tail(waiting)
    /\ guards' = guards \ {t}
    /\ UNCHANGED entry

Section(t) ==
    \/ RegisterQueue(t) \/ RecordSuccess(t) \/ RecordFailure(t) \/ RecordError(t)
    \/ HealthCheck(t) \/ HealthCheckAll(t) \/ HealthCheckAllReturns(t)

MetricsTypeOK ==
    /\ waiting \in Seq(Request) /\ guards \subseteq Tasks
    /\ entry \in [known : BOOLEAN, ok : Nat, failed : Nat, errors : Seq(Tasks)]
    /\ Len(entry.errors) <= MaxErrors

=============================================================================
