------------------------------ MODULE Delivery ------------------------------
(***************************************************************************)
(* What a queue promises about the copies of a job, whatever their order:  *)
(* each attempt of a send() stores one copy at most, a copy is handed to   *)
(* one worker or to a request nobody waits for any more, and a worker runs *)
(* what it was handed once.  JobQueue implements this (src/src/queue.rs).  *)
(***************************************************************************)
EXTENDS Integers, FiniteSets

CONSTANTS
    Jobs,
    Workers,
    None        \* no job

VARIABLES
    attempts,  \* attempts of each send() so far
    pending,   \* attempts that may still store a copy
    stored,    \* copies of each job in the queue
    held,      \* the job each worker has been handed
    running,   \* the workers whose handler runs
    runs,      \* handler calls for each job
    done,      \* jobs whose handler has returned
    strays     \* requests without a reader that may still take a job

copies == <<attempts, pending, stored>>
hands == <<held, running, runs, done>>
deliveryVars == <<copies, hands, strays>>

Init ==
    /\ attempts = [j \in Jobs |-> 0] /\ pending = [j \in Jobs |-> 0]
    /\ stored = [j \in Jobs |-> 0]
    /\ held = [w \in Workers |-> None] /\ running = {}
    /\ runs = [j \in Jobs |-> 0] /\ done = {}
    /\ strays = 0

\* send() makes its next attempt.
Attempt(j) ==
    /\ attempts' = [attempts EXCEPT ![j] = @ + 1]
    /\ pending' = [pending EXCEPT ![j] = @ + 1]
    /\ UNCHANGED <<stored, hands, strays>>

\* An attempt stores a copy; a second copy may fall on the first (ZADD).
Put(j) ==
    /\ pending[j] > 0
    /\ pending' = [pending EXCEPT ![j] = @ - 1]
    /\ \/ stored' = [stored EXCEPT ![j] = @ + 1]
       \/ stored[j] > 0 /\ UNCHANGED stored
    /\ UNCHANGED <<attempts, hands, strays>>

Remove(j) ==
    /\ stored[j] > 0
    /\ stored' = [stored EXCEPT ![j] = @ - 1]

Hand(w, j) ==
    /\ held[w] = None
    /\ Remove(j)
    /\ held' = [held EXCEPT ![w] = j]
    /\ UNCHANGED <<attempts, pending, running, runs, done, strays>>

Run(w) ==
    /\ held[w] # None /\ w \notin running
    /\ running' = running \cup {w}
    /\ runs' = [runs EXCEPT ![held[w]] = @ + 1]
    /\ UNCHANGED <<copies, held, done, strays>>

Finish(w) ==
    /\ w \in running
    /\ running' = running \ {w}
    /\ done' = done \cup {held[w]}
    /\ held' = [held EXCEPT ![w] = None]
    /\ UNCHANGED <<copies, runs, strays>>

\* Some workers give up or die: what they hold is gone, and n of them leave a
\* request behind.
GiveUp(gone, n) ==
    /\ held' = [w \in Workers |-> IF w \in gone THEN None ELSE held[w]]
    /\ running' = running \ gone
    /\ strays' = strays + n
    /\ UNCHANGED <<copies, runs, done>>

\* A stray request ends, with a job that is lost or with nothing.
Stray ==
    /\ strays > 0
    /\ strays' = strays - 1
    /\ (\E j \in Jobs : Remove(j)) \/ UNCHANGED stored
    /\ UNCHANGED <<attempts, pending, hands>>

Next ==
    \/ \E j \in Jobs : Attempt(j) \/ Put(j)
    \/ \E w \in Workers : \/ \E j \in Jobs : Hand(w, j)
                          \/ Run(w) \/ Finish(w)
    \/ \E gone \in SUBSET Workers :
          \E n \in 0..Cardinality(gone) : GiveUp(gone, n)
    \/ Stray

Spec == Init /\ [][Next]_deliveryVars

\* A job is run at most once for each attempt to send it, wherever its copies go.
OncePerAttempt == \A j \in Jobs : runs[j] <= attempts[j]

=============================================================================
