--------------------------- MODULE MultiConsumer ---------------------------
(***************************************************************************)
(* A group of processes and the queue they share: the positions that       *)
(* ConsumerRegistry computes decide whose turn it is in the dequeue script. *)
(* A process takes part once run() of src/src/registry.rs has spawned its  *)
(* workers: in turn with the position it froze, or, when its registration  *)
(* failed, with dequeue() and without turns.  The jobs are counted only;   *)
(* JobQueue has everything else about them.                                *)
(***************************************************************************)
EXTENDS ConsumerRegistry

CONSTANTS
    NoInfo,   \* the process has no position
    MaxJobs   \* bound: jobs in the queue at the start

ASSUME JobsAssumption == MaxJobs \in Nat
ASSUME NoInfoAssumption == NoInfo \notin [id : Nat, total : Nat \ {0}]

VARIABLES
    jobs,     \* jobs in the queue
    counter,  \* field counter of <name>:meta
    taken,    \* jobs each process has taken in turn
    frozen    \* history: processes that have ever served with a position

queue == <<jobs, counter, taken>>
allVars == <<vars, queue, frozen>>

GroupInit ==
    /\ Init
    /\ jobs = MaxJobs /\ counter = 0
    /\ taken = [p \in Processes |-> 0]
    /\ frozen = {}

-----------------------------------------------------------------------------
(* The registry runs beside the queue and never looks at it.               *)

Register ==
    /\ Next
    /\ frozen' = frozen \cup Serving'
    /\ UNCHANGED queue

\* Mutant: positions count from 1 in the script.
DesignatedFromOne(p) == counter = 0 \/ counter % info[p].total = info[p].id + 1

Designated(p) == counter = 0 \/ counter % info[p].total = info[p].id

\* A worker of p polls, and the script finds it is its turn.
TakeInTurn(p) ==
    /\ p \in Serving
    /\ Designated(p)
    /\ jobs > 0
    /\ jobs' = jobs - 1
    /\ counter' = counter + 1
    /\ taken' = [taken EXCEPT ![p] = @ + 1]
    /\ UNCHANGED <<vars, frozen>>

\* Mutant: dequeue() moves the counter as well.
TakeFreelyCounted(p) ==
    /\ pc[p] = "single"
    /\ jobs > 0
    /\ jobs' = jobs - 1
    /\ counter' = counter + 1
    /\ UNCHANGED <<vars, taken, frozen>>

\* A worker of a process without a position polls.
TakeFreely(p) ==
    /\ pc[p] = "single"
    /\ jobs > 0
    /\ jobs' = jobs - 1
    /\ UNCHANGED <<vars, counter, taken, frozen>>

GroupNext ==
    \/ Register
    \/ \E p \in Processes : TakeInTurn(p) \/ TakeFreely(p)

GroupSpec == GroupInit /\ [][GroupNext]_allVars

\* Time passes, registrations proceed, and workers poll for ever.
FairGroupSpec ==
    /\ GroupSpec
    /\ WF_allVars(Tick /\ Register)
    /\ \A p \in Processes :
          /\ WF_allVars(Register /\ (Hset(p) \/ Expire(p) \/ Read(p)))
          /\ WF_allVars(Register /\ (Connect(p) \/ BeatHset(p) \/ BeatExpire(p)))
          /\ WF_allVars(TakeInTurn(p)) /\ WF_allVars(TakeFreely(p))

-----------------------------------------------------------------------------
(* Properties.                                                             *)

T == INSTANCE Turns WITH
        Consumers <- Processes,
        info <- [p \in Processes |-> IF p \in frozen THEN info[p] ELSE NoInfo]

\* The group obeys the turns while processes still join it: a position is final
\* once a worker has used it, and only its owner moves the counter.
ImplementsTurns == T!Spec

\* Processes that start together share the jobs fairly from the first one on,
\* while others of them still register, crash, or serve without turns because
\* their registration failed (consumer_registry.rs and queue.rs together).
StartedTogetherShareFairly ==
    spread < Window /\ ~shrunk /\ frozen \subseteq members =>
        \A p, q \in frozen : taken[p] <= taken[q] + 2

\* Someone always has the turn: a process without turns, a process that counts
\* itself alone, or a group that started together and is complete.
Draining ==
    \/ \E p \in Processes : pc[p] = "single"
    \/ \E p \in Serving : info[p].total = 1
    \/ members # {} /\ members \subseteq Serving /\ spread < Window /\ ~shrunk

\* While that is so the queue drains, whatever earlier groups have left in the
\* counter and whoever else holds a stale position.
DrainedInTheEnd == <>[]Draining => <>(jobs = 0)

=============================================================================
