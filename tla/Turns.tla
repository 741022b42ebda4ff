------------------------------- MODULE Turns -------------------------------
(***************************************************************************)
(* What the turns of a queue promise, whatever the queue holds and however *)
(* requests fail: a counter that designates one consumer at a time and     *)
(* moves only when that consumer takes a job.  JobQueue implements this    *)
(* (DEQUEUE_CONSUMER_SCRIPT of src/src/queue.rs), with positions that are  *)
(* constants; MultiConsumer lets the positions come from ConsumerRegistry. *)
(***************************************************************************)
EXTENDS Integers

CONSTANTS
    Consumers,  \* processes
    NoInfo      \* a process that has no position, or not yet

ConsumerInfo == { i \in [id : Nat, total : Nat \ {0}] : i.id < i.total }

VARIABLES
    info,     \* the position of each consumer, final once it has one
    counter,  \* field counter of <name>:meta
    taken     \* jobs each consumer has taken in turn

turnVars == <<info, counter, taken>>

Members == {c \in Consumers : info[c] # NoInfo}

TurnsTypeOK ==
    /\ info \in [Consumers -> ConsumerInfo \cup {NoInfo}]
    /\ counter \in Nat
    /\ taken \in [Consumers -> Nat]

Init ==
    /\ info \in [Consumers -> ConsumerInfo \cup {NoInfo}]
    /\ counter = 0
    /\ taken = [c \in Consumers |-> 0]

Designated(c) ==
    info[c] # NoInfo /\ (counter = 0 \/ counter % info[c].total = info[c].id)

TakeTurn(c) ==
    /\ Designated(c)
    /\ counter' = counter + 1
    /\ taken' = [taken EXCEPT ![c] = @ + 1]
    /\ UNCHANGED info

Join(c) ==
    /\ info[c] = NoInfo
    /\ info'[c] \in ConsumerInfo
    /\ info' = [info EXCEPT ![c] = info'[c]]
    /\ UNCHANGED <<counter, taken>>

Next ==
    \E c \in Consumers : TakeTurn(c) \/ Join(c)

Spec == Init /\ [][Next]_turnVars

\* Positions as dequeue_with_consumer needs them: one total, one slot each.
Agreeing ==
    \A c, d \in Members :
        info[c].total = info[d].total /\ (c # d => info[c].id # info[d].id)

\* The jobs the members of an agreeing group have taken in turn differ by two
\* at most, also while members still join or have died: one for the round in
\* progress, one for the first job, which is open to everyone
\* (queue.rs DEQUEUE_CONSUMER_SCRIPT).
FairShares ==
    Agreeing => \A c, d \in Members : taken[c] <= taken[d] + 2

=============================================================================
