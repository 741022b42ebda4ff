-------------------------- MODULE ConsumerRegistry --------------------------
(***************************************************************************)
(* Registration of the consumers of one queue (src/src/consumer_registry.rs *)
(* and the fallback of src/src/registry.rs).  Each process writes a key    *)
(* with a TTL, sleeps, reads the keys of all consumers several times and   *)
(* freezes the position and the total it found; a heartbeat then keeps its *)
(* key alive.                                                              *)
(*                                                                         *)
(* Time is discrete.  A sleeping task and a key with a TTL carry the ticks *)
(* they have left, and Tick takes one from each.  It waits for no task: a  *)
(* connection, the answer of Redis to a command and the sleeps between     *)
(* retries take any number of ticks (a command up to 20 s, a connection    *)
(* with its 20 retries longer than the TTL), and a sleep is a lower bound. *)
(* A command whose answer is late is the next command sent late.  A        *)
(* process that restarts has a new id and is another element of Processes. *)
(***************************************************************************)
EXTENDS Integers, FiniteSets

CONSTANTS
    Processes,    \* consumer processes, numbered in the order of their keys
    Settle,       \* ticks from registration to the first read
    Gap,          \* ticks from one read to the next
    Reads,        \* reads of the keys before the position is final
    Heartbeat,    \* ticks from one heartbeat to the next
    Ttl,          \* ticks a key lives after EXPIRE
    NoKey,        \* the key does not exist
    Forever,      \* the key exists and has no TTL
    MaxAttempts,  \* RetryConfig.max_attempts of the registration
    MaxFaults,    \* bound: failed commands
    MaxCrashes,   \* bound: crashed processes
    MaxWaits      \* bound: ticks in which a task waits for Redis

ASSUME ProcessesAssumption == Processes \subseteq Nat /\ IsFiniteSet(Processes)
ASSUME TimingAssumption ==
    /\ Settle \in Nat \ {0} /\ Gap \in Nat \ {0} /\ Reads \in Nat \ {0}
    /\ Heartbeat \in Nat \ {0} /\ Ttl \in Nat \ {0}
ASSUME KeyAssumption == NoKey # Forever /\ NoKey \notin Nat /\ Forever \notin Nat
ASSUME RegistryBudgetAssumption ==
    MaxAttempts \in Nat \ {0} /\ MaxFaults \in Nat /\ MaxCrashes \in Nat
    /\ MaxWaits \in Nat

VARIABLES
    pc,       \* what each process is about to do
    sleep,    \* ticks left in the sleep of each process
    ttl,      \* the key consumers:<queue>:<id> of each process
    tries,    \* registration attempts
    attempt,  \* number of the next read
    info,     \* the id and total found so far, final once the process serves
    faults, crashes, waits,
    late,     \* history: by how many ticks the key is renewed later than Heartbeat
              \* after the last time, Ttl standing for all from Ttl on
    members,  \* history: the processes registered since there were no keys
    age,      \* history: ticks since the first of them
    spread,   \* history: ticks from the first of them to the latest
    shrunk    \* history: a key has expired since, or an expired one is back

group == <<members, age, spread, shrunk>>
history == <<late, group>>
vars == <<pc, sleep, ttl, tries, attempt, info, faults, crashes, waits, history>>

\* Ticks from a registration to its last read.
Window == Settle + (Reads - 1) * Gap

Init ==
    /\ pc = [p \in Processes |-> "off"]
    /\ sleep = [p \in Processes |-> 0]
    /\ ttl = [p \in Processes |-> NoKey]
    /\ tries = [p \in Processes |-> 0]
    /\ attempt = [p \in Processes |-> 0]
    /\ info = [p \in Processes |-> [id |-> 0, total |-> 1]]
    /\ faults = 0 /\ crashes = 0 /\ waits = 0
    /\ late = [p \in Processes |-> 0]
    /\ members = {} /\ age = 0 /\ spread = 0 /\ shrunk = FALSE

-----------------------------------------------------------------------------
(* The Redis keys.                                                         *)

Keys == {p \in Processes : ttl[p] # NoKey}

\* HSET creates the key without a TTL and leaves the TTL of a key alone.
AfterHset(p) == [ttl EXCEPT ![p] = IF @ = NoKey THEN Forever ELSE @]

\* The history of a group: it begins with the first key and grows with each.
JoinGroup(p) ==
    CASE Keys = {} ->
            members' = {p} /\ age' = 0 /\ spread' = 0 /\ shrunk' = FALSE
      [] Keys # {} /\ p \notin Keys ->
            members' = members \cup {p} /\ spread' = age /\ UNCHANGED <<age, shrunk>>
      [] OTHER -> UNCHANGED group

\* A key goes, or comes back by a heartbeat and not by a registration.
Disturb ==
    /\ shrunk' = (shrunk \/ Keys' # Keys)
    /\ UNCHANGED <<members, spread>>

\* EXPIRE does nothing to a key that does not exist.
AfterExpire(p) == [ttl EXCEPT ![p] = IF @ = NoKey THEN @ ELSE Ttl]

\* Mutant: positions from 1.
PositionFromOne(p) ==
    IF p \in Keys
    THEN [id |-> Cardinality({q \in Keys : q <= p}), total |-> Cardinality(Keys)]
    ELSE [id |-> 0, total |-> 1]

\* KEYS, sort, position.  A process that does not find its key takes itself
\* for the only one.
Position(p) ==
    IF p \in Keys
    THEN [id |-> Cardinality({q \in Keys : q < p}), total |-> Cardinality(Keys)]
    ELSE [id |-> 0, total |-> 1]

\* The next renewal of the key of p comes n ticks later.
Delayed(p, n) == IF late[p] + n < Ttl THEN late[p] + n ELSE Ttl

-----------------------------------------------------------------------------
(* register_and_start_heartbeat.                                           *)

Start(p) ==
    /\ pc[p] = "off"
    /\ pc' = [pc EXCEPT ![p] = "hset"]
    /\ tries' = [tries EXCEPT ![p] = 1]
    /\ UNCHANGED <<sleep, ttl, attempt, info, faults, crashes, waits, history>>

\* Once it has connected.
Hset(p) ==
    /\ pc[p] = "hset"
    /\ ttl' = AfterHset(p)
    /\ pc' = [pc EXCEPT ![p] = "expire"]
    /\ JoinGroup(p)
    /\ UNCHANGED <<sleep, tries, attempt, info, faults, crashes, waits, late>>

\* The reads come before the first heartbeat.  A key that an attempt before this
\* one left has perhaps expired since HSET; then there is none.
Expire(p) ==
    /\ pc[p] = "expire"
    /\ ttl' = AfterExpire(p)
    /\ pc' = [pc EXCEPT ![p] = "read"]
    /\ sleep' = [sleep EXCEPT ![p] = Settle]
    /\ attempt' = [attempt EXCEPT ![p] = 1]
    /\ late' = [late EXCEPT ![p] = IF p \in Keys /\ Window < Ttl THEN Window ELSE Ttl]
    /\ UNCHANGED <<tries, info, faults, crashes, waits, group>>

\* HSET or EXPIRE fails, executed by Redis or not (HSET was, when EXPIRE was not
\* sent): the pair is retried, or the error returned and the process serves
\* without turns.
RegisterError(p) ==
    /\ pc[p] \in {"hset", "expire"}
    /\ faults < MaxFaults
    /\ faults' = faults + 1
    /\ \/ UNCHANGED ttl
       \/ pc[p] = "expire" /\ ttl' = AfterExpire(p)
    /\ \/ /\ tries[p] < MaxAttempts
          /\ tries' = [tries EXCEPT ![p] = @ + 1]
          /\ pc' = [pc EXCEPT ![p] = "hset"]
       \/ /\ pc' = [pc EXCEPT ![p] = "single"]
          /\ UNCHANGED tries
    /\ UNCHANGED <<sleep, attempt, info, crashes, waits, history>>

\* Mutants: the first read is final; a larger total keeps the first id.
ReadOnce(p) ==
    /\ pc[p] = "read" /\ sleep[p] = 0
    /\ info' = [info EXCEPT ![p] = Position(p)]
    /\ pc' = [pc EXCEPT ![p] = "connect"]
    /\ UNCHANGED <<sleep, ttl, tries, attempt, faults, crashes, waits, history>>

ReadKeepsId(p) ==
    /\ pc[p] = "read" /\ sleep[p] = 0
    /\ info' = [info EXCEPT ![p] =
          IF attempt[p] = 1 THEN Position(p)
          ELSE IF Position(p).total > @.total
               THEN [id |-> @.id, total |-> Position(p).total] ELSE @]
    /\ IF attempt[p] < Reads
       THEN /\ attempt' = [attempt EXCEPT ![p] = @ + 1]
            /\ sleep' = [sleep EXCEPT ![p] = Gap]
            /\ UNCHANGED pc
       ELSE /\ pc' = [pc EXCEPT ![p] = "connect"]
            /\ UNCHANGED <<sleep, attempt>>
    /\ UNCHANGED <<ttl, tries, faults, crashes, waits, history>>

\* One turn of the loop over get_consumer_position: a larger total replaces
\* what was found, and the last turn ends the registration.
Read(p) ==
    /\ pc[p] = "read" /\ sleep[p] = 0
    /\ info' = [info EXCEPT ![p] =
          IF Position(p).total > @.total \/ attempt[p] = 1 THEN Position(p) ELSE @]
    /\ IF attempt[p] < Reads
       THEN /\ attempt' = [attempt EXCEPT ![p] = @ + 1]
            /\ sleep' = [sleep EXCEPT ![p] = Gap]
            /\ UNCHANGED pc
       ELSE /\ pc' = [pc EXCEPT ![p] = "connect"]
            /\ UNCHANGED <<sleep, attempt>>
    /\ UNCHANGED <<ttl, tries, faults, crashes, waits, history>>

\* An error of get_consumer_position is not retried: it fails the registration.
ReadError(p) ==
    /\ pc[p] = "read" /\ sleep[p] = 0
    /\ faults < MaxFaults
    /\ faults' = faults + 1
    /\ pc' = [pc EXCEPT ![p] = "single"]
    /\ UNCHANGED <<sleep, ttl, tries, attempt, info, crashes, waits, history>>

-----------------------------------------------------------------------------
(* heartbeat_task: connect once, then HSET and EXPIRE after every sleep.    *)

\* The workers have their position; the heartbeat connects and sleeps.
Connect(p) ==
    /\ pc[p] = "connect"
    /\ pc' = [pc EXCEPT ![p] = "serve"]
    /\ sleep' = [sleep EXCEPT ![p] = Heartbeat]
    /\ UNCHANGED <<ttl, tries, attempt, info, faults, crashes, waits, history>>

\* It cannot connect: the task ends, and the process serves without a heartbeat.
ConnectError(p) ==
    /\ pc[p] = "connect"
    /\ faults < MaxFaults
    /\ faults' = faults + 1
    /\ pc' = [pc EXCEPT ![p] = "mute"]
    /\ UNCHANGED <<sleep, ttl, tries, attempt, info, crashes, waits, history>>

\* Mutant: a heartbeat only updates a key that is there.
BeatHsetExisting(p) ==
    /\ pc[p] = "serve" /\ sleep[p] = 0
    /\ pc' = [pc EXCEPT ![p] = "beat"]
    /\ UNCHANGED <<sleep, ttl, tries, attempt, info, faults, crashes, waits, history>>

BeatHset(p) ==
    /\ pc[p] = "serve" /\ sleep[p] = 0
    /\ ttl' = AfterHset(p)
    /\ pc' = [pc EXCEPT ![p] = "beat"]
    /\ Disturb
    /\ UNCHANGED <<sleep, tries, attempt, info, faults, crashes, waits, late, age>>

\* Mutant: the heartbeat does not renew the TTL.
BeatWithoutExpire(p) ==
    /\ pc[p] = "beat"
    /\ pc' = [pc EXCEPT ![p] = "serve"]
    /\ sleep' = [sleep EXCEPT ![p] = Heartbeat]
    /\ late' = [late EXCEPT ![p] = IF p \in Keys THEN 0 ELSE Delayed(p, Heartbeat)]
    /\ UNCHANGED <<ttl, tries, attempt, info, faults, crashes, waits, group>>

\* A key that has expired since HSET is not renewed, and nobody notices.
BeatExpire(p) ==
    /\ pc[p] = "beat"
    /\ ttl' = AfterExpire(p)
    /\ pc' = [pc EXCEPT ![p] = "serve"]
    /\ sleep' = [sleep EXCEPT ![p] = Heartbeat]
    /\ late' = [late EXCEPT ![p] = IF p \in Keys THEN 0 ELSE Delayed(p, Heartbeat)]
    /\ UNCHANGED <<tries, attempt, info, faults, crashes, waits, group>>

\* Either command fails, executed or not: the error is logged and the rest of
\* this heartbeat skipped.
BeatError(p) ==
    /\ pc[p] = "beat" \/ (pc[p] = "serve" /\ sleep[p] = 0)
    /\ faults < MaxFaults
    /\ faults' = faults + 1
    /\ \/ UNCHANGED ttl
       \/ pc[p] = "beat" /\ ttl' = AfterExpire(p)
    /\ pc' = [pc EXCEPT ![p] = "serve"]
    /\ sleep' = [sleep EXCEPT ![p] = Heartbeat]
    /\ late' = [late EXCEPT ![p] = Delayed(p, Heartbeat)]
    /\ UNCHANGED <<tries, attempt, info, crashes, waits, group>>

-----------------------------------------------------------------------------
(* Crashes and time.                                                       *)

Crash(p) ==
    /\ pc[p] \notin {"off", "dead"}
    /\ crashes < MaxCrashes
    /\ crashes' = crashes + 1
    /\ pc' = [pc EXCEPT ![p] = "dead"]
    /\ sleep' = [sleep EXCEPT ![p] = 0]
    /\ UNCHANGED <<ttl, tries, attempt, info, faults, waits, history>>

\* The task of p waits for Redis and not for its timer.
Waiting(p) ==
    \/ pc[p] \in {"connect", "beat"}
    \/ pc[p] \in {"read", "serve"} /\ sleep[p] = 0

\* It is a step of somebody that is to come, and not time.
SomebodyDue == \E p \in Processes : pc[p] \in {"hset", "expire"} \/ Waiting(p)

OneTickLess(p) ==
    IF ttl[p] \notin Nat THEN ttl[p] ELSE IF ttl[p] = 1 THEN NoKey ELSE ttl[p] - 1

Tick ==
    /\ \/ ~SomebodyDue /\ UNCHANGED waits
       \/ SomebodyDue /\ waits < MaxWaits /\ waits' = waits + 1
    /\ sleep' = [p \in Processes |-> IF sleep[p] > 0 THEN sleep[p] - 1 ELSE 0]
    /\ ttl' = [p \in Processes |-> OneTickLess(p)]
    /\ Disturb
    /\ late' = [p \in Processes |-> IF Waiting(p) THEN Delayed(p, 1) ELSE late[p]]
    /\ age' = IF members # {} /\ age < Window THEN age + 1 ELSE age
    /\ UNCHANGED <<pc, tries, attempt, info, faults, crashes>>

-----------------------------------------------------------------------------
Next ==
    \/ \E p \in Processes :
          \/ Start(p) \/ Hset(p) \/ Expire(p) \/ RegisterError(p)
          \/ Read(p) \/ ReadError(p) \/ Connect(p) \/ ConnectError(p)
          \/ BeatHset(p) \/ BeatExpire(p) \/ BeatError(p) \/ Crash(p)
    \/ Tick

Spec == Init /\ [][Next]_vars

\* Time passes and a task that is due acts; nothing makes a process start.
FairSpec ==
    /\ Spec
    /\ WF_vars(Tick)
    /\ \A p \in Processes :
          /\ WF_vars(Hset(p)) /\ WF_vars(Expire(p)) /\ WF_vars(Read(p))
          /\ WF_vars(Connect(p)) /\ WF_vars(BeatHset(p)) /\ WF_vars(BeatExpire(p))

-----------------------------------------------------------------------------
(* Properties.                                                             *)

Beating == {p \in Processes : pc[p] \in {"connect", "serve", "beat"}}
Serving == Beating \cup {p \in Processes : pc[p] = "mute"}

\* Every variable has its type, and the position a process holds is one of the
\* slots of the total it holds.
TypeOK ==
    /\ pc \in [Processes -> {"off", "hset", "expire", "read", "connect",
                             "serve", "beat", "mute", "single", "dead"}]
    /\ sleep \in [Processes -> Nat]
    /\ ttl \in [Processes -> 1..Ttl \cup {NoKey, Forever}]
    /\ tries \in [Processes -> Nat] /\ attempt \in [Processes -> Nat]
    /\ info \in [Processes -> [id : Nat, total : Nat \ {0}]]
    /\ \A p \in Processes : info[p].id < info[p].total
    /\ faults \in Nat /\ crashes \in Nat /\ waits \in Nat
    /\ late \in [Processes -> 0..Ttl] /\ members \subseteq Processes
    /\ age \in 0..Window /\ spread \in 0..Window /\ shrunk \in BOOLEAN

\* Processes that register within the time one registration takes agree on the
\* total and share no slot, whatever reads saw which keys, whichever of them fail
\* or crash, and also when an earlier group has died out before, unless a key
\* expires or is brought back by a late heartbeat (the read loop of
\* register_and_start_heartbeat).
StartedTogetherAgree ==
    spread < Window /\ ~shrunk =>
        \A p, q \in Serving \cap members :
            /\ info[p].total = Cardinality(members)
            /\ p # q => info[p].id # info[q].id

\* As long as no key has expired or come back, two processes that count the same
\* total do not share a slot, however far apart they started.
EqualTotalsDistinctIds ==
    ~shrunk =>
        \A p, q \in Serving \cap members :
            p # q /\ info[p].total = info[q].total => info[p].id # info[q].id

\* A process loses its key only when its heartbeat is late by the TTL less one
\* heartbeat (20 s): a registration makes the first one late by its reads (7.5 s),
\* a heartbeat that fails or comes too late to renew the key adds one (10 s), and
\* the rest is time in which the task has waited for Redis (heartbeat_task).
LiveKeyKept == \A p \in Beating : late[p] < Ttl - Heartbeat => p \in Keys

\* And it gets it back: whenever keys of living processes have expired, there is a
\* later moment at which every process whose heartbeat runs has its key, whichever
\* registrations and heartbeats failed, came late or found no key (heartbeat_task).
KeysComeBack == []<>(Beating \subseteq Keys)

-----------------------------------------------------------------------------
(* What the documentation says and the code does not do.                   *)

\* src/MULTI_CONSUMER_FLOW.md: added instances lead to automatic rebalancing.
\* Once every process serves, each value of the counter is somebody's turn.
EverySlotServed ==
    Serving = Processes /\ faults = 0 /\ crashes = 0 =>
        \A n \in 1..(Cardinality(Processes) * Cardinality(Processes)) :
            \E p \in Processes : n % info[p].total = info[p].id

\* src/IMPLEMENTATION_COMPLETE.md: the key of a crashed consumer expires.
CrashedKeyExpires ==
    \A p \in Processes : pc[p] = "dead" ~> p \notin Keys

=============================================================================
