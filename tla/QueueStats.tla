----------------------------- MODULE QueueStats -----------------------------
(***************************************************************************)
(* The statistics of a queue in use: get_all_queue_stats, list_all and     *)
(* get_job_counts of src/src/queue.rs send four commands, between which    *)
(* producers and workers go on.  A count is modelled by what is counted.   *)
(***************************************************************************)
EXTENDS JobQueue

VARIABLES
    probe,      \* the next command of get_all_queue_stats
    listed,     \* list_all has found the name of the queue
    regular,    \* the elements that LLEN counts, a job pushed twice being two
    scheduled,  \* the members that ZCARD counts
    steady      \* history: jobs in the queue ever since the call began

stats == <<probe, listed, regular, scheduled>>
statsVars == <<vars, stats, steady>>

Listed == {list[i] : i \in DOMAIN list}
CountedByLlen == {regular[i] : i \in DOMAIN regular}

StatsInit ==
    /\ Init
    /\ probe = "off" /\ listed = FALSE /\ regular = <<>> /\ scheduled = {}
    /\ steady = {}

\* The queue goes on.
Work ==
    /\ Next
    /\ steady' = steady \cap (Listed' \cup zset')
    /\ UNCHANGED stats

Ask(from, to) ==
    /\ probe = from
    /\ probe' = to
    /\ UNCHANGED vars

ListAll ==
    /\ Ask("off", "keys queue")
    /\ steady' = Listed \cup zset
    /\ UNCHANGED <<listed, regular, scheduled>>

\* A key exists while its list or sorted set has members.
KeysQueue ==
    /\ Ask("keys queue", "keys schedule")
    /\ listed' = (list # <<>>)
    /\ UNCHANGED <<regular, scheduled, steady>>

\* Mutant: the names of the scheduled queues replace those found first.
KeysScheduleOnly ==
    /\ Ask("keys schedule", IF zset # {} THEN "llen" ELSE "done")
    /\ listed' = (zset # {})
    /\ UNCHANGED <<regular, scheduled, steady>>

\* Queues that are found in neither way have no statistics.
KeysSchedule ==
    /\ Ask("keys schedule", IF listed \/ zset # {} THEN "llen" ELSE "done")
    /\ listed' = (listed \/ zset # {})
    /\ UNCHANGED <<regular, scheduled, steady>>

Llen ==
    /\ Ask("llen", "zcard")
    /\ regular' = list
    /\ UNCHANGED <<listed, scheduled, steady>>

Zcard ==
    /\ Ask("zcard", "done")
    /\ scheduled' = zset
    /\ UNCHANGED <<listed, regular, steady>>

\* KEYS fails and list_all with it; LLEN or ZCARD fails, and both are retried
\* until the attempts are used up.
StatsError ==
    /\ \/ Ask("keys queue", "failed") \/ Ask("keys schedule", "failed")
       \/ Ask("llen", "failed")
       \/ Ask("zcard", "llen") \/ Ask("zcard", "failed")
    /\ UNCHANGED <<listed, regular, scheduled, steady>>

StatsNext ==
    \/ Work \/ ListAll \/ KeysQueue \/ KeysSchedule \/ Llen \/ Zcard \/ StatsError

\* Nothing makes a caller ask for statistics.
StatsSpec == StatsInit /\ [][StatsNext]_statsVars /\ Fairness

-----------------------------------------------------------------------------
(* Properties.                                                             *)

\* A job that is in the queue during the whole call is counted, in a queue that
\* is listed, and no job is counted as regular and as scheduled, although the
\* four commands look at different moments: a job never changes its key
\* (queue.rs list_all and get_job_counts, both Lua scripts).  A regular job that
\* a retry has pushed twice is two jobs to LLEN.
SteadyJobsCounted ==
    probe = "done" =>
        /\ steady # {} => listed
        /\ steady \subseteq CountedByLlen \cup scheduled
        /\ CountedByLlen \cap scheduled = {}

=============================================================================
