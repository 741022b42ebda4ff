---------------------------- MODULE MCQueueStats ----------------------------
(* A small instance of QueueStats: what is left of a group of two when one  *)
(* of them, B, has died, beside a process C whose registration failed.      *)
EXTENDS QueueStats, TLC

OwnerByName == [w \in Workers |-> IF w = "a1" THEN "A" ELSE "C"]

Remnant ==
    ("A" :> [id |-> 0, total |-> 2]) @@ ("B" :> [id |-> 1, total |-> 2])
        @@ ("C" :> NoInfo)

=============================================================================
