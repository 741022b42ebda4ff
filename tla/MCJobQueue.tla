----------------------------- MODULE MCJobQueue -----------------------------
(* Small instances of JobQueue: two processes and their infos.              *)
EXTENDS JobQueue, TLC

OwnerByName == [w \in Workers |-> IF w = "a1" THEN "A" ELSE "B"]

\* The infos of two processes whose registrations overlapped.
Group == ("A" :> [id |-> 0, total |-> 2]) @@ ("B" :> [id |-> 1, total |-> 2])

Permuted == Permutations(Jobs)

=============================================================================
