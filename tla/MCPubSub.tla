------------------------------ MODULE MCPubSub ------------------------------
(* Small instances of PubSub.                                               *)
EXTENDS PubSub

CONSTANTS m1, m2, ch1, ch2

\* Each channel has a message.
Apart == [m \in Messages |-> IF m = m1 THEN ch1 ELSE ch2]

=============================================================================
