------------------------- MODULE MCConsumerRegistry -------------------------
(* Small instances of ConsumerRegistry.                                    *)
EXTENDS ConsumerRegistry

\* The proportions of the code: 10 s between heartbeats and 30 s of TTL; 7.5 s of
\* registration, whose sleeps are shared out evenly, are less than a heartbeat.
ASSUME Ttl = 3 * Heartbeat /\ Window <= Heartbeat

=============================================================================
