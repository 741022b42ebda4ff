-------------------------- MODULE MCMultiConsumer --------------------------
(* Small instances of MultiConsumer.                                        *)
EXTENDS MultiConsumer

\* The proportions of the code, as in MCConsumerRegistry.
ASSUME Ttl = 3 * Heartbeat /\ Window <= Heartbeat

=============================================================================
