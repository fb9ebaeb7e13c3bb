--------------------------- MODULE MCConsumerGroup ---------------------------
(* The instance of ConsumerGroup that TLC checks.                             *)
EXTENDS ConsumerGroup
=============================================================================
