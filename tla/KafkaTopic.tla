----------------------------- MODULE KafkaTopic -----------------------------
(***************************************************************************)
(* What the modules about Kafka topics share.                              *)
(***************************************************************************)
EXTENDS Integers

CONSTANT Partitions     \* of the topic

NoOffset == -1      \* of a group that has not committed

\* Where a consumer of the group starts: auto_offset_reset is "earliest".
Start(offset) == IF offset = NoOffset THEN 0 ELSE offset

=============================================================================
