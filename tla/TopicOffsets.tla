---------------------------- MODULE TopicOffsets ----------------------------
(***************************************************************************)
(* What is seen of a Kafka topic from outside: per partition the end, the  *)
(* number of records written, and per consumer group the committed         *)
(* offset.  Ends grow, and a group's offsets never go back and never pass  *)
(* the ends.  KafkaLog implements this; ConsumerLag is built upon it.      *)
(***************************************************************************)
EXTENDS KafkaTopic

CONSTANT Groups     \* consumer groups

VARIABLES
    end,            \* [Partitions -> number of records]
    committed       \* [Groups -> [Partitions -> offset or NoOffset]]

InitOffsets ==
    /\ end = [p \in Partitions |-> 0]
    /\ committed = [g \in Groups |-> [p \in Partitions |-> NoOffset]]

\* A record is written, or written twice: the producer is not idempotent.
Grow(p) ==
    /\ \E n \in 1 .. 2 : end' = [end EXCEPT ![p] = @ + n]
    /\ UNCHANGED committed

\* A consumer commits its positions, all of them.
Advance(g) ==
    /\ \E to \in [Partitions -> UNION {0 .. end[p] : p \in Partitions}] :
          /\ \A p \in Partitions :
                Start(committed[g][p]) <= to[p] /\ to[p] <= end[p]
          /\ committed' = [committed EXCEPT ![g] = to]
    /\ UNCHANGED end

NextOffsets ==
    \/ \E p \in Partitions : Grow(p)
    \/ \E g \in Groups : Advance(g)

SpecOffsets == InitOffsets /\ [][NextOffsets]_<<end, committed>>

=============================================================================
