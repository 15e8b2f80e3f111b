------------------------------ MODULE MCKafka ------------------------------
(***************************************************************************)
(* Kafka as the application meets it, on small instances: the application  *)
(* from start to stop with its Kafka clients, a topic with its producers   *)
(* and consumers, and the lag task's measurements of it.  KafkaLog shows   *)
(* of the topic what ConsumerLag assumes (TopicOffsets); otherwise the     *)
(* three share no state, and `part` says which one is run.                 *)
(*                                                                         *)
(* The application: three topic requests at once and room for two admin    *)
(* clients, one more than the code should ever create.  The topic: two     *)
(* partitions, a batch of two records, one of which cannot be handled, a   *)
(* record written twice, and one consumer of either kind.  The             *)
(* measurements: two groups and two partitions of at most one record.      *)
(***************************************************************************)
EXTENDS Lifecycle, KafkaLog, ConsumerLag

VARIABLE part

vars == <<part, lifeVars, logVars, lagVars>>

Init ==
    /\ part \in {"application", "topic", "lag"}
    /\ LifeInit /\ (part # "application" => up = [b \in Brokers |-> TRUE])
    /\ LogInit /\ (part # "topic" => auto = {})
    /\ LagInit /\ (part # "lag" => monitored = <<CHOOSE g \in Groups : TRUE>>)

OthersStay ==
    /\ UNCHANGED part
    /\ part # "application" => UNCHANGED lifeVars
    /\ part # "topic" => UNCHANGED logVars
    /\ part # "lag" => UNCHANGED lagVars

ApplicationStep == part = "application" /\ LifeNext /\ OthersStay
TopicStep == part = "topic" /\ LogNext /\ OthersStay
LagStep == part = "lag" /\ LagNext /\ OthersStay

Next == ApplicationStep \/ TopicStep \/ LagStep

Fairness ==
    \/ part = "application" /\ LifeFairness
    \/ part = "lag" /\ LagFairness
    \/ part = "topic"

Spec == Init /\ [][Next]_vars /\ Fairness

TypeOK == LifeTypeOK /\ LogTypeOK /\ LagTypeOK

\* The part that runs keeps its promise of liveness: see ServesAnyway,
\* LagRecovers and LagSettles.
ApplicationServes == part = "application" => ServesAnyway /\ LagRecovers
MeasuringSettles == part = "lag" => LagSettles

=============================================================================
