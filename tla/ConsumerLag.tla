---------------------------- MODULE ConsumerLag ----------------------------
(***************************************************************************)
(* One round after the other, the lag task (app/monitoring/kafka_lag.py)   *)
(* measures the monitored groups.  A measurement reads the committed       *)
(* offsets first; the ends it reads with a temporary consumer that has to  *)
(* be started in between, while producers and consumers go on.  An error   *)
(* of either leaves gauge and cache as they were.  The task's own admin    *)
(* client is part of Lifecycle.                                            *)
(***************************************************************************)
EXTENDS TopicOffsets, Sequences

CONSTANT MaxEnd     \* bound: records in a partition

ASSUME EndAssumption == MaxEnd \in Nat

None == <<>>

VARIABLES
    answering,  \* whether Kafka can be reached
    monitored,  \* MONITORED_GROUPS
    target,     \* which of them is measured now or next
    reading,    \* the committed offsets that were read, or None
    lagCache    \* _lag_cache: [Groups -> [partition -> lag] or None]

topic == <<end, committed>>
task == <<monitored, target, reading, lagCache>>
lagVars == <<topic, answering, task>>

IsMonitored(g) == \E i \in DOMAIN monitored : monitored[i] = g

LagInit ==
    /\ InitOffsets
    /\ answering = TRUE
    /\ \E g \in Groups : monitored = <<g>>
    /\ target = 1
    /\ reading = None
    /\ lagCache = [g \in Groups |-> None]

\* `for target in MONITORED_GROUPS`, and the next round after the last.
NextTarget ==
    /\ target' = IF target < Len(monitored) THEN target + 1 ELSE 1
    /\ reading' = None

\* Mutant: the round waits for a group without offsets.
WaitForOffsets == UNCHANGED <<target, reading>>

\* `if not tps` returns at once.
NothingToMeasure == NextTarget

\* list_consumer_group_offsets, which answers with the partitions that have
\* an offset.
ReadCommitted ==
    /\ answering /\ reading = None
    /\ LET given == committed[monitored[target]]
           tps == {p \in Partitions : given[p] # NoOffset}
       IN  IF tps = {}
           THEN NothingToMeasure
           ELSE reading' = [p \in tps |-> given[p]] /\ UNCHANGED target
    /\ UNCHANGED <<topic, answering, monitored, lagCache>>

\* Mutant: the committed offset is forgotten when it is 0, as -1 is.
LagOfCommitted(p) == IF reading[p] > 0 THEN end[p] - reading[p] ELSE 0

\* max(0, end_offset - committed_offset)
Lag(p) == IF end[p] > reading[p] THEN end[p] - reading[p] ELSE 0

\* end_offsets of the temporary consumer; gauge and cache are set.
ReadEnds ==
    /\ answering /\ reading # None
    /\ lagCache' = [lagCache EXCEPT
                     ![monitored[target]] = [p \in DOMAIN reading |-> Lag(p)]]
    /\ NextTarget
    /\ UNCHANGED <<topic, answering, monitored>>

\* except Exception: {} for this group.
MeasureFails ==
    /\ ~answering
    /\ NextTarget
    /\ UNCHANGED <<topic, answering, monitored, lagCache>>

\* Called at any time: a list that grows under the loop is iterated to its end.
register_consumer_group(g) ==
    /\ ~IsMonitored(g)
    /\ monitored' = Append(monitored, g)
    /\ UNCHANGED <<topic, answering, target, reading, lagCache>>

FlipCluster ==
    /\ answering' = ~answering
    /\ UNCHANGED <<topic, task>>

Measuring == ReadCommitted \/ ReadEnds \/ MeasureFails

LagNext ==
    \/ /\ answering /\ NextOffsets
       /\ \A p \in Partitions : end'[p] <= MaxEnd
       /\ UNCHANGED <<answering, task>>
    \/ Measuring
    \/ \E g \in Groups : register_consumer_group(g)
    \/ FlipCluster

\* The task's calls end, with a result or an error, and so do its sleeps.
\* Nobody has to produce, to consume or to keep Kafka up.
LagFairness == WF_lagVars(Measuring)

LagSpec == LagInit /\ [][LagNext]_lagVars /\ LagFairness

-----------------------------------------------------------------------------
(* Properties *)

LagTypeOK ==
    /\ end \in [Partitions -> 0 .. MaxEnd]
    /\ committed \in [Groups -> [Partitions -> NoOffset .. MaxEnd]]
    /\ answering \in BOOLEAN
    /\ target \in DOMAIN monitored
    /\ \A i, j \in DOMAIN monitored : monitored[i] = monitored[j] => i = j
    /\ DOMAIN reading \subseteq Partitions
    /\ \A p \in DOMAIN reading : reading[p] \in 0 .. MaxEnd
    /\ \A g \in Groups : DOMAIN lagCache[g] \subseteq Partitions
    /\ \A g \in Groups : \A p \in DOMAIN lagCache[g] :
          lagCache[g][p] \in 0 .. MaxEnd

\* A lag that the task publishes is never less than the distance at that time,
\* whatever is written and committed between its two reads.
NotUnderstated ==
    [][\A g \in Groups : lagCache'[g] # lagCache[g] =>
          \A p \in DOMAIN lagCache'[g] :
             lagCache'[g][p] >= end[p] - Start(committed[g][p])]_lagVars

\* Once Kafka stays reachable, what is shown for a monitored group becomes and
\* stays the distance between its offsets and the ends: no outage and no group
\* without offsets ends the measuring.  (Within the bound the offsets and the
\* ends stop moving.)
LagSettles ==
    <>[]answering => \A g \in Groups :
        <>[](IsMonitored(g) => \A p \in Partitions :
                committed[g][p] # NoOffset =>
                    /\ p \in DOMAIN lagCache[g]
                    /\ lagCache[g][p] = end[p] - committed[g][p])

=============================================================================
