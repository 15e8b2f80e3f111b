------------------------------ MODULE KafkaLog ------------------------------
(***************************************************************************)
(* A Kafka topic between its producers, its consumers and the lag monitor. *)
(*                                                                         *)
(* Requests publish through kafka_broker (app/brokers/kafka_broker.py):    *)
(* one record, or a batch that is sent, flushed and awaited.  A group's    *)
(* consumer is of one of two kinds.  Without auto-commit it polls a batch, *)
(* handles it, sends what cannot be handled to the dead-letter topic, and  *)
(* commits (sections 3-2 and 3-3 of notebook 07).  With auto-commit it is  *)
(* that of kafka_broker.subscribe: aiokafka commits its position in the    *)
(* background.                                                             *)
(*                                                                         *)
(* Anything that talks to Kafka fails while it cannot be reached; a        *)
(* consumer's process can end at any point and be started again.           *)
(***************************************************************************)
EXTENDS KafkaTopic, Sequences, FiniteSets

CONSTANTS
    Consumers,      \* one for each consumer group, which it stands for
    Requests,       \* publishing requests that can be in progress at once
    Poison,         \* the records that no consumer can handle
    MaxBatch,       \* records in one publish request, and in one poll
    MaxRecords,     \* bound: records ever published
    MaxResent       \* bound: records the producer writes twice

ASSUME LogAssumption == {MaxBatch, MaxRecords, MaxResent} \subseteq Nat

Records == 1 .. MaxRecords

VARIABLES
    reachable,  \* whether Kafka can be reached
    log,        \* [Partitions -> the records written, the first at offset 0]
    resent,     \* how often the producer has written a record again
    issued,     \* how many records the requests have created
    request,    \* [Requests -> the records not yet sent and those sent]
    answered,   \* the records of publish requests answered 200
    auto,       \* the groups with enable_auto_commit, set once
    saved,      \* [Consumers -> [Partitions -> offset or NoOffset]]
    position,   \* [Consumers -> [Partitions -> offset]]: the next to be fetched
    hand,       \* [Consumers -> the <<partition, offset>> fetched, not handled]
    polled,     \* [Consumers -> whether a poll is not yet followed by commit]
    handled,    \* [Consumers -> the <<partition, offset>> handled]
    abandoned,  \* [Consumers -> the <<partition, offset>> fetched when a loop
                \* ended with an exception]
    lost,       \* [Consumers -> the <<partition, offset>> in the hand of a
                \* process that ended, and below the committed offset]
    dlt         \* the records in the dead-letter topic

producers == <<log, resent, issued, request, answered>>
offsets == <<saved, position>>
fates == <<handled, abandoned, lost, dlt>>
consumers == <<auto, offsets, hand, polled, fates>>
logVars == <<reachable, producers, consumers>>

Idle == [todo |-> {}, sent |-> {}]
End(p) == Len(log[p])

LogInit ==
    /\ reachable = TRUE
    /\ log = [p \in Partitions |-> <<>>]
    /\ resent = 0
    /\ issued = 0
    /\ request = [r \in Requests |-> Idle]
    /\ answered = {}
    /\ auto \in SUBSET Consumers
    /\ saved = [g \in Consumers |-> [p \in Partitions |-> NoOffset]]
    /\ position = [g \in Consumers |-> [p \in Partitions |-> 0]]
    /\ hand = [g \in Consumers |-> {}]
    /\ polled = [g \in Consumers |-> FALSE]
    /\ handled = [g \in Consumers |-> {}]
    /\ abandoned = [g \in Consumers |-> {}]
    /\ lost = [g \in Consumers |-> {}]
    /\ dlt = {}

-----------------------------------------------------------------------------
(* Publishing *)

\* publish, publish_keyed (one record) or publish_batch: the request begins.
\* Which partition a record goes to is the partitioner's choice.
BeginPublish(r) ==
    /\ request[r] = Idle
    /\ \E n \in 1 .. MaxBatch :
          /\ issued + n <= MaxRecords
          /\ issued' = issued + n
          /\ request' = [request EXCEPT
                           ![r].todo = issued + 1 .. issued + n]
    /\ UNCHANGED <<reachable, log, resent, answered, consumers>>

\* A record is written.  The confirmation may be lost: then the producer,
\* which is not idempotent, writes it once more.
Write(r) ==
    /\ reachable
    /\ \E rec \in request[r].todo, p \in Partitions, twice \in BOOLEAN :
          /\ twice => resent < MaxResent
          /\ log' = [log EXCEPT ![p] = IF twice THEN @ \o <<rec, rec>>
                                                ELSE Append(@, rec)]
          /\ resent' = IF twice THEN resent + 1 ELSE resent
          /\ request' = [request EXCEPT ![r].todo = @ \ {rec},
                                        ![r].sent = @ \cup {rec}]
    /\ UNCHANGED <<reachable, issued, answered, consumers>>

\* flush has returned and every future has a result.
AllWritten(r) == request[r].sent # {} /\ request[r].todo = {}

AnswerPublish(r) ==
    /\ AllWritten(r)
    /\ answered' = answered \cup request[r].sent \cup request[r].todo
    /\ request' = [request EXCEPT ![r] = Idle]
    /\ UNCHANGED <<reachable, log, resent, issued, consumers>>

\* A future has an exception: 500, however many records were written.
PublishFails(r) ==
    /\ ~reachable /\ request[r] # Idle
    /\ request' = [request EXCEPT ![r] = Idle]
    /\ UNCHANGED <<reachable, log, resent, issued, answered, consumers>>

-----------------------------------------------------------------------------
(* Consuming *)

\* getmany(max_records): a run of records of each partition.
Poll(g) ==
    /\ g \notin auto /\ ~polled[g]
    /\ reachable
    /\ \E take \in [Partitions -> 0 .. MaxBatch] :
          LET batch == UNION {{p} \X (position[g][p] ..
                                         position[g][p] + take[p] - 1) :
                                  p \in Partitions}
          IN  /\ \A p \in Partitions : position[g][p] + take[p] <= End(p)
              /\ Cardinality(batch) \in 1 .. MaxBatch
              /\ position' = [position EXCEPT
                                ![g] = [p \in Partitions |-> @[p] + take[p]]]
              /\ hand' = [hand EXCEPT ![g] = batch]
    /\ polled' = [polled EXCEPT ![g] = TRUE]
    /\ UNCHANGED <<reachable, producers, auto, saved, fates>>

\* `async for msg in self.consumer`: one record, then its callback runs.
NextRecord(g) ==
    /\ g \in auto /\ hand[g] = {}
    /\ reachable
    /\ \E p \in Partitions :
          /\ position[g][p] < End(p)
          /\ hand' = [hand EXCEPT ![g] = {<<p, position[g][p]>>}]
          /\ position' = [position EXCEPT ![g][p] = @ + 1]
    /\ UNCHANGED <<reachable, producers, auto, saved, polled, fates>>

Record(p, o) == log[p][o + 1]
Poisoned(at) == Record(at[1], at[2]) \in Poison

\* Within a partition the records of a poll are handled in their order.
Foremost(g, at) ==
    /\ at \in hand[g]
    /\ \A b \in hand[g] : b[1] = at[1] => at[2] <= b[2]

\* The body of the loop, or the callback, succeeds.
Handle(g) ==
    /\ \E at \in hand[g] :
          /\ Foremost(g, at) /\ ~Poisoned(at)
          /\ handled' = [handled EXCEPT ![g] = @ \cup {at}]
          /\ hand' = [hand EXCEPT ![g] = @ \ {at}]
    /\ UNCHANGED <<reachable, producers, auto, offsets, polled, abandoned, lost, dlt>>

\* except Exception: the record is sent to the dead-letter topic.
DeadLetter(g) ==
    /\ g \notin auto /\ reachable
    /\ \E at \in hand[g] :
          /\ Foremost(g, at) /\ Poisoned(at)
          /\ dlt' = dlt \cup {Record(at[1], at[2])}
          /\ hand' = [hand EXCEPT ![g] = @ \ {at}]
    /\ UNCHANGED <<reachable, producers, auto, offsets, polled, handled, abandoned,
                   lost>>

\* The callback raises, or send_and_wait to the dead-letter topic does.  The
\* exception ends the loop; the consumer lives on, its position behind all it
\* has fetched, and the next run goes on from there.
Raise(g) ==
    /\ \E at \in hand[g] :
          Foremost(g, at) /\ Poisoned(at) /\ (g \in auto \/ ~reachable)
    /\ abandoned' = [abandoned EXCEPT ![g] = @ \cup hand[g]]
    /\ hand' = [hand EXCEPT ![g] = {}]
    /\ polled' = [polled EXCEPT ![g] = FALSE]
    /\ UNCHANGED <<reachable, producers, auto, offsets, handled, lost, dlt>>

\* Mutant: commit as soon as the batch is there.
MayCommitEarly(g) == polled[g]

\* commit() comes after the loop.
MayCommit(g) == polled[g] /\ hand[g] = {}

\* commit() sends the positions of all partitions; while Kafka is away it
\* raises and the offsets stay.
Commit(g) ==
    /\ g \notin auto /\ MayCommit(g)
    /\ saved' = [saved EXCEPT ![g] = IF reachable THEN position[g] ELSE @]
    /\ polled' = [polled EXCEPT ![g] = FALSE]
    /\ UNCHANGED <<reachable, producers, auto, position, hand, fates>>

\* The background commit of enable_auto_commit, or that of a clean stop.
AutoCommit(g) ==
    /\ g \in auto /\ reachable
    /\ saved' = [saved EXCEPT ![g] = position[g]]
    /\ UNCHANGED <<reachable, producers, auto, position, hand, polled, fates>>

\* What the group will not be given again: fetched by a process that ended,
\* below the committed offset, and not handled.
LostWith(g) ==
    {at \in hand[g] : at[2] < Start(saved[g][at[1]])}

\* Mutant: the new consumer reads from the earliest record every time.
RestartFromEarliest(g) ==
    /\ position' = [position EXCEPT ![g] = [p \in Partitions |-> 0]]
    /\ hand' = [hand EXCEPT ![g] = {}]
    /\ polled' = [polled EXCEPT ![g] = FALSE]
    /\ lost' = [lost EXCEPT ![g] = @ \cup LostWith(g)]
    /\ UNCHANGED <<reachable, producers, auto, saved, handled, abandoned, dlt>>

\* The process ends and a new consumer of the group starts: from the committed
\* offset, or from the earliest record (auto_offset_reset).
Restart(g) ==
    /\ position' = [position EXCEPT
                      ![g] = [p \in Partitions |-> Start(saved[g][p])]]
    /\ hand' = [hand EXCEPT ![g] = {}]
    /\ polled' = [polled EXCEPT ![g] = FALSE]
    /\ lost' = [lost EXCEPT ![g] = @ \cup LostWith(g)]
    /\ UNCHANGED <<reachable, producers, auto, saved, handled, abandoned, dlt>>

-----------------------------------------------------------------------------
FlipBroker ==
    /\ reachable' = ~reachable
    /\ UNCHANGED <<producers, consumers>>

Publishing(r) ==
    BeginPublish(r) \/ Write(r) \/ AnswerPublish(r) \/ PublishFails(r)

Consuming(g) ==
    \/ Poll(g) \/ NextRecord(g)
    \/ Handle(g) \/ DeadLetter(g) \/ Raise(g)
    \/ Commit(g) \/ AutoCommit(g)
    \/ Restart(g)

LogNext ==
    \/ FlipBroker
    \/ \E r \in Requests : Publishing(r)
    \/ \E g \in Consumers : Consuming(g)

LogSpec == LogInit /\ [][LogNext]_logVars

-----------------------------------------------------------------------------
(* Properties *)

LogTypeOK ==
    /\ reachable \in BOOLEAN
    /\ log \in [Partitions -> Seq(Records)]
    /\ resent \in 0 .. MaxResent
    /\ issued \in 0 .. MaxRecords
    /\ \A r \in Requests :
          request[r].todo \cup request[r].sent \subseteq 1 .. issued
    /\ answered \subseteq 1 .. issued
    /\ saved \in [Consumers -> [Partitions -> Nat \cup {NoOffset}]]
    /\ position \in [Consumers -> [Partitions -> Nat]]
    /\ \A g \in Consumers, p \in Partitions :
          /\ saved[g][p] <= position[g][p]
          /\ position[g][p] <= End(p)
    /\ polled \in [Consumers -> BOOLEAN]
    /\ \A g \in Consumers : \A at \in hand[g] \cup handled[g] \cup abandoned[g] :
          at[1] \in Partitions /\ at[2] \in 0 .. End(at[1]) - 1
    /\ dlt \subseteq Poison

Settled(g, p, o) ==
    IF Record(p, o) \in Poison /\ g \notin auto
    THEN Record(p, o) \in dlt
    ELSE <<p, o>> \in handled[g]

\* At least once, end to end.  A record whose request was answered is on the
\* topic.  Of the records below its committed offset a group has handled
\* each, or it is in the dead-letter topic, or it was in hand when a loop ended
\* with an exception: however the producer resends, Kafka comes and goes and
\* processes end.  With auto-commit, only there, the record in the hand of the
\* callback is at risk too, and lost when the process ends.
AtLeastOnce ==
    /\ \A rec \in answered :
          \E p \in Partitions : \E i \in DOMAIN log[p] : log[p][i] = rec
    /\ \A g \in Consumers, p \in Partitions :
          \A o \in 0 .. Start(saved[g][p]) - 1 :
             \/ Settled(g, p, o)
             \/ <<p, o>> \in abandoned[g]
             \/ g \in auto /\ <<p, o>> \in hand[g] \cup lost[g]

\* What the lag task can see of the topic behaves as TopicOffsets says: no
\* offset goes back or passes the end, whichever process restarts.
Topic == INSTANCE TopicOffsets WITH
            end <- [p \in Partitions |-> End(p)],
            Groups <- Consumers,
            committed <- saved
ImplementsOffsets == Topic!SpecOffsets

=============================================================================
