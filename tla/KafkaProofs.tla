--------------------------- MODULE KafkaProofs ----------------------------
(***************************************************************************)
(* What the parts of MCKafka keep true for every value of their constants: *)
(* part by part, and at the end all of them together.                      *)
(***************************************************************************)
EXTENDS MCKafka, TLAPS

-----------------------------------------------------------------------------
(***************************************************************************)
(* KafkaLog delivers at least once and moves offsets as TopicOffsets says, *)
(* for any number of partitions, groups, requests and records.             *)
(***************************************************************************)
LogPlaces == Partitions \X Nat

LogsOK ==
    /\ log \in [Partitions -> Seq(Nat)]
    /\ request \in [Requests -> [todo : SUBSET Nat, sent : SUBSET Nat]]
    /\ issued \in Nat /\ answered \subseteq Nat

GroupsOK ==
    /\ saved \in [Consumers -> [Partitions -> Nat \cup {NoOffset}]]
    /\ position \in [Consumers -> [Partitions -> Nat]]
    /\ hand \in [Consumers -> SUBSET LogPlaces]
    /\ polled \in [Consumers -> BOOLEAN]
    /\ handled \in [Consumers -> SUBSET LogPlaces]
    /\ abandoned \in [Consumers -> SUBSET LogPlaces]
    /\ lost \in [Consumers -> SUBSET LogPlaces]

OnTopic(rec) == \E p \in Partitions : \E i \in DOMAIN log[p] : log[p][i] = rec

(* What a request has sent is on the topic before the request is answered. *)
SentWritten ==
    /\ \A r \in Requests : \A rec \in request[r].sent : OnTopic(rec)
    /\ \A rec \in answered : OnTopic(rec)

(* A consumer is between its committed offset and the end; it has fetched what
   it has in hand. *)
Between ==
    \A g \in Consumers : \A p \in Partitions :
        /\ Start(saved[g][p]) <= position[g][p]
        /\ position[g][p] <= Len(log[p])
        /\ \A o \in Nat : <<p, o>> \in hand[g] => o < position[g][p]

(* A manual commit comes with an empty hand, so what is in hand lies behind
   the committed offset. *)
CommitsLate ==
    \A g \in Consumers : g \notin auto =>
        /\ hand[g] # {} => polled[g]
        /\ \A p \in Partitions : \A o \in Nat :
              <<p, o>> \in hand[g] => Start(saved[g][p]) <= o

(* Everything below a consumer's position is accounted for, committed or not. *)
Accounted ==
    \A g \in Consumers : \A p \in Partitions : \A o \in 0 .. position[g][p] - 1 :
        \/ Settled(g, p, o)
        \/ <<p, o>> \in abandoned[g]
        \/ <<p, o>> \in hand[g]
        \/ g \in auto /\ <<p, o>> \in lost[g]

LogInv == LogsOK /\ GroupsOK /\ SentWritten /\ Between /\ CommitsLate /\ Accounted

USE LogAssumption DEF NoOffset, Start

-----------------------------------------------------------------------------
LEMMA LogInitInv == LogInit => LogInv
<1> SUFFICES ASSUME LogInit PROVE LogInv
  OBVIOUS
<1>1. LogsOK
  BY DEF LogInit, LogsOK, Idle
<1>2. GroupsOK
  BY DEF LogInit, GroupsOK
<1>3. SentWritten
  BY DEF LogInit, SentWritten, Idle
<1>4. \A p \in Partitions : Len(log[p]) = 0
  BY DEF LogInit
<1>5. Between /\ CommitsLate /\ Accounted
  BY <1>4 DEF LogInit, Between, CommitsLate, Accounted
<1> QED
  BY <1>1, <1>2, <1>3, <1>5 DEF LogInv

-----------------------------------------------------------------------------
(* Publishing *)

(* The log grows at its end, so that what consumers have met stays. *)
LEMMA LogGrows ==
    ASSUME LogsOK, NEW p \in Partitions, NEW more \in Seq(Nat),
           log' = [log EXCEPT ![p] = @ \o more]
    PROVE  /\ log' \in [Partitions -> Seq(Nat)]
           /\ \A q \in Partitions :
                 /\ Len(log[q]) <= Len(log'[q])
                 /\ \A i \in 1 .. Len(log[q]) : log'[q][i] = log[q][i]
           /\ \A i \in 1 .. Len(more) :
                 /\ Len(log[p]) + i \in 1 .. Len(log'[p])
                 /\ log'[p][Len(log[p]) + i] = more[i]
<1>1. log[p] \in Seq(Nat) /\ log[p] \o more \in Seq(Nat)
  BY DEF LogsOK
<1>2. /\ Len(log[p] \o more) = Len(log[p]) + Len(more)
      /\ \A i \in 1 .. Len(log[p]) : (log[p] \o more)[i] = log[p][i]
      /\ \A i \in 1 .. Len(more) : (log[p] \o more)[Len(log[p]) + i] = more[i]
  BY <1>1
<1>3. \A q \in Partitions : log'[q] = IF q = p THEN log[p] \o more ELSE log[q]
  BY DEF LogsOK
<1>4. \A q \in Partitions : Len(log[q]) \in Nat
  BY DEF LogsOK
<1>5. Len(more) \in Nat
  OBVIOUS
<1> QED
  BY <1>1, <1>2, <1>3, <1>4, <1>5 DEF LogsOK

(* What holds of the consumers does not depend on what is appended. *)
LEMMA GrowsInv ==
    ASSUME LogInv, UNCHANGED consumers,
           log' \in [Partitions -> Seq(Nat)],
           \A q \in Partitions :
              /\ Len(log[q]) <= Len(log'[q])
              /\ \A i \in 1 .. Len(log[q]) : log'[q][i] = log[q][i]
    PROVE  /\ GroupsOK' /\ Between' /\ CommitsLate' /\ Accounted'
           /\ \A rec : OnTopic(rec) => OnTopic(rec)'
<1>1. UNCHANGED <<auto, saved, position, hand, polled>>
      /\ UNCHANGED <<handled, abandoned, lost, dlt>>
  BY DEF consumers, offsets, fates
<1>2. \A q \in Partitions : Len(log[q]) \in Nat /\ Len(log'[q]) \in Nat
  BY DEF LogInv, LogsOK
<1>3. GroupsOK' /\ CommitsLate'
  BY <1>1 DEF LogInv, GroupsOK, CommitsLate
<1>4. Between'
  <2> SUFFICES ASSUME NEW g \in Consumers, NEW p \in Partitions
               PROVE  position[g][p] <= Len(log'[p])
    BY <1>1 DEF LogInv, Between
  <2>1. position[g][p] \in Nat /\ position[g][p] <= Len(log[p])
    BY DEF LogInv, GroupsOK, Between
  <2> QED
    BY <1>2, <2>1
<1>5. Accounted'
  <2> SUFFICES ASSUME NEW g \in Consumers, NEW p \in Partitions,
                      NEW o \in 0 .. position[g][p] - 1
               PROVE  Settled(g, p, o)' <=> Settled(g, p, o)
    BY <1>1 DEF LogInv, Accounted
  <2>1. o + 1 \in 1 .. Len(log[p])
    BY <1>2 DEF LogInv, GroupsOK, Between
  <2> QED
    BY <1>1, <2>1 DEF Settled, Record
<1>6. \A rec : OnTopic(rec) => OnTopic(rec)'
  <2> SUFFICES ASSUME NEW p \in Partitions, NEW i \in DOMAIN log[p]
               PROVE  i \in DOMAIN log'[p] /\ log'[p][i] = log[p][i]
    BY DEF OnTopic
  <2>1. DOMAIN log[p] = 1 .. Len(log[p]) /\ DOMAIN log'[p] = 1 .. Len(log'[p])
    BY DEF LogInv, LogsOK
  <2> QED
    BY <1>2, <2>1
<1> QED
  BY <1>3, <1>4, <1>5, <1>6

LEMMA WriteInv ==
    ASSUME LogInv, NEW r \in Requests, Write(r)
    PROVE  LogInv'
<1>1. PICK rec \in request[r].todo, p \in Partitions, twice \in BOOLEAN :
        /\ log' = [log EXCEPT ![p] = IF twice THEN @ \o <<rec, rec>>
                                              ELSE Append(@, rec)]
        /\ request' = [request EXCEPT ![r].todo = @ \ {rec},
                                      ![r].sent = @ \cup {rec}]
  BY DEF Write
<1>2. UNCHANGED <<issued, answered, consumers>>
  BY DEF Write
<1>3. rec \in Nat
  BY <1>1 DEF LogInv, LogsOK
<1> DEFINE more == IF twice THEN <<rec, rec>> ELSE <<rec>>
<1>4. more \in Seq(Nat) /\ 1 \in 1 .. Len(more) /\ more[1] = rec
  BY <1>3
<1>5. log' = [log EXCEPT ![p] = @ \o more]
  <2>1. log[p] \in Seq(Nat) /\ Append(log[p], rec) = log[p] \o <<rec>>
    BY <1>3 DEF LogInv, LogsOK
  <2> QED
    BY <1>1, <2>1
<1> HIDE DEF more
<1>6. /\ log' \in [Partitions -> Seq(Nat)]
      /\ \A q \in Partitions :
            /\ Len(log[q]) <= Len(log'[q])
            /\ \A i \in 1 .. Len(log[q]) : log'[q][i] = log[q][i]
      /\ OnTopic(rec)'
  <2>1. /\ log' \in [Partitions -> Seq(Nat)]
        /\ \A q \in Partitions :
              /\ Len(log[q]) <= Len(log'[q])
              /\ \A i \in 1 .. Len(log[q]) : log'[q][i] = log[q][i]
        /\ Len(log[p]) + 1 \in 1 .. Len(log'[p])
        /\ log'[p][Len(log[p]) + 1] = rec
    <3>1. LogsOK
      BY DEF LogInv
    <3>2. \A i \in 1 .. Len(more) :
             /\ Len(log[p]) + i \in 1 .. Len(log'[p])
             /\ log'[p][Len(log[p]) + i] = more[i]
      BY <1>4, <1>5, <3>1, LogGrows
    <3>3. /\ log' \in [Partitions -> Seq(Nat)]
          /\ \A q \in Partitions :
                /\ Len(log[q]) <= Len(log'[q])
                /\ \A i \in 1 .. Len(log[q]) : log'[q][i] = log[q][i]
      BY <1>4, <1>5, <3>1, LogGrows
    <3> QED
      BY <1>4, <3>2, <3>3
  <2>2. DOMAIN log'[p] = 1 .. Len(log'[p])
    BY <2>1
  <2> QED
    BY <2>1, <2>2 DEF OnTopic
<1>7. LogsOK'
  <2>1. request' \in [Requests -> [todo : SUBSET Nat, sent : SUBSET Nat]]
    <3>1. request[r].todo \ {rec} \in SUBSET Nat
      BY DEF LogInv, LogsOK
    <3>2. request[r].sent \cup {rec} \in SUBSET Nat
      BY <1>3 DEF LogInv, LogsOK
    <3> QED
      BY <1>1, <3>1, <3>2 DEF LogInv, LogsOK
  <2> QED
    BY <1>2, <1>6, <2>1 DEF LogInv, LogsOK
<1>8. GroupsOK' /\ Between' /\ CommitsLate' /\ Accounted'
  BY <1>2, <1>6, GrowsInv
<1>9. SentWritten'
  <2>1. \A rec2 : OnTopic(rec2) => OnTopic(rec2)'
    BY <1>2, <1>6, GrowsInv
  <2>2. \A s \in Requests : request'[s].sent \subseteq request[s].sent \cup {rec}
    BY <1>1 DEF LogInv, LogsOK
  <2> QED
    BY <1>2, <1>6, <2>1, <2>2 DEF LogInv, SentWritten
<1> QED
  BY <1>7, <1>8, <1>9 DEF LogInv

LEMMA RequestInv ==
    ASSUME LogInv, NEW r \in Requests,
           BeginPublish(r) \/ AnswerPublish(r) \/ PublishFails(r)
    PROVE  LogInv'
<1>1. UNCHANGED <<log, consumers>>
  BY DEF BeginPublish, AnswerPublish, PublishFails
<1>2. GroupsOK' /\ Between' /\ CommitsLate' /\ Accounted'
  BY <1>1, GrowsInv DEF LogInv, LogsOK
<1>3. \A rec : OnTopic(rec) <=> OnTopic(rec)'
  BY <1>1 DEF OnTopic
<1>4. LogsOK' /\ SentWritten'
  <2>1. CASE BeginPublish(r)
    <3>1. PICK n \in 1 .. MaxBatch :
            /\ issued' = issued + n
            /\ request' = [request EXCEPT ![r].todo = issued + 1 .. issued + n]
      BY <2>1 DEF BeginPublish
    <3>2. n \in Nat /\ issued + 1 .. issued + n \subseteq Nat
      BY <3>1 DEF LogInv, LogsOK
    <3>3. answered' = answered
      BY <2>1 DEF BeginPublish
    <3>4. LogsOK'
      <4>1. request' \in [Requests -> [todo : SUBSET Nat, sent : SUBSET Nat]]
        BY <3>1, <3>2 DEF LogInv, LogsOK
      <4>2. issued' \in Nat
        BY <3>1, <3>2 DEF LogInv, LogsOK
      <4> QED
        BY <1>1, <3>3, <4>1, <4>2 DEF LogInv, LogsOK
    <3>5. \A s \in Requests : request'[s].sent = request[s].sent
      BY <3>1 DEF LogInv, LogsOK
    <3> QED
      BY <1>3, <3>3, <3>4, <3>5 DEF LogInv, SentWritten
  <2>2. CASE AnswerPublish(r)
    <3>1. answered' = answered \cup request[r].sent
      BY <2>2 DEF AnswerPublish, AllWritten
    <3>2. request' = [request EXCEPT ![r] = Idle] /\ issued' = issued
      BY <2>2 DEF AnswerPublish
    <3>3. LogsOK'
      BY <1>1, <3>1, <3>2 DEF LogInv, LogsOK, Idle
    <3>4. \A s \in Requests : request'[s].sent \subseteq request[s].sent
      BY <3>2 DEF LogInv, LogsOK, Idle
    <3> QED
      BY <1>3, <3>1, <3>3, <3>4 DEF LogInv, SentWritten
  <2>3. CASE PublishFails(r)
    <3>1. /\ request' = [request EXCEPT ![r] = Idle]
          /\ issued' = issued /\ answered' = answered
      BY <2>3 DEF PublishFails
    <3>2. LogsOK'
      BY <1>1, <3>1 DEF LogInv, LogsOK, Idle
    <3>3. \A s \in Requests : request'[s].sent \subseteq request[s].sent
      BY <3>1 DEF LogInv, LogsOK, Idle
    <3> QED
      BY <1>3, <3>1, <3>2, <3>3 DEF LogInv, SentWritten
  <2> QED
    BY <2>1, <2>2, <2>3
<1> QED
  BY <1>2, <1>4 DEF LogInv

-----------------------------------------------------------------------------
(* Consuming *)

LEMMA ProducersInv ==
    ASSUME LogInv, UNCHANGED producers
    PROVE  LogsOK' /\ SentWritten'
  BY DEF producers, LogInv, LogsOK, SentWritten, OnTopic

(* A poll, or the next record: what is fetched comes into an empty hand. *)
LEMMA FetchInv ==
    ASSUME LogInv, NEW g \in Consumers, NEW batch \in SUBSET LogPlaces,
           NEW to \in [Partitions -> Nat],
           hand[g] = {},
           \A p \in Partitions : position[g][p] <= to[p] /\ to[p] <= Len(log[p]),
           \A p \in Partitions : \A o \in Nat :
              <<p, o>> \in batch <=> position[g][p] <= o /\ o < to[p],
           hand' = [hand EXCEPT ![g] = batch],
           position' = [position EXCEPT ![g] = to],
           polled' \in [Consumers -> BOOLEAN],
           \A h \in Consumers \ {g} : polled'[h] = polled[h],
           g \in auto \/ polled'[g],
           UNCHANGED <<producers, auto, saved, fates>>
    PROVE  LogInv'
<1>1. LogsOK' /\ SentWritten'
  BY ProducersInv
<1>2. UNCHANGED <<log, handled, abandoned, lost, dlt>>
  BY DEF producers, fates
<1>3. GroupsOK'
  BY <1>2 DEF LogInv, GroupsOK
<1>4. /\ hand'[g] = batch /\ position'[g] = to
      /\ \A h \in Consumers \ {g} :
            hand'[h] = hand[h] /\ position'[h] = position[h]
  BY DEF LogInv, GroupsOK
<1>5. \A p \in Partitions :
         /\ saved[g][p] \in Nat \cup {NoOffset}
         /\ position[g][p] \in Nat /\ to[p] \in Nat /\ Len(log[p]) \in Nat
         /\ Start(saved[g][p]) <= position[g][p]
  BY DEF LogInv, LogsOK, GroupsOK, Between
<1>6. Between'
  <2> SUFFICES ASSUME NEW p \in Partitions
               PROVE  /\ Start(saved[g][p]) <= to[p]
                      /\ to[p] <= Len(log[p])
                      /\ \A o \in Nat : <<p, o>> \in batch => o < to[p]
    BY <1>2, <1>4 DEF LogInv, Between
  <2> QED
    BY <1>5
<1>7. CommitsLate'
  <2> SUFFICES ASSUME NEW p \in Partitions, NEW o \in Nat, <<p, o>> \in batch
               PROVE  Start(saved[g][p]) <= o
    BY <1>4 DEF LogInv, CommitsLate
  <2> QED
    BY <1>5
<1>8. Accounted'
  <2>1. \A h \in Consumers, p \in Partitions, o \in Nat :
           Settled(h, p, o)' <=> Settled(h, p, o)
    BY <1>2 DEF Settled, Record
  <2>2. ASSUME NEW h \in Consumers \ {g}, NEW p \in Partitions,
               NEW o \in 0 .. position[h][p] - 1
        PROVE  \/ Settled(h, p, o)'
               \/ <<p, o>> \in abandoned[h]
               \/ <<p, o>> \in hand'[h]
               \/ h \in auto /\ <<p, o>> \in lost[h]
    BY <1>4, <2>1, <2>2 DEF LogInv, GroupsOK, Accounted
  <2>3. ASSUME NEW p \in Partitions, NEW o \in 0 .. to[p] - 1
        PROVE  \/ Settled(g, p, o)'
               \/ <<p, o>> \in abandoned[g]
               \/ <<p, o>> \in batch
               \/ g \in auto /\ <<p, o>> \in lost[g]
    <3>1. CASE o < position[g][p]
      <4>1. o \in 0 .. position[g][p] - 1
        BY <1>5, <3>1
      <4> QED
        BY <2>1, <4>1 DEF LogInv, Accounted
    <3>2. CASE position[g][p] <= o
      BY <1>5, <3>2
    <3> QED
      BY <1>5, <3>1, <3>2
  <2> SUFFICES ASSUME NEW h \in Consumers, NEW p \in Partitions,
                      NEW o \in 0 .. position'[h][p] - 1
               PROVE  \/ Settled(h, p, o)'
                      \/ <<p, o>> \in abandoned[h]
                      \/ <<p, o>> \in hand'[h]
                      \/ h \in auto /\ <<p, o>> \in lost[h]
    BY <1>2 DEF Accounted
  <2>4. CASE h = g
    BY <1>4, <2>3, <2>4
  <2>5. CASE h # g
    BY <1>4, <2>2, <2>5
  <2> QED
    BY <2>4, <2>5
<1> QED
  BY <1>1, <1>3, <1>6, <1>7, <1>8 DEF LogInv

LEMMA PollInv ==
    ASSUME LogInv, NEW g \in Consumers, Poll(g)
    PROVE  LogInv'
<1>1. PICK take \in [Partitions -> 0 .. MaxBatch] :
        LET batch == UNION {{p} \X (position[g][p] ..
                                       position[g][p] + take[p] - 1) :
                                p \in Partitions}
        IN  /\ \A p \in Partitions : position[g][p] + take[p] <= End(p)
            /\ position' = [position EXCEPT
                              ![g] = [p \in Partitions |-> @[p] + take[p]]]
            /\ hand' = [hand EXCEPT ![g] = batch]
  BY DEF Poll
<1> DEFINE batch == UNION {{p} \X (position[g][p] ..
                                      position[g][p] + take[p] - 1) :
                               p \in Partitions}
           to == [p \in Partitions |-> position[g][p] + take[p]]
<1>2. \A p \in Partitions : position[g][p] \in Nat /\ take[p] \in Nat
  BY DEF LogInv, GroupsOK
<1>3. to \in [Partitions -> Nat]
  BY <1>2
<1>4. \A p \in Partitions : \A o \in Nat :
         <<p, o>> \in batch <=> position[g][p] <= o /\ o < to[p]
  BY <1>2
<1>5. batch \in SUBSET LogPlaces
  BY <1>2 DEF LogPlaces
<1>6. \A p \in Partitions : position[g][p] <= to[p] /\ to[p] <= Len(log[p])
  BY <1>1, <1>2 DEF End
<1>7. position' = [position EXCEPT ![g] = to] /\ hand' = [hand EXCEPT ![g] = batch]
  BY <1>1 DEF LogInv, GroupsOK
<1>8. /\ hand[g] = {} /\ polled' = [polled EXCEPT ![g] = TRUE]
      /\ UNCHANGED <<producers, auto, saved, fates>>
  BY DEF Poll, LogInv, GroupsOK, CommitsLate
<1>9. /\ polled' \in [Consumers -> BOOLEAN] /\ polled'[g]
      /\ \A h \in Consumers \ {g} : polled'[h] = polled[h]
  BY <1>8 DEF LogInv, GroupsOK
<1> HIDE DEF batch, to
<1> QED
  BY <1>3, <1>4, <1>5, <1>6, <1>7, <1>8, <1>9, FetchInv

LEMMA NextRecordInv ==
    ASSUME LogInv, NEW g \in Consumers, NextRecord(g)
    PROVE  LogInv'
<1>1. PICK p \in Partitions :
        /\ position[g][p] < End(p)
        /\ hand' = [hand EXCEPT ![g] = {<<p, position[g][p]>>}]
        /\ position' = [position EXCEPT ![g][p] = @ + 1]
  BY DEF NextRecord
<1> DEFINE batch == {<<p, position[g][p]>>}
           to == [position[g] EXCEPT ![p] = @ + 1]
<1>2. \A q \in Partitions : position[g][q] \in Nat /\ Len(log[q]) \in Nat
  BY DEF LogInv, GroupsOK, LogsOK
<1>3. to \in [Partitions -> Nat]
  BY <1>2 DEF LogInv, GroupsOK
<1>4. \A q \in Partitions :
         to[q] = IF q = p THEN position[g][q] + 1 ELSE position[g][q]
  BY DEF LogInv, GroupsOK
<1>5. \A q \in Partitions : \A o \in Nat :
         <<q, o>> \in batch <=> position[g][q] <= o /\ o < to[q]
  BY <1>2, <1>4
<1>6. batch \in SUBSET LogPlaces
  BY <1>2 DEF LogPlaces
<1>7. \A q \in Partitions : position[g][q] <= to[q] /\ to[q] <= Len(log[q])
  BY <1>1, <1>2, <1>4 DEF LogInv, Between, End
<1>8. position' = [position EXCEPT ![g] = to] /\ hand' = [hand EXCEPT ![g] = batch]
  BY <1>1 DEF LogInv, GroupsOK
<1>9. /\ hand[g] = {} /\ polled' = polled /\ g \in auto
      /\ UNCHANGED <<producers, auto, saved, fates>>
  BY DEF NextRecord
<1>10. polled' \in [Consumers -> BOOLEAN]
  BY <1>9 DEF LogInv, GroupsOK
<1> HIDE DEF batch, to
<1> QED
  BY <1>3, <1>5, <1>6, <1>7, <1>8, <1>9, <1>10, FetchInv

(* A record leaves the hand settled, or abandoned with the rest of it. *)
LEMMA SettleInv ==
    ASSUME LogInv, NEW g \in Consumers,
           UNCHANGED <<producers, auto, offsets, lost>>,
           hand' \in [Consumers -> SUBSET LogPlaces],
           handled' \in [Consumers -> SUBSET LogPlaces],
           abandoned' \in [Consumers -> SUBSET LogPlaces],
           polled' \in [Consumers -> BOOLEAN],
           \A h \in Consumers :
              /\ handled[h] \subseteq handled'[h]
              /\ abandoned[h] \subseteq abandoned'[h]
              /\ hand'[h] \subseteq hand[h]
              /\ polled[h] /\ hand'[h] # {} => polled'[h],
           dlt \subseteq dlt',
           \A h \in Consumers : \A p \in Partitions : \A o \in Nat :
              <<p, o>> \in hand[h] \ hand'[h] =>
                 \/ Settled(h, p, o)'
                 \/ <<p, o>> \in abandoned'[h]
    PROVE  LogInv'
<1>1. LogsOK' /\ SentWritten'
  BY ProducersInv
<1>2. UNCHANGED <<log, saved, position>>
  BY DEF producers, offsets
<1>3. GroupsOK'
  BY <1>2 DEF LogInv, GroupsOK
<1>4. Between' /\ CommitsLate'
  BY <1>2 DEF LogInv, GroupsOK, Between, CommitsLate
<1>5. Accounted'
  <2> SUFFICES ASSUME NEW h \in Consumers, NEW p \in Partitions,
                      NEW o \in 0 .. position[h][p] - 1
               PROVE  \/ Settled(h, p, o)'
                      \/ <<p, o>> \in abandoned'[h]
                      \/ <<p, o>> \in hand'[h]
                      \/ h \in auto /\ <<p, o>> \in lost[h]
    BY <1>2 DEF Accounted
  <2>1. o \in Nat
    BY DEF LogInv, GroupsOK
  <2>2. Settled(h, p, o) => Settled(h, p, o)'
    BY <1>2 DEF Settled, Record
  <2> QED
    BY <2>1, <2>2 DEF LogInv, Accounted
<1> QED
  BY <1>1, <1>3, <1>4, <1>5 DEF LogInv

LEMMA HandleInv ==
    ASSUME LogInv, NEW g \in Consumers, Handle(g)
    PROVE  LogInv'
<1>1. PICK place \in hand[g] :
        /\ ~Poisoned(place)
        /\ handled' = [handled EXCEPT ![g] = @ \cup {place}]
        /\ hand' = [hand EXCEPT ![g] = @ \ {place}]
  BY DEF Handle
<1>2. UNCHANGED <<producers, auto, offsets, polled, abandoned, lost, dlt>>
  BY DEF Handle
<1>3. place \in LogPlaces
  BY <1>1 DEF LogInv, GroupsOK
<1>4. /\ handled' \in [Consumers -> SUBSET LogPlaces]
      /\ hand' \in [Consumers -> SUBSET LogPlaces]
      /\ \A h \in Consumers :
            /\ handled[h] \subseteq handled'[h] /\ hand'[h] \subseteq hand[h]
            /\ \A x \in hand[h] \ hand'[h] : h = g /\ x = place /\ x \in handled'[h]
  BY <1>1, <1>3 DEF LogInv, GroupsOK
<1>5. \A p \in Partitions : \A o \in Nat :
         place = <<p, o>> => Settled(g, p, o)'
  <2> SUFFICES ASSUME NEW p \in Partitions, NEW o \in Nat, place = <<p, o>>
               PROVE  Settled(g, p, o)'
    OBVIOUS
  <2>1. Record(p, o)' \notin Poison
    BY <1>1, <1>2 DEF Poisoned, Record, producers
  <2>2. place \in handled'[g]
    BY <1>1 DEF LogInv, GroupsOK
  <2> QED
    BY <2>1, <2>2 DEF Settled
<1> QED
  BY <1>2, <1>4, <1>5, SettleInv DEF LogInv, GroupsOK

LEMMA DeadLetterInv ==
    ASSUME LogInv, NEW g \in Consumers, DeadLetter(g)
    PROVE  LogInv'
<1>1. PICK place \in hand[g] :
        /\ Poisoned(place)
        /\ dlt' = dlt \cup {Record(place[1], place[2])}
        /\ hand' = [hand EXCEPT ![g] = @ \ {place}]
  BY DEF DeadLetter
<1>2. /\ g \notin auto
      /\ UNCHANGED <<producers, auto, offsets, polled, handled, abandoned, lost>>
  BY DEF DeadLetter
<1>3. place \in LogPlaces
  BY <1>1 DEF LogInv, GroupsOK
<1>4. /\ hand' \in [Consumers -> SUBSET LogPlaces]
      /\ \A h \in Consumers :
            /\ hand'[h] \subseteq hand[h]
            /\ \A x \in hand[h] \ hand'[h] : h = g /\ x = place
  BY <1>1, <1>3 DEF LogInv, GroupsOK
<1>5. \A p \in Partitions : \A o \in Nat :
         place = <<p, o>> => Settled(g, p, o)'
  BY <1>1, <1>2 DEF Settled, Poisoned, Record, producers
<1>6. UNCHANGED <<producers, auto, offsets, lost>> /\ dlt \subseteq dlt'
  BY <1>1, <1>2
<1>7. /\ handled' \in [Consumers -> SUBSET LogPlaces] /\ handled' = handled
      /\ abandoned' \in [Consumers -> SUBSET LogPlaces] /\ abandoned' = abandoned
      /\ polled' \in [Consumers -> BOOLEAN] /\ polled' = polled
  BY <1>2 DEF LogInv, GroupsOK
<1>8. \A h \in Consumers : \A p \in Partitions : \A o \in Nat :
         <<p, o>> \in hand[h] \ hand'[h] => Settled(h, p, o)'
  BY <1>4, <1>5
<1> QED
  BY <1>4, <1>6, <1>7, <1>8, SettleInv

LEMMA RaiseInv ==
    ASSUME LogInv, NEW g \in Consumers, Raise(g)
    PROVE  LogInv'
<1>1. /\ abandoned' = [abandoned EXCEPT ![g] = @ \cup hand[g]]
      /\ hand' = [hand EXCEPT ![g] = {}]
      /\ polled' = [polled EXCEPT ![g] = FALSE]
      /\ UNCHANGED <<producers, auto, offsets, handled, lost, dlt>>
  BY DEF Raise
<1>2. /\ abandoned' \in [Consumers -> SUBSET LogPlaces]
      /\ hand' \in [Consumers -> SUBSET LogPlaces]
      /\ polled' \in [Consumers -> BOOLEAN]
      /\ \A h \in Consumers :
            /\ abandoned[h] \subseteq abandoned'[h]
            /\ hand'[h] \subseteq hand[h]
            /\ hand[h] \ hand'[h] \subseteq abandoned'[h]
            /\ polled[h] /\ hand'[h] # {} => polled'[h]
  BY <1>1 DEF LogInv, GroupsOK
<1> QED
  BY <1>1, <1>2, SettleInv DEF LogInv, GroupsOK

-----------------------------------------------------------------------------
(* Committing and restarting *)

LEMMA CommitInv ==
    ASSUME LogInv, NEW g \in Consumers, Commit(g) \/ AutoCommit(g)
    PROVE  LogInv'
<1>1. LogsOK' /\ SentWritten'
  BY ProducersInv DEF Commit, AutoCommit
<1>2. /\ UNCHANGED <<producers, auto, position, hand, fates>>
      /\ saved' = [saved EXCEPT ![g] = position[g]] \/ saved' = saved
      /\ polled' = [polled EXCEPT ![g] = FALSE] \/ polled' = polled
      /\ g \notin auto => hand[g] = {}
  BY DEF Commit, AutoCommit, MayCommit, LogInv, GroupsOK
<1>3. UNCHANGED <<log, handled, abandoned, lost, dlt>>
  BY <1>2 DEF producers, fates
<1>4. /\ saved' \in [Consumers -> [Partitions -> Nat \cup {NoOffset}]]
      /\ polled' \in [Consumers -> BOOLEAN]
      /\ saved'[g] \in {saved[g], position[g]}
      /\ \A h \in Consumers \ {g} : saved'[h] = saved[h] /\ polled'[h] = polled[h]
  <2>1. /\ position[g] \in [Partitions -> Nat \cup {NoOffset}]
        /\ saved \in [Consumers -> [Partitions -> Nat \cup {NoOffset}]]
        /\ polled \in [Consumers -> BOOLEAN]
    BY DEF LogInv, GroupsOK
  <2>2. CASE saved' = saved
    BY <1>2, <2>1, <2>2
  <2>3. CASE saved' = [saved EXCEPT ![g] = position[g]]
    BY <1>2, <2>1, <2>3
  <2> QED
    BY <1>2, <2>2, <2>3
<1>5. GroupsOK'
  BY <1>2, <1>3, <1>4 DEF LogInv, GroupsOK
<1>6. Between'
  <2> SUFFICES ASSUME NEW p \in Partitions
               PROVE  Start(saved'[g][p]) <= position[g][p]
    BY <1>2, <1>3, <1>4 DEF LogInv, Between
  <2>1. position[g][p] \in Nat /\ Start(saved[g][p]) <= position[g][p]
    BY DEF LogInv, GroupsOK, Between
  <2> QED
    BY <1>4, <2>1
<1>7. CommitsLate'
  BY <1>2, <1>4 DEF LogInv, CommitsLate
<1>8. Accounted'
  BY <1>2, <1>3 DEF LogInv, Accounted, Settled, Record
<1> QED
  BY <1>1, <1>5, <1>6, <1>7, <1>8 DEF LogInv

(* A new process begins place the committed offset; what the old one had in hand
   below it is lost, and only with auto-commit there is any. *)
LEMMA RestartInv ==
    ASSUME LogInv, NEW g \in Consumers, Restart(g)
    PROVE  LogInv'
<1> DEFINE from == [p \in Partitions |-> Start(saved[g][p])]
<1>1. /\ position' = [position EXCEPT ![g] = from]
      /\ hand' = [hand EXCEPT ![g] = {}]
      /\ polled' = [polled EXCEPT ![g] = FALSE]
      /\ lost' = [lost EXCEPT ![g] = @ \cup LostWith(g)]
      /\ UNCHANGED <<producers, auto, saved, handled, abandoned, dlt>>
  BY DEF Restart
<1>2. LogsOK' /\ SentWritten' /\ log' = log
  BY <1>1, ProducersInv DEF producers
<1>3. from \in [Partitions -> Nat]
  BY DEF LogInv, GroupsOK
<1>4. LostWith(g) \subseteq LogPlaces
  BY DEF LostWith, LogInv, GroupsOK
<1>5. GroupsOK'
  BY <1>1, <1>3, <1>4 DEF LogInv, GroupsOK
<1>6. /\ position'[g] = from /\ hand'[g] = {}
      /\ lost'[g] = lost[g] \cup LostWith(g)
      /\ \A h \in Consumers \ {g} :
            /\ position'[h] = position[h] /\ hand'[h] = hand[h]
            /\ polled'[h] = polled[h] /\ lost'[h] = lost[h]
  BY <1>1 DEF LogInv, GroupsOK
<1>7. \A p \in Partitions :
         /\ from[p] \in Nat /\ position[g][p] \in Nat /\ Len(log[p]) \in Nat
         /\ from[p] = Start(saved[g][p]) /\ from[p] <= position[g][p]
         /\ position[g][p] <= Len(log[p])
  BY <1>3 DEF LogInv, LogsOK, GroupsOK, Between
<1> HIDE DEF from
<1>8. Between'
  BY <1>1, <1>2, <1>6, <1>7 DEF LogInv, Between
<1>9. CommitsLate'
  BY <1>1, <1>6 DEF LogInv, CommitsLate
<1>10. Accounted'
  <2>1. \A h \in Consumers, p \in Partitions, o \in Nat :
           Settled(h, p, o)' <=> Settled(h, p, o)
    BY <1>1, <1>2 DEF Settled, Record
  <2>2. ASSUME NEW h \in Consumers \ {g}, NEW p \in Partitions,
               NEW o \in 0 .. position[h][p] - 1
        PROVE  \/ Settled(h, p, o)'
               \/ <<p, o>> \in abandoned[h]
               \/ <<p, o>> \in hand'[h]
               \/ h \in auto /\ <<p, o>> \in lost'[h]
    <3>1. position[h][p] \in Nat /\ o \in Nat
      BY <2>2 DEF LogInv, GroupsOK
    <3>2. \/ Settled(h, p, o)
          \/ <<p, o>> \in abandoned[h]
          \/ <<p, o>> \in hand[h]
          \/ h \in auto /\ <<p, o>> \in lost[h]
      BY <2>2 DEF LogInv, Accounted
    <3> QED
      BY <1>6, <2>1, <2>2, <3>1, <3>2
  <2>3. ASSUME NEW p \in Partitions, NEW o \in 0 .. from[p] - 1
        PROVE  \/ Settled(g, p, o)'
               \/ <<p, o>> \in abandoned[g]
               \/ g \in auto /\ <<p, o>> \in lost'[g]
    <3>1. o \in 0 .. position[g][p] - 1 /\ o \in Nat /\ o < Start(saved[g][p])
      BY <1>7
    <3>2. <<p, o>> \in hand[g] => g \in auto /\ <<p, o>> \in lost'[g]
      <4> SUFFICES ASSUME <<p, o>> \in hand[g]
                   PROVE  g \in auto /\ <<p, o>> \in lost'[g]
        OBVIOUS
      <4>1. <<p, o>> \in LostWith(g)
        BY <3>1 DEF LostWith
      <4>2. g \in auto
        BY <1>7, <3>1 DEF LogInv, CommitsLate
      <4> QED
        BY <1>6, <4>1, <4>2
    <3> QED
      BY <1>6, <2>1, <3>1, <3>2 DEF LogInv, Accounted
  <2> QED
    BY <1>1, <1>6, <2>2, <2>3, ZenonT(30) DEF Accounted
<1> QED
  BY <1>2, <1>5, <1>8, <1>9, <1>10 DEF LogInv

-----------------------------------------------------------------------------
LEMMA LogNextInv == LogInv /\ [LogNext]_logVars => LogInv'
<1> SUFFICES ASSUME LogInv, [LogNext]_logVars PROVE LogInv'
  OBVIOUS
<1>1. ASSUME NEW r \in Requests, Publishing(r) PROVE LogInv'
  BY <1>1, WriteInv, RequestInv DEF Publishing
<1>2. ASSUME NEW g \in Consumers, Consuming(g) PROVE LogInv'
  BY <1>2, PollInv, NextRecordInv, HandleInv, DeadLetterInv, RaiseInv, CommitInv,
     RestartInv DEF Consuming
<1>3. CASE FlipBroker \/ UNCHANGED logVars
  <2>1. UNCHANGED <<producers, consumers>>
    BY <1>3 DEF FlipBroker, logVars
  <2>2. LogsOK' /\ SentWritten'
    BY <2>1, ProducersInv
  <2>3. GroupsOK' /\ Between' /\ CommitsLate' /\ Accounted'
    BY <2>1, GrowsInv DEF producers, LogInv, LogsOK
  <2> QED
    BY <2>2, <2>3 DEF LogInv
<1> QED
  BY <1>1, <1>2, <1>3 DEF LogNext

(* The invariant holds in every reachable state of the topic. *)
THEOREM LogInvariance == LogSpec => []LogInv
  BY LogInitInv, LogNextInv, PTL DEF LogSpec

(* At least once, for any number of partitions, groups, requests and records:
   what was answered is on the topic, and what lies below a committed offset
   was settled, or abandoned by an exception, or with auto-commit in hand. *)
THEOREM DeliversAtLeastOnce == LogSpec => []AtLeastOnce
<1>1. LogInv => AtLeastOnce
  <2> SUFFICES ASSUME LogInv PROVE AtLeastOnce
    OBVIOUS
  <2>1. ASSUME NEW g \in Consumers, NEW p \in Partitions,
               NEW o \in 0 .. Start(saved[g][p]) - 1
        PROVE  \/ Settled(g, p, o)
               \/ <<p, o>> \in abandoned[g]
               \/ g \in auto /\ <<p, o>> \in hand[g] \cup lost[g]
    <3>1. /\ saved[g][p] \in Nat \cup {NoOffset} /\ position[g][p] \in Nat
          /\ Start(saved[g][p]) <= position[g][p]
      BY DEF LogInv, GroupsOK, Between
    <3>2. o \in 0 .. position[g][p] - 1 /\ o \in Nat /\ ~(Start(saved[g][p]) <= o)
      BY <3>1
    <3>3. <<p, o>> \in hand[g] => g \in auto
      BY <3>2 DEF LogInv, CommitsLate
    <3> QED
      BY <3>2, <3>3 DEF LogInv, Accounted
  <2> QED
    BY <2>1 DEF LogInv, SentWritten, OnTopic, AtLeastOnce
<1> QED
  BY <1>1, LogInvariance, PTL

-----------------------------------------------------------------------------
(* The refinement *)

LEMMA WriteGrows ==
    ASSUME LogInv, NEW r \in Requests, Write(r)
    PROVE  Topic!NextOffsets
<1>1. PICK rec \in request[r].todo, p \in Partitions, twice \in BOOLEAN :
        log' = [log EXCEPT ![p] = IF twice THEN @ \o <<rec, rec>>
                                            ELSE Append(@, rec)]
  BY DEF Write
<1>2. saved' = saved
  BY DEF Write, consumers, offsets
<1> DEFINE more == IF twice THEN <<rec, rec>> ELSE <<rec>>
           n == IF twice THEN 2 ELSE 1
<1>3. log \in [Partitions -> Seq(Nat)] /\ rec \in Nat
  BY <1>1 DEF LogInv, LogsOK
<1>4. more \in Seq(Nat) /\ Len(more) = n
  BY <1>3
<1>5. log' = [log EXCEPT ![p] = @ \o more]
  <2>1. log[p] \in Seq(Nat) /\ Append(log[p], rec) = log[p] \o <<rec>>
    BY <1>3
  <2> QED
    BY <1>1, <2>1
<1>6. n \in 1 .. 2
  OBVIOUS
<1> HIDE DEF more, n
<1>7. \A q \in Partitions :
         Len(log'[q]) = IF q = p THEN Len(log[q]) + n ELSE Len(log[q])
  <2>1. \A q \in Partitions :
           log'[q] = IF q = p THEN log[q] \o more ELSE log[q]
    BY <1>3, <1>5
  <2>2. log[p] \in Seq(Nat)
    BY <1>3
  <2>3. Len(log[p] \o more) = Len(log[p]) + n
    BY <1>4, <1>6, <2>2
  <2> QED
    BY <2>1, <2>3
<1>8. [q \in Partitions |-> Len(log'[q])]
        = [[q \in Partitions |-> Len(log[q])] EXCEPT ![p] = @ + n]
  BY <1>7
<1>9. Topic!Grow(p)
  BY <1>2, <1>6, <1>8 DEF Topic!Grow, End
<1> QED
  BY <1>9 DEF Topic!NextOffsets

LEMMA CommitAdvances ==
    ASSUME LogInv, NEW g \in Consumers, Commit(g) \/ AutoCommit(g)
    PROVE  Topic!NextOffsets \/ UNCHANGED <<log, saved>>
<1>1. log' = log
  BY DEF Commit, AutoCommit, producers
<1>2. saved' = [saved EXCEPT ![g] = position[g]] \/ saved' = saved
  BY DEF Commit, AutoCommit, LogInv, GroupsOK
<1>3. CASE saved' = saved
  BY <1>1, <1>3
<1>4. CASE saved' = [saved EXCEPT ![g] = position[g]]
  <2> DEFINE ends == [p \in Partitions |-> Len(log[p])]
  <2>1. \A p \in Partitions :
           /\ position[g][p] \in Nat /\ ends[p] \in Nat
           /\ Start(saved[g][p]) <= position[g][p] /\ position[g][p] <= ends[p]
    BY DEF LogInv, LogsOK, GroupsOK, Between
  <2> HIDE DEF ends
  <2>2. position[g] \in [Partitions -> UNION {0 .. ends[p] : p \in Partitions}]
    <3>1. DOMAIN position[g] = Partitions
          /\ position[g] = [p \in Partitions |-> position[g][p]]
      BY DEF LogInv, GroupsOK
    <3>2. ASSUME NEW p \in Partitions PROVE position[g][p] \in 0 .. ends[p]
      <4>1. position[g][p] \in Nat /\ ends[p] \in Nat /\ position[g][p] <= ends[p]
        BY <2>1
      <4> QED
        BY <4>1
    <3> QED
      BY <3>1, <3>2
  <2>3. ends' = ends
    BY <1>1 DEF ends
  <2>4. Topic!Advance(g)
    BY <1>4, <2>1, <2>2, <2>3 DEF ends, End,
       Topic!Advance, Topic!Start, Topic!NoOffset
  <2> QED
    BY <2>4 DEF Topic!NextOffsets
<1> QED
  BY <1>2, <1>3, <1>4

(* What the lag task sees of the topic is TopicOffsets: no commit takes a group
   back or past the end, whatever the producers resend and whoever restarts. *)
THEOREM RefinesOffsets == LogSpec => ImplementsOffsets
<1> DEFINE shown == <<[p \in Partitions |-> End(p)], saved>>
<1>1. LogInit => Topic!InitOffsets
  BY DEF LogInit, Topic!InitOffsets, Topic!NoOffset, End
<1>2. LogInv /\ [LogNext]_logVars => [Topic!NextOffsets]_shown
  <2> SUFFICES ASSUME LogInv, [LogNext]_logVars
               PROVE  Topic!NextOffsets \/ UNCHANGED <<log, saved>>
    BY DEF End
  <2>1. ASSUME NEW r \in Requests, Publishing(r)
        PROVE  Topic!NextOffsets \/ UNCHANGED <<log, saved>>
    <3>1. CASE Write(r)
      BY <3>1, WriteGrows
    <3>2. CASE BeginPublish(r) \/ AnswerPublish(r) \/ PublishFails(r)
      BY <3>2 DEF BeginPublish, AnswerPublish, PublishFails, consumers, offsets
    <3> QED
      BY <2>1, <3>1, <3>2 DEF Publishing
  <2>2. ASSUME NEW g \in Consumers, Consuming(g)
        PROVE  Topic!NextOffsets \/ UNCHANGED <<log, saved>>
    <3>1. CASE Commit(g) \/ AutoCommit(g)
      BY <3>1, CommitAdvances
    <3>2. CASE Poll(g) \/ NextRecord(g) \/ Restart(g)
      BY <3>2 DEF Poll, NextRecord, Restart, producers
    <3>3. CASE Handle(g) \/ DeadLetter(g) \/ Raise(g)
      BY <3>3 DEF Handle, DeadLetter, Raise, producers, offsets
    <3> QED
      BY <2>2, <3>1, <3>2, <3>3 DEF Consuming
  <2>3. CASE FlipBroker \/ UNCHANGED logVars
    BY <2>3 DEF FlipBroker, logVars, producers, consumers, offsets
  <2> QED
    BY <2>1, <2>2, <2>3 DEF LogNext
<1> QED
  BY <1>1, <1>2, LogInvariance, PTL DEF LogSpec, ImplementsOffsets, Topic!SpecOffsets

-----------------------------------------------------------------------------
(***************************************************************************)
(* The lag that the task publishes is never too small, for any number of   *)
(* groups and partitions and however the list of groups grows.             *)
(***************************************************************************)
OffsetsOK ==
    /\ end \in [Partitions -> Nat]
    /\ committed \in [Groups -> [Partitions -> Nat \cup {NoOffset}]]

TaskOK ==
    /\ monitored \in Seq(Groups)
    /\ target \in 1 .. Len(monitored)
    /\ DOMAIN lagCache = Groups
    /\ DOMAIN reading \subseteq Partitions

(* What has been read of the group being measured is not ahead of it, since
   offsets never go back. *)
ReadBehind ==
    \A p \in DOMAIN reading :
        /\ reading[p] \in Nat
        /\ reading[p] <= Start(committed[monitored[target]][p])

LagInv == OffsetsOK /\ TaskOK /\ ReadBehind

USE DEF NoOffset, Start

-----------------------------------------------------------------------------
LEMMA NoneRead == DOMAIN None = {}
  BY DEF None

LEMMA LagInitInv == LagInit => LagInv
<1> SUFFICES ASSUME LagInit PROVE LagInv
  OBVIOUS
<1>1. PICK g \in Groups : monitored = <<g>>
  BY DEF LagInit
<1>2. TaskOK
  BY <1>1, NoneRead DEF LagInit, TaskOK
<1>3. OffsetsOK
  BY DEF LagInit, InitOffsets, OffsetsOK
<1>4. ReadBehind
  BY NoneRead DEF LagInit, ReadBehind
<1> QED
  BY <1>2, <1>3, <1>4 DEF LagInv

(* Producers and consumers only move forward. *)
LEMMA OffsetsForward ==
    ASSUME OffsetsOK, NextOffsets
    PROVE  /\ OffsetsOK'
           /\ \A g \in Groups, p \in Partitions :
                 Start(committed[g][p]) <= Start(committed'[g][p])
<1>1. ASSUME NEW p \in Partitions, Grow(p)
      PROVE  OffsetsOK' /\ committed' = committed
  BY <1>1 DEF Grow, OffsetsOK
<1>2. ASSUME NEW g \in Groups, Advance(g)
      PROVE  /\ OffsetsOK'
             /\ \A h \in Groups, p \in Partitions :
                   Start(committed[h][p]) <= Start(committed'[h][p])
  <2>1. PICK to \in [Partitions -> UNION {0 .. end[p] : p \in Partitions}] :
          /\ \A p \in Partitions : Start(committed[g][p]) <= to[p]
          /\ committed' = [committed EXCEPT ![g] = to]
    BY <1>2 DEF Advance
  <2>2. end' = end
    BY <1>2 DEF Advance
  <2>3. \A h \in Groups : committed'[h] = IF h = g THEN to ELSE committed[h]
    BY <2>1 DEF OffsetsOK
  <2>4. \A p \in Partitions : to[p] \in Nat
    BY <2>1 DEF OffsetsOK
  <2>5. OffsetsOK'
    BY <2>1, <2>2, <2>4 DEF OffsetsOK
  <2> QED
    BY <2>1, <2>3, <2>4, <2>5 DEF OffsetsOK
<1> QED
  BY <1>1, <1>2 DEF NextOffsets, OffsetsOK

LEMMA MeasuringInv ==
    ASSUME LagInv, Measuring
    PROVE  LagInv'
<1>1. UNCHANGED topic /\ monitored' = monitored
  BY DEF Measuring, ReadCommitted, ReadEnds, MeasureFails, NothingToMeasure, topic
<1>2. OffsetsOK'
  BY <1>1 DEF topic, LagInv, OffsetsOK
<1>3. ASSUME NextTarget, DOMAIN lagCache' = Groups PROVE LagInv'
  <2>1. target' \in 1 .. Len(monitored')
    BY <1>1, <1>3 DEF NextTarget, LagInv, TaskOK
  <2>2. DOMAIN reading' = {}
    BY <1>3, NoneRead DEF NextTarget
  <2> QED
    BY <1>1, <1>2, <1>3, <2>1, <2>2 DEF LagInv, TaskOK, ReadBehind
<1>4. CASE ReadEnds
  BY <1>3, <1>4 DEF ReadEnds, LagInv, TaskOK
<1>5. CASE MeasureFails
  BY <1>3, <1>5 DEF MeasureFails, LagInv, TaskOK
<1>6. CASE ReadCommitted
  <2> DEFINE given == committed[monitored[target]]
             tps == {p \in Partitions : given[p] # NoOffset}
  <2>1. lagCache' = lagCache
    BY <1>6 DEF ReadCommitted
  <2>2. CASE tps = {}
    BY <1>3, <1>6, <2>1, <2>2 DEF ReadCommitted, NothingToMeasure, LagInv, TaskOK
  <2>3. CASE tps # {}
    <3>1. reading' = [p \in tps |-> given[p]] /\ target' = target
      BY <1>6, <2>3 DEF ReadCommitted
    <3>2. monitored[target] \in Groups
      BY DEF LagInv, TaskOK
    <3>3. \A p \in tps : given[p] \in Nat
      BY <3>2 DEF LagInv, OffsetsOK
    <3>4. TaskOK'
      BY <1>1, <2>1, <3>1 DEF LagInv, TaskOK
    <3>5. ReadBehind'
      BY <1>1, <3>1, <3>3 DEF topic, ReadBehind
    <3> QED
      BY <1>2, <3>4, <3>5 DEF LagInv
  <2> QED
    BY <2>2, <2>3
<1> QED
  BY <1>4, <1>5, <1>6 DEF Measuring

LEMMA LagNextInv == LagInv /\ [LagNext]_lagVars => LagInv'
<1> SUFFICES ASSUME LagInv, [LagNext]_lagVars PROVE LagInv'
  OBVIOUS
<1>1. CASE NextOffsets /\ UNCHANGED <<answering, task>>
  <2>1. monitored[target] \in Groups
    BY DEF LagInv, TaskOK
  <2>2. ReadBehind'
    <3> SUFFICES ASSUME NEW p \in DOMAIN reading
                 PROVE  /\ reading[p] \in Nat
                        /\ reading[p] <= Start(committed'[monitored[target]][p])
      BY <1>1 DEF task, ReadBehind
    <3>1. p \in Partitions
      BY DEF LagInv, TaskOK
    <3>2. /\ committed[monitored[target]][p] \in Nat \cup {NoOffset}
          /\ committed'[monitored[target]][p] \in Nat \cup {NoOffset}
      BY <1>1, <2>1, <3>1, OffsetsForward DEF LagInv, OffsetsOK
    <3>3. Start(committed[monitored[target]][p])
             <= Start(committed'[monitored[target]][p])
      BY <1>1, <2>1, <3>1, OffsetsForward DEF LagInv
    <3> QED
      BY <3>2, <3>3 DEF LagInv, ReadBehind
  <2> QED
    BY <1>1, <2>2, OffsetsForward DEF task, LagInv, TaskOK
<1>2. ASSUME NEW g \in Groups, register_consumer_group(g) PROVE LagInv'
  (* The list grows behind the group being measured. *)
  <2>1. /\ monitored' = Append(monitored, g)
        /\ UNCHANGED <<topic, answering, target, reading, lagCache>>
    BY <1>2 DEF register_consumer_group
  <2>2. /\ monitored' \in Seq(Groups)
        /\ Len(monitored') = Len(monitored) + 1
        /\ monitored'[target] = monitored[target]
    BY <2>1 DEF LagInv, TaskOK
  <2>3. TaskOK'
    BY <2>1, <2>2 DEF LagInv, TaskOK
  <2> QED
    BY <2>1, <2>2, <2>3 DEF topic, LagInv, OffsetsOK, ReadBehind
<1>3. CASE FlipCluster \/ UNCHANGED lagVars
  BY <1>3 DEF FlipCluster, lagVars, topic, task, LagInv, OffsetsOK, TaskOK, ReadBehind
<1> QED
  BY <1>1, <1>2, <1>3, MeasuringInv DEF LagNext

(* Only the end of a measurement changes what is published, and only for the
   group measured. *)
LEMMA PublishesEnough ==
    ASSUME LagInv, [LagNext]_lagVars,
           NEW g \in Groups, lagCache'[g] # lagCache[g],
           NEW p \in DOMAIN lagCache'[g]
    PROVE  lagCache'[g][p] >= end[p] - Start(committed[g][p])
<1>1. ReadEnds
  BY DEF LagNext, Measuring, ReadCommitted, MeasureFails, FlipCluster, task,
         register_consumer_group, lagVars
<1>2. /\ g = monitored[target]
      /\ lagCache'[g] = [q \in DOMAIN reading |-> Lag(q)]
  BY <1>1 DEF ReadEnds, LagInv, TaskOK
<1>3. p \in DOMAIN reading /\ p \in Partitions /\ lagCache'[g][p] = Lag(p)
  BY <1>2 DEF LagInv, TaskOK
<1>4. end[p] \in Nat /\ committed[g][p] \in Nat \cup {NoOffset}
  BY <1>3 DEF LagInv, OffsetsOK
<1>5. reading[p] \in Nat /\ reading[p] <= Start(committed[g][p])
  BY <1>2, <1>3 DEF LagInv, ReadBehind
<1> QED
  BY <1>3, <1>4, <1>5 DEF Lag

(* For any number of groups and partitions a published lag is at least the
   distance between the group's offset and the end at that time. *)
THEOREM NeverUnderstated == LagSpec => NotUnderstated
<1>1. LagInv /\ [LagNext]_lagVars =>
        [\A g \in Groups : lagCache'[g] # lagCache[g] =>
           \A p \in DOMAIN lagCache'[g] :
              lagCache'[g][p] >= end[p] - Start(committed[g][p])]_lagVars
  BY PublishesEnough
<1> QED
  BY <1>1, LagInitInv, LagNextInv, PTL DEF LagSpec, NotUnderstated

-----------------------------------------------------------------------------
(***************************************************************************)
(* The application leaves no admin client behind, for any number of topic  *)
(* requests and of clients they create, and whatever servers are down.     *)
(***************************************************************************)
KafkaGone ==
    /\ conn["kafka"] = "none" /\ admin = NoAdmin
    /\ \A k \in Admins : client[k] \notin {"starting", "started"}

(* Kafka, the last to be connected, is the first to be disconnected; by then
   no request is in progress that could create a client or start one. *)
Closing ==
    /\ stage \in {"serve", "cancel"} => at = 3
    /\ stage \in {"cancel", "disconnect", "stopped"} =>
          \A h \in Handlers : handler[h] = "idle"
    /\ stage = "stopped" \/ (stage = "disconnect" /\ at < 3) => KafkaGone

(* What the lag task does, the client of its own fits to. *)
LagTaskOK ==
    /\ stage = "connect" => lag = "off"
    /\ lag = "off" => lagAdmin = "none"
    /\ lag = "sleeping" => lagAdmin \in {"none", "started"}

LifeInv == LifeTypeOK /\ AdminTracked /\ Closing /\ LagTaskOK

LEMMA TheBrokers ==
    /\ Len(ALL_BROKERS) = 3 /\ DOMAIN ALL_BROKERS = 1 .. 3
    /\ ALL_BROKERS[1] = "redis" /\ ALL_BROKERS[2] = "rabbitmq"
    /\ ALL_BROKERS[3] = "kafka"
    /\ Brokers = {"redis", "rabbitmq", "kafka"}
<1>1. /\ Len(ALL_BROKERS) = 3 /\ DOMAIN ALL_BROKERS = 1 .. 3
      /\ ALL_BROKERS[1] = "redis" /\ ALL_BROKERS[2] = "rabbitmq"
      /\ ALL_BROKERS[3] = "kafka"
  BY DEF ALL_BROKERS
<1>2. Brokers = {ALL_BROKERS[i] : i \in 1 .. 3}
  BY <1>1 DEF Brokers
<1>3. 1 .. 3 = {1, 2, 3}
  OBVIOUS
<1> QED
  BY <1>1, <1>2, <1>3

LEMMA LifeInitInv == LifeInit => LifeInv
<1> SUFFICES ASSUME LifeInit PROVE LifeInv
  OBVIOUS
<1>1. LifeTypeOK
  BY TheBrokers, AdminsAssumption DEF LifeInit, LifeTypeOK
<1> QED
  BY <1>1 DEF LifeInit, LifeInv, AdminTracked, Closing, LagTaskOK

LEMMA StartupInv ==
    ASSUME LifeInv, NEW b \in Brokers,
           BeginConnect(b) \/ Connected(b) \/ ConnectFails(b)
    PROVE  LifeInv'
<1> USE DEF LifeInv
<1>1. stage = "connect" /\ UNCHANGED <<admin, client, handler, up>>
  BY DEF BeginConnect, Connected, ConnectFails, Connecting, topics
<1>2. conn' \in [Brokers -> {"none", "partial", "ready"}]
  BY DEF BeginConnect, Connected, ConnectFails, LifeTypeOK
<1>3. CASE NextBroker
  <2>1. LifeTypeOK'
    BY <1>1, <1>2, <1>3, TheBrokers DEF NextBroker, LifeTypeOK, LagTaskOK
  <2>2. Closing' /\ LagTaskOK'
    BY <1>1, <1>3, TheBrokers DEF NextBroker, LifeTypeOK, Closing, LagTaskOK
  <2> QED
    BY <1>1, <2>1, <2>2 DEF AdminTracked
<1>4. CASE UNCHANGED <<stage, at, monitor>> /\ step' \in {"dial", "handshake"}
  BY <1>1, <1>2, <1>4 DEF LifeTypeOK, AdminTracked, Closing, LagTaskOK, monitor
<1> QED
  BY <1>3, <1>4 DEF BeginConnect, Connected, ConnectFails

LEMMA RequestOfTopicInv ==
    ASSUME LifeInv, NEW h \in Handlers, Request(h)
    PROVE  LifeInv'
<1> USE DEF LifeInv
<1>1. UNCHANGED <<lifespan, up, conn, monitor>>
  BY DEF Request, TopicRequest, StartAdmin, CallAdmin
<1>2. handler[h] # "idle" \/ stage = "serve"
  BY DEF Request, TopicRequest, StartAdmin, CallAdmin
<1>3. stage \in {"connect", "serve"}
  BY <1>2 DEF Closing, LifeTypeOK, Request, TopicRequest, StartAdmin, CallAdmin
<1>4. LifeTypeOK'
  BY <1>1 DEF Request, TopicRequest, StartAdmin, CallAdmin, LifeTypeOK, lifespan, monitor
<1>5. Closing' /\ LagTaskOK'
  BY <1>1, <1>3 DEF Closing, LagTaskOK, lifespan, monitor
<1>6. AdminTracked'
  BY AdminsAssumption
     DEF Request, TopicRequest, StartAdmin, CallAdmin, AdminTracked, NeedsAdmin, NoAdmin,
         LifeTypeOK, Admins
<1> QED
  BY <1>4, <1>5, <1>6

LEMMA LagTaskInv ==
    ASSUME LifeInv, LagWakes \/ LagStarts \/ LagMeasured
    PROVE  LifeInv'
<1> USE DEF LifeInv
<1>1. UNCHANGED <<lifespan, up, conn, topics>>
  BY DEF LagWakes, LagStarts, LagMeasured
<1>2. LifeTypeOK' /\ LagTaskOK'
  BY <1>1 DEF LagWakes, LagStarts, LagMeasured, LagGivesUp, LifeTypeOK, LagTaskOK, lifespan,
         topics
<1> QED
  BY <1>1, <1>2 DEF AdminTracked, Closing, KafkaGone, lifespan, topics

LEMMA DisconnectInv ==
    ASSUME LifeInv, DisconnectKafka \/ \E b \in Brokers : Disconnect(b)
    PROVE  LifeInv'
<1> USE DEF LifeInv
<1>1. stage = "disconnect" /\ UNCHANGED <<step, up, monitor, handler>> /\ PreviousBroker
  BY DEF DisconnectKafka, Disconnect, Disconnecting, PreviousBroker
<1>2. at \in 1 .. 3 /\ at' \in 1 .. 3 /\ at' <= at
      /\ stage' \in {"disconnect", "stopped"} /\ (at > 1 => stage' = "disconnect")
  BY <1>1, TheBrokers DEF PreviousBroker, LifeTypeOK
<1>3. LagTaskOK'
  BY <1>1, <1>2 DEF LagTaskOK, monitor
<1>4. CASE DisconnectKafka
  <2>1. KafkaGone' /\ AdminTracked'
    <3>1. conn'["kafka"] = "none" /\ admin' = NoAdmin
      BY <1>4, TheBrokers DEF DisconnectKafka, LifeTypeOK
    <3>2. \A k \in Admins : client'[k] \notin {"starting", "started"}
      BY <1>4 DEF DisconnectKafka, AdminTracked
    <3> QED
      BY <3>1, <3>2 DEF KafkaGone, AdminTracked
  <2>2. LifeTypeOK'
    BY <1>1, <1>2, <1>4, TheBrokers DEF DisconnectKafka, LifeTypeOK, monitor
  <2> QED
    BY <1>1, <1>2, <1>3, <2>1, <2>2 DEF Closing
<1>5. ASSUME NEW b \in Brokers, Disconnect(b) PROVE LifeInv'
  <2>1. at < 3 /\ UNCHANGED <<admin, client>>
    BY <1>2, <1>5, TheBrokers DEF Disconnect, Disconnecting
  <2>2. LifeTypeOK'
    BY <1>1, <1>2, <1>5, <2>1, TheBrokers DEF Disconnect, LifeTypeOK, monitor
  <2>3. KafkaGone'
    <3>1. KafkaGone
      BY <1>1, <2>1 DEF Closing
    <3>2. conn'["kafka"] = conn["kafka"]
      BY <1>5, TheBrokers DEF Disconnect, LifeTypeOK
    <3> QED
      BY <2>1, <3>1, <3>2 DEF KafkaGone
  <2> QED
    BY <1>1, <1>2, <1>3, <2>1, <2>2, <2>3 DEF Closing, AdminTracked
<1> QED
  BY <1>4, <1>5

LEMMA LifeNextInv == LifeInv /\ [LifeNext]_lifeVars => LifeInv'
<1> SUFFICES ASSUME LifeInv, [LifeNext]_lifeVars PROVE LifeInv'
  OBVIOUS
<1> USE DEF LifeInv
<1>1. CASE BeginStop
  BY <1>1 DEF BeginStop, LifeTypeOK, AdminTracked, Closing, LagTaskOK, topics, monitor
<1>2. CASE LagCancelled
  BY <1>2 DEF LagCancelled, LifeTypeOK, AdminTracked, Closing, LagTaskOK, topics
<1>3. CASE \E b \in Brokers : FlipServer(b)
  BY <1>3 DEF FlipServer, LifeTypeOK, AdminTracked, Closing, KafkaGone, LagTaskOK, lifespan,
         topics, monitor
<1>4. CASE UNCHANGED lifeVars
  BY <1>4 DEF lifeVars, LifeTypeOK, AdminTracked, Closing, KafkaGone, LagTaskOK, lifespan,
         topics, monitor
<1> QED
  BY <1>1, <1>2, <1>3, <1>4, StartupInv, RequestOfTopicInv, LagTaskInv, DisconnectInv
     DEF LifeNext, Startup, Shutdown

(* While serving, and when the application has stopped, every admin client
   that holds a connection is the one in kafka_broker.admin: however many
   requests want one at once, and whatever fails at start and stop. *)
THEOREM NoClientLeftBehind == LifeSpec => []NoClientLeft
<1>1. LifeInv => NoClientLeft
  BY DEF LifeInv, NoClientLeft, Closing, KafkaGone, KafkaReleased
<1> QED
  BY LifeInitInv, LifeNextInv, <1>1, PTL DEF LifeSpec

-----------------------------------------------------------------------------
(***************************************************************************)
(* The types of the topic and of the lag task, and all of MCKafka.         *)
(***************************************************************************)
(* What LogInv does not say of the records: they are the ones issued. *)
RecordsIssued ==
    /\ reachable \in BOOLEAN
    /\ resent \in 0 .. MaxResent
    /\ issued \in 0 .. MaxRecords
    /\ log \in [Partitions -> Seq(Records)]
    /\ \A r \in Requests :
          request[r].todo \subseteq 1 .. issued /\ request[r].sent \subseteq 1 .. issued
    /\ answered \subseteq 1 .. issued
    /\ dlt \subseteq Poison

(* What consumers have had was in the log, which does not shrink. *)
MetInLog ==
    \A g \in Consumers : \A p \in Partitions, o \in Nat :
        <<p, o>> \in handled[g] \cup abandoned[g] => o < End(p)

LEMMA RecordsIssuedInit == LogInit => RecordsIssued
<1> SUFFICES ASSUME LogInit PROVE RecordsIssued
  OBVIOUS
<1>1. MaxResent \in Nat /\ MaxRecords \in Nat
  BY LogAssumption
<1>2. resent = 0 /\ issued = 0 /\ reachable = TRUE /\ answered = {} /\ dlt = {}
  BY DEF LogInit
<1>3. log \in [Partitions -> Seq(Records)]
  BY DEF LogInit
<1>4. \A r \in Requests : request[r].todo = {} /\ request[r].sent = {}
  BY DEF LogInit, Idle
<1> QED
  BY <1>1, <1>2, <1>3, <1>4 DEF RecordsIssued

LEMMA PublishingRecords ==
    ASSUME LogInv, RecordsIssued, NEW r \in Requests, Publishing(r)
    PROVE  RecordsIssued'
<1> USE DEF LogInv, LogsOK, RecordsIssued
<1>1. reachable' = reachable /\ dlt' = dlt
  BY DEF Publishing, BeginPublish, Write, AnswerPublish, PublishFails, consumers, fates
<1>2. MaxResent \in Nat /\ MaxRecords \in Nat /\ MaxBatch \in Nat
  BY LogAssumption
<1>3. CASE BeginPublish(r)
  <2>1. PICK n \in 1 .. MaxBatch :
          /\ issued + n <= MaxRecords
          /\ issued' = issued + n
          /\ request' = [request EXCEPT ![r].todo = issued + 1 .. issued + n]
    BY <1>3 DEF BeginPublish
  <2>2. UNCHANGED <<log, resent, answered>>
    BY <1>3 DEF BeginPublish
  <2>3. issued' \in 0 .. MaxRecords /\ 1 .. issued \subseteq 1 .. issued'
        /\ issued + 1 .. issued + n \subseteq 1 .. issued'
    BY <1>2, <2>1
  <2>4. \A s \in Requests :
           /\ request'[s].sent = request[s].sent
           /\ request'[s].todo \in {request[s].todo, issued + 1 .. issued + n}
    BY <2>1
  <2> QED
    BY <1>1, <2>2, <2>3, <2>4
<1>4. CASE Write(r)
  <2>1. PICK rec \in request[r].todo, p \in Partitions, twice \in BOOLEAN :
          /\ twice => resent < MaxResent
          /\ log' = [log EXCEPT ![p] = IF twice THEN @ \o <<rec, rec>> ELSE Append(@, rec)]
          /\ resent' = IF twice THEN resent + 1 ELSE resent
          /\ request' = [request EXCEPT ![r].todo = @ \ {rec}, ![r].sent = @ \cup {rec}]
    BY <1>4 DEF Write
  <2>2. UNCHANGED <<issued, answered>>
    BY <1>4 DEF Write
  <2>3. rec \in 1 .. issued /\ rec \in Records
    BY <1>2, <2>1 DEF Records
  <2>4. resent' \in 0 .. MaxResent
    BY <1>2, <2>1
  <2>5. log' \in [Partitions -> Seq(Records)]
    <3>1. log[p] \o <<rec, rec>> \in Seq(Records) /\ Append(log[p], rec) \in Seq(Records)
      BY <2>3
    <3> QED
      BY <2>1, <3>1
  <2>6. \A s \in Requests :
           /\ request'[s].sent \subseteq request[s].sent \cup {rec}
           /\ request'[s].todo \subseteq request[s].todo
    BY <2>1
  <2> QED
    BY <1>1, <2>2, <2>3, <2>4, <2>5, <2>6
<1>5. CASE AnswerPublish(r) \/ PublishFails(r)
  <2>1. request' = [request EXCEPT ![r] = Idle] /\ UNCHANGED <<log, resent, issued>>
    BY <1>5 DEF AnswerPublish, PublishFails
  <2>2. \A s \in Requests :
           /\ request'[s].sent \subseteq request[s].sent
           /\ request'[s].todo \subseteq request[s].todo
    BY <2>1 DEF Idle
  <2>3. answered' \subseteq 1 .. issued
    BY <1>5 DEF AnswerPublish, PublishFails
  <2> QED
    BY <1>1, <2>1, <2>2, <2>3
<1> QED
  BY <1>3, <1>4, <1>5 DEF Publishing

LEMMA RecordsIssuedNext ==
    LogInv /\ RecordsIssued /\ [LogNext]_logVars => RecordsIssued'
<1> SUFFICES ASSUME LogInv, RecordsIssued, [LogNext]_logVars PROVE RecordsIssued'
  OBVIOUS
<1>1. ASSUME UNCHANGED producers, dlt' \subseteq Poison, reachable' \in BOOLEAN
      PROVE  RecordsIssued'
  BY <1>1 DEF RecordsIssued, producers
<1>2. CASE FlipBroker
  <2>1. reachable' \in BOOLEAN
    BY <1>2 DEF FlipBroker
  <2> QED
    BY <1>1, <1>2, <2>1 DEF FlipBroker, consumers, fates, RecordsIssued
<1>3. ASSUME NEW g \in Consumers, Consuming(g) PROVE RecordsIssued'
  <2>1. UNCHANGED <<reachable, producers>>
    BY <1>3 DEF Consuming, Poll, NextRecord, Handle, DeadLetter, Raise, Commit, AutoCommit,
                Restart
  <2>2. dlt' \subseteq Poison
    <3>1. CASE DeadLetter(g)
      BY <3>1 DEF DeadLetter, Poisoned, RecordsIssued
    <3>2. CASE ~DeadLetter(g)
      <4>1. dlt' = dlt
        BY <1>3, <3>2 DEF Consuming, Poll, NextRecord, Handle, Raise, Commit, AutoCommit,
                          Restart, fates
      <4> QED
        BY <4>1 DEF RecordsIssued
    <3> QED
      BY <3>1, <3>2
  <2> QED
    BY <1>1, <2>1, <2>2 DEF RecordsIssued
<1>4. CASE UNCHANGED logVars
  BY <1>1, <1>4 DEF logVars, consumers, fates, RecordsIssued
<1> QED
  BY <1>2, <1>3, <1>4, PublishingRecords DEF LogNext

LEMMA MetInLogInit == LogInit => MetInLog
  BY DEF LogInit, MetInLog

LEMMA EndGrows ==
    ASSUME LogInv, [LogNext]_logVars, NEW p \in Partitions
    PROVE  End(p) \in Nat /\ End(p)' \in Nat /\ End(p) <= End(p)'
<1>1. log[p] \in Seq(Nat)
  BY DEF LogInv, LogsOK
<1>2. CASE log' = log
  BY <1>1, <1>2 DEF End
<1>3. ASSUME NEW r \in Requests, Write(r) PROVE End(p)' \in Nat /\ End(p) <= End(p)'
  <2>1. PICK rec \in request[r].todo, q \in Partitions, twice \in BOOLEAN :
          log' = [log EXCEPT ![q] = IF twice THEN @ \o <<rec, rec>> ELSE Append(@, rec)]
    BY <1>3 DEF Write
  <2>2. rec \in Nat
    BY <2>1 DEF LogInv, LogsOK
  <2>3. log'[p] \in {log[p], log[p] \o <<rec, rec>>, Append(log[p], rec)}
    BY <2>1 DEF LogInv, LogsOK
  <2>4. /\ Len(log[p] \o <<rec, rec>>) = Len(log[p]) + 2
        /\ Len(Append(log[p], rec)) = Len(log[p]) + 1
    BY <1>1, <2>2
  <2> QED
    BY <1>1, <2>3, <2>4 DEF End
<1>4. log' = log \/ \E r \in Requests : Write(r)
  BY DEF LogNext, logVars, FlipBroker, Publishing, BeginPublish, AnswerPublish, PublishFails,
         Consuming, Poll, NextRecord, Handle, DeadLetter, Raise, Commit, AutoCommit, Restart,
         producers
<1> QED
  BY <1>1, <1>2, <1>3, <1>4 DEF End

LEMMA MetInLogNext == LogInv /\ MetInLog /\ [LogNext]_logVars => MetInLog'
<1> SUFFICES ASSUME LogInv, MetInLog, [LogNext]_logVars,
                    NEW g \in Consumers, NEW p \in Partitions, NEW o \in Nat,
                    <<p, o>> \in handled'[g] \cup abandoned'[g]
             PROVE  o < End(p)'
  BY DEF MetInLog
<1>1. <<p, o>> \in handled[g] \cup abandoned[g] \cup hand[g]
  <2>1. CASE UNCHANGED <<handled, abandoned>>
    BY <2>1
  <2>2. ASSUME NEW h \in Consumers, Handle(h) \/ Raise(h)
        PROVE  <<p, o>> \in handled[g] \cup abandoned[g] \cup hand[g]
    BY <2>2 DEF Handle, Raise, LogInv, GroupsOK
  <2>3. \/ UNCHANGED <<handled, abandoned>>
        \/ \E h \in Consumers : Handle(h) \/ Raise(h)
    BY DEF LogNext, logVars, FlipBroker, Publishing, BeginPublish, Write, AnswerPublish,
           PublishFails, Consuming, Poll, NextRecord, DeadLetter, Commit, AutoCommit, Restart,
           consumers, fates
  <2> QED
    BY <2>1, <2>2, <2>3
<1>2. <<p, o>> \in hand[g] => o < End(p)
  <2>1. position[g][p] \in Nat /\ position[g][p] <= End(p)
        /\ (<<p, o>> \in hand[g] => o < position[g][p])
    BY DEF LogInv, GroupsOK, Between, End
  <2> QED
    BY <2>1, EndGrows
<1>3. o < End(p)
  BY <1>1, <1>2 DEF MetInLog
<1> QED
  BY <1>3, EndGrows

LEMMA LogTypes == LogInv /\ RecordsIssued /\ MetInLog => LogTypeOK
<1> SUFFICES ASSUME LogInv, RecordsIssued, MetInLog PROVE LogTypeOK
  OBVIOUS
<1>1. \A r \in Requests : request[r].todo \cup request[r].sent \subseteq 1 .. issued
  BY DEF RecordsIssued
<1>2. \A g \in Consumers, p \in Partitions :
         saved[g][p] <= position[g][p] /\ position[g][p] <= End(p)
  BY DEF LogInv, Between, GroupsOK, End
<1>3. ASSUME NEW g \in Consumers, NEW x \in hand[g] \cup handled[g] \cup abandoned[g]
      PROVE  x[1] \in Partitions /\ x[2] \in 0 .. End(x[1]) - 1
  <2>1. PICK p \in Partitions, o \in Nat : x = <<p, o>>
    BY DEF LogInv, GroupsOK, LogPlaces
  <2>2. End(p) \in Nat
    BY DEF LogInv, LogsOK, End
  <2>3. CASE x \in hand[g]
    <3>1. o < position[g][p] /\ position[g][p] <= End(p) /\ position[g][p] \in Nat
      BY <2>1, <2>3 DEF LogInv, GroupsOK, Between, End
    <3> QED
      BY <2>1, <2>2, <3>1
  <2>4. CASE x \in handled[g] \cup abandoned[g]
    <3>1. o < End(p)
      BY <2>1, <2>4 DEF MetInLog
    <3> QED
      BY <2>1, <2>2, <3>1
  <2> QED
    BY <1>3, <2>3, <2>4
<1> QED
  BY <1>1, <1>2, <1>3 DEF LogTypeOK, LogInv, GroupsOK, RecordsIssued

-----------------------------------------------------------------------------
(* The lag task: no offset passes the end of its partition, no group is
   measured twice in a round. *)
LagBounds ==
    /\ answering \in BOOLEAN
    /\ \A p \in Partitions : end[p] <= MaxEnd
    /\ \A g \in Groups, p \in Partitions : committed[g][p] <= end[p]
    /\ \A i, j \in DOMAIN monitored : monitored[i] = monitored[j] => i = j
    /\ \A g \in Groups : DOMAIN lagCache[g] \subseteq Partitions
    /\ \A g \in Groups : \A p \in DOMAIN lagCache[g] : lagCache[g][p] \in 0 .. MaxEnd

LEMMA LagBoundsInit == LagInit => LagBounds
<1> SUFFICES ASSUME LagInit PROVE LagBounds
  OBVIOUS
<1>1. PICK g \in Groups : monitored = <<g>>
  BY DEF LagInit
<1>2. \A h \in Groups : DOMAIN lagCache[h] = {}
  BY NoneRead DEF LagInit
<1> QED
  BY <1>1, <1>2, EndAssumption DEF LagInit, InitOffsets, LagBounds

LEMMA OffsetsBound ==
    ASSUME LagInv, LagBounds, NextOffsets, \A p \in Partitions : end'[p] <= MaxEnd,
           UNCHANGED <<answering, task>>
    PROVE  LagBounds'
<1>1. \A g \in Groups, p \in Partitions : committed'[g][p] <= end'[p]
  <2>1. ASSUME NEW q \in Partitions, Grow(q), NEW g \in Groups, NEW p \in Partitions
        PROVE  committed'[g][p] <= end'[p]
    <3>1. PICK n \in 1 .. 2 : end' = [end EXCEPT ![q] = @ + n]
      BY <2>1 DEF Grow
    <3>2. end[p] \in Nat /\ committed[g][p] \in Nat \cup {NoOffset}
          /\ committed[g][p] <= end[p] /\ committed' = committed
      BY <2>1 DEF Grow, LagInv, OffsetsOK, LagBounds
    <3>3. end'[p] \in {end[p], end[p] + n}
      BY <3>1 DEF LagInv, OffsetsOK
    <3> QED
      BY <3>1, <3>2, <3>3
  <2>2. ASSUME NEW h \in Groups, Advance(h), NEW g \in Groups, NEW p \in Partitions
        PROVE  committed'[g][p] <= end'[p]
    BY <2>2 DEF Advance, LagInv, OffsetsOK, LagBounds
  <2> QED
    BY <2>1, <2>2 DEF NextOffsets
<1> QED
  BY <1>1 DEF LagBounds, task

LEMMA MeasuringBounds ==
    ASSUME LagInv, LagBounds, Measuring
    PROVE  LagBounds'
<1>1. UNCHANGED topic /\ UNCHANGED <<answering, monitored>>
  BY DEF Measuring, ReadCommitted, ReadEnds, MeasureFails
<1>2. CASE lagCache' = lagCache
  BY <1>1, <1>2 DEF LagBounds, topic
<1>3. CASE ReadEnds
  <2>1. lagCache' = [lagCache EXCEPT ![monitored[target]] = [p \in DOMAIN reading |-> Lag(p)]]
    BY <1>3 DEF ReadEnds
  <2>2. \A p \in DOMAIN reading : p \in Partitions /\ Lag(p) \in 0 .. MaxEnd
    <3> SUFFICES ASSUME NEW p \in DOMAIN reading
                 PROVE  p \in Partitions /\ Lag(p) \in 0 .. MaxEnd
      OBVIOUS
    <3>1. p \in Partitions /\ reading[p] \in Nat /\ end[p] \in Nat /\ end[p] <= MaxEnd
      BY DEF LagInv, TaskOK, ReadBehind, OffsetsOK, LagBounds
    <3> QED
      BY <3>1, EndAssumption DEF Lag
  <2> HIDE DEF Lag
  <2> QED
    BY <1>1, <2>1, <2>2 DEF LagInv, TaskOK, LagBounds, topic
<1> QED
  BY <1>2, <1>3 DEF Measuring, ReadCommitted, MeasureFails

LEMMA LagBoundsNext == LagInv /\ LagBounds /\ [LagNext]_lagVars => LagBounds'
<1> SUFFICES ASSUME LagInv, LagBounds, [LagNext]_lagVars PROVE LagBounds'
  OBVIOUS
<1>1. ASSUME NEW g \in Groups, register_consumer_group(g) PROVE LagBounds'
  <2>1. monitored' = Append(monitored, g) /\ monitored \in Seq(Groups)
        /\ \A i \in DOMAIN monitored : monitored[i] # g
    BY <1>1 DEF register_consumer_group, IsMonitored, LagInv, TaskOK
  <2>2. \A i, j \in DOMAIN monitored' : monitored'[i] = monitored'[j] => i = j
    BY <2>1 DEF LagBounds
  <2> QED
    BY <1>1, <2>2 DEF register_consumer_group, LagBounds, topic
<1>2. CASE FlipCluster
  BY <1>2 DEF FlipCluster, LagBounds, topic, task
<1>3. CASE UNCHANGED lagVars
  BY <1>3 DEF lagVars, LagBounds, topic, task
<1> QED
  BY <1>1, <1>2, <1>3, OffsetsBound, MeasuringBounds DEF LagNext

LEMMA LagTypes == LagInv /\ LagBounds => LagTypeOK
<1> SUFFICES ASSUME LagInv, LagBounds PROVE LagTypeOK
  OBVIOUS
<1>1. end \in [Partitions -> 0 .. MaxEnd]
  BY EndAssumption DEF LagInv, OffsetsOK, LagBounds
<1>2. committed \in [Groups -> [Partitions -> NoOffset .. MaxEnd]]
  <2>1. \A g \in Groups, p \in Partitions : committed[g][p] \in NoOffset .. MaxEnd
    <3> SUFFICES ASSUME NEW g \in Groups, NEW p \in Partitions
                 PROVE  committed[g][p] \in NoOffset .. MaxEnd
      OBVIOUS
    <3>1. committed[g][p] \in Nat \cup {NoOffset} /\ end[p] \in Nat
          /\ committed[g][p] <= end[p] /\ end[p] <= MaxEnd
      BY DEF LagInv, OffsetsOK, LagBounds
    <3> QED
      BY <3>1, EndAssumption
  <2> QED
    BY <2>1 DEF LagInv, OffsetsOK
<1>3. ASSUME NEW p \in DOMAIN reading PROVE reading[p] \in 0 .. MaxEnd
  <2>1. p \in Partitions /\ monitored[target] \in Groups
    BY DEF LagInv, TaskOK
  <2>2. /\ reading[p] \in Nat /\ reading[p] <= Start(committed[monitored[target]][p])
        /\ committed[monitored[target]][p] \in NoOffset .. MaxEnd
    BY <1>2, <2>1 DEF LagInv, ReadBehind
  <2> QED
    BY <2>2, EndAssumption
<1> QED
  BY <1>1, <1>2, <1>3 DEF LagTypeOK, LagInv, TaskOK, LagBounds

-----------------------------------------------------------------------------
LEMMA PartsOfKafka ==
    Spec => /\ LifeInit /\ [][LifeNext]_lifeVars
            /\ LogSpec
            /\ LagInit /\ [][LagNext]_lagVars
<1>1. Init => LifeInit /\ LogInit /\ LagInit
  BY DEF Init
<1>2. [Next]_vars => /\ [LifeNext]_lifeVars /\ [LogNext]_logVars /\ [LagNext]_lagVars
  BY DEF Next, vars, ApplicationStep, TopicStep, LagStep, OthersStay
<1> QED
  BY <1>1, <1>2, PTL DEF Spec, LogSpec

(* The application, the topic and the lag task keep their types, together with
   what those say of them: no offset passes the end of its partition, records
   have been issued, and the lag task measures with a started client. *)
THEOREM KafkaTypes == Spec => []TypeOK
<1>1. LifeInv => LifeTypeOK
  BY DEF LifeInv
<1>2. TypeOK <=> LifeTypeOK /\ LogTypeOK /\ LagTypeOK
  BY DEF TypeOK
<1>3. LifeInit /\ [][LifeNext]_lifeVars => []LifeInv
  BY LifeInitInv, LifeNextInv, PTL
<1>4. LogSpec => [](LogInv /\ RecordsIssued /\ MetInLog)
  BY LogInitInv, RecordsIssuedInit, MetInLogInit, LogNextInv, RecordsIssuedNext, MetInLogNext,
     PTL DEF LogSpec
<1>5. LagInit /\ [][LagNext]_lagVars => [](LagInv /\ LagBounds)
  BY LagInitInv, LagBoundsInit, LagNextInv, LagBoundsNext, PTL
<1> QED
  BY <1>1, <1>2, <1>3, <1>4, <1>5, PartsOfKafka, LogTypes, LagTypes, PTL

=============================================================================
