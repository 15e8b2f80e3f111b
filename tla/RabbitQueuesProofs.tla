------------------------- MODULE RabbitQueuesProofs -------------------------
(***************************************************************************)
(* The RabbitMQ routes lose nothing, answer the truth and leave no queue   *)
(* without the dead-letter queue it points at, for any number of requests  *)
(* in flight, names, keys and messages.                                    *)
(***************************************************************************)
EXTENDS RabbitQueues, SequenceTheorems, TLAPS

Kinds == {"plain", "priority", "dlx"}

AllCommands ==
    [do : {"declare"}, queue : Queues, kind : Kinds]
        \union [do : {"declare_passive", "get"}, queue : Queues]
        \union [do : {"bind"}, to : Bindings]
        \union [do : {"send"}, queue : Queues, msg : Messages, ttl : BOOLEAN]
        \union [do : {"route"}, exchange : {Broadcast, Topic}, key : Keys,
                msg : Messages]
        \union [do : {"nack"}]

(* The types, and what the type invariant says of a peek, more precisely: no
   two handlers hold the same delivery. *)
StateOK ==
    /\ kind \in [Queues -> Kinds \union {"absent"}]
    /\ bindings \subseteq Bindings
    /\ content \in [Queues -> SUBSET Messages]
    /\ unacked \subseteq Queues \X Messages
    /\ mortal \subseteq Messages
    /\ poison \subseteq Messages
    /\ sent \in 0..MaxMessages
    /\ request \in [InFlight -> [of : Requests, msg : 1..(MaxMessages + 1)] \union {None}]
    /\ todo \in [InFlight -> Seq(AllCommands)]
    /\ held \in [InFlight -> (Queues \X Messages) \union {None}]
    /\ routed \in [Messages -> SUBSET Queues]
    /\ owed \in [InFlight -> SUBSET Queues]
    /\ \A h \in InFlight : request[h] # None =>
          request[h].msg + Creates(request[h].of) - 1 <= sent

HeldOK ==
    \A h \in InFlight :
        /\ request[h] = None => todo[h] = <<>>
        /\ held[h] # None => held[h] \in unacked /\ IsNext(h, "nack")
        /\ \A k \in InFlight : held[h] # None /\ held[h] = held[k] => h = k

Steps(h) == 1..Len(todo[h])

Writes(c) == c.do \in {"send", "route"}

(* The queue q exists when h has sent its commands before the i-th. *)
DeclaredBy(h, i, q) ==
    \/ kind[q] # "absent"
    \/ \E j \in 1..(i - 1) : todo[h][j].do = "declare" /\ todo[h][j].queue = q

BoundBy(h, i, b) ==
    \/ b \in bindings
    \/ \E j \in 1..(i - 1) : todo[h][j].do = "bind" /\ todo[h][j].to = b

Home(n) == [exchange |-> Dlx(n), pattern |-> Keys, queue |-> Dlq(n)]

(* What is still to be sent finds what it needs: a message not yet numbered
   or not yet sent is nowhere, its queue is there by then, a peek is followed
   by its nack, and a main queue gets a dead-letter exchange after that has
   its queue. *)
PlansOK ==
    /\ \A m \in Messages : m > sent => routed[m] = {}
    /\ \A h \in InFlight : \A i \in Steps(h) :
          /\ Writes(todo[h][i]) =>
                todo[h][i].msg <= sent /\ routed[todo[h][i].msg] = {}
          /\ todo[h][i].do = "send" => DeclaredBy(h, i, todo[h][i].queue)
          /\ todo[h][i].do = "get" =>
                /\ i < Len(todo[h]) /\ todo[h][i + 1].do = "nack"
                /\ request[h].of.name = "get_dlq_messages"
          /\ todo[h][i].do = "declare" /\ todo[h][i].kind = "dlx" =>
                \E n \in Names :
                    /\ todo[h][i].queue = Main(n)
                    /\ DeclaredBy(h, i, Dlq(n)) /\ BoundBy(h, i, Home(n))

(* No message is sent twice. *)
OneWriter ==
    \A h, k \in InFlight : \A i \in Steps(h), j \in Steps(k) :
        /\ Writes(todo[h][i]) /\ Writes(todo[k][j])
        /\ todo[h][i].msg = todo[k][j].msg
        => h = k /\ i = j

(* What a request will report is true or still to be done. *)
Queued(h, m) ==
    \/ routed[m] = {request[h].of.queue}
    \/ \E j \in Steps(h) :
          /\ todo[h][j].do = "send" /\ todo[h][j].msg = m
          /\ todo[h][j].queue = request[h].of.queue

Reached(h) ==
    \/ owed[h] \subseteq routed[request[h].msg]
    \/ /\ owed[h] \subseteq
              Targets(bindings, request[h].of.exchange, request[h].of.key)
       /\ \E j \in Steps(h) :
             /\ todo[h][j].do = "route" /\ todo[h][j].msg = request[h].msg
             /\ todo[h][j].exchange = request[h].of.exchange
             /\ todo[h][j].key = request[h].of.key

PromisesOK ==
    \A h \in InFlight :
        request[h] # None =>
            /\ request[h].of.name \in ToQueue =>
                  \A i \in 0..(Creates(request[h].of) - 1) :
                      Queued(h, request[h].msg + i)
            /\ \A b \in Reported(request[h].of) : BoundBy(h, Len(todo[h]) + 1, b)
            /\ request[h].of.name \in ToExchange => Reached(h)

Homes == \A n \in Names : kind[Main(n)] = "dlx" =>
            kind[Dlq(n)] # "absent" /\ Home(n) \in bindings

IInv == StateOK /\ HeldOK /\ PlansOK /\ OneWriter /\ PromisesOK /\ Homes
        /\ NothingLost

-----------------------------------------------------------------------------
(* What the operations send. *)

(* The commands C of a request r whose first message is m. *)
PlanOK(r, m, C) ==
    /\ C \in Seq(AllCommands)
    /\ \A i \in 1..Len(C) :
          /\ Writes(C[i]) => C[i].msg \in m..(m + Creates(r) - 1)
          /\ C[i].do = "send" =>
                \E j \in 1..(i - 1) : C[j].do = "declare" /\ C[j].queue = C[i].queue
          /\ C[i].do = "get" =>
                i < Len(C) /\ C[i + 1].do = "nack" /\ r.name = "get_dlq_messages"
          /\ C[i].do = "declare" /\ C[i].kind = "dlx" =>
                \E n \in Names :
                    /\ C[i].queue = Main(n)
                    /\ \E j \in 1..(i - 1) : C[j].do = "declare" /\ C[j].queue = Dlq(n)
                    /\ \E j \in 1..(i - 1) : C[j].do = "bind" /\ C[j].to = Home(n)
    /\ \A i, j \in 1..Len(C) :
          Writes(C[i]) /\ Writes(C[j]) /\ C[i].msg = C[j].msg => i = j
    /\ r.name \in ToQueue =>
          \A i \in 0..(Creates(r) - 1) :
              \E j \in 1..Len(C) :
                  C[j].do = "send" /\ C[j].msg = m + i /\ C[j].queue = r.queue
    /\ \A b \in Reported(r) :
          \E j \in 1..Len(C) : C[j].do = "bind" /\ C[j].to = b
    /\ r.name \in ToExchange =>
          \E j \in 1..Len(C) :
              /\ C[j].do = "route" /\ C[j].msg = m
              /\ C[j].exchange = r.exchange /\ C[j].key = r.key

(* The parameters of a request, by its name. *)
LEMMA RequestFields ==
    ASSUME NEW r \in Requests
    PROVE  \/ /\ r.name \in {"publish", "publish_ttl", "publish_priority", "benchmark",
                             "queue_info"}
              /\ r.queue \in Queues
           \/ r.name = "bind_fanout" /\ \E n \in Names : r.queue = Main(n)
           \/ /\ r.name = "bind_topic" /\ \E n \in Names : r.queue = Main(n)
              /\ r.pattern \in Patterns
           \/ r.name = "publish_fanout" /\ r.exchange = Broadcast /\ r.key = AnyKey
           \/ r.name = "publish_topic" /\ r.exchange = Topic /\ r.key \in Keys
           \/ r.name \in {"setup_dlq", "get_dlq_messages"} /\ r.of \in Names
  BY DEF Requests, ToQueue

LEMMA CreatesType ==
    ASSUME NEW r \in Requests
    PROVE  /\ Creates(r) \in Nat
           /\ r.name = "benchmark" => Creates(r) = BenchCount
           /\ r.name \in {"publish", "publish_ttl", "publish_priority",
                          "publish_fanout", "publish_topic"} => Creates(r) = 1
  BY CountAssumption DEF Creates, ToQueue, ToExchange

LEMMA QueueNames ==
    \A n \in Names : Main(n) \in Queues /\ Dlq(n) \in Queues
  BY DEF Queues

LEMMA AnyKeyIsKey == AnyKey \in Keys
  BY KeysAssumption DEF AnyKey

LEMMA OneThenMore ==
    ASSUME NEW a \in Seq(AllCommands), NEW b \in Seq(AllCommands), Len(a) = 1
    PROVE  /\ a \o b \in Seq(AllCommands)
           /\ Len(a \o b) = 1 + Len(b)
           /\ \A i \in 1..(1 + Len(b)) :
                 (a \o b)[i] = IF i <= 1 THEN a[i] ELSE b[i - 1]
<1>1. /\ a \o b \in Seq(AllCommands)
      /\ Len(a \o b) = Len(a) + Len(b)
      /\ \A i \in 1..(Len(a) + Len(b)) :
            (a \o b)[i] = IF i <= Len(a) THEN a[i] ELSE b[i - Len(a)]
  BY ConcatProperties
<1> QED
  BY <1>1

LEMMA TwoCommands ==
    ASSUME NEW a \in AllCommands, NEW b \in AllCommands, NEW c \in AllCommands
    PROVE  <<a, b>> \in Seq(AllCommands) /\ <<a, b, c>> \in Seq(AllCommands)
  OBVIOUS

(* publish and its variants: declare, then send one message. *)
LEMMA PublishPlan ==
    ASSUME NEW r \in Requests, NEW m \in Messages,
           r.name \in {"publish", "publish_ttl", "publish_priority"}
    PROVE  PlanOK(r, m, Commands(r, m))
<1>1. r.queue \in Queues /\ Creates(r) = 1
  BY RequestFields, CreatesType
<1>2. PICK k \in {"plain", "priority"}, ttl \in BOOLEAN :
        Commands(r, m) = <<Declare(r.queue, k), Send(r.queue, m, ttl)>>
  BY DEF Commands, publish, publish_ttl, publish_priority
<1> DEFINE C == Commands(r, m)
<1>3. /\ Len(C) = 2
      /\ C[1] = [do |-> "declare", queue |-> r.queue, kind |-> k]
      /\ C[2] = [do |-> "send", queue |-> r.queue, msg |-> m, ttl |-> ttl]
  BY <1>2 DEF Declare, Send
<1>4. C \in Seq(AllCommands)
  BY <1>1, <1>2 DEF AllCommands, Kinds, Declare, Send
<1>5. Reported(r) = {}
  BY DEF Reported
<1>6. m \in Nat
  BY CountAssumption DEF Messages
<1> HIDE DEF C
<1> QED
  BY <1>1, <1>3, <1>4, <1>5, <1>6 DEF PlanOK, Writes, ToQueue, ToExchange, C

(* A benchmark: declare, then send BenchCount messages. *)
LEMMA BenchmarkPlan ==
    ASSUME NEW r \in Requests, NEW m \in Messages, r.name = "benchmark",
           m + Creates(r) - 1 <= MaxMessages
    PROVE  PlanOK(r, m, Commands(r, m))
<1> DEFINE sends == [i \in 1..BenchCount |-> Send(r.queue, m + i - 1, FALSE)]
           first == <<Declare(r.queue, "plain")>>
           C == Commands(r, m)
<1>1. r.queue \in Queues /\ Creates(r) = BenchCount /\ BenchCount \in Nat \ {0}
  BY RequestFields, CreatesType, CountAssumption
<1>2. m \in Nat \ {0} /\ MaxMessages \in Nat
  BY CountAssumption DEF Messages
<1>3. ASSUME NEW i \in 1..BenchCount
      PROVE  /\ sends[i].do = "send" /\ sends[i].queue = r.queue
             /\ sends[i].msg = m + i - 1
             /\ sends[i] \in AllCommands
  <2>1. m + i - 1 \in Messages
    BY <1>1, <1>2 DEF Messages
  <2>2. sends[i] = Send(r.queue, m + i - 1, FALSE)
    OBVIOUS
  <2> QED
    BY <1>1, <2>1, <2>2 DEF Send, AllCommands
<1>4. sends \in Seq(AllCommands) /\ Len(sends) = BenchCount
  <2>1. DOMAIN sends = 1..BenchCount /\ sends = [i \in 1..BenchCount |-> sends[i]]
    OBVIOUS
  <2>2. sends \in [1..BenchCount -> AllCommands]
    <3> HIDE DEF sends
    <3> QED
      BY <1>3, <2>1
  <2> HIDE DEF sends
  <2> QED
    BY <1>1, <2>2
<1>5. /\ first \in Seq(AllCommands) /\ Len(first) = 1
      /\ first[1].do = "declare" /\ first[1].queue = r.queue /\ first[1].kind = "plain"
  BY <1>1 DEF AllCommands, Kinds, Declare
<1>6. C = first \o sends
  BY DEF Commands, benchmark
<1> HIDE DEF first, sends, C
<1>7. /\ C \in Seq(AllCommands)
      /\ Len(C) = 1 + BenchCount
      /\ \A i \in 1..(1 + BenchCount) : C[i] = IF i <= 1 THEN first[i] ELSE sends[i - 1]
  BY <1>1, <1>4, <1>5, <1>6, OneThenMore
<1>8. /\ C[1].do = "declare" /\ C[1].queue = r.queue /\ C[1].kind = "plain"
      /\ \A i \in 2..(1 + BenchCount) :
            C[i].do = "send" /\ C[i].queue = r.queue /\ C[i].msg = m + i - 2
  <2>1. C[1] = first[1]
    BY <1>1, <1>7
  <2>2. ASSUME NEW i \in 2..(1 + BenchCount)
        PROVE  C[i].do = "send" /\ C[i].queue = r.queue /\ C[i].msg = m + i - 2
    <3>1. i - 1 \in 1..BenchCount /\ m + (i - 1) - 1 = m + i - 2
      BY <1>1, <1>2
    <3>2. C[i] = sends[i - 1]
      BY <1>1, <1>7
    <3> QED
      BY <1>3, <3>1, <3>2
  <2> QED
    BY <1>5, <2>1, <2>2
<1>9. Reported(r) = {}
  BY DEF Reported
<1>10. \A i \in 0..(Creates(r) - 1) :
         \E j \in 1..Len(C) :
             C[j].do = "send" /\ C[j].msg = m + i /\ C[j].queue = r.queue
  <2> SUFFICES ASSUME NEW i \in 0..(BenchCount - 1)
               PROVE  \E j \in 1..Len(C) :
                          C[j].do = "send" /\ C[j].msg = m + i /\ C[j].queue = r.queue
    BY <1>1
  <2>1. i + 2 \in 2..(1 + BenchCount) /\ m + (i + 2) - 2 = m + i
    BY <1>1, <1>2
  <2>2. /\ C[i + 2].do = "send" /\ C[i + 2].queue = r.queue
        /\ C[i + 2].msg = m + i
    BY <1>8, <2>1
  <2>3. i + 2 \in 1..Len(C)
    BY <1>1, <1>7
  <2> QED
    BY <2>2, <2>3
<1>11. \A i \in 1..Len(C) : i = 1 \/ i \in 2..(1 + BenchCount)
  BY <1>1, <1>7
<1>12. \A i \in 1..Len(C) :
          /\ Writes(C[i]) => C[i].msg \in m..(m + Creates(r) - 1)
          /\ C[i].do = "send" =>
                \E j \in 1..(i - 1) : C[j].do = "declare" /\ C[j].queue = C[i].queue
          /\ C[i].do # "get" /\ (C[i].do = "declare" => C[i].kind # "dlx")
  BY <1>1, <1>2, <1>8, <1>11 DEF Writes
<1>13. \A i, j \in 1..Len(C) :
          Writes(C[i]) /\ Writes(C[j]) /\ C[i].msg = C[j].msg => i = j
  BY <1>1, <1>2, <1>8, <1>11 DEF Writes
<1> QED
  BY <1>7, <1>9, <1>10, <1>12, <1>13 DEF PlanOK, ToExchange, C

(* A publish to an exchange: one command. *)
LEMMA RoutePlan ==
    ASSUME NEW r \in Requests, NEW m \in Messages, r.name \in ToExchange
    PROVE  PlanOK(r, m, Commands(r, m))
<1>1. /\ r.exchange \in {Broadcast, Topic} /\ r.key \in Keys /\ Creates(r) = 1
      /\ r.name = "publish_fanout" => r.exchange = Broadcast /\ r.key = AnyKey
      /\ r.name = "publish_topic" => r.exchange = Topic
  BY RequestFields, CreatesType, AnyKeyIsKey DEF ToExchange
<1>2. Commands(r, m) = <<Route(r.exchange, r.key, m)>>
  BY <1>1 DEF Commands, publish_fanout, publish_topic, ToExchange
<1> DEFINE C == Commands(r, m)
<1>3. /\ Len(C) = 1
      /\ C[1] = [do |-> "route", exchange |-> r.exchange, key |-> r.key, msg |-> m]
  BY <1>2 DEF Route
<1>4. C \in Seq(AllCommands)
  BY <1>1, <1>2 DEF AllCommands, Route
<1>5. Reported(r) = {}
  BY DEF Reported, ToExchange
<1>6. m \in Nat
  BY CountAssumption DEF Messages
<1> HIDE DEF C
<1> QED
  BY <1>1, <1>3, <1>4, <1>5, <1>6 DEF PlanOK, Writes, ToQueue, ToExchange, C

(* A bind: declare, then bind. *)
LEMMA BindPlan ==
    ASSUME NEW r \in Requests, NEW m, r.name \in {"bind_fanout", "bind_topic"}
    PROVE  PlanOK(r, m, Commands(r, m))
<1> DEFINE b == IF r.name = "bind_fanout"
                THEN [exchange |-> Broadcast, pattern |-> Keys, queue |-> r.queue]
                ELSE [exchange |-> Topic, pattern |-> r.pattern, queue |-> r.queue]
           C == Commands(r, m)
<1>1. r.queue \in Queues /\ (r.name = "bind_topic" => r.pattern \in Patterns)
  BY RequestFields, QueueNames
<1>2. /\ Len(C) = 2
      /\ C[1] = [do |-> "declare", queue |-> r.queue, kind |-> "plain"]
      /\ C[2] = [do |-> "bind", to |-> b]
  BY DEF Commands, bind_fanout, bind_topic, Declare, Bind
<1>3. b \in Bindings
  BY <1>1 DEF Bindings
<1>4. Reported(r) = {b}
  BY DEF Reported
<1>5. C \in Seq(AllCommands)
  <2>1. C[1] \in AllCommands /\ C[2] \in AllCommands
    <3> HIDE DEF b, C
    <3> QED
      BY <1>1, <1>2, <1>3 DEF AllCommands, Kinds
  <2>2. C = <<C[1], C[2]>>
    BY DEF Commands, bind_fanout, bind_topic
  <2> HIDE DEF b, C
  <2> QED
    BY <2>1, <2>2, TwoCommands
<1> HIDE DEF b, C
<1> QED
  BY <1>2, <1>4, <1>5 DEF PlanOK, Writes, ToQueue, ToExchange, C

(* setup_dlq: the dead-letter queue, its binding, and only then the queue. *)
LEMMA SetupPlan ==
    ASSUME NEW r \in Requests, NEW m, r.name = "setup_dlq"
    PROVE  PlanOK(r, m, Commands(r, m))
<1> DEFINE n == r.of
           C == Commands(r, m)
<1>1. n \in Names /\ Main(n) \in Queues /\ Dlq(n) \in Queues
  BY RequestFields, QueueNames
<1>2. /\ Len(C) = 3
      /\ C[1] = [do |-> "declare", queue |-> Dlq(n), kind |-> "plain"]
      /\ C[2] = [do |-> "bind", to |-> Home(n)]
      /\ C[3] = [do |-> "declare", queue |-> Main(n), kind |-> "dlx"]
  BY DEF Commands, setup_dlq, Declare, Bind, Home
<1>3. Home(n) \in Bindings
  BY <1>1 DEF Bindings, Home
<1>4. Reported(r) = {}
  BY DEF Reported
<1>5. C \in Seq(AllCommands)
  <2>1. C[1] \in AllCommands /\ C[2] \in AllCommands /\ C[3] \in AllCommands
    <3> HIDE DEF n, C
    <3> QED
      BY <1>1, <1>2, <1>3 DEF AllCommands, Kinds
  <2>2. C = <<C[1], C[2], C[3]>>
    BY DEF Commands, setup_dlq
  <2> HIDE DEF n, C
  <2> QED
    BY <2>1, <2>2, TwoCommands
<1> HIDE DEF n, C
<1> QED
  BY <1>1, <1>2, <1>4, <1>5 DEF PlanOK, Writes, ToQueue, ToExchange, C

(* queue_info: one command. *)
LEMMA InfoPlan ==
    ASSUME NEW r \in Requests, NEW m, r.name = "queue_info"
    PROVE  PlanOK(r, m, Commands(r, m))
<1> DEFINE C == Commands(r, m)
<1>1. r.queue \in Queues
  BY RequestFields
<1>2. C = <<[do |-> "declare_passive", queue |-> r.queue]>>
  BY DEF Commands, queue_info, DeclarePassive
<1>3. Reported(r) = {}
  BY DEF Reported
<1>4. C \in Seq(AllCommands) /\ Len(C) = 1 /\ C[1].do = "declare_passive"
  BY <1>1, <1>2 DEF AllCommands
<1> HIDE DEF C
<1> QED
  BY <1>3, <1>4 DEF PlanOK, Writes, ToQueue, ToExchange, C

(* A peek: after the declare, each get is followed by its nack. *)
LEMMA PeekPlan ==
    ASSUME NEW r \in Requests, NEW m, r.name = "get_dlq_messages"
    PROVE  PlanOK(r, m, Commands(r, m))
<1> DEFINE q == Dlq(r.of)
           first == <<Declare(q, "plain")>>
           gets == [i \in 1..(2 * PeekCount) |-> IF i % 2 = 1 THEN Get(q) ELSE Nack]
           C == Commands(r, m)
<1>1. q \in Queues
  BY RequestFields, QueueNames
<1>2. PeekCount \in Nat \ {0}
  BY CountAssumption
<1>3. gets \in Seq(AllCommands) /\ Len(gets) = 2 * PeekCount
  <2>1. Get(q) \in AllCommands /\ Nack \in AllCommands
    BY <1>1 DEF Get, Nack, AllCommands
  <2> QED
    BY <1>2, <2>1
<1>4. first \in Seq(AllCommands) /\ Len(first) = 1
  BY <1>1 DEF AllCommands, Kinds, Declare
<1>5. C = first \o gets
  BY DEF Commands, get_dlq_messages
<1>6. /\ C \in Seq(AllCommands)
      /\ Len(C) = 1 + 2 * PeekCount
      /\ \A i \in 1..(1 + 2 * PeekCount) :
            C[i] = IF i <= 1 THEN first[i] ELSE gets[i - 1]
  <2> HIDE DEF first, gets, C
  <2> QED
    BY <1>2, <1>3, <1>4, <1>5, OneThenMore
<1>7. C[1].do = "declare" /\ C[1].queue = q /\ C[1].kind = "plain"
  <2>1. first[1].do = "declare" /\ first[1].queue = q /\ first[1].kind = "plain"
    BY DEF Declare
  <2> HIDE DEF first, gets, C
  <2> QED
    BY <1>2, <1>6, <2>1
<1>8. \A i \in 2..(1 + 2 * PeekCount) :
         C[i].do = IF i % 2 = 0 THEN "get" ELSE "nack"
  <2> SUFFICES ASSUME NEW i \in 2..(1 + 2 * PeekCount)
               PROVE  C[i].do = IF i % 2 = 0 THEN "get" ELSE "nack"
    OBVIOUS
  <2>1. i - 1 \in 1..(2 * PeekCount) /\ ((i - 1) % 2 = 1 <=> i % 2 = 0)
    BY <1>2
  <2>2. gets[i - 1] = IF (i - 1) % 2 = 1 THEN Get(q) ELSE Nack
    BY <2>1
  <2>3. C[i] = gets[i - 1]
    <3> HIDE DEF first, gets, C
    <3> QED
      BY <1>2, <1>6
  <2>4. Get(q).do = "get" /\ Nack.do = "nack"
    BY DEF Get, Nack
  <2> HIDE DEF gets, C
  <2> QED
    BY <2>1, <2>2, <2>3, <2>4
<1>9. Reported(r) = {}
  BY DEF Reported
<1> HIDE DEF first, gets, C, q
<1>10. \A i \in 1..Len(C) :
          C[i].do = "get" => i < Len(C) /\ C[i + 1].do = "nack"
  <2> SUFFICES ASSUME NEW i \in 1..Len(C), C[i].do = "get"
               PROVE  i < Len(C) /\ C[i + 1].do = "nack"
    OBVIOUS
  <2>1. i \in 2..(1 + 2 * PeekCount)
    BY <1>2, <1>6, <1>7
  <2>2. i % 2 = 0
    BY <1>8, <2>1
  <2>3. i # 1 + 2 * PeekCount
    BY <1>2, <2>2
  <2>4. i + 1 \in 2..(1 + 2 * PeekCount) /\ (i + 1) % 2 # 0
    BY <1>2, <2>1, <2>2, <2>3
  <2> QED
    BY <1>6, <1>8, <2>1, <2>3, <2>4
<1>11. \A i \in 1..Len(C) :
          /\ ~Writes(C[i]) /\ C[i].do # "send"
          /\ C[i].do = "declare" => C[i].kind = "plain"
  <2>1. \A i \in 1..Len(C) : i = 1 \/ i \in 2..(1 + 2 * PeekCount)
    BY <1>2, <1>6
  <2> QED
    BY <1>7, <1>8, <2>1 DEF Writes
<1> QED
  BY <1>6, <1>9, <1>10, <1>11 DEF PlanOK, ToQueue, ToExchange, C

LEMMA Plans ==
    ASSUME NEW r \in Requests, NEW m \in 1..(MaxMessages + 1),
           m + Creates(r) - 1 <= MaxMessages
    PROVE  PlanOK(r, m, Commands(r, m))
<1>1. ASSUME Creates(r) > 0 PROVE m \in Messages
  BY <1>1, CreatesType, CountAssumption DEF Messages
<1>2. CASE r.name \in {"publish", "publish_ttl", "publish_priority"}
  BY <1>1, <1>2, CreatesType, PublishPlan
<1>3. CASE r.name = "benchmark"
  BY <1>1, <1>3, CreatesType, CountAssumption, BenchmarkPlan
<1>4. CASE r.name \in ToExchange
  BY <1>1, <1>4, CreatesType, RoutePlan DEF ToExchange
<1> QED
  BY <1>2, <1>3, <1>4, RequestFields, BindPlan, SetupPlan, InfoPlan, PeekPlan DEF ToExchange

-----------------------------------------------------------------------------
(* The first command of h is done, those of the others wait. *)

(* d[k]: how many commands of k have gone. *)
LEMMA ProceedSteps ==
    ASSUME todo \in [InFlight -> Seq(AllCommands)],
           NEW h \in InFlight, todo[h] # <<>>, Proceed(h)
    PROVE  /\ todo' \in [InFlight -> Seq(AllCommands)]
           /\ 1 \in Steps(h) /\ todo[h][1] = Head(todo[h])
           /\ Head(todo[h]) \in AllCommands
           /\ \E d \in [InFlight -> {0, 1}] :
                 /\ d[h] = 1
                 /\ \A k \in InFlight :
                       /\ d[k] = 1 => k = h
                       /\ Len(todo[k]) \in Nat /\ Len(todo'[k]) \in Nat
                       /\ Len(todo'[k]) = Len(todo[k]) - d[k]
                       /\ \A i \in 1..Len(todo'[k]) :
                             /\ i + d[k] \in 1..Len(todo[k])
                             /\ todo'[k][i] = todo[k][i + d[k]]
                             /\ todo[k][i + d[k]] \in AllCommands
<1>1. todo' = [todo EXCEPT ![h] = Tail(@)] /\ todo[h] \in Seq(AllCommands)
  BY DEF Proceed
<1>2. /\ Tail(todo[h]) \in Seq(AllCommands)
      /\ Len(Tail(todo[h])) = Len(todo[h]) - 1
      /\ \A i \in 1..Len(Tail(todo[h])) : Tail(todo[h])[i] = todo[h][i + 1]
      /\ Len(todo[h]) \in Nat \ {0} /\ todo[h][1] = Head(todo[h])
      /\ Head(todo[h]) \in AllCommands
  BY <1>1, HeadTailProperties, EmptySeq
<1>3. todo' \in [InFlight -> Seq(AllCommands)]
  BY <1>1, <1>2
<1> DEFINE d == [k \in InFlight |-> IF k = h THEN 1 ELSE 0]
<1>4. ASSUME NEW k \in InFlight
      PROVE  /\ d[k] = 1 => k = h
             /\ Len(todo[k]) \in Nat /\ Len(todo'[k]) \in Nat
             /\ Len(todo'[k]) = Len(todo[k]) - d[k]
             /\ \A i \in 1..Len(todo'[k]) :
                   /\ i + d[k] \in 1..Len(todo[k])
                   /\ todo'[k][i] = todo[k][i + d[k]]
                   /\ todo[k][i + d[k]] \in AllCommands
  <2>1. todo[k] \in Seq(AllCommands)
    OBVIOUS
  <2>2. CASE k = h
    <3>1. d[k] = 1 /\ todo'[k] = Tail(todo[h])
      BY <1>1, <2>2
    <3> HIDE DEF d
    <3> QED
      BY <1>2, <2>1, <2>2, <3>1
  <2>3. CASE k # h
    <3>1. d[k] = 0 /\ todo'[k] = todo[k]
      BY <1>1, <2>3
    <3> HIDE DEF d
    <3> QED
      BY <2>1, <2>3, <3>1
  <2> QED
    BY <2>2, <2>3
<1>5. d \in [InFlight -> {0, 1}] /\ d[h] = 1
  OBVIOUS
<1> HIDE DEF d
<1>6. \A k \in InFlight :
         /\ d[k] = 1 => k = h
         /\ Len(todo[k]) \in Nat /\ Len(todo'[k]) \in Nat
         /\ Len(todo'[k]) = Len(todo[k]) - d[k]
         /\ \A i \in 1..Len(todo'[k]) :
               /\ i + d[k] \in 1..Len(todo[k])
               /\ todo'[k][i] = todo[k][i + d[k]]
               /\ todo[k][i + d[k]] \in AllCommands
  BY <1>4
<1>7. 1 \in Steps(h)
  BY <1>2 DEF Steps
<1> QED
  BY <1>2, <1>3, <1>5, <1>6, <1>7, Zenon

(* The broker has executed c: what had been declared and bound still is, what
   c declares, binds or sends is there, and no other message was copied. *)
Executed(c) ==
    /\ \A q \in Queues : kind[q] # "absent" => kind'[q] # "absent"
    /\ bindings \subseteq bindings'
    /\ c.do = "declare" => kind'[c.queue] # "absent"
    /\ c.do = "bind" => c.to \in bindings'
    /\ \A m \in Messages : routed'[m] # routed[m] => Writes(c) /\ m = c.msg
    /\ c.do = "send" /\ kind[c.queue] # "absent" => routed'[c.msg] = {c.queue}
    /\ c.do = "route" => routed'[c.msg] = Targets(bindings, c.exchange, c.key)

LEMMA CommandFields ==
    ASSUME NEW c \in AllCommands
    PROVE  /\ Writes(c) => c.msg \in Messages
           /\ c.do \in {"declare", "declare_passive", "send", "get"} => c.queue \in Queues
           /\ c.do = "declare" => c.kind \in Kinds
           /\ c.do = "bind" => c.to \in Bindings
           /\ c.do = "send" => c.ttl \in BOOLEAN
           /\ c.do = "route" => c.exchange \in {Broadcast, Topic} /\ c.key \in Keys
  BY DEF AllCommands, Writes

LEMMA ProceedPlans ==
    ASSUME IInv, NEW h \in InFlight, todo[h] # <<>>, Proceed(h),
           UNCHANGED <<sent, request, owed>>, Executed(Head(todo[h]))
    PROVE  PlansOK' /\ OneWriter' /\ PromisesOK'
<1>0. PICK c \in AllCommands : c = Head(todo[h]) /\ c = todo[h][1] /\ 1 \in Steps(h)
  BY ProceedSteps DEF IInv, StateOK
<1>1. PICK d \in [InFlight -> {0, 1}] :
        /\ d[h] = 1
        /\ \A k \in InFlight :
              /\ d[k] = 1 => k = h
              /\ Len(todo[k]) \in Nat /\ Len(todo'[k]) \in Nat
              /\ Len(todo'[k]) = Len(todo[k]) - d[k]
              /\ \A i \in 1..Len(todo'[k]) :
                    /\ i + d[k] \in 1..Len(todo[k])
                    /\ todo'[k][i] = todo[k][i + d[k]]
                    /\ todo[k][i + d[k]] \in AllCommands
  BY ProceedSteps DEF IInv, StateOK
<1>2. Executed(c)
  BY <1>0
<1>3. ASSUME NEW k \in InFlight, NEW j \in 1..Len(todo[k])
      PROVE  \/ k = h /\ todo[k][j] = c
             \/ j - d[k] \in 1..Len(todo'[k]) /\ todo'[k][j - d[k]] = todo[k][j]
  <2>1. d[k] \in {0, 1}
    BY <1>1
  <2>2. CASE j > d[k]
    <3>1. j - d[k] \in 1..Len(todo'[k]) /\ (j - d[k]) + d[k] = j
      BY <1>1, <2>1, <2>2
    <3> QED
      BY <1>1, <3>1
  <2>3. CASE ~(j > d[k])
    <3>1. j = 1 /\ d[k] = 1
      BY <2>1, <2>3
    <3> QED
      BY <1>0, <1>1, <3>1
  <2> QED
    BY <2>2, <2>3
<1>4. ASSUME NEW k \in InFlight, NEW i \in Nat, NEW q \in Queues,
             DeclaredBy(k, i + d[k], q), i + d[k] - 1 <= Len(todo[k])
      PROVE  kind'[q] # "absent" \/
             \E j \in 1..(i - 1) : todo'[k][j].do = "declare" /\ todo'[k][j].queue = q
  <2>0. d[k] \in {0, 1} /\ Len(todo[k]) \in Nat
    BY <1>1
  <2>1. CASE kind[q] # "absent"
    BY <1>2, <2>1 DEF Executed
  <2>2. ASSUME NEW j \in 1..(i + d[k] - 1), todo[k][j].do = "declare", todo[k][j].queue = q
        PROVE  kind'[q] # "absent" \/
               \E l \in 1..(i - 1) : todo'[k][l].do = "declare" /\ todo'[k][l].queue = q
    <3>1. j \in 1..Len(todo[k])
      BY <1>4, <2>0
    <3>2. CASE todo[k][j] = c
      BY <1>2, <2>2, <3>2 DEF Executed
    <3>3. CASE j - d[k] \in 1..Len(todo'[k]) /\ todo'[k][j - d[k]] = todo[k][j]
      <4>1. j - d[k] \in 1..(i - 1)
        BY <1>1, <2>0, <3>3
      <4> QED
        BY <2>2, <3>3, <4>1
    <3> QED
      BY <1>3, <3>1, <3>2, <3>3
  <2>3. ASSUME \E j \in 1..(i + d[k] - 1) :
                  todo[k][j].do = "declare" /\ todo[k][j].queue = q
        PROVE  kind'[q] # "absent" \/
               \E l \in 1..(i - 1) : todo'[k][l].do = "declare" /\ todo'[k][l].queue = q
    BY <2>2, <2>3
  <2> QED
    BY <1>4, <2>1, <2>3 DEF DeclaredBy
<1>5. ASSUME NEW k \in InFlight, NEW i \in Nat, NEW b,
             BoundBy(k, i + d[k], b), i + d[k] - 1 <= Len(todo[k])
      PROVE  b \in bindings' \/
             \E j \in 1..(i - 1) : todo'[k][j].do = "bind" /\ todo'[k][j].to = b
  <2>0. d[k] \in {0, 1} /\ Len(todo[k]) \in Nat
    BY <1>1
  <2>1. CASE b \in bindings
    BY <1>2, <2>1 DEF Executed
  <2>2. ASSUME NEW j \in 1..(i + d[k] - 1), todo[k][j].do = "bind", todo[k][j].to = b
        PROVE  b \in bindings' \/
               \E l \in 1..(i - 1) : todo'[k][l].do = "bind" /\ todo'[k][l].to = b
    <3>1. j \in 1..Len(todo[k])
      BY <1>5, <2>0
    <3>2. CASE todo[k][j] = c
      BY <1>2, <2>2, <3>2 DEF Executed
    <3>3. CASE j - d[k] \in 1..Len(todo'[k]) /\ todo'[k][j - d[k]] = todo[k][j]
      <4>1. j - d[k] \in 1..(i - 1)
        BY <1>1, <2>0, <3>3
      <4> QED
        BY <2>2, <3>3, <4>1
    <3> QED
      BY <1>3, <3>1, <3>2, <3>3
  <2>3. ASSUME \E j \in 1..(i + d[k] - 1) :
                  todo[k][j].do = "bind" /\ todo[k][j].to = b
        PROVE  b \in bindings' \/
               \E l \in 1..(i - 1) : todo'[k][l].do = "bind" /\ todo'[k][l].to = b
    BY <2>2, <2>3
  <2> QED
    BY <1>5, <2>1, <2>3 DEF BoundBy
<1>6. Writes(c) => c.msg \in Messages /\ c.msg <= sent /\ routed[c.msg] = {}
  BY <1>0, CommandFields DEF IInv, PlansOK
<1>7. PlansOK'
  <2>1. \A m \in Messages : m > sent' => routed'[m] = {}
    <3> SUFFICES ASSUME NEW m \in Messages, m > sent PROVE routed'[m] = {}
      OBVIOUS
    <3>1. routed[m] = {} /\ ~(Writes(c) /\ m = c.msg)
      BY <1>6, CountAssumption DEF IInv, PlansOK, StateOK, Messages
    <3> QED
      BY <1>2, <3>1 DEF Executed
  <2>2. ASSUME NEW k \in InFlight, NEW i \in 1..Len(todo'[k])
        PROVE  /\ Writes(todo'[k][i]) =>
                     todo'[k][i].msg <= sent' /\ routed'[todo'[k][i].msg] = {}
               /\ todo'[k][i].do = "send" => DeclaredBy(k, i, todo[k][i].queue)'
               /\ todo'[k][i].do = "get" =>
                     /\ i < Len(todo'[k]) /\ todo'[k][i + 1].do = "nack"
                     /\ request'[k].of.name = "get_dlq_messages"
               /\ todo'[k][i].do = "declare" /\ todo'[k][i].kind = "dlx" =>
                     \E n \in Names :
                         /\ todo'[k][i].queue = Main(n)
                         /\ DeclaredBy(k, i, Dlq(n))' /\ BoundBy(k, i, Home(n))'
    <3>1. /\ i + d[k] \in Steps(k) /\ todo'[k][i] = todo[k][i + d[k]]
          /\ i \in Nat /\ i + d[k] - 1 <= Len(todo[k])
      BY <1>1 DEF Steps
    <3>2. PICK e \in AllCommands : e = todo[k][i + d[k]]
      BY <1>1
    <3>3. Writes(e) => e.msg <= sent' /\ routed'[e.msg] = {}
      <4> SUFFICES ASSUME Writes(e) PROVE e.msg <= sent /\ routed'[e.msg] = {}
        OBVIOUS
      <4>1. e.msg \in Messages /\ e.msg <= sent /\ routed[e.msg] = {}
        BY <3>1, <3>2, CommandFields DEF IInv, PlansOK
      <4>2. ~(Writes(c) /\ e.msg = c.msg)
        <5> SUFFICES ASSUME Writes(c), e.msg = c.msg PROVE FALSE
          OBVIOUS
        <5>1. h = k /\ 1 = i + d[k]
          BY <1>0, <3>1, <3>2 DEF IInv, OneWriter
        <5> QED
          BY <1>1, <5>1
      <4> QED
        BY <1>2, <4>1, <4>2 DEF Executed
    <3>4. e.do = "send" => DeclaredBy(k, i, e.queue)'
      <4> SUFFICES ASSUME e.do = "send"
                   PROVE  kind'[e.queue] # "absent" \/
                          \E j \in 1..(i - 1) : todo'[k][j].do = "declare"
                                                  /\ todo'[k][j].queue = e.queue
        BY DEF DeclaredBy
      <4>1. DeclaredBy(k, i + d[k], e.queue) /\ e.queue \in Queues
        BY <3>1, <3>2, CommandFields DEF IInv, PlansOK
      <4>2. i \in Nat /\ i + d[k] - 1 <= Len(todo[k])
        BY <3>1
      <4>3. PICK q \in Queues : q = e.queue
        BY <4>1
      <4>4. kind'[q] # "absent" \/
            \E j \in 1..(i - 1) : todo'[k][j].do = "declare" /\ todo'[k][j].queue = q
        BY <1>4, <4>1, <4>2, <4>3
      <4> QED
        BY <4>3, <4>4
    <3>5. e.do = "get" =>
              /\ i < Len(todo'[k]) /\ todo'[k][i + 1].do = "nack"
              /\ request[k].of.name = "get_dlq_messages"
      <4> SUFFICES ASSUME e.do = "get"
                   PROVE  /\ i < Len(todo'[k]) /\ todo'[k][i + 1].do = "nack"
                          /\ request[k].of.name = "get_dlq_messages"
        OBVIOUS
      <4>1. /\ i + d[k] < Len(todo[k]) /\ todo[k][(i + d[k]) + 1].do = "nack"
            /\ request[k].of.name = "get_dlq_messages"
        BY <3>1, <3>2 DEF IInv, PlansOK
      <4>2. i + 1 \in 1..Len(todo'[k]) /\ (i + 1) + d[k] = (i + d[k]) + 1
        <5>1. d[k] \in {0, 1} /\ Len(todo[k]) \in Nat /\ Len(todo'[k]) = Len(todo[k]) - d[k]
          BY <1>1
        <5> QED
          BY <4>1, <5>1
      <4> QED
        BY <1>1, <4>1, <4>2, SMTT(30)
    <3>6. e.do = "declare" /\ e.kind = "dlx" =>
              \E n \in Names :
                  /\ e.queue = Main(n)
                  /\ DeclaredBy(k, i, Dlq(n))' /\ BoundBy(k, i, Home(n))'
      <4> SUFFICES ASSUME e.do = "declare", e.kind = "dlx"
                   PROVE  \E n \in Names :
                              /\ e.queue = Main(n)
                              /\ DeclaredBy(k, i, Dlq(n))' /\ BoundBy(k, i, Home(n))'
        OBVIOUS
      <4>1. PICK n \in Names :
              /\ e.queue = Main(n)
              /\ DeclaredBy(k, i + d[k], Dlq(n)) /\ BoundBy(k, i + d[k], Home(n))
        BY <3>1, <3>2 DEF IInv, PlansOK
      <4>2. DeclaredBy(k, i, Dlq(n))'
        BY <1>4, <3>1, <4>1, QueueNames DEF DeclaredBy
      <4>3. BoundBy(k, i, Home(n))'
        BY <1>5, <3>1, <4>1 DEF BoundBy, Home
      <4> QED
        BY <4>1, <4>2, <4>3
    <3> QED
      BY <3>1, <3>2, <3>3, <3>4, <3>5, <3>6
  <2> QED
    BY <1>1, <2>1, <2>2 DEF PlansOK, Steps, DeclaredBy, BoundBy, Home
<1>8. OneWriter'
  <2> SUFFICES ASSUME NEW k \in InFlight, NEW l \in InFlight,
                      NEW i \in 1..Len(todo'[k]), NEW j \in 1..Len(todo'[l]),
                      Writes(todo'[k][i]), Writes(todo'[l][j]),
                      todo'[k][i].msg = todo'[l][j].msg
               PROVE  k = l /\ i = j
    BY DEF OneWriter, Steps, Writes
  <2>1. /\ i + d[k] \in Steps(k) /\ todo'[k][i] = todo[k][i + d[k]]
        /\ j + d[l] \in Steps(l) /\ todo'[l][j] = todo[l][j + d[l]]
    BY <1>1 DEF Steps
  <2>2. k = l /\ i + d[k] = j + d[l]
    BY <2>1 DEF IInv, OneWriter
  <2> QED
    BY <1>1, <2>2
<1>9. PromisesOK'
  <2> SUFFICES ASSUME NEW k \in InFlight, request[k] # None
               PROVE  /\ request[k].of.name \in ToQueue =>
                            \A i \in 0..(Creates(request[k].of) - 1) :
                                Queued(k, request[k].msg + i)'
                      /\ \A b \in Reported(request[k].of) :
                            BoundBy(k, Len(todo[k]) + 1, b)'
                      /\ request[k].of.name \in ToExchange => Reached(k)'
    BY DEF PromisesOK, BoundBy, Queued
  <2> DEFINE r == request[k].of
             m0 == request[k].msg
  <2>0. d[k] \in {0, 1} /\ Len(todo'[k]) \in Nat /\ Len(todo[k]) = Len(todo'[k]) + d[k]
    BY <1>1
  <2>1. /\ request'[k] = request[k] /\ owed'[k] = owed[k]
        /\ r \in Requests /\ m0 \in Nat \ {0}
        /\ m0 + Creates(r) - 1 <= sent /\ sent \in 0..MaxMessages
        /\ Creates(r) \in Nat /\ MaxMessages \in Nat
        /\ d[k] \in {0, 1} /\ Len(todo[k]) \in Nat /\ Len(todo'[k]) = Len(todo[k]) - d[k]
    <3>1. request[k] \in [of : Requests, msg : 1..(MaxMessages + 1)]
      BY DEF IInv, StateOK
    <3>2. /\ r \in Requests /\ m0 \in Nat \ {0} /\ Creates(r) \in Nat
          /\ MaxMessages \in Nat
      BY <3>1, CreatesType, CountAssumption
    <3>3. m0 + Creates(r) - 1 <= sent /\ sent \in 0..MaxMessages
      BY DEF IInv, StateOK
    <3> QED
      BY <1>1, <3>2, <3>3
  <2>2. ASSUME NEW m \in Messages, routed[m] # {} PROVE routed'[m] = routed[m]
    BY <1>2, <1>6, <2>2 DEF Executed
  <2>3. ASSUME r.name \in ToQueue, NEW i \in 0..(Creates(r) - 1)
        PROVE  Queued(k, m0 + i)'
    <3>1. PICK m \in Messages : m = m0 + i
      BY <2>1 DEF Messages
    <3>2. SUFFICES \/ routed'[m] = {r.queue}
                   \/ \E j \in 1..Len(todo'[k]) :
                         /\ todo'[k][j].do = "send" /\ todo'[k][j].msg = m
                         /\ todo'[k][j].queue = r.queue
      BY <2>1, <3>1 DEF Queued, Steps
    <3>3. Queued(k, m)
      BY <2>3, <3>1 DEF IInv, PromisesOK
    <3>4. CASE routed[m] = {r.queue}
      BY <2>2, <3>4
    <3>5. ASSUME NEW j \in 1..Len(todo[k]), todo[k][j].do = "send",
                 todo[k][j].msg = m, todo[k][j].queue = r.queue
          PROVE  \/ routed'[m] = {r.queue}
                 \/ \E l \in 1..Len(todo'[k]) :
                       /\ todo'[k][l].do = "send" /\ todo'[k][l].msg = m
                       /\ todo'[k][l].queue = r.queue
      <4>1. CASE k = h /\ todo[k][j] = c
        <5>1. DeclaredBy(h, 1, c.queue)
          BY <1>0, <3>5, <4>1 DEF IInv, PlansOK
        <5>2. kind[c.queue] # "absent"
          BY <5>1 DEF DeclaredBy
        <5> QED
          BY <1>2, <3>5, <4>1, <5>2 DEF Executed
      <4>2. CASE j - d[k] \in 1..Len(todo'[k]) /\ todo'[k][j - d[k]] = todo[k][j]
        BY <3>5, <4>2
      <4> QED
        BY <1>3, <4>1, <4>2
    <3> QED
      BY <3>3, <3>4, <3>5 DEF Queued, Steps
  <2>4. ASSUME NEW b \in Reported(r)
        PROVE  BoundBy(k, Len(todo[k]) + 1, b)'
    <3>1. BoundBy(k, (Len(todo'[k]) + 1) + d[k], b)
      <4>1. BoundBy(k, Len(todo[k]) + 1, b)
        BY <2>4 DEF IInv, PromisesOK
      <4>2. Len(todo[k]) + 1 = (Len(todo'[k]) + 1) + d[k]
        BY <2>1
      <4> QED
        BY <4>1, <4>2
    <3>2. PICK n \in Nat : n = Len(todo'[k]) + 1
      BY <2>0
    <3>3. n + d[k] - 1 <= Len(todo[k]) /\ BoundBy(k, n + d[k], b)
      BY <2>0, <3>1, <3>2
    <3>4. b \in bindings' \/
          \E j \in 1..(n - 1) : todo'[k][j].do = "bind" /\ todo'[k][j].to = b
      BY <1>5, <3>3
    <3> QED
      BY <3>2, <3>4 DEF BoundBy
  <2>5. ASSUME r.name \in ToExchange
        PROVE  Reached(k)'
    <3>1. PICK m \in Messages : m = m0
      <4>1. Creates(r) = 1
        BY <2>1, <2>5, CreatesType DEF ToExchange
      <4> QED
        BY <2>1, <4>1 DEF Messages
    <3>2. SUFFICES \/ owed[k] \subseteq routed'[m]
                   \/ /\ owed[k] \subseteq Targets(bindings', r.exchange, r.key)
                      /\ \E j \in 1..Len(todo'[k]) :
                            /\ todo'[k][j].do = "route" /\ todo'[k][j].msg = m
                            /\ todo'[k][j].exchange = r.exchange
                            /\ todo'[k][j].key = r.key
      BY <2>1, <3>1 DEF Reached, Steps, Targets
    <3>3. Reached(k)
      BY <2>5 DEF IInv, PromisesOK
    <3>4. CASE owed[k] \subseteq routed[m]
      BY <2>2, <3>4
    <3>5. ASSUME owed[k] \subseteq Targets(bindings, r.exchange, r.key),
                 NEW j \in 1..Len(todo[k]), todo[k][j].do = "route",
                 todo[k][j].msg = m, todo[k][j].exchange = r.exchange,
                 todo[k][j].key = r.key
          PROVE  \/ owed[k] \subseteq routed'[m]
                 \/ /\ owed[k] \subseteq Targets(bindings', r.exchange, r.key)
                    /\ \E l \in 1..Len(todo'[k]) :
                          /\ todo'[k][l].do = "route" /\ todo'[k][l].msg = m
                          /\ todo'[k][l].exchange = r.exchange
                          /\ todo'[k][l].key = r.key
      <4>1. CASE k = h /\ todo[k][j] = c
        BY <1>2, <3>5, <4>1 DEF Executed
      <4>2. CASE j - d[k] \in 1..Len(todo'[k]) /\ todo'[k][j - d[k]] = todo[k][j]
        <5>1. Targets(bindings, r.exchange, r.key)
                 \subseteq Targets(bindings', r.exchange, r.key)
          BY <1>2 DEF Executed, Targets
        <5> QED
          BY <3>5, <4>2, <5>1
      <4> QED
        BY <1>3, <4>1, <4>2
    <3> QED
      BY <3>1, <3>3, <3>4, <3>5 DEF Reached, Steps
  <2> QED
    BY <2>3, <2>4, <2>5
<1> QED
  BY <1>7, <1>8, <1>9

(* Some requests end, or give up the rest of a peek. *)
LEMMA ClearPlans ==
    ASSUME IInv, NEW F \in SUBSET InFlight,
           UNCHANGED <<kind, bindings, sent, routed>>,
           todo' = [h \in InFlight |-> IF h \in F THEN <<>> ELSE todo[h]],
           \A h \in InFlight \ F : request'[h] = request[h] /\ owed'[h] = owed[h],
           \A h \in F :
              \/ request'[h] = None
              \/ request'[h] = request[h] /\ request[h].of.name = "get_dlq_messages"
    PROVE  PlansOK' /\ OneWriter' /\ PromisesOK'
<1>1. \A h \in InFlight : todo'[h] = IF h \in F THEN <<>> ELSE todo[h]
  OBVIOUS
<1>2. \A h \in InFlight : \A i \in Steps(h)' :
         h \notin F /\ todo'[h] = todo[h] /\ i \in Steps(h)
  <2>1. Len(<<>>) = 0
    OBVIOUS
  <2> QED
    BY <1>1, <2>1 DEF Steps
<1>3. PlansOK'
  <2>0. \A m \in Messages : m > sent' => routed'[m] = {}
    BY DEF IInv, PlansOK
  <2>1. ASSUME NEW h \in InFlight, NEW i \in 1..Len(todo'[h])
        PROVE  /\ Writes(todo'[h][i]) =>
                     todo'[h][i].msg <= sent' /\ routed'[todo'[h][i].msg] = {}
               /\ todo'[h][i].do = "send" => DeclaredBy(h, i, todo[h][i].queue)'
               /\ todo'[h][i].do = "get" =>
                     /\ i < Len(todo'[h]) /\ todo'[h][i + 1].do = "nack"
                     /\ request'[h].of.name = "get_dlq_messages"
               /\ todo'[h][i].do = "declare" /\ todo'[h][i].kind = "dlx" =>
                     \E n \in Names :
                         /\ todo'[h][i].queue = Main(n)
                         /\ DeclaredBy(h, i, Dlq(n))' /\ BoundBy(h, i, Home(n))'
    <3>1. /\ h \notin F /\ todo'[h] = todo[h] /\ i \in Steps(h)
          /\ request'[h] = request[h]
      BY <1>2, <2>1 DEF Steps
    <3>2. \A n : /\ DeclaredBy(h, i, Dlq(n))' <=> DeclaredBy(h, i, Dlq(n))
                 /\ BoundBy(h, i, Home(n))' <=> BoundBy(h, i, Home(n))
      BY <3>1 DEF DeclaredBy, BoundBy, Home
    <3>3. DeclaredBy(h, i, todo[h][i].queue)' <=> DeclaredBy(h, i, todo[h][i].queue)
      BY <3>1 DEF DeclaredBy
    <3> QED
      BY <3>1, <3>2, <3>3 DEF IInv, PlansOK
  <2> QED
    BY <2>0, <2>1 DEF PlansOK, Steps
<1>4. OneWriter'
  BY <1>2 DEF IInv, OneWriter, Writes
<1>5. PromisesOK'
  <2> SUFFICES ASSUME NEW h \in InFlight, request'[h] # None
               PROVE  /\ request'[h].of.name \in ToQueue =>
                            \A i \in 0..(Creates(request'[h].of) - 1) :
                                Queued(h, request[h].msg + i)'
                      /\ \A b \in Reported(request'[h].of) :
                            BoundBy(h, Len(todo[h]) + 1, b)'
                      /\ request'[h].of.name \in ToExchange => Reached(h)'
    BY DEF PromisesOK, BoundBy, Queued
  <2>1. CASE h \in F
    <3>1. /\ request'[h].of.name = "get_dlq_messages"
          /\ Reported(request'[h].of) = {}
      BY <2>1 DEF Reported
    <3> QED
      BY <3>1 DEF ToQueue, ToExchange
  <2>2. CASE h \notin F
    <3>1. request'[h] = request[h] /\ owed'[h] = owed[h] /\ todo'[h] = todo[h]
      BY <1>1, <2>2
    <3> QED
      BY <3>1 DEF IInv, PromisesOK, Queued, BoundBy, Reached, Steps, Targets
  <2> QED
    BY <2>1, <2>2
<1> QED
  BY <1>3, <1>4, <1>5

(* A request begins, with the plan of its operation. *)
LEMMA StartPlans ==
    ASSUME IInv, NEW h \in InFlight, NEW r \in Requests, Start(h, r)
    PROVE  /\ StateOK' /\ HeldOK'
           /\ PlansOK' /\ OneWriter' /\ PromisesOK'
<1> DEFINE m == sent + 1
           C == Commands(r, m)
<1>1. /\ request[h] = None /\ sent + Creates(r) <= MaxMessages
      /\ sent' = sent + Creates(r)
      /\ request' = [request EXCEPT ![h] = [of |-> r, msg |-> m]]
      /\ todo' = [todo EXCEPT ![h] = C]
      /\ owed' = [owed EXCEPT ![h] =
                    IF r.name \in ToExchange
                    THEN Targets(bindings, r.exchange, r.key) ELSE {}]
      /\ UNCHANGED <<kind, bindings, content, unacked, mortal, poison, held, routed>>
  BY DEF Start, broker
<1>2. /\ Creates(r) \in Nat /\ sent \in 0..MaxMessages /\ MaxMessages \in Nat
      /\ m \in 1..(MaxMessages + 1) /\ m + Creates(r) - 1 = sent'
      /\ sent' \in 0..MaxMessages
  BY <1>1, CreatesType, CountAssumption DEF IInv, StateOK
<1>3. PlanOK(r, m, C)
  BY <1>1, <1>2, Plans
<1>4. C \in Seq(AllCommands) /\ Len(C) \in Nat
  BY <1>3 DEF PlanOK
<1> HIDE DEF C, m
<1>5. /\ todo'[h] = C /\ request'[h] = [of |-> r, msg |-> m]
      /\ request'[h].of = r /\ request'[h].msg = m
      /\ \A k \in InFlight : k # h =>
            todo'[k] = todo[k] /\ request'[k] = request[k] /\ owed'[k] = owed[k]
      /\ owed'[h] = IF r.name \in ToExchange
                    THEN Targets(bindings, r.exchange, r.key) ELSE {}
  BY <1>1 DEF IInv, StateOK
<1>6. \A x \in Messages : x > sent => routed[x] = {}
  BY DEF IInv, PlansOK
<1>7. StateOK'
  <2>1. owed'[h] \in SUBSET Queues
    BY <1>5 DEF Targets, IInv, StateOK, Bindings
  <2>2. owed' \in [InFlight -> SUBSET Queues]
    BY <1>1, <1>5, <2>1 DEF IInv, StateOK
  <2>3. todo' \in [InFlight -> Seq(AllCommands)]
    BY <1>1, <1>4 DEF IInv, StateOK
  <2>4. request' \in [InFlight -> [of : Requests, msg : 1..(MaxMessages + 1)] \union {None}]
    BY <1>1, <1>2 DEF IInv, StateOK
  <2>5. ASSUME NEW k \in InFlight, request'[k] # None
        PROVE  request'[k].msg + Creates(request'[k].of) - 1 <= sent'
    <3>1. CASE k = h
      BY <1>2, <1>5, <3>1
    <3>2. CASE k # h
      <4>1. request[k] \in [of : Requests, msg : 1..(MaxMessages + 1)]
        BY <1>5, <2>5, <3>2 DEF IInv, StateOK
      <4>2. /\ request[k].msg + Creates(request[k].of) - 1 <= sent
            /\ request[k].msg \in Nat /\ Creates(request[k].of) \in Nat
        BY <1>2, <1>5, <2>5, <3>2, <4>1, CreatesType DEF IInv, StateOK
      <4> QED
        BY <1>1, <1>2, <1>5, <3>2, <4>2
    <3> QED
      BY <3>1, <3>2
  <2> QED
    BY <1>1, <1>2, <2>2, <2>3, <2>4, <2>5 DEF IInv, StateOK
<1>8. HeldOK'
  <2>1. held[h] = None
    BY <1>1 DEF IInv, HeldOK, IsNext
  <2>2. request'[h] # None
    BY <1>2, <1>5, NothingAskedAssumption
  <2> QED
    BY <1>1, <1>5, <2>1, <2>2 DEF IInv, HeldOK, IsNext
<1>9. PlansOK'
  <2>1. \A x \in Messages : x > sent' => routed'[x] = {}
    BY <1>1, <1>2, <1>6 DEF Messages
  <2>2. ASSUME NEW k \in InFlight, NEW i \in 1..Len(todo'[k])
        PROVE  /\ Writes(todo'[k][i]) =>
                     todo'[k][i].msg <= sent' /\ routed'[todo'[k][i].msg] = {}
               /\ todo'[k][i].do = "send" => DeclaredBy(k, i, todo[k][i].queue)'
               /\ todo'[k][i].do = "get" =>
                     /\ i < Len(todo'[k]) /\ todo'[k][i + 1].do = "nack"
                     /\ request'[k].of.name = "get_dlq_messages"
               /\ todo'[k][i].do = "declare" /\ todo'[k][i].kind = "dlx" =>
                     \E n \in Names :
                         /\ todo'[k][i].queue = Main(n)
                         /\ DeclaredBy(k, i, Dlq(n))' /\ BoundBy(k, i, Home(n))'
    <3>1. CASE k # h
      <4>1. todo'[k] = todo[k] /\ request'[k] = request[k] /\ i \in Steps(k)
        BY <1>5, <3>1, <2>2 DEF Steps
      <4>2. todo[k][i] \in AllCommands
        BY <4>1 DEF IInv, StateOK, Steps
      <4>3. Writes(todo[k][i]) =>
               todo[k][i].msg <= sent' /\ routed[todo[k][i].msg] = {}
        <5> SUFFICES ASSUME Writes(todo[k][i])
                     PROVE  todo[k][i].msg <= sent' /\ routed[todo[k][i].msg] = {}
          OBVIOUS
        <5>1. /\ todo[k][i].msg \in Messages /\ todo[k][i].msg <= sent
              /\ routed[todo[k][i].msg] = {}
          BY <4>1, <4>2, CommandFields DEF IInv, PlansOK
        <5>2. todo[k][i].msg \in Int /\ sent <= sent' /\ sent \in Int /\ sent' \in Int
          BY <1>1, <1>2, <5>1 DEF Messages
        <5> QED
          BY <5>1, <5>2
      <4>4. DeclaredBy(k, i, todo[k][i].queue)' <=> DeclaredBy(k, i, todo[k][i].queue)
        BY <1>1, <4>1 DEF DeclaredBy
      <4>5. \A n : /\ DeclaredBy(k, i, Dlq(n))' <=> DeclaredBy(k, i, Dlq(n))
                   /\ BoundBy(k, i, Home(n))' <=> BoundBy(k, i, Home(n))
        BY <1>1, <4>1 DEF DeclaredBy, BoundBy, Home
      <4> QED
        BY <1>1, <4>1, <4>3, <4>4, <4>5 DEF IInv, PlansOK
    <3>2. CASE k = h
      <4>1. todo'[k] = C /\ i \in 1..Len(C) /\ request'[k].of = r
        BY <1>5, <2>2, <3>2
      <4>2. C[i] \in AllCommands
        BY <1>4, <4>1
      <4>3. Writes(C[i]) => C[i].msg <= sent' /\ routed[C[i].msg] = {}
        <5> SUFFICES ASSUME Writes(C[i])
                     PROVE  C[i].msg <= sent' /\ routed[C[i].msg] = {}
          OBVIOUS
        <5>1. C[i].msg \in m..sent' /\ C[i].msg \in Messages
          BY <1>2, <1>3, <4>1, <4>2, CommandFields DEF PlanOK
        <5> QED
          BY <1>2, <1>6, <5>1 DEF m
      <4>4. C[i].do = "send" => DeclaredBy(k, i, todo[k][i].queue)'
        BY <1>3, <4>1 DEF PlanOK, DeclaredBy
      <4>5. C[i].do = "get" =>
               i < Len(C) /\ C[i + 1].do = "nack" /\ r.name = "get_dlq_messages"
        BY <1>3, <4>1 DEF PlanOK
      <4>6. C[i].do = "declare" /\ C[i].kind = "dlx" =>
               \E n \in Names :
                   /\ C[i].queue = Main(n)
                   /\ DeclaredBy(k, i, Dlq(n))' /\ BoundBy(k, i, Home(n))'
        BY <1>3, <4>1 DEF PlanOK, DeclaredBy, BoundBy, Home
      <4> QED
        BY <1>1, <4>1, <4>3, <4>4, <4>5, <4>6
    <3> QED
      BY <3>1, <3>2
  <2> QED
    BY <2>1, <2>2 DEF PlansOK, Steps
<1>10. OneWriter'
  <2> SUFFICES ASSUME NEW k \in InFlight, NEW l \in InFlight,
                      NEW i \in 1..Len(todo'[k]), NEW j \in 1..Len(todo'[l]),
                      Writes(todo'[k][i]), Writes(todo'[l][j]),
                      todo'[k][i].msg = todo'[l][j].msg
               PROVE  k = l /\ i = j
    BY DEF OneWriter, Steps, Writes
  <2>1. ASSUME NEW u \in 1..Len(C), Writes(C[u])
        PROVE  C[u].msg \in m..(m + Creates(r) - 1) /\ C[u].msg > sent
    <3>1. C[u].msg \in m..(m + Creates(r) - 1)
      BY <1>3, <2>1 DEF PlanOK
    <3> QED
      BY <1>2, <3>1 DEF m
  <2>2. ASSUME NEW g \in InFlight, g # h, NEW u \in 1..Len(todo[g]), Writes(todo[g][u])
        PROVE  todo[g][u].msg <= sent /\ todo[g][u].msg \in Nat
    <3>1. todo[g][u] \in AllCommands
      BY DEF IInv, StateOK
    <3> QED
      BY <2>2, <3>1, CommandFields, CountAssumption DEF IInv, PlansOK, Steps, Messages
  <2>3. CASE k = h /\ l = h
    BY <1>3, <1>5, <2>3 DEF PlanOK
  <2>4. ~(k = h /\ l # h)
    <3> SUFFICES ASSUME k = h, l # h PROVE FALSE
      OBVIOUS
    <3>1. /\ i \in 1..Len(C) /\ todo'[k][i] = C[i]
          /\ j \in 1..Len(todo[l]) /\ todo'[l][j] = todo[l][j]
      BY <1>5
    <3>2. C[i].msg > sent /\ C[i].msg \in Int /\ todo[l][j].msg <= sent
      BY <2>1, <2>2, <3>1
    <3>3. C[i].msg = todo[l][j].msg
      BY <3>1
    <3> QED
      BY <1>2, <3>2, <3>3
  <2>5. ~(k # h /\ l = h)
    <3> SUFFICES ASSUME k # h, l = h PROVE FALSE
      OBVIOUS
    <3>1. /\ j \in 1..Len(C) /\ todo'[l][j] = C[j]
          /\ i \in 1..Len(todo[k]) /\ todo'[k][i] = todo[k][i]
      BY <1>5
    <3>2. C[j].msg > sent /\ C[j].msg \in Int /\ todo[k][i].msg <= sent
      BY <2>1, <2>2, <3>1
    <3>3. todo[k][i].msg = C[j].msg
      BY <3>1
    <3> QED
      BY <1>2, <3>2, <3>3
  <2>6. CASE k # h /\ l # h
    BY <1>5, <2>6 DEF IInv, OneWriter, Steps
  <2> QED
    BY <2>3, <2>4, <2>5, <2>6
<1>11. PromisesOK'
  <2> SUFFICES ASSUME NEW k \in InFlight, request'[k] # None
               PROVE  /\ request'[k].of.name \in ToQueue =>
                            \A i \in 0..(Creates(request'[k].of) - 1) :
                                Queued(k, request[k].msg + i)'
                      /\ \A b \in Reported(request'[k].of) :
                            BoundBy(k, Len(todo[k]) + 1, b)'
                      /\ request'[k].of.name \in ToExchange => Reached(k)'
    BY DEF PromisesOK, BoundBy, Queued
  <2>1. CASE k # h
    <3>1. request'[k] = request[k] /\ owed'[k] = owed[k] /\ todo'[k] = todo[k]
      BY <1>5, <2>1
    <3>2. \A x : Queued(k, request[k].msg + x)' <=> Queued(k, request[k].msg + x)
      BY <1>1, <3>1 DEF Queued, Steps
    <3>3. \A b : BoundBy(k, Len(todo[k]) + 1, b)' <=> BoundBy(k, Len(todo[k]) + 1, b)
      BY <1>1, <3>1 DEF BoundBy
    <3>4. Reached(k)' <=> Reached(k)
      BY <1>1, <3>1 DEF Reached, Steps, Targets
    <3> QED
      BY <1>1, <3>1, <3>2, <3>3, <3>4 DEF IInv, PromisesOK
  <2>2. CASE k = h
    <3>1. r.name \in ToQueue =>
             \A i \in 0..(Creates(r) - 1) : Queued(k, request[k].msg + i)'
      BY <1>3, <1>5, <2>2 DEF PlanOK, Queued, Steps
    <3>2. \A b \in Reported(r) : BoundBy(k, Len(todo[k]) + 1, b)'
      <4> SUFFICES ASSUME NEW b \in Reported(r)
                   PROVE  \E j \in 1..((Len(C) + 1) - 1) : C[j].do = "bind" /\ C[j].to = b
        BY <1>5, <2>2 DEF BoundBy
      <4>1. (Len(C) + 1) - 1 = Len(C)
        BY <1>4
      <4> QED
        BY <1>3, <4>1 DEF PlanOK
    <3>3. r.name \in ToExchange => Reached(k)'
      BY <1>1, <1>3, <1>5, <2>2 DEF PlanOK, Reached, Steps, Targets
    <3> QED
      BY <1>5, <2>2, <3>1, <3>2, <3>3
  <2> QED
    BY <2>1, <2>2
<1> QED
  BY <1>7, <1>8, <1>9, <1>10, <1>11

-----------------------------------------------------------------------------
(* Queues and deliveries. *)

LEMMA TargetsAreQueues ==
    ASSUME bindings \subseteq Bindings, NEW x, NEW k
    PROVE  Targets(bindings, x, k) \subseteq Queues
  BY DEF Targets, Bindings

(* A message that is in no queue yet is copied to some. *)
LEMMA Enqueued ==
    ASSUME StateOK, NothingLost, NEW m \in Messages, NEW targets \in SUBSET Queues,
           routed[m] = {}, Enqueue(m, targets), unacked' = unacked,
           mortal \subseteq mortal'
    PROVE  /\ content' \in [Queues -> SUBSET Messages]
           /\ routed' \in [Messages -> SUBSET Queues]
           /\ \A x \in Messages : x # m => routed'[x] = routed[x]
           /\ routed'[m] = targets
           /\ NothingLost'
<1>1. /\ content' = [q \in Queues |->
                       content[q] \union (IF q \in targets THEN {m} ELSE {})]
      /\ routed' = [routed EXCEPT ![m] = targets]
  BY DEF Enqueue
<1>2. content' \in [Queues -> SUBSET Messages]
  BY <1>1 DEF StateOK
<1>3. /\ routed' \in [Messages -> SUBSET Queues] /\ routed'[m] = targets
      /\ \A x \in Messages : x # m => routed'[x] = routed[x]
  BY <1>1 DEF StateOK
<1>4. \A x \in Messages, q \in Queues :
         x \in content'[q] <=> x \in content[q] \/ (x = m /\ q \in targets)
  BY <1>1
<1>5. \A q \in Queues : m \notin content[q] /\ <<q, m>> \notin unacked
  BY DEF NothingLost
<1>6. NothingLost'
  <2> SUFFICES ASSUME NEW x \in Messages, NEW q \in Queues
               PROVE  /\ x \in content'[q] => <<q, x>> \notin unacked
                      /\ x \in content'[q] \/ <<q, x>> \in unacked => q \in routed'[x]
                      /\ q \in routed'[x] /\ x \notin mortal' =>
                            x \in content'[q] \/ <<q, x>> \in unacked
    BY DEF NothingLost
  <2>1. CASE x = m
    BY <1>3, <1>4, <1>5, <2>1
  <2>2. CASE x # m
    <3>1. (x \in content'[q] <=> x \in content[q]) /\ routed'[x] = routed[x]
      BY <1>3, <1>4, <2>2
    <3> QED
      BY <3>1 DEF NothingLost
  <2> QED
    BY <2>1, <2>2
<1> QED
  BY <1>2, <1>3, <1>6

LEMMA Taken ==
    ASSUME StateOK, NothingLost, NEW q \in Queues, NEW m \in content[q], Take(q, m),
           UNCHANGED <<mortal, routed>>
    PROVE  /\ content' \in [Queues -> SUBSET Messages]
           /\ unacked' \subseteq Queues \X Messages
           /\ unacked \subseteq unacked' /\ <<q, m>> \in unacked'
           /\ <<q, m>> \notin unacked
           /\ <<q, m>> \in Queues \X Messages
           /\ NothingLost'
<1>1. /\ content' = [content EXCEPT ![q] = @ \ {m}]
      /\ unacked' = unacked \union {<<q, m>>}
      /\ m \in Messages
  BY DEF Take, StateOK
<1>2. content' \in [Queues -> SUBSET Messages] /\ unacked' \subseteq Queues \X Messages
  BY <1>1 DEF StateOK
<1>3. \A x \in Messages, p \in Queues :
         /\ x \in content'[p] <=> x \in content[p] /\ ~(x = m /\ p = q)
         /\ <<p, x>> \in unacked' <=> <<p, x>> \in unacked \/ (x = m /\ p = q)
  BY <1>1 DEF StateOK
<1>4. <<q, m>> \notin unacked
  BY <1>1 DEF NothingLost
<1>5. NothingLost'
  <2> SUFFICES ASSUME NEW x \in Messages, NEW p \in Queues
               PROVE  /\ x \in content'[p] => <<p, x>> \notin unacked'
                      /\ x \in content'[p] \/ <<p, x>> \in unacked' => p \in routed[x]
                      /\ p \in routed[x] /\ x \notin mortal =>
                            x \in content'[p] \/ <<p, x>> \in unacked'
    BY DEF NothingLost
  <2>1. x = m /\ p = q => p \in routed[x]
    BY <1>1 DEF NothingLost
  <2> QED
    BY <1>3, <2>1 DEF NothingLost
<1> QED
  BY <1>1, <1>2, <1>4, <1>5

LEMMA Returned ==
    ASSUME StateOK, NothingLost, NEW pairs \in SUBSET unacked, Return(pairs),
           UNCHANGED <<mortal, routed>>
    PROVE  /\ content' \in [Queues -> SUBSET Messages]
           /\ unacked' = unacked \ pairs
           /\ unacked' \subseteq Queues \X Messages
           /\ NothingLost'
<1>1. /\ content' = [q \in Queues |->
                       content[q] \union {m \in Messages : <<q, m>> \in pairs}]
      /\ unacked' = unacked \ pairs
  BY DEF Return
<1>2. content' \in [Queues -> SUBSET Messages] /\ unacked' \subseteq Queues \X Messages
  BY <1>1 DEF StateOK
<1>3. \A x \in Messages, q \in Queues :
         /\ x \in content'[q] <=> x \in content[q] \/ <<q, x>> \in pairs
         /\ <<q, x>> \in unacked' <=> <<q, x>> \in unacked /\ <<q, x>> \notin pairs
  BY <1>1
<1>4. NothingLost'
  <2> SUFFICES ASSUME NEW x \in Messages, NEW q \in Queues
               PROVE  /\ x \in content'[q] => <<q, x>> \notin unacked'
                      /\ x \in content'[q] \/ <<q, x>> \in unacked' => q \in routed[x]
                      /\ q \in routed[x] /\ x \notin mortal =>
                            x \in content'[q] \/ <<q, x>> \in unacked'
    BY DEF NothingLost
  <2> QED
    BY <1>3 DEF NothingLost
<1> QED
  BY <1>1, <1>2, <1>4

-----------------------------------------------------------------------------
(* The invariant holds at first and after every command. *)

LEMMA InitInv == RabbitInit => IInv
<1> SUFFICES ASSUME RabbitInit PROVE IInv
  OBVIOUS
<1>1. \A h \in InFlight : todo[h] = <<>> /\ request[h] = None /\ held[h] = None
  BY DEF RabbitInit
<1>2. \A h \in InFlight : Steps(h) = {}
  BY <1>1 DEF Steps
<1>3. StateOK
  <2>1. <<>> \in Seq(AllCommands) /\ 0 \in 0..MaxMessages
    BY CountAssumption
  <2> QED
    BY <1>1, <2>1 DEF RabbitInit, StateOK
<1>4. HeldOK
  BY <1>1 DEF HeldOK
<1>5. PlansOK /\ OneWriter
  BY <1>2 DEF PlansOK, OneWriter, RabbitInit
<1>6. PromisesOK
  BY <1>1 DEF PromisesOK
<1>7. Homes
  <2>1. \A n \in Names : kind[Main(n)] = "absent"
    BY QueueNames DEF RabbitInit
  <2> QED
    BY <2>1 DEF Homes
<1>8. NothingLost
  BY DEF NothingLost, RabbitInit
<1> QED
  BY <1>3, <1>4, <1>5, <1>6, <1>7, <1>8 DEF IInv

(* A handler with a command left serves a request; one whose next command is
   no nack holds nothing. *)
LEMMA AtCommand ==
    ASSUME IInv, NEW h \in InFlight, NEW do, IsNext(h, do)
    PROVE  /\ todo[h] # <<>> /\ Head(todo[h]).do = do
           /\ Head(todo[h]) \in AllCommands
           /\ 1 \in Steps(h) /\ todo[h][1] = Head(todo[h])
           /\ request[h] # None
           /\ do # "nack" => held[h] = None
<1>1. todo[h] # <<>> /\ Head(todo[h]).do = do /\ todo[h] \in Seq(AllCommands)
  BY DEF IsNext, IInv, StateOK
<1>2. /\ Len(todo[h]) \in Nat \ {0} /\ todo[h][1] = Head(todo[h])
      /\ Head(todo[h]) \in AllCommands
  BY <1>1, HeadTailProperties, EmptySeq
<1>3. request[h] # None /\ (do # "nack" => held[h] = None)
  BY <1>1 DEF IInv, HeldOK, IsNext
<1> QED
  BY <1>1, <1>2, <1>3 DEF Steps

LEMMA ProceedHeld ==
    ASSUME IInv, NEW h \in InFlight, NEW do, IsNext(h, do), do # "nack",
           Proceed(h), UNCHANGED <<request, held>>, unacked \subseteq unacked'
    PROVE  HeldOK'
<1>1. \A k \in InFlight : k # h => todo'[k] = todo[k]
  BY DEF Proceed, IInv, StateOK
<1>2. request[h] # None /\ held[h] = None
  BY AtCommand
<1> QED
  BY <1>1, <1>2 DEF IInv, HeldOK, IsNext

LEMMA ProceedTypes ==
    ASSUME IInv, NEW h \in InFlight, NEW do, IsNext(h, do), Proceed(h)
    PROVE  todo' \in [InFlight -> Seq(AllCommands)]
  BY AtCommand, ProceedSteps DEF IInv, StateOK

LEMMA DeclareQueueInv ==
    ASSUME IInv, NEW h \in InFlight, DeclareQueue(h)
    PROVE  IInv'
<1>1. PICK c \in AllCommands : c = Head(todo[h])
  BY AtCommand DEF DeclareQueue
<1>2. /\ IsNext(h, "declare") /\ c.do = "declare" /\ c.queue \in Queues
      /\ c.kind \in Kinds /\ kind[c.queue] \in {"absent", c.kind}
      /\ kind' = [kind EXCEPT ![c.queue] = c.kind]
      /\ Proceed(h) /\ todo[h] # <<>>
      /\ UNCHANGED <<bindings, content, unacked, mortal, poison, sent, request,
                     held, routed, owed>>
  BY <1>1, CommandFields DEF DeclareQueue, IsNext, Refused, Compatible
<1>3. /\ \A q \in Queues : q # c.queue => kind'[q] = kind[q]
      /\ kind'[c.queue] = c.kind
      /\ kind' \in [Queues -> Kinds \union {"absent"}]
      /\ c.kind # "absent"
  BY <1>2 DEF IInv, StateOK, Kinds
<1>4. Executed(Head(todo[h]))
  BY <1>1, <1>2, <1>3 DEF Executed
<1>5. PlansOK' /\ OneWriter' /\ PromisesOK'
  BY <1>2, <1>4, ProceedPlans
<1>6. StateOK'
  BY <1>2, <1>3, ProceedTypes DEF IInv, StateOK
<1>7. HeldOK'
  BY <1>2, ProceedHeld
<1>8. Homes'
  <2> SUFFICES ASSUME NEW n \in Names, kind'[Main(n)] = "dlx"
               PROVE  kind'[Dlq(n)] # "absent" /\ Home(n) \in bindings
    BY <1>2 DEF Homes, Home
  <2>1. kind[Dlq(n)] # "absent" => kind'[Dlq(n)] # "absent"
    BY <1>3, QueueNames
  <2>2. CASE c.queue # Main(n)
    <3>1. kind[Main(n)] = "dlx"
      BY <1>3, <2>2, QueueNames
    <3> QED
      BY <2>1, <3>1 DEF IInv, Homes
  <2>3. CASE c.queue = Main(n)
    <3>1. c.kind = "dlx" /\ 1 \in Steps(h) /\ todo[h][1] = c
      BY <1>1, <1>2, <1>3, <2>3, AtCommand
    <3>2. PICK p \in Names : /\ c.queue = Main(p)
                             /\ DeclaredBy(h, 1, Dlq(p)) /\ BoundBy(h, 1, Home(p))
      BY <1>2, <3>1 DEF IInv, PlansOK
    <3>3. p = n
      BY <2>3, <3>2 DEF Main
    <3> QED
      BY <2>1, <3>2, <3>3 DEF DeclaredBy, BoundBy
  <2> QED
    BY <2>2, <2>3
<1>9. NothingLost'
  BY <1>2 DEF IInv, NothingLost
<1> QED
  BY <1>5, <1>6, <1>7, <1>8, <1>9 DEF IInv

LEMMA InspectQueueInv ==
    ASSUME IInv, NEW h \in InFlight, InspectQueue(h)
    PROVE  IInv'
<1>1. /\ IsNext(h, "declare_passive") /\ Proceed(h) /\ todo[h] # <<>>
      /\ Head(todo[h]).do = "declare_passive"
      /\ UNCHANGED <<kind, bindings, content, unacked, mortal, poison, sent, request,
                     held, routed, owed>>
  BY DEF InspectQueue, IsNext, broker
<1>2. Executed(Head(todo[h]))
  BY <1>1 DEF Executed
<1>3. PlansOK' /\ OneWriter' /\ PromisesOK'
  BY <1>1, <1>2, ProceedPlans
<1>4. HeldOK'
  BY <1>1, ProceedHeld
<1>5. StateOK' /\ Homes' /\ NothingLost'
  BY <1>1, ProceedTypes DEF IInv, StateOK, Homes, Home, NothingLost
<1> QED
  BY <1>3, <1>4, <1>5 DEF IInv

LEMMA BindQueueInv ==
    ASSUME IInv, NEW h \in InFlight, BindQueue(h)
    PROVE  IInv'
<1>1. PICK c \in AllCommands : c = Head(todo[h])
  BY AtCommand DEF BindQueue
<1>2. /\ IsNext(h, "bind") /\ Proceed(h) /\ todo[h] # <<>>
      /\ c.do = "bind" /\ c.to \in Bindings
      /\ bindings' = bindings \union {c.to}
      /\ UNCHANGED <<kind, content, unacked, mortal, poison, sent, request,
                     held, routed, owed>>
  BY <1>1, CommandFields DEF BindQueue, IsNext
<1>3. Executed(Head(todo[h]))
  BY <1>1, <1>2 DEF Executed
<1>4. PlansOK' /\ OneWriter' /\ PromisesOK'
  BY <1>2, <1>3, ProceedPlans
<1>5. HeldOK'
  BY <1>2, ProceedHeld
<1>6. StateOK' /\ Homes' /\ NothingLost'
  BY <1>2, ProceedTypes DEF IInv, StateOK, Homes, Home, NothingLost
<1> QED
  BY <1>4, <1>5, <1>6 DEF IInv

(* The message of the next send or route was copied nowhere. *)
LEMMA FreshMessage ==
    ASSUME IInv, NEW h \in InFlight, NEW do \in {"send", "route"}, IsNext(h, do)
    PROVE  /\ Head(todo[h]).msg \in Messages
           /\ routed[Head(todo[h]).msg] = {}
<1>1. PICK c \in AllCommands : c = Head(todo[h])
  BY AtCommand
<1>2. Writes(c) /\ 1 \in Steps(h) /\ todo[h][1] = c
  BY <1>1, AtCommand DEF Writes
<1> QED
  BY <1>1, <1>2, CommandFields DEF IInv, PlansOK

LEMMA SendToQueueInv ==
    ASSUME IInv, NEW h \in InFlight, SendToQueue(h)
    PROVE  IInv'
<1>1. PICK c \in AllCommands : c = Head(todo[h])
  BY AtCommand DEF SendToQueue
<1> DEFINE targets == IF kind[c.queue] = "absent" THEN {} ELSE {c.queue}
<1>2. /\ IsNext(h, "send") /\ Proceed(h) /\ todo[h] # <<>>
      /\ c.do = "send" /\ c.queue \in Queues /\ c.msg \in Messages
      /\ routed[c.msg] = {}
      /\ Enqueue(c.msg, targets)
      /\ mortal' \subseteq Messages /\ mortal \subseteq mortal'
      /\ UNCHANGED <<kind, bindings, unacked, poison, sent, request, held, owed>>
  <2>1. IsNext(h, "send") /\ c.do = "send"
    BY <1>1 DEF SendToQueue, IsNext
  <2>2. c.queue \in Queues /\ c.msg \in Messages /\ routed[c.msg] = {}
    BY <1>1, <2>1, CommandFields, FreshMessage
  <2> QED
    BY <1>1, <2>1, <2>2 DEF SendToQueue, IsNext, IInv, StateOK
<1>3. targets \in SUBSET Queues /\ (kind[c.queue] # "absent" => targets = {c.queue})
  BY <1>2
<1> HIDE DEF targets
<1>4. /\ content' \in [Queues -> SUBSET Messages]
      /\ routed' \in [Messages -> SUBSET Queues]
      /\ \A x \in Messages : x # c.msg => routed'[x] = routed[x]
      /\ routed'[c.msg] = targets
      /\ NothingLost'
  BY <1>2, <1>3, Enqueued DEF IInv
<1>5. Executed(Head(todo[h]))
  BY <1>1, <1>2, <1>3, <1>4 DEF Executed, Writes
<1>6. PlansOK' /\ OneWriter' /\ PromisesOK'
  BY <1>2, <1>5, ProceedPlans
<1>7. HeldOK'
  BY <1>2, ProceedHeld
<1>8. StateOK' /\ Homes'
  BY <1>2, <1>4, ProceedTypes DEF IInv, StateOK, Homes, Home
<1> QED
  BY <1>4, <1>6, <1>7, <1>8 DEF IInv

LEMMA RouteMessageInv ==
    ASSUME IInv, NEW h \in InFlight, RouteMessage(h)
    PROVE  IInv'
<1>1. PICK c \in AllCommands : c = Head(todo[h])
  BY AtCommand DEF RouteMessage
<1> DEFINE targets == Targets(bindings, c.exchange, c.key)
<1>2. /\ IsNext(h, "route") /\ Proceed(h) /\ todo[h] # <<>>
      /\ c.do = "route" /\ c.msg \in Messages
      /\ routed[c.msg] = {}
      /\ Enqueue(c.msg, targets)
      /\ UNCHANGED <<kind, bindings, unacked, mortal, poison, sent, request, held,
                     owed>>
  <2>1. IsNext(h, "route") /\ c.do = "route"
    BY <1>1 DEF RouteMessage, IsNext
  <2>2. c.msg \in Messages /\ routed[c.msg] = {}
    BY <1>1, <2>1, FreshMessage
  <2> QED
    BY <1>1, <2>1, <2>2 DEF RouteMessage, IsNext
<1>3. targets \in SUBSET Queues
  BY TargetsAreQueues DEF IInv, StateOK
<1>4. /\ content' \in [Queues -> SUBSET Messages]
      /\ routed' \in [Messages -> SUBSET Queues]
      /\ \A x \in Messages : x # c.msg => routed'[x] = routed[x]
      /\ routed'[c.msg] = targets
      /\ NothingLost'
  BY <1>2, <1>3, Enqueued DEF IInv
<1>5. Executed(Head(todo[h]))
  BY <1>1, <1>2, <1>4 DEF Executed, Writes
<1>6. PlansOK' /\ OneWriter' /\ PromisesOK'
  BY <1>2, <1>5, ProceedPlans
<1>7. HeldOK'
  BY <1>2, ProceedHeld
<1>8. StateOK' /\ Homes'
  BY <1>2, <1>4, ProceedTypes DEF IInv, StateOK, Homes, Home
<1> QED
  BY <1>4, <1>6, <1>7, <1>8 DEF IInv

(* Before a get of a peek: who sent it, what comes after it. *)
LEMMA AtGet ==
    ASSUME IInv, NEW h \in InFlight, IsNext(h, "get")
    PROVE  /\ Head(todo[h]).queue \in Queues
           /\ request[h].of.name = "get_dlq_messages"
           /\ 1 < Len(todo[h]) /\ todo[h][2].do = "nack"
           /\ held[h] = None /\ request[h] # None
<1>1. PICK c \in AllCommands : c = Head(todo[h])
  BY AtCommand
<1>2. c.do = "get" /\ 1 \in Steps(h) /\ todo[h][1] = c
  BY <1>1, AtCommand
<1>3. c.queue \in Queues
  BY <1>2, CommandFields
<1>4. 1 < Len(todo[h]) /\ todo[h][1 + 1].do = "nack"
      /\ request[h].of.name = "get_dlq_messages"
  BY <1>2 DEF IInv, PlansOK
<1>5. held[h] = None /\ request[h] # None
  BY AtCommand
<1> QED
  BY <1>1, <1>3, <1>4, <1>5

LEMMA GetNothingInv ==
    ASSUME IInv, NEW h \in InFlight, GetNothing(h)
    PROVE  IInv'
<1>1. /\ IsNext(h, "get") /\ todo' = [todo EXCEPT ![h] = <<>>]
      /\ UNCHANGED <<kind, bindings, content, unacked, mortal, poison, sent, request,
                     held, routed, owed>>
  BY DEF GetNothing, broker
<1>2. /\ todo' = [k \in InFlight |-> IF k \in {h} THEN <<>> ELSE todo[k]]
      /\ \A k \in InFlight : k # h => todo'[k] = todo[k]
      /\ todo'[h] = <<>>
  BY <1>1 DEF IInv, StateOK
<1>3. todo' \in [InFlight -> Seq(AllCommands)]
  BY <1>1 DEF IInv, StateOK
<1>4. request[h].of.name = "get_dlq_messages" /\ held[h] = None
  BY <1>1, AtGet
<1>5. PlansOK' /\ OneWriter' /\ PromisesOK'
  BY <1>1, <1>2, <1>4, ClearPlans
<1>6. HeldOK'
  BY <1>1, <1>2, <1>4 DEF IInv, HeldOK, IsNext
<1>7. StateOK' /\ Homes' /\ NothingLost'
  BY <1>1, <1>3 DEF IInv, StateOK, Homes, Home, NothingLost
<1> QED
  BY <1>5, <1>6, <1>7 DEF IInv

LEMMA GetMessageInv ==
    ASSUME IInv, NEW h \in InFlight, GetMessage(h)
    PROVE  IInv'
<1>1. PICK c \in AllCommands : c = Head(todo[h]) /\ c.do = "get"
  BY AtCommand DEF GetMessage
<1>2. /\ IsNext(h, "get") /\ Proceed(h) /\ todo[h] # <<>> /\ c.queue \in Queues
      /\ UNCHANGED <<kind, bindings, mortal, poison, sent, request, routed, owed>>
  BY <1>1, CommandFields DEF GetMessage, IsNext
<1>3. PICK m \in content[c.queue] :
        Take(c.queue, m) /\ held' = [held EXCEPT ![h] = <<c.queue, m>>]
  BY <1>1 DEF GetMessage
<1>4. /\ content' \in [Queues -> SUBSET Messages]
      /\ unacked' \subseteq Queues \X Messages
      /\ unacked \subseteq unacked' /\ <<c.queue, m>> \in unacked'
      /\ <<c.queue, m>> \notin unacked
      /\ <<c.queue, m>> \in Queues \X Messages
      /\ NothingLost'
  BY <1>2, <1>3, Taken DEF IInv
<1>5. Executed(Head(todo[h]))
  BY <1>1, <1>2 DEF Executed
<1>6. PlansOK' /\ OneWriter' /\ PromisesOK'
  BY <1>2, <1>5, ProceedPlans
<1>7. HeldOK'
  <2>1. \A k \in InFlight : k # h => todo'[k] = todo[k] /\ held'[k] = held[k]
    BY <1>2, <1>3 DEF Proceed, IInv, StateOK
  <2>2. held'[h] = <<c.queue, m>>
    BY <1>3 DEF IInv, StateOK
  <2>3. IsNext(h, "nack")'
    <3>1. 1 < Len(todo[h]) /\ todo[h][2].do = "nack" /\ todo[h] \in Seq(AllCommands)
      BY <1>2, AtGet DEF IInv, StateOK
    <3>2. todo'[h] = Tail(todo[h])
      BY <1>2 DEF Proceed, IInv, StateOK
    <3>3. /\ Tail(todo[h]) \in Seq(AllCommands)
          /\ Len(Tail(todo[h])) = Len(todo[h]) - 1
          /\ \A i \in 1..Len(Tail(todo[h])) : Tail(todo[h])[i] = todo[h][i + 1]
      BY <1>2, <3>1, HeadTailProperties
    <3>4. Len(Tail(todo[h])) > 0 /\ Tail(todo[h])[1] = todo[h][2]
      <4>1. 1 \in 1..Len(Tail(todo[h])) /\ 1 + 1 = 2
        BY <3>1, <3>3
      <4> QED
        BY <3>3, <4>1
    <3>5. Tail(todo[h]) # <<>> /\ Head(Tail(todo[h])) = todo[h][2]
      <4>0. Len(<<>>) = 0
        OBVIOUS
      <4>1. Tail(todo[h]) # <<>>
        <5> SUFFICES ASSUME Tail(todo[h]) = <<>> PROVE FALSE
          OBVIOUS
        <5>1. Len(Tail(todo[h])) = 0
          BY <4>0, Zenon
        <5> QED
          BY <3>4, <5>1
      <4> QED
        BY <3>3, <3>4, <4>1, HeadTailProperties
    <3> QED
      BY <3>1, <3>2, <3>5 DEF IsNext
  <2>4. request[h] # None
    BY <1>2, AtCommand
  <2> QED
    BY <1>2, <1>4, <2>1, <2>2, <2>3, <2>4 DEF IInv, HeldOK, IsNext
<1>8. StateOK' /\ Homes'
  <2>1. held' \in [InFlight -> (Queues \X Messages) \union {None}]
    BY <1>3, <1>4 DEF IInv, StateOK
  <2> QED
    BY <1>2, <1>4, <2>1, ProceedTypes DEF IInv, StateOK, Homes, Home
<1> QED
  BY <1>4, <1>6, <1>7, <1>8 DEF IInv

(* The requests of F fail, with or without the channel. *)
LEMMA FailAllInv ==
    ASSUME IInv, NEW F \in SUBSET InFlight, FailAll(F),
           UNCHANGED <<kind, bindings, sent, routed>>
    PROVE  /\ PlansOK' /\ OneWriter' /\ PromisesOK' /\ Homes'
           /\ request' \in [InFlight -> [of : Requests, msg : 1..(MaxMessages + 1)]
                                           \union {None}]
           /\ todo' \in [InFlight -> Seq(AllCommands)]
           /\ owed' \in [InFlight -> SUBSET Queues]
           /\ \A h \in F : request'[h] = None /\ todo'[h] = <<>>
           /\ \A h \in InFlight \ F :
                 request'[h] = request[h] /\ todo'[h] = todo[h] /\ owed'[h] = owed[h]
<1>1. /\ request' = [h \in InFlight |-> IF h \in F THEN None ELSE request[h]]
      /\ todo' = [h \in InFlight |-> IF h \in F THEN <<>> ELSE todo[h]]
      /\ owed' = [h \in InFlight |-> IF h \in F THEN {} ELSE owed[h]]
  BY DEF FailAll
<1>2. /\ \A h \in F : request'[h] = None /\ todo'[h] = <<>>
      /\ \A h \in InFlight \ F :
            request'[h] = request[h] /\ todo'[h] = todo[h] /\ owed'[h] = owed[h]
  BY <1>1
<1>3. PlansOK' /\ OneWriter' /\ PromisesOK'
  BY <1>1, <1>2, ClearPlans
<1>4. /\ request' \in [InFlight -> [of : Requests, msg : 1..(MaxMessages + 1)]
                                      \union {None}]
      /\ owed' \in [InFlight -> SUBSET Queues]
  BY <1>1 DEF IInv, StateOK
<1>5. todo' \in [InFlight -> Seq(AllCommands)]
  BY <1>1 DEF IInv, StateOK
<1> QED
  BY <1>2, <1>3, <1>4, <1>5 DEF IInv, Homes, Home

LEMMA GetPoisonInv ==
    ASSUME IInv, NEW h \in InFlight, GetPoison(h)
    PROVE  IInv'
<1>1. PICK c \in AllCommands : c = Head(todo[h]) /\ c.do = "get"
  BY AtCommand DEF GetPoison
<1>2. /\ IsNext(h, "get") /\ c.queue \in Queues /\ FailAll({h})
      /\ UNCHANGED <<kind, bindings, mortal, poison, sent, held, routed>>
  BY <1>1, CommandFields DEF GetPoison
<1>3. PICK m \in content[c.queue] : Take(c.queue, m)
  BY <1>1 DEF GetPoison
<1>4. /\ content' \in [Queues -> SUBSET Messages]
      /\ unacked' \subseteq Queues \X Messages /\ unacked \subseteq unacked'
      /\ NothingLost'
  BY <1>2, <1>3, Taken DEF IInv
<1>5. /\ PlansOK' /\ OneWriter' /\ PromisesOK' /\ Homes'
      /\ request' \in [InFlight -> [of : Requests, msg : 1..(MaxMessages + 1)]
                                      \union {None}]
      /\ todo' \in [InFlight -> Seq(AllCommands)]
      /\ owed' \in [InFlight -> SUBSET Queues]
      /\ request'[h] = None /\ todo'[h] = <<>>
      /\ \A k \in InFlight \ {h} : request'[k] = request[k] /\ todo'[k] = todo[k]
  BY <1>2, FailAllInv
<1>6. StateOK'
  BY <1>2, <1>4, <1>5 DEF IInv, StateOK
<1>7. HeldOK'
  <2>1. held[h] = None
    BY <1>2, AtGet
  <2> QED
    BY <1>2, <1>4, <1>5, <2>1 DEF IInv, HeldOK, IsNext
<1> QED
  BY <1>4, <1>5, <1>6, <1>7 DEF IInv

LEMMA NackMessageInv ==
    ASSUME IInv, NEW h \in InFlight, NackMessage(h)
    PROVE  IInv'
<1> DEFINE pairs == IF held[h] = None THEN {} ELSE {held[h]}
<1>1. /\ IsNext(h, "nack") /\ Proceed(h) /\ todo[h] # <<>>
      /\ Head(todo[h]).do = "nack"
      /\ Return(pairs) /\ held' = [held EXCEPT ![h] = None]
      /\ UNCHANGED <<kind, bindings, mortal, poison, sent, request, routed, owed>>
  BY DEF NackMessage, IsNext
<1>2. pairs \in SUBSET unacked
  BY DEF IInv, HeldOK
<1>3. \A k \in InFlight : k # h /\ held[k] # None => held[k] \notin pairs
  BY DEF IInv, HeldOK
<1> HIDE DEF pairs
<1>4. /\ content' \in [Queues -> SUBSET Messages]
      /\ unacked' = unacked \ pairs
      /\ unacked' \subseteq Queues \X Messages
      /\ NothingLost'
  BY <1>1, <1>2, Returned DEF IInv
<1>5. Executed(Head(todo[h]))
  BY <1>1 DEF Executed
<1>6. PlansOK' /\ OneWriter' /\ PromisesOK'
  BY <1>1, <1>5, ProceedPlans
<1>7. HeldOK'
  <2>1. \A k \in InFlight : k # h => todo'[k] = todo[k] /\ held'[k] = held[k]
    BY <1>1 DEF Proceed, IInv, StateOK
  <2>2. held'[h] = None /\ request[h] # None
    BY <1>1, AtCommand DEF IInv, StateOK
  <2> QED
    BY <1>1, <1>3, <1>4, <2>1, <2>2 DEF IInv, HeldOK, IsNext
<1>8. StateOK' /\ Homes'
  <2>1. held' \in [InFlight -> (Queues \X Messages) \union {None}]
    BY <1>1 DEF IInv, StateOK
  <2> QED
    BY <1>1, <1>4, <2>1, ProceedTypes DEF IInv, StateOK, Homes, Home
<1> QED
  BY <1>4, <1>6, <1>7, <1>8 DEF IInv

LEMMA LoseChannelInv ==
    ASSUME IInv, NEW F \in SUBSET InFlight, LoseChannel(F)
    PROVE  IInv'
<1>1. /\ Return(unacked) /\ FailAll(F) /\ held' = [h \in InFlight |-> None]
      /\ UNCHANGED <<kind, bindings, mortal, poison, sent, routed>>
  BY DEF LoseChannel
<1>2. /\ content' \in [Queues -> SUBSET Messages]
      /\ unacked' \subseteq Queues \X Messages
      /\ NothingLost'
  BY <1>1, Returned DEF IInv
<1>3. /\ PlansOK' /\ OneWriter' /\ PromisesOK' /\ Homes'
      /\ request' \in [InFlight -> [of : Requests, msg : 1..(MaxMessages + 1)]
                                      \union {None}]
      /\ todo' \in [InFlight -> Seq(AllCommands)]
      /\ owed' \in [InFlight -> SUBSET Queues]
      /\ \A h \in F : request'[h] = None /\ todo'[h] = <<>>
      /\ \A h \in InFlight \ F : request'[h] = request[h] /\ todo'[h] = todo[h]
  BY <1>1, FailAllInv
<1>4. StateOK'
  BY <1>1, <1>2, <1>3 DEF IInv, StateOK
<1>5. HeldOK'
  BY <1>1, <1>3 DEF IInv, HeldOK
<1> QED
  BY <1>2, <1>3, <1>4, <1>5 DEF IInv

LEMMA AnswerInv ==
    ASSUME IInv, NEW h \in InFlight, Answer(h)
    PROVE  IInv'
<1>1. /\ todo[h] = <<>>
      /\ request' = [request EXCEPT ![h] = None]
      /\ owed' = [owed EXCEPT ![h] = {}]
      /\ UNCHANGED <<kind, bindings, content, unacked, mortal, poison, sent, todo,
                     held, routed>>
  BY DEF Answer, broker
<1>2. todo' = [k \in InFlight |-> IF k \in {h} THEN <<>> ELSE todo[k]]
  <2>1. todo = [k \in InFlight |-> todo[k]]
    BY DEF IInv, StateOK
  <2>2. [k \in InFlight |-> todo[k]] = [k \in InFlight |-> IF k \in {h} THEN <<>> ELSE todo[k]]
    BY <1>1
  <2> QED
    BY <1>1, <2>1, <2>2
<1>3. /\ request'[h] = None
      /\ \A k \in InFlight \ {h} : request'[k] = request[k] /\ owed'[k] = owed[k]
  BY <1>1 DEF IInv, StateOK
<1>4. PlansOK' /\ OneWriter' /\ PromisesOK'
  BY <1>1, <1>2, <1>3, ClearPlans
<1>5. HeldOK'
  <2>1. held[h] = None
    BY <1>1 DEF IInv, HeldOK, IsNext
  <2> QED
    BY <1>1, <1>3, <2>1 DEF IInv, HeldOK, IsNext
<1>6. StateOK' /\ Homes' /\ NothingLost'
  BY <1>1 DEF IInv, StateOK, Homes, Home, NothingLost
<1> QED
  BY <1>4, <1>5, <1>6 DEF IInv

LEMMA StartInv ==
    ASSUME IInv, NEW h \in InFlight, NEW r \in Requests, Start(h, r)
    PROVE  IInv'
<1>1. StateOK' /\ HeldOK' /\ PlansOK' /\ OneWriter' /\ PromisesOK'
  BY StartPlans
<1>2. Homes' /\ NothingLost'
  BY DEF Start, broker, IInv, Homes, Home, NothingLost
<1> QED
  BY <1>1, <1>2 DEF IInv

LEMMA ExpireInv ==
    ASSUME IInv, NEW q \in Queues, NEW m \in Messages, Expire(q, m)
    PROVE  IInv'
<1>1. /\ m \in content[q] /\ m \in mortal
      /\ content' = [content EXCEPT ![q] = @ \ {m}]
      /\ UNCHANGED <<kind, bindings, unacked, mortal, poison, sent, request, todo,
                     held, owed, routed>>
  BY DEF Expire, perRequest
<1>0. PICK F \in SUBSET InFlight : F = {}
  OBVIOUS
<1>2. todo' = [h \in InFlight |-> IF h \in F THEN <<>> ELSE todo[h]]
  BY <1>0, <1>1 DEF IInv, StateOK
<1>3. PlansOK' /\ OneWriter' /\ PromisesOK'
  BY <1>0, <1>1, <1>2, ClearPlans
<1>4. HeldOK' /\ Homes'
  BY <1>1 DEF IInv, HeldOK, IsNext, Homes, Home
<1>5. StateOK'
  BY <1>1 DEF IInv, StateOK
<1>6. \A x \in Messages, p \in Queues :
         /\ x \in content'[p] => x \in content[p]
         /\ x \notin mortal => (x \in content'[p] <=> x \in content[p])
  BY <1>1 DEF IInv, StateOK
<1>7. NothingLost'
  BY <1>1, <1>6 DEF IInv, NothingLost
<1> QED
  BY <1>3, <1>4, <1>5, <1>7 DEF IInv

(* Another consumer's rejection adds a message; no plan mentions that one. *)
LEMMA DeadLetterInv ==
    ASSUME IInv, NEW n \in Names, DeadLetter(n)
    PROVE  IInv'
<1> DEFINE m == sent + 1
           targets == Targets(bindings, Dlx(n), AnyKey)
<1>1. /\ sent < MaxMessages /\ sent' = m /\ Enqueue(m, targets)
      /\ UNCHANGED <<kind, bindings, unacked, mortal, request, todo, held, owed>>
  BY DEF DeadLetter, perRequest
<1>2. sent \in Nat /\ m \in Messages /\ m > sent /\ sent' \in 0..MaxMessages
  BY <1>1, CountAssumption DEF IInv, StateOK, Messages
<1>3. poison' \subseteq Messages
  BY <1>2 DEF DeadLetter, IInv, StateOK
<1>4. routed[m] = {} /\ targets \in SUBSET Queues
  BY <1>2, TargetsAreQueues DEF IInv, StateOK, PlansOK
<1> HIDE DEF m, targets
<1>5. /\ content' \in [Queues -> SUBSET Messages]
      /\ routed' \in [Messages -> SUBSET Queues]
      /\ \A x \in Messages : x # m => routed'[x] = routed[x]
      /\ NothingLost'
  BY <1>1, <1>2, <1>4, Enqueued DEF IInv
<1>6. \A x \in Messages : x <= sent => routed'[x] = routed[x]
  BY <1>2, <1>5 DEF Messages
<1>7. \A x \in Messages : routed[x] # {} => x <= sent
  BY <1>2 DEF IInv, PlansOK, Messages
<1>8. StateOK'
  <2>1. ASSUME NEW h \in InFlight, request'[h] # None
        PROVE  request'[h].msg + Creates(request'[h].of) - 1 <= sent'
    <3>1. request[h] \in [of : Requests, msg : 1..(MaxMessages + 1)]
      BY <1>1, <2>1 DEF IInv, StateOK
    <3>2. /\ request[h].msg + Creates(request[h].of) - 1 <= sent
          /\ request[h].msg \in Nat /\ Creates(request[h].of) \in Nat
      BY <1>1, <2>1, <3>1, CreatesType, CountAssumption DEF IInv, StateOK
    <3> QED
      BY <1>1, <1>2, <3>2
  <2> QED
    BY <1>1, <1>2, <1>3, <1>5, <2>1 DEF IInv, StateOK
<1>9. HeldOK' /\ Homes'
  BY <1>1 DEF IInv, HeldOK, IsNext, Homes, Home
<1>10. PlansOK'
  <2>1. \A x \in Messages : x > sent' => routed'[x] = {}
    BY <1>1, <1>2, <1>5 DEF IInv, PlansOK, Messages, m
  <2>2. ASSUME NEW h \in InFlight, NEW i \in 1..Len(todo[h])
        PROVE  /\ Writes(todo[h][i]) =>
                     todo[h][i].msg <= sent' /\ routed'[todo[h][i].msg] = {}
               /\ todo[h][i].do = "send" => DeclaredBy(h, i, todo[h][i].queue)'
               /\ todo[h][i].do = "get" =>
                     /\ i < Len(todo[h]) /\ todo[h][i + 1].do = "nack"
                     /\ request'[h].of.name = "get_dlq_messages"
               /\ todo[h][i].do = "declare" /\ todo[h][i].kind = "dlx" =>
                     \E p \in Names :
                         /\ todo[h][i].queue = Main(p)
                         /\ DeclaredBy(h, i, Dlq(p))' /\ BoundBy(h, i, Home(p))'
    <3>1. \A p : /\ DeclaredBy(h, i, Dlq(p))' <=> DeclaredBy(h, i, Dlq(p))
                 /\ BoundBy(h, i, Home(p))' <=> BoundBy(h, i, Home(p))
      BY <1>1 DEF DeclaredBy, BoundBy, Home
    <3>2. DeclaredBy(h, i, todo[h][i].queue)' <=> DeclaredBy(h, i, todo[h][i].queue)
      BY <1>1 DEF DeclaredBy
    <3>3. todo[h][i] \in AllCommands
      BY DEF IInv, StateOK
    <3>4. Writes(todo[h][i]) =>
             todo[h][i].msg <= sent' /\ routed'[todo[h][i].msg] = {}
      <4> SUFFICES ASSUME Writes(todo[h][i])
                   PROVE  todo[h][i].msg <= sent' /\ routed'[todo[h][i].msg] = {}
        OBVIOUS
      <4>1. /\ todo[h][i].msg \in Messages /\ todo[h][i].msg <= sent
            /\ routed[todo[h][i].msg] = {}
        BY <3>3, CommandFields DEF IInv, PlansOK, Steps
      <4> QED
        BY <1>1, <1>2, <1>6, <4>1 DEF Messages, m
    <3> QED
      BY <1>1, <3>1, <3>2, <3>4 DEF IInv, PlansOK, Steps
  <2>3. ASSUME NEW h \in InFlight, NEW i \in 1..Len(todo'[h])
        PROVE  /\ Writes(todo'[h][i]) =>
                     todo'[h][i].msg <= sent' /\ routed'[todo'[h][i].msg] = {}
               /\ todo'[h][i].do = "send" => DeclaredBy(h, i, todo[h][i].queue)'
               /\ todo'[h][i].do = "get" =>
                     /\ i < Len(todo'[h]) /\ todo'[h][i + 1].do = "nack"
                     /\ request'[h].of.name = "get_dlq_messages"
               /\ todo'[h][i].do = "declare" /\ todo'[h][i].kind = "dlx" =>
                     \E p \in Names :
                         /\ todo'[h][i].queue = Main(p)
                         /\ DeclaredBy(h, i, Dlq(p))' /\ BoundBy(h, i, Home(p))'
    BY <1>1, <2>2
  <2> QED
    BY <2>1, <2>3 DEF PlansOK, Steps
<1>11. OneWriter'
  BY <1>1 DEF IInv, OneWriter, Steps, Writes
<1>12. PromisesOK'
  <2> SUFFICES ASSUME NEW h \in InFlight, request[h] # None
               PROVE  /\ request[h].of.name \in ToQueue =>
                            \A i \in 0..(Creates(request[h].of) - 1) :
                                Queued(h, request[h].msg + i)'
                      /\ \A b \in Reported(request[h].of) :
                            BoundBy(h, Len(todo[h]) + 1, b)'
                      /\ request[h].of.name \in ToExchange => Reached(h)'
    BY <1>1 DEF PromisesOK, Queued, BoundBy
  <2>1. /\ request[h].of \in Requests /\ request[h].msg \in Nat \ {0}
        /\ Creates(request[h].of) \in Nat /\ MaxMessages \in Nat
        /\ request[h].msg + Creates(request[h].of) - 1 <= sent
        /\ sent \in 0..MaxMessages
    <3>1. request[h] \in [of : Requests, msg : 1..(MaxMessages + 1)]
      BY DEF IInv, StateOK
    <3> QED
      BY <3>1, CreatesType, CountAssumption DEF IInv, StateOK
  <2>2. ASSUME request[h].of.name \in ToQueue,
               NEW i \in 0..(Creates(request[h].of) - 1)
        PROVE  Queued(h, request[h].msg + i)'
    <3>1. PICK x \in Messages : x = request[h].msg + i /\ x <= sent
      BY <2>1 DEF Messages
    <3>2. Queued(h, x)
      BY <2>2, <3>1 DEF IInv, PromisesOK
    <3>3. Queued(h, x)'
      BY <1>1, <1>6, <3>1, <3>2 DEF Queued, Steps
    <3> QED
      BY <1>1, <3>1, <3>3 DEF Queued
  <2>3. \A b : BoundBy(h, Len(todo[h]) + 1, b)' <=> BoundBy(h, Len(todo[h]) + 1, b)
    BY <1>1 DEF BoundBy
  <2>4. ASSUME request[h].of.name \in ToExchange PROVE Reached(h)'
    <3>1. PICK x \in Messages : x = request[h].msg /\ x <= sent
      <4>1. Creates(request[h].of) = 1
        BY <2>1, <2>4, CreatesType DEF ToExchange
      <4> QED
        BY <2>1, <4>1 DEF Messages
    <3>2. routed'[request[h].msg] = routed[request[h].msg]
      BY <1>6, <3>1
    <3>3. Reached(h)
      BY <2>4 DEF IInv, PromisesOK
    <3> QED
      BY <1>1, <3>2, <3>3 DEF Reached, Steps, Targets
  <2> QED
    BY <2>2, <2>3, <2>4 DEF IInv, PromisesOK
<1> QED
  BY <1>5, <1>8, <1>9, <1>10, <1>11, <1>12 DEF IInv

LEMMA StutterInv ==
    ASSUME IInv, UNCHANGED rabbitVars
    PROVE  IInv'
<1>1. UNCHANGED <<kind, bindings, content, unacked, mortal, poison, sent, request,
                  todo, held, routed, owed>>
  BY DEF rabbitVars
<1>0. PICK F \in SUBSET InFlight : F = {}
  OBVIOUS
<1>2. todo' = [h \in InFlight |-> IF h \in F THEN <<>> ELSE todo[h]]
  BY <1>0, <1>1 DEF IInv, StateOK
<1>3. PlansOK' /\ OneWriter' /\ PromisesOK'
  BY <1>0, <1>1, <1>2, ClearPlans
<1> QED
  BY <1>1, <1>3 DEF IInv, StateOK, HeldOK, IsNext, Homes, Home, NothingLost

LEMMA NextInv ==
    ASSUME IInv, [RabbitNext]_rabbitVars
    PROVE  IInv'
<1>1. CASE UNCHANGED rabbitVars
  BY <1>1, StutterInv
<1>2. ASSUME NEW h \in InFlight,
             \/ \E r \in Requests : Start(h, r)
             \/ Answer(h)
             \/ DeclareQueue(h) \/ InspectQueue(h) \/ BindQueue(h)
             \/ SendToQueue(h) \/ RouteMessage(h)
             \/ GetNothing(h) \/ GetMessage(h) \/ GetPoison(h) \/ NackMessage(h)
      PROVE  IInv'
  BY <1>2, StartInv, AnswerInv, DeclareQueueInv, InspectQueueInv, BindQueueInv,
     SendToQueueInv, RouteMessageInv, GetNothingInv, GetMessageInv, GetPoisonInv,
     NackMessageInv
<1>3. ASSUME NEW h \in InFlight, Refuse(h) PROVE IInv'
  <2>1. PICK F \in SUBSET Busy : LoseChannel(F \union {h})
    BY <1>3 DEF Refuse
  <2>2. F \union {h} \in SUBSET InFlight
    BY DEF Busy
  <2> QED
    BY <2>1, <2>2, LoseChannelInv
<1>4. CASE LoseConnection
  <2>1. PICK F \in SUBSET Busy : LoseChannel(F)
    BY <1>4 DEF LoseConnection
  <2>2. F \in SUBSET InFlight
    BY DEF Busy
  <2> QED
    BY <2>1, <2>2, LoseChannelInv
<1>5. CASE \E q \in Queues, m \in Messages : Expire(q, m)
  BY <1>5, ExpireInv
<1>6. CASE \E n \in Names : DeadLetter(n)
  BY <1>6, DeadLetterInv
<1> QED
  BY <1>1, <1>2, <1>3, <1>4, <1>5, <1>6 DEF RabbitNext

-----------------------------------------------------------------------------
(* The theorems. *)

(* Every reachable state satisfies the inductive invariant: the commands that
   each handler of app/api/rabbitmq_routes.py has yet to send on the shared
   channel find what they need, whatever the other handlers do. *)
THEOREM Invariance == RabbitSpec => []IInv
<1>1. IInv /\ [RabbitNext]_rabbitVars => IInv'
  BY NextInv
<1> QED
  BY InitInv, <1>1, PTL DEF RabbitSpec

(* Types; and a peek that is about to nack holds a delivery of the channel
   that is open now. *)
THEOREM TypesHold == RabbitSpec => []RabbitTypeOK
<1>1. IInv => RabbitTypeOK
  <2> SUFFICES ASSUME IInv PROVE RabbitTypeOK
    OBVIOUS
  <2>1. Kinds \union {"absent"} = {"absent", "plain", "priority", "dlx"}
    BY DEF Kinds
  <2>2. \A h \in InFlight : request[h] = None => held[h] = None
    BY DEF IInv, HeldOK, IsNext
  <2> QED
    BY <2>1, <2>2 DEF IInv, StateOK, HeldOK, RabbitTypeOK
<1> QED
  BY Invariance, <1>1, PTL

(* No message is lost or in a queue and unacknowledged at once, whatever
   peeks are cut short by a closed channel (get_dlq_messages gets and nacks). *)
THEOREM NothingIsLost == RabbitSpec => []NothingLost
<1>1. IInv => NothingLost
  BY DEF IInv
<1> QED
  BY Invariance, <1>1, PTL

(* A publish answered 200 was queued, a bind answered "bound" is in force and
   a publish to an exchange reached all that was bound: although other
   requests may close the channel between any two commands. *)
THEOREM AnswersAreTrue == RabbitSpec => []AnswerIsTrue
<1>1. IInv => AnswerIsTrue
  <2> SUFFICES ASSUME IInv, NEW h \in InFlight, request[h] # None, todo[h] = <<>>
               PROVE  /\ request[h].of.name \in ToQueue =>
                            \A i \in 0..(Creates(request[h].of) - 1) :
                                routed[request[h].msg + i] = {request[h].of.queue}
                      /\ Reported(request[h].of) \subseteq bindings
                      /\ request[h].of.name \in ToExchange =>
                            owed[h] \subseteq routed[request[h].msg]
    BY DEF AnswerIsTrue, AnsweredIsQueued, BoundIsReached
  <2>1. Len(todo[h]) = 0 /\ Steps(h) = {}
    BY DEF Steps
  <2>2. \A j : j \notin 1..((Len(todo[h]) + 1) - 1)
    BY <2>1
  <2> QED
    BY <2>1, <2>2 DEF IInv, PromisesOK, Queued, BoundBy, Reached
<1> QED
  BY Invariance, <1>1, PTL

(* A queue that dead-letters has a place for what it rejects, from the moment
   setup_dlq declares it. *)
THEOREM DeadLettersArrive == RabbitSpec => []DeadLettersHaveAHome
<1>1. IInv => DeadLettersHaveAHome
  <2> SUFFICES ASSUME IInv, NEW n \in Names, kind[Main(n)] = "dlx"
               PROVE  /\ kind[Dlq(n)] # "absent"
                      /\ Dlq(n) \in Targets(bindings, Dlx(n), AnyKey)
    BY DEF DeadLettersHaveAHome
  <2>1. kind[Dlq(n)] # "absent" /\ Home(n) \in bindings
    BY DEF IInv, Homes
  <2>2. Home(n).exchange = Dlx(n) /\ AnyKey \in Home(n).pattern /\ Home(n).queue = Dlq(n)
    BY AnyKeyIsKey DEF Home
  <2> QED
    BY <2>1, <2>2 DEF Targets
<1> QED
  BY Invariance, <1>1, PTL

=============================================================================
