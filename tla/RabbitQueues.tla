---------------------------- MODULE RabbitQueues ----------------------------
(***************************************************************************)
(* app/brokers/rabbitmq_broker.py behind app/api/rabbitmq_routes.py: every *)
(* request handler runs its sequence of AMQP commands on the one channel   *)
(* of the RabbitMQBroker singleton, and awaits an answer after each of     *)
(* them, so the commands of different requests interleave.                 *)
(*                                                                         *)
(* RabbitMQ is external.  A command that conflicts with what exists closes *)
(* the whole channel; connect_robust opens it again and declares what had  *)
(* been declared (which changes nothing: nothing is ever deleted).         *)
(* Requests of others may fail with it or carry on, as the library's       *)
(* callbacks happen to run; both are modelled.                             *)
(*                                                                         *)
(* Exchanges need no state: each name is declared with one type only, just *)
(* before it is used.  The order within a queue is left out as well.       *)
(***************************************************************************)
EXTENDS Integers, Sequences, FiniteSets

CONSTANTS
    InFlight,     \* requests in flight at one time
    Names,        \* queue names clients use
    Keys,         \* topic routing keys
    Patterns,     \* topic binding patterns, each the set of keys it matches
    PeekCount,    \* `count` of a peek
    BenchCount,   \* message_count of a benchmark
    MaxMessages,  \* bound: messages that clients and consumers create
    None

ASSUME PatternsAssumption == Patterns \subseteq SUBSET Keys
ASSUME CountAssumption == {PeekCount, BenchCount, MaxMessages} \subseteq Nat \ {0}
ASSUME KeysAssumption == Keys # {}
ASSUME NoneAssumption == None \notin Names

Main(n) == <<n, "main">>
Dlq(n) == <<n, "dlq">>               \* f"{queue_name}.dlq"
Queues == {Main(n) : n \in Names} \union {Dlq(n) : n \in Names}

Broadcast == <<None, "broadcast-exchange">>
Topic == <<None, "topic-exchange">>
Dlx(n) == <<n, "dlx">>               \* f"{queue_name}.dlx"

Messages == 1..MaxMessages

(* None is no delivery. *)
ASSUME NothingHeldAssumption == None \notin Queues \X Messages

VARIABLES
    kind,      \* per queue: the arguments it was created with, or "absent"
    bindings,  \* the broker's bindings
    content,   \* per queue: its ready messages
    unacked,   \* <<queue, message>>: taken by a get of the channel, not settled
    mortal,    \* messages published with a TTL
    poison,    \* messages whose body is no JSON
    sent,      \* messages numbered so far
    request,   \* per handler: the request it serves
    todo,      \* per handler: the commands it has yet to send
    held,      \* per handler: the peeked <<queue, message>> it must nack
    routed,    \* history, per message: the queues the broker copied it to
    owed       \* history, per handler: the queues bound when its publish began

broker == <<kind, bindings, content, unacked, mortal, poison>>
perRequest == <<request, todo, held, owed>>
rabbitVars == <<kind, bindings, content, unacked, mortal, poison, sent, request,
                todo, held, routed, owed>>

-----------------------------------------------------------------------------
(* The AMQP commands of aio_pika, and the operations as sequences of them. *)

Declare(q, k) == [do |-> "declare", queue |-> q, kind |-> k]
DeclarePassive(q) == [do |-> "declare_passive", queue |-> q]
Bind(x, p, q) == [do |-> "bind", to |-> [exchange |-> x, pattern |-> p, queue |-> q]]
Send(q, m, ttl) == [do |-> "send", queue |-> q, msg |-> m, ttl |-> ttl]
Route(x, k, m) == [do |-> "route", exchange |-> x, key |-> k, msg |-> m]
Get(q) == [do |-> "get", queue |-> q]
Nack == [do |-> "nack"]

(* Mutant: the queue is taken to exist. *)
publishUndeclared(q, m) == <<Send(q, m, FALSE)>>

publish(q, m) == <<Declare(q, "plain"), Send(q, m, FALSE)>>

publish_ttl(q, m) == <<Declare(q, "plain"), Send(q, m, TRUE)>>

publish_priority(q, m) == <<Declare(q, "priority"), Send(q, m, FALSE)>>

benchmark(q, m) ==
    <<Declare(q, "plain")>> \o [i \in 1..BenchCount |-> Send(q, m + i - 1, FALSE)]

AnyKey == CHOOSE k \in Keys : TRUE

publish_fanout(m) == <<Route(Broadcast, AnyKey, m)>>

(* Mutant: the bind is left to the first publish. *)
(* A fanout exchange ignores the key: its bindings match every key. *)
bind_fanout(q) == <<Declare(q, "plain"), Bind(Broadcast, Keys, q)>>

publish_topic(k, m) == <<Route(Topic, k, m)>>

bind_topic(q, p) == <<Declare(q, "plain"), Bind(Topic, p, q)>>

(* Mutant: the main queue is declared first. *)
setup_dlqMainFirst(n) ==
    <<Declare(Main(n), "dlx"), Declare(Dlq(n), "plain"), Bind(Dlx(n), Keys, Dlq(n))>>

setup_dlq(n) ==
    <<Declare(Dlq(n), "plain"), Bind(Dlx(n), Keys, Dlq(n)), Declare(Main(n), "dlx")>>

(* Also what GET /rabbitmq/queue/messages/{queue_name} calls. *)
get_dlq_messages(n) ==
    <<Declare(Dlq(n), "plain")>> \o
    [i \in 1..(2 * PeekCount) |-> IF i % 2 = 1 THEN Get(Dlq(n)) ELSE Nack]

queue_info(q) == <<DeclarePassive(q)>>

-----------------------------------------------------------------------------
(* Requests. *)

ToQueue == {"publish", "publish_ttl", "publish_priority", "benchmark"}
ToExchange == {"publish_fanout", "publish_topic"}

(* Clients may name a dead-letter queue in any request; that they bind only
   main queues is a bound of the model. *)
Requests ==
    [name : ToQueue \union {"queue_info"}, queue : Queues]
        \union [name : {"bind_fanout"}, queue : {Main(n) : n \in Names}]
        \union [name : {"bind_topic"}, queue : {Main(n) : n \in Names},
                pattern : Patterns]
        \union [name : {"publish_fanout"}, exchange : {Broadcast}, key : {AnyKey}]
        \union [name : {"publish_topic"}, exchange : {Topic}, key : Keys]
        \union [name : {"setup_dlq", "get_dlq_messages"}, of : Names]

(* None is no request. *)
ASSUME NothingAskedAssumption ==
    None \notin [of : Requests, msg : 1..(MaxMessages + 1)]

(* How many messages r publishes. *)
Creates(r) ==
    CASE r.name = "benchmark" -> BenchCount
      [] r.name \in (ToQueue \ {"benchmark"}) \union ToExchange -> 1
      [] OTHER -> 0

(* The commands of r when its first message is m. *)
Commands(r, m) ==
    CASE r.name = "publish" -> publish(r.queue, m)
      [] r.name = "publish_ttl" -> publish_ttl(r.queue, m)
      [] r.name = "publish_priority" -> publish_priority(r.queue, m)
      [] r.name = "benchmark" -> benchmark(r.queue, m)
      [] r.name = "publish_fanout" -> publish_fanout(m)
      [] r.name = "bind_fanout" -> bind_fanout(r.queue)
      [] r.name = "publish_topic" -> publish_topic(r.key, m)
      [] r.name = "bind_topic" -> bind_topic(r.queue, r.pattern)
      [] r.name = "setup_dlq" -> setup_dlq(r.of)
      [] r.name = "get_dlq_messages" -> get_dlq_messages(r.of)
      [] r.name = "queue_info" -> queue_info(r.queue)

(* The queues that `table` sends a message with this exchange and key to. *)
Targets(table, x, k) ==
    {b.queue : b \in {c \in table : c.exchange = x /\ k \in c.pattern}}

RabbitInit ==
    /\ kind = [q \in Queues |-> "absent"]
    /\ bindings = {}
    /\ content = [q \in Queues |-> {}]
    /\ unacked = {}
    /\ mortal = {}
    /\ poison = {}
    /\ sent = 0
    /\ request = [h \in InFlight |-> None]
    /\ todo = [h \in InFlight |-> <<>>]
    /\ held = [h \in InFlight |-> None]
    /\ routed = [m \in Messages |-> {}]
    /\ owed = [h \in InFlight |-> {}]

Start(h, r) ==
    /\ request[h] = None
    /\ sent + Creates(r) <= MaxMessages
    /\ sent' = sent + Creates(r)
    /\ request' = [request EXCEPT ![h] = [of |-> r, msg |-> sent + 1]]
    /\ todo' = [todo EXCEPT ![h] = Commands(r, sent + 1)]
    /\ owed' = [owed EXCEPT ![h] =
                  IF r.name \in ToExchange
                  THEN Targets(bindings, r.exchange, r.key) ELSE {}]
    /\ UNCHANGED <<broker, held, routed>>

(* The binding that r's answer reports. *)
Reported(r) ==
    CASE r.name = "bind_fanout" ->
            {[exchange |-> Broadcast, pattern |-> Keys, queue |-> r.queue]}
      [] r.name = "bind_topic" ->
            {[exchange |-> Topic, pattern |-> r.pattern, queue |-> r.queue]}
      [] OTHER -> {}

(* Every command was confirmed: the route answers 200. *)
Answer(h) ==
    /\ request[h] # None /\ todo[h] = <<>>
    /\ request' = [request EXCEPT ![h] = None]
    /\ owed' = [owed EXCEPT ![h] = {}]
    /\ UNCHANGED <<broker, sent, todo, held, routed>>

-----------------------------------------------------------------------------
(* One command each: the broker executes it and the handler's await ends. *)

IsNext(h, do) == todo[h] # <<>> /\ Head(todo[h]).do = do

Proceed(h) == todo' = [todo EXCEPT ![h] = Tail(@)]

(* What exists was declared with these arguments (otherwise 406), or does
   exist at all (otherwise 404). *)
Compatible(c) ==
    CASE c.do = "declare" -> kind[c.queue] \in {"absent", c.kind}
      [] c.do = "declare_passive" -> kind[c.queue] # "absent"
      [] OTHER -> TRUE

Refused(h) == todo[h] # <<>> /\ ~Compatible(Head(todo[h]))

DeclareQueue(h) ==
    /\ IsNext(h, "declare") /\ ~Refused(h)
    /\ kind' = [kind EXCEPT ![Head(todo[h]).queue] = Head(todo[h]).kind]
    /\ Proceed(h)
    /\ UNCHANGED <<bindings, content, unacked, mortal, poison, sent, request,
                   held, routed, owed>>

InspectQueue(h) ==
    /\ IsNext(h, "declare_passive") /\ ~Refused(h)
    /\ Proceed(h)
    /\ UNCHANGED <<broker, sent, request, held, routed, owed>>

BindQueue(h) ==
    /\ IsNext(h, "bind")
    /\ bindings' = bindings \union {Head(todo[h]).to}
    /\ Proceed(h)
    /\ UNCHANGED <<kind, content, unacked, mortal, poison, sent, request,
                   held, routed, owed>>

Enqueue(m, targets) ==
    /\ content' = [q \in Queues |->
                     content[q] \union (IF q \in targets THEN {m} ELSE {})]
    /\ routed' = [routed EXCEPT ![m] = targets]

(* The default exchange: to the queue of that name.  Without one the message
   is returned, which aio_pika's publish does not report as an error. *)
SendToQueue(h) ==
    LET c == Head(todo[h]) IN
    /\ IsNext(h, "send")
    /\ Enqueue(c.msg, IF kind[c.queue] = "absent" THEN {} ELSE {c.queue})
    /\ mortal' = IF c.ttl THEN mortal \union {c.msg} ELSE mortal
    /\ Proceed(h)
    /\ UNCHANGED <<kind, bindings, unacked, poison, sent, request, held, owed>>

RouteMessage(h) ==
    LET c == Head(todo[h]) IN
    /\ IsNext(h, "route")
    /\ Enqueue(c.msg, Targets(bindings, c.exchange, c.key))
    /\ Proceed(h)
    /\ UNCHANGED <<kind, bindings, unacked, mortal, poison, sent, request,
                   held, owed>>

(* get(fail=False) on an empty queue ends the loop. *)
GetNothing(h) ==
    /\ IsNext(h, "get") /\ content[Head(todo[h]).queue] = {}
    /\ todo' = [todo EXCEPT ![h] = <<>>]
    /\ UNCHANGED <<broker, sent, request, held, routed, owed>>

Take(q, m) ==
    /\ content' = [content EXCEPT ![q] = @ \ {m}]
    /\ unacked' = unacked \union {<<q, m>>}

GetMessage(h) ==
    /\ IsNext(h, "get")
    /\ \E m \in content[Head(todo[h]).queue] \ poison :
          /\ Take(Head(todo[h]).queue, m)
          /\ held' = [held EXCEPT ![h] = <<Head(todo[h]).queue, m>>]
    /\ Proceed(h)
    /\ UNCHANGED <<kind, bindings, mortal, poison, sent, request, routed, owed>>

(* The request fails with 500. *)
FailAll(F) ==
    /\ request' = [h \in InFlight |-> IF h \in F THEN None ELSE request[h]]
    /\ todo' = [h \in InFlight |-> IF h \in F THEN <<>> ELSE todo[h]]
    /\ owed' = [h \in InFlight |-> IF h \in F THEN {} ELSE owed[h]]

(* json.loads raises between get and nack: the message stays unacked. *)
GetPoison(h) ==
    /\ IsNext(h, "get")
    /\ \E m \in content[Head(todo[h]).queue] \intersect poison :
          Take(Head(todo[h]).queue, m)
    /\ FailAll({h})
    /\ UNCHANGED <<kind, bindings, mortal, poison, sent, held, routed>>

Return(pairs) ==
    /\ content' = [q \in Queues |->
                     content[q] \union {m \in Messages : <<q, m>> \in pairs}]
    /\ unacked' = unacked \ pairs

(* Mutant: nack without requeue. *)
NackDrops(h) ==
    /\ IsNext(h, "nack")
    /\ unacked' = unacked \ {held[h]}
    /\ held' = [held EXCEPT ![h] = None]
    /\ Proceed(h)
    /\ UNCHANGED <<kind, bindings, content, mortal, poison, sent, request,
                   routed, owed>>

(* nack(requeue=True).  Without `held` the channel it came from is gone. *)
NackMessage(h) ==
    /\ IsNext(h, "nack")
    /\ Return(IF held[h] = None THEN {} ELSE {held[h]})
    /\ held' = [held EXCEPT ![h] = None]
    /\ Proceed(h)
    /\ UNCHANGED <<kind, bindings, mortal, poison, sent, request, routed, owed>>

-----------------------------------------------------------------------------
(* Failures and the outside world. *)

Busy == {h \in InFlight : request[h] # None}

(* Mutant: a peek that survives nacks on the new channel what the old one
   delivered. *)
LoseChannelButNotHeld(F) ==
    /\ Return(unacked)
    /\ FailAll(F)
    /\ UNCHANGED <<held, kind, bindings, mortal, poison, sent, routed>>

(* The channel ends and opens again; the requests of F fail with it. *)
LoseChannel(F) ==
    /\ Return(unacked)
    /\ FailAll(F)
    /\ held' = [h \in InFlight |-> None]
    /\ UNCHANGED <<kind, bindings, mortal, poison, sent, routed>>

(* queue_info turns its 404 into an answer; the others fail with 500.  Either
   way the request ends and the shared channel with it. *)
Refuse(h) ==
    /\ Refused(h)
    /\ \E F \in SUBSET Busy : LoseChannel(F \union {h})

(* The connection drops or RabbitMQ restarts: queues are durable, messages
   persistent. *)
LoseConnection == \E F \in SUBSET Busy : LoseChannel(F)

(* A TTL runs out in a queue; none of those has a dead-letter exchange. *)
Expire(q, m) ==
    /\ m \in content[q] \intersect mortal
    /\ content' = [content EXCEPT ![q] = @ \ {m}]
    /\ UNCHANGED <<kind, bindings, unacked, mortal, poison, sent, perRequest,
                   routed>>

(* Consumers outside the application reject a message of a queue that has
   the dead-letter exchange; its body need not be JSON. *)
DeadLetter(n) ==
    /\ kind[Main(n)] = "dlx" /\ sent < MaxMessages
    /\ sent' = sent + 1
    /\ Enqueue(sent + 1, Targets(bindings, Dlx(n), AnyKey))
    /\ \/ poison' = poison \union {sent + 1}
       \/ UNCHANGED poison
    /\ UNCHANGED <<kind, bindings, unacked, mortal, perRequest>>

-----------------------------------------------------------------------------

RabbitNext ==
    \/ \E h \in InFlight :
          \/ \E r \in Requests : Start(h, r)
          \/ Answer(h)
          \/ DeclareQueue(h) \/ InspectQueue(h) \/ BindQueue(h)
          \/ SendToQueue(h) \/ RouteMessage(h)
          \/ GetNothing(h) \/ GetMessage(h) \/ GetPoison(h) \/ NackMessage(h)
          \/ Refuse(h)
    \/ LoseConnection
    \/ \E q \in Queues, m \in Messages : Expire(q, m)
    \/ \E n \in Names : DeadLetter(n)

RabbitSpec == RabbitInit /\ [][RabbitNext]_rabbitVars

-----------------------------------------------------------------------------
(* Properties. *)

Bindings == [exchange : {Broadcast, Topic} \union {Dlx(n) : n \in Names},
             pattern : Patterns \union {Keys}, queue : Queues]

(* Types; and a peeking handler holds a delivery of the live channel, never
   one that the broker has taken back. *)
RabbitTypeOK ==
    /\ kind \in [Queues -> {"absent", "plain", "priority", "dlx"}]
    /\ bindings \subseteq Bindings
    /\ content \in [Queues -> SUBSET Messages]
    /\ unacked \subseteq Queues \X Messages
    /\ mortal \subseteq Messages
    /\ poison \subseteq Messages
    /\ sent \in 0..MaxMessages
    /\ \A h \in InFlight :
          /\ request[h] = None => todo[h] = <<>> /\ held[h] = None
          /\ held[h] # None => held[h] \in unacked /\ IsNext(h, "nack")
    /\ routed \in [Messages -> SUBSET Queues]
    /\ owed \in [InFlight -> SUBSET Queues]

(* Peeks are harmless to the messages: whatever conflicts and lost channels
   cut them short, each copy that the broker made is ready or unacked, never
   both and never neither; only one with a TTL may be gone. *)
NothingLost ==
    \A m \in Messages, q \in Queues :
        LET ready == m \in content[q]
            taken == <<q, m>> \in unacked
        IN /\ ready => ~taken
           /\ ready \/ taken => q \in routed[m]
           /\ q \in routed[m] /\ m \notin mortal => ready \/ taken

(* A publish to a queue is answered 200 only when the broker put its message
   (every message, for a benchmark) there, although the declare and the
   publish are two commands and another request's conflict may come between. *)
AnsweredIsQueued ==
    \A h \in InFlight :
        request[h] # None /\ todo[h] = <<>> /\ request[h].of.name \in ToQueue =>
            \A i \in 0..(Creates(request[h].of) - 1) :
                routed[request[h].msg + i] = {request[h].of.queue}

(* A bind is answered "bound" only when the broker has the binding, and a
   fanout or topic publish that is answered 200 has reached every queue whose
   binding was there when its request began. *)
BoundIsReached ==
    \A h \in InFlight :
        request[h] # None /\ todo[h] = <<>> =>
            /\ Reported(request[h].of) \subseteq bindings
            /\ request[h].of.name \in ToExchange =>
                  owed[h] \subseteq routed[request[h].msg]

(* What a request is answered is true. *)
AnswerIsTrue == AnsweredIsQueued /\ BoundIsReached

(* setup_dlq may stop after any of its commands and another setup may run
   beside it: a queue with a dead-letter exchange never exists before the
   exchange leads to the dead-letter queue. *)
DeadLettersHaveAHome ==
    \A n \in Names : kind[Main(n)] = "dlx" =>
        kind[Dlq(n)] # "absent" /\ Dlq(n) \in Targets(bindings, Dlx(n), AnyKey)

-----------------------------------------------------------------------------
(* What the documentation says and the code does not do. *)

(* Notebook 03: after POST /rabbitmq/dlq/setup, messages are published to the
   main queue with POST /rabbitmq/direct/publish: the broker accepts what
   that request sends.  But publish declares the queue without the arguments
   that setup_dlq gave it. *)
SetupQueueAccepts ==
    \A n \in Names : kind[Main(n)] = "dlx" =>
        LET commands == publish(Main(n), 1)
        IN \A i \in 1..Len(commands) : Compatible(commands[i])

=============================================================================
