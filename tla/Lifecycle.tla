----------------------------- MODULE Lifecycle -----------------------------
(***************************************************************************)
(* The application from start to stop (app/lifespan.py): the three brokers *)
(* are connected in order, whatever the outcome; then requests are served  *)
(* beside the consumer-lag task; at the end that task is cancelled and the *)
(* brokers are disconnected in reverse order.                              *)
(*                                                                         *)
(* Redis and Kafka store their client before the first await of connect,   *)
(* RabbitMQ stores its connection after it was opened.  The Kafka admin    *)
(* client is created by the first request that needs it, as the lag task   *)
(* creates one of its own (app/brokers/kafka_broker.py,                    *)
(* app/monitoring/kafka_lag.py).                                           *)
(*                                                                         *)
(* Servers come and go.  A handshake fails only while its server is down.  *)
(***************************************************************************)
EXTENDS Naturals, Sequences

CONSTANTS
    Handlers,   \* topic requests that can be in progress at the same time
    MaxAdmins   \* bound: admin clients that requests create

ASSUME AdminsAssumption == MaxAdmins \in Nat

ALL_BROKERS == <<"redis", "rabbitmq", "kafka">>
Brokers == {ALL_BROKERS[i] : i \in DOMAIN ALL_BROKERS}
Admins == 1 .. MaxAdmins
NoAdmin == 0

VARIABLES
    stage,      \* of lifespan: "connect", "serve", "cancel", "disconnect",
                \* "stopped"
    at,         \* which of ALL_BROKERS it is connecting or disconnecting
    step,       \* of its connect: "begin", "dial", "handshake"
    up,         \* [Brokers -> can the server be reached]
    conn,       \* [Brokers -> "none", "partial", "ready"]: attributes unset;
                \* set, connect not finished; set, connect finished
    admin,      \* kafka_broker.admin
    client,     \* [Admins -> "unused", "starting", "started", "failed",
                \* "closed"]: the admin clients that requests created
    handler,    \* [Handlers -> "idle", "starting", "calling"]
    lag,        \* the lag task: "off", "sleeping", "starting", "measuring",
                \* "cancelled"
    lagAdmin    \* its admin client: "none", "starting", "started"

lifespan == <<stage, at, step>>
topics == <<admin, client, handler>>
monitor == <<lag, lagAdmin>>
lifeVars == <<lifespan, up, conn, topics, monitor>>

LifeInit ==
    /\ stage = "connect" /\ at = 1 /\ step = "begin"
    /\ up \in [Brokers -> BOOLEAN]
    /\ conn = [b \in Brokers |-> "none"]
    /\ admin = NoAdmin
    /\ client = [k \in Admins |-> "unused"]
    /\ handler = [h \in Handlers |-> "idle"]
    /\ lag = "off" /\ lagAdmin = "none"

-----------------------------------------------------------------------------
(* Startup *)

Connecting(b) == stage = "connect" /\ ALL_BROKERS[at] = b

\* The next broker's turn; after the last one the lag task is created and the
\* application serves.
NextBroker ==
    /\ step' = "begin"
    /\ IF at < Len(ALL_BROKERS)
       THEN at' = at + 1 /\ UNCHANGED <<stage, lag>>
       ELSE stage' = "serve" /\ lag' = "sleeping" /\ UNCHANGED at
    /\ UNCHANGED lagAdmin

\* connect up to its first await: from_url and AIOKafkaProducer(...) are stored,
\* connect_robust stores nothing yet.
BeginConnect(b) ==
    /\ Connecting(b) /\ step = "begin"
    /\ IF b = "rabbitmq"
       THEN step' = "dial" /\ UNCHANGED conn
       ELSE step' = "handshake" /\ conn' = [conn EXCEPT ![b] = "partial"]
    /\ UNCHANGED <<stage, at, up, topics, monitor>>

\* The await succeeds: connect_robust, then channel and set_qos; ping; start.
Connected(b) ==
    /\ Connecting(b) /\ step # "begin" /\ up[b]
    /\ IF step = "dial"
       THEN /\ conn' = [conn EXCEPT ![b] = "partial"]
            /\ step' = "handshake"
            /\ UNCHANGED <<stage, at, monitor>>
       ELSE /\ conn' = [conn EXCEPT ![b] = "ready"]
            /\ NextBroker
    /\ UNCHANGED <<up, topics>>

\* Mutant: the error of one connect ends the startup.
ConnectFailsForAll(b) ==
    /\ Connecting(b) /\ step # "begin" /\ ~up[b]
    /\ stage' = "stopped"
    /\ UNCHANGED <<at, step, up, conn, topics, monitor>>

\* It raises: lifespan prints the error and goes on, attributes stay as they are.
ConnectFails(b) ==
    /\ Connecting(b) /\ step # "begin" /\ ~up[b]
    /\ NextBroker
    /\ UNCHANGED <<up, conn, topics>>

-----------------------------------------------------------------------------
(* Requests: create_topic and list_topics *)

Created == {k \in Admins : client[k] # "unused"}

\* Mutant: a client that has not started is not waited for.
NeedsStartedAdmin == admin = NoAdmin \/ client[admin] # "started"

\* `if not self.admin`
NeedsAdmin == admin = NoAdmin

\* The request up to its first await.  Between the test and the assignment of
\* connect_admin nothing is awaited.
TopicRequest(h) ==
    /\ stage = "serve" /\ handler[h] = "idle"
    /\ IF NeedsAdmin
       THEN \E k \in Admins \ Created :
              /\ \A j \in Admins \ Created : k <= j
              /\ admin' = k
              /\ client' = [client EXCEPT ![k] = "starting"]
              /\ handler' = [handler EXCEPT ![h] = "starting"]
       ELSE /\ handler' = [handler EXCEPT ![h] = "calling"]
            /\ UNCHANGED <<admin, client>>
    /\ UNCHANGED <<lifespan, up, conn, monitor>>

\* self.admin.start() of the request that created the client.
StartAdmin(h) ==
    /\ handler[h] = "starting"
    /\ \/ /\ up["kafka"]
          /\ client' = [client EXCEPT ![admin] = "started"]
          /\ handler' = [handler EXCEPT ![h] = "calling"]
       \/ /\ ~up["kafka"]
          /\ client' = [client EXCEPT ![admin] = "failed"]
          /\ handler' = [handler EXCEPT ![h] = "idle"]
    /\ UNCHANGED <<lifespan, up, conn, admin, monitor>>

\* create_topics, describe_cluster, list_topics through self.admin, whichever
\* client that is by now: 200, or 500 when it is not started or Kafka is down.
CallAdmin(h) ==
    /\ handler[h] = "calling"
    /\ handler' = [handler EXCEPT ![h] = "idle"]
    /\ UNCHANGED <<lifespan, up, conn, admin, client, monitor>>

-----------------------------------------------------------------------------
(* lag_monitor_loop *)

\* The sleep is over: a client is created when there is none.
LagWakes ==
    /\ lag = "sleeping"
    /\ IF lagAdmin = "none"
       THEN lag' = "starting" /\ lagAdmin' = "starting"
       ELSE lag' = "measuring" /\ UNCHANGED lagAdmin
    /\ UNCHANGED <<lifespan, up, conn, topics>>

\* Mutant: the client whose start failed is kept.
LagGivesUpKeeping ==
    /\ lag' = "sleeping"
    /\ UNCHANGED lagAdmin

\* except Exception: the client is closed and forgotten.
LagGivesUp ==
    /\ lag' = "sleeping"
    /\ lagAdmin' = "none"

\* admin.start()
LagStarts ==
    /\ lag = "starting"
    /\ \/ up["kafka"] /\ lag' = "measuring" /\ lagAdmin' = "started"
       \/ ~up["kafka"] /\ LagGivesUp
    /\ UNCHANGED <<lifespan, up, conn, topics>>

\* All groups are measured; _measure_lag_once swallows its own errors.
LagMeasured ==
    /\ lag = "measuring"
    /\ lag' = "sleeping"
    /\ UNCHANGED <<lagAdmin, lifespan, up, conn, topics>>

-----------------------------------------------------------------------------
(* Shutdown *)

\* The server stops accepting requests and has none left; lag_task.cancel().
BeginStop ==
    /\ stage = "serve"
    /\ \A h \in Handlers : handler[h] = "idle"
    /\ stage' = "cancel"
    /\ UNCHANGED <<at, step, up, conn, topics, monitor>>

\* CancelledError ends the loop at its await, which no handler of it catches:
\* its client is not closed.
LagCancelled ==
    /\ stage = "cancel"
    /\ lag' = "cancelled"
    /\ stage' = "disconnect"
    /\ UNCHANGED <<at, step, lagAdmin, up, conn, topics>>

Disconnecting(b) == stage = "disconnect" /\ ALL_BROKERS[at] = b

PreviousBroker ==
    /\ IF at > 1 THEN at' = at - 1 /\ UNCHANGED stage
                 ELSE stage' = "stopped" /\ UNCHANGED at
    /\ UNCHANGED <<step, up, monitor, handler>>

\* KafkaBroker.disconnect: the errors of stop and close are caught one by one.
DisconnectKafka ==
    /\ Disconnecting("kafka")
    /\ conn' = [conn EXCEPT !["kafka"] = "none"]
    /\ client' = [k \in Admins |-> IF k = admin THEN "closed" ELSE client[k]]
    /\ admin' = NoAdmin
    /\ PreviousBroker

\* RedisBroker.disconnect, RabbitMQBroker.disconnect: when close raises, the
\* attributes keep their values and lifespan goes on.
Disconnect(b) ==
    /\ b # "kafka" /\ Disconnecting(b)
    /\ \/ conn' = [conn EXCEPT ![b] = "none"]
       \/ conn[b] # "none" /\ UNCHANGED conn
    /\ PreviousBroker
    /\ UNCHANGED <<admin, client>>

-----------------------------------------------------------------------------
(* A server becomes reachable or unreachable. *)
FlipServer(b) ==
    /\ up' = [up EXCEPT ![b] = ~@]
    /\ UNCHANGED <<lifespan, conn, topics, monitor>>

Startup ==
    \E b \in Brokers : BeginConnect(b) \/ Connected(b) \/ ConnectFails(b)
Request(h) == TopicRequest(h) \/ StartAdmin(h) \/ CallAdmin(h)
Shutdown ==
    \/ LagCancelled
    \/ DisconnectKafka
    \/ \E b \in Brokers : Disconnect(b)

LifeNext ==
    \/ Startup
    \/ \E h \in Handlers : Request(h)
    \/ LagWakes \/ LagStarts \/ LagMeasured
    \/ BeginStop
    \/ Shutdown
    \/ \E b \in Brokers : FlipServer(b)

\* What a coroutine of the event loop awaits ends: a connect, start, call or
\* close succeeds or raises, a sleep ends, a cancellation is delivered.  That
\* the server is told to stop, that requests come and that a broker is
\* reachable is nobody's duty.
LifeFairness ==
    /\ WF_lifeVars(Startup)
    /\ WF_lifeVars(Shutdown)
    /\ \A h \in Handlers : WF_lifeVars(StartAdmin(h) \/ CallAdmin(h))
    /\ WF_lifeVars(LagWakes \/ LagStarts \/ LagMeasured)

LifeSpec == LifeInit /\ [][LifeNext]_lifeVars /\ LifeFairness

-----------------------------------------------------------------------------
(* Properties *)

LifeTypeOK ==
    /\ stage \in {"connect", "serve", "cancel", "disconnect", "stopped"}
    /\ at \in DOMAIN ALL_BROKERS
    /\ step \in {"begin", "dial", "handshake"}
    /\ up \in [Brokers -> BOOLEAN]
    /\ conn \in [Brokers -> {"none", "partial", "ready"}]
    /\ admin \in Admins \cup {NoAdmin}
    /\ client \in
         [Admins -> {"unused", "starting", "started", "failed", "closed"}]
    /\ handler \in [Handlers -> {"idle", "starting", "calling"}]
    /\ lag \in {"off", "sleeping", "starting", "measuring", "cancelled"}
    /\ lagAdmin \in {"none", "starting", "started"}
    /\ lag = "measuring" => lagAdmin = "started"

\* No admin client that holds a connection is out of the broker's reach: it is
\* the one in kafka_broker.admin, however many requests want one at once.
AdminTracked ==
    \A k \in Admins : client[k] \in {"starting", "started"} => admin = k

\* A stopped application has let go of everything kafka_broker ever opened,
\* whatever stop and close raised.
KafkaReleased ==
    stage = "stopped" =>
        /\ conn["kafka"] = "none" /\ admin = NoAdmin
        /\ \A k \in Admins : client[k] \notin {"starting", "started"}

\* No admin client is left behind, while serving or after the end.
NoClientLeft == AdminTracked /\ KafkaReleased

\* Whatever brokers are down, the application starts to serve, and once told to
\* stop it stops (lifespan's try around every connect and disconnect).
ServesAnyway ==
    /\ <>(stage = "serve")
    /\ stage = "cancel" ~> stage = "stopped"

\* The lag task survives any outage: once Kafka stays up under a serving
\* application, the task has a started client.
LagRecovers ==
    <>[](stage = "serve" /\ up["kafka"]) => <>[](lagAdmin = "started")

=============================================================================
