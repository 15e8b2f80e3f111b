--------------------------- MODULE ImagePipeline ---------------------------
(***************************************************************************)
(* The image pipeline: requests published through the API's direct route,  *)
(* the RabbitMQ input queue, the Go workers of image-processor/, and the   *)
(* results they leave in Redis and on the result queue.                    *)
(*                                                                         *)
(* A worker's goroutine handles one delivery at a time (`for msg := range  *)
(* msgs`), up to Prefetch deliveries are pushed to it ahead of their turn. *)
(* The steps of processMessage and Process are the points where something  *)
(* outside the process changes: Redis, the result queue, the ack.  A crash *)
(* or the end of the channel may come between any two of them.             *)
(*                                                                         *)
(* RabbitMQ is external: it returns the unacked deliveries of a closed     *)
(* channel to the queue, and a publish or ack on a closed channel fails.   *)
(***************************************************************************)
EXTENDS Integers, Sequences, FiniteSets, SequencesExt

CONSTANTS
    Tasks,           \* task ids, one request each
    Workers,         \* image-processor processes
    Prefetch,        \* ch.Qos(5, 0, false)
    MaxRedeliveries, \* bound: how often a request is returned to the queue
    None             \* no task, and the empty task_id

ASSUME PrefetchAssumption == Prefetch \in Nat \ {0}
ASSUME MaxRedeliveriesAssumption == MaxRedeliveries \in Nat
ASSUME NoneAssumption == None \notin Tasks

VARIABLES
    form,         \* per task: how its request was written into the message
    ready,        \* the input queue's ready messages
    channel,      \* per worker: "up", "closed" (the process lives on), "down"
    unacked,      \* per worker: deliveries of its channel, in order
    current,      \* per worker: the request its goroutine is processing
    step,         \* per worker: where processMessage is
    status,       \* per worker: result.Status
    stored,       \* per Redis key image:result:<id>: the stored Status, or "none"
    data,         \* the ids <id> for which image:data:<id> exists
    events,       \* per task: messages put on the result queue for its request
    completed,    \* history: tasks with an event saying "completed"
    redelivered,  \* history: how often the broker took a request back
    unstored      \* history: tasks of which a Redis write failed

queues == <<form, ready, events, completed, redelivered>>
redis == <<stored, data, unstored>>
work == <<current, step, status>>
pipelineVars == <<form, ready, channel, unacked, current, step, status, stored, data,
          events, completed, redelivered, unstored>>

Keys == Tasks \union {None}

(* The fields of a request are read from the top level of the JSON body.  The
   route puts the caller's `content` string one level down and spreads only
   its `metadata`, so a request sent as content unmarshals without an error
   into a ProcessRequest whose TaskID is empty. *)
TaskID(t) == IF form[t] = "metadata" THEN t ELSE None

(* result.Status until Process sets it: the zero value of a string. *)
Unset == ""

PipelineInit ==
    /\ form = [t \in Tasks |-> "unsent"]
    /\ ready = <<>>
    /\ channel = [w \in Workers |-> "up"]
    /\ unacked = [w \in Workers |-> <<>>]
    /\ current = [w \in Workers |-> None]
    /\ step = [w \in Workers |-> "idle"]
    /\ status = [w \in Workers |-> Unset]
    /\ stored = [k \in Keys |-> "none"]
    /\ data = {}
    /\ events = [t \in Tasks |-> 0]
    /\ completed = {}
    /\ redelivered = [t \in Tasks |-> 0]
    /\ unstored = {}

-----------------------------------------------------------------------------
(* The API: POST /rabbitmq/direct/publish and RabbitMQBroker.publish. *)

(* "content": the request is a JSON string in MessageRequest.content, as
   notebook 17 sends it; "metadata": its fields are the metadata; "broken":
   metadata with a field of a type ProcessRequest does not take. *)
PublishRequest(t, f) ==
    /\ form[t] = "unsent"
    /\ form' = [form EXCEPT ![t] = f]
    /\ ready' = Append(ready, t)
    /\ UNCHANGED <<channel, unacked, events, completed, redelivered, work, redis>>

(* The broker pushes the next message to a consumer with prefetch left. *)
Deliver(w) ==
    /\ channel[w] = "up"
    /\ Len(unacked[w]) < Prefetch
    /\ ready # <<>>
    /\ unacked' = [unacked EXCEPT ![w] = Append(@, Head(ready))]
    /\ ready' = Tail(ready)
    /\ UNCHANGED <<form, channel, events, completed, redelivered, work, redis>>

-----------------------------------------------------------------------------
(* processMessage, up to the reply. *)

Settled(w) == unacked' = [unacked EXCEPT ![w] = Tail(@)]

Begin(w) ==
    /\ channel[w] = "up"
    /\ step[w] = "idle"
    /\ unacked[w] # <<>>

(* Unmarshal fails: Nack without requeue.  main declares the input queue
   with nil arguments, so it has no dead-letter exchange and the message is
   discarded. *)
RejectBroken(w) ==
    /\ Begin(w)
    /\ form[Head(unacked[w])] = "broken"
    /\ Settled(w)
    /\ UNCHANGED <<channel, work, queues, redis>>

Unmarshal(w) ==
    /\ Begin(w)
    /\ form[Head(unacked[w])] # "broken"
    /\ current' = [current EXCEPT ![w] = Head(unacked[w])]
    /\ step' = [step EXCEPT ![w] = "store_result"]
    /\ UNCHANGED <<channel, unacked, status, queues, redis>>

(* Mutant: a status outside the documented two. *)
EncodeFailsAsError(w) ==
    /\ step[w] = "store_result"
    /\ step' = [step EXCEPT ![w] = "reply"]
    /\ status' = [status EXCEPT ![w] = "error"]
    /\ UNCHANGED <<channel, unacked, current, queues, redis>>

(* Mutant: a failure is acked without an answer. *)
EncodeFailsSilently(w) ==
    /\ step[w] = "store_result"
    /\ step' = [step EXCEPT ![w] = "ack"]
    /\ status' = [status EXCEPT ![w] = "failed"]
    /\ UNCHANGED <<channel, unacked, current, queues, redis>>

(* The encoder fails: nothing is stored, and a failed result is published.
   (A failed download is not a failure: a test image takes its place.) *)
EncodeFails(w) ==
    /\ step[w] = "store_result"
    /\ step' = [step EXCEPT ![w] = "reply"]
    /\ status' = [status EXCEPT ![w] = "failed"]
    /\ UNCHANGED <<channel, unacked, current, queues, redis>>

(* The record is marshalled as it is now, before Status is set; the error
   of Set is ignored. *)
StoreResult(w) ==
    /\ step[w] = "store_result"
    /\ step' = [step EXCEPT ![w] = "store_data"]
    /\ \/ /\ stored' = [stored EXCEPT ![TaskID(current[w])] = status[w]]
          /\ UNCHANGED unstored
       \/ unstored' = unstored \union {current[w]} /\ UNCHANGED stored
    /\ UNCHANGED <<channel, unacked, current, status, data, queues>>

(* Mutant: the image is not written. *)
StoreDataSkipped(w) ==
    /\ step[w] = "store_data"
    /\ step' = [step EXCEPT ![w] = "reply"]
    /\ status' = [status EXCEPT ![w] = "completed"]
    /\ UNCHANGED <<channel, unacked, current, queues, redis>>

StoreData(w) ==
    /\ step[w] = "store_data"
    /\ step' = [step EXCEPT ![w] = "reply"]
    /\ status' = [status EXCEPT ![w] = "completed"]
    /\ \/ data' = data \union {TaskID(current[w])} /\ UNCHANGED unstored
       \/ unstored' = unstored \union {current[w]} /\ UNCHANGED data
    /\ UNCHANGED <<channel, unacked, current, stored, queues>>

-----------------------------------------------------------------------------
(* The reply and the ack. *)

Done(w) ==
    /\ current' = [current EXCEPT ![w] = None]
    /\ step' = [step EXCEPT ![w] = "idle"]
    /\ status' = [status EXCEPT ![w] = Unset]

(* Mutant: the publish that was sent is taken for failed and retried. *)
PublishResultRetried(w) ==
    /\ step[w] = "reply" /\ channel[w] = "up"
    /\ events' = [events EXCEPT ![current[w]] = @ + 1]
    /\ ready' = <<current[w]>> \o ready
    /\ Settled(w)
    /\ Done(w)
    /\ UNCHANGED <<form, channel, completed, redelivered, redis>>

PublishResult(w) ==
    /\ step[w] = "reply" /\ channel[w] = "up"
    /\ events' = [events EXCEPT ![current[w]] = @ + 1]
    /\ completed' = IF status[w] = "completed" THEN completed \union {current[w]}
                                               ELSE completed
    /\ step' = [step EXCEPT ![w] = "ack"]
    /\ UNCHANGED <<form, ready, channel, unacked, current, status, redelivered, redis>>

(* Mutant: the Nack of a closed channel returns the request once more. *)
(* On a closed channel the publish fails, and so does the Nack that is meant
   to retry: the broker has taken the delivery back already. *)
PublishFails(w) ==
    /\ step[w] = "reply" /\ channel[w] # "up"
    /\ Done(w)
    /\ UNCHANGED <<channel, unacked, queues, redis>>

(* Ack(false): this delivery only.  On a closed channel it is an error that
   nobody looks at. *)
AckDelivery(w) ==
    /\ step[w] = "ack"
    /\ IF channel[w] = "up" THEN Settled(w) ELSE UNCHANGED unacked
    /\ Done(w)
    /\ UNCHANGED <<channel, queues, redis>>

-----------------------------------------------------------------------------
(* Failures. *)

(* Mutant: only the request being processed is taken back. *)
RequeueCurrent(w) ==
    /\ \A t \in Range(unacked[w]) : redelivered[t] < MaxRedeliveries
    /\ ready' = (IF current[w] = None THEN <<>> ELSE <<current[w]>>) \o ready
    /\ unacked' = [unacked EXCEPT ![w] = <<>>]
    /\ redelivered' = [t \in Tasks |->
                         redelivered[t] + (IF t \in Range(unacked[w]) THEN 1 ELSE 0)]

(* The broker takes the unacked deliveries of w back, before the others. *)
Requeue(w) ==
    /\ \A t \in Range(unacked[w]) : redelivered[t] < MaxRedeliveries
    /\ ready' = unacked[w] \o ready
    /\ unacked' = [unacked EXCEPT ![w] = <<>>]
    /\ redelivered' = [t \in Tasks |->
                         redelivered[t] + (IF t \in Range(unacked[w]) THEN 1 ELSE 0)]

Crash(w) ==
    /\ channel[w] # "down"
    /\ channel' = [channel EXCEPT ![w] = "down"]
    /\ Requeue(w)
    /\ Done(w)
    /\ UNCHANGED <<form, events, completed, redis>>

(* The connection drops, or main closes the channel on SIGTERM.  The
   goroutine goes on with the delivery it has, and takes no other: prefetched
   ones are dropped with the channel, `range msgs` ends after this one. *)
CloseChannel(w) ==
    /\ channel[w] = "up"
    /\ channel' = [channel EXCEPT ![w] = "closed"]
    /\ Requeue(w)
    /\ UNCHANGED <<form, events, completed, work, redis>>

(* SIGTERM: main waits for the goroutine (`<-done`), then ends.  Nothing else
   ends a process whose channel is closed: it does not reconnect. *)
Terminate(w) ==
    /\ channel[w] = "closed" /\ step[w] = "idle"
    /\ channel' = [channel EXCEPT ![w] = "down"]
    /\ UNCHANGED <<unacked, work, queues, redis>>

(* Mutant: the process reconnects while its goroutine is still busy. *)
Reconnect(w) ==
    /\ channel[w] # "up"
    /\ channel' = [channel EXCEPT ![w] = "up"]
    /\ UNCHANGED <<unacked, work, queues, redis>>

(* docker-compose's `restart: unless-stopped`; main retries the connection. *)
Restart(w) ==
    /\ channel[w] = "down"
    /\ channel' = [channel EXCEPT ![w] = "up"]
    /\ UNCHANGED <<unacked, work, queues, redis>>

-----------------------------------------------------------------------------

Advance(w) ==
    \/ Unmarshal(w) \/ EncodeFails(w) \/ StoreResult(w) \/ StoreData(w)
    \/ PublishResult(w) \/ PublishFails(w) \/ AckDelivery(w) \/ RejectBroken(w)

PipelineNext ==
    \/ \E t \in Tasks, f \in {"content", "metadata", "broken"} : PublishRequest(t, f)
    \/ \E w \in Workers :
          \/ Deliver(w)
          \/ Unmarshal(w) \/ EncodeFails(w) \/ StoreResult(w) \/ StoreData(w)
          \/ PublishResult(w) \/ PublishFails(w) \/ AckDelivery(w) \/ RejectBroken(w)
          \/ Crash(w) \/ CloseChannel(w) \/ Terminate(w) \/ Restart(w)

(* The broker delivers, a running goroutine runs, and docker restarts what
   has exited.  Nothing ends or reconnects a process with a closed channel. *)
PipelineFairness ==
    \A w \in Workers :
        /\ WF_pipelineVars(Deliver(w))
        /\ WF_pipelineVars(Advance(w))
        /\ WF_pipelineVars(Restart(w))

PipelineSpec == PipelineInit /\ [][PipelineNext]_pipelineVars /\ PipelineFairness

-----------------------------------------------------------------------------
(* Properties. *)

PipelineTypeOK ==
    /\ form \in [Tasks -> {"unsent", "content", "metadata", "broken"}]
    /\ ready \in Seq(Tasks)
    /\ channel \in [Workers -> {"up", "closed", "down"}]
    /\ unacked \in [Workers -> Seq(Tasks)]
    /\ \A w \in Workers : Len(unacked[w]) <= Prefetch
    /\ current \in [Workers -> Tasks \union {None}]
    /\ step \in [Workers -> {"idle", "store_result", "store_data", "reply", "ack"}]
    /\ status \in [Workers -> {Unset, "completed", "failed"}]
    /\ stored \in [Keys -> {"none", Unset, "completed", "failed"}]
    /\ data \subseteq Keys
    /\ events \in [Tasks -> 0..(MaxRedeliveries + 1)]
    /\ completed \subseteq Tasks
    /\ redelivered \in [Tasks -> 0..MaxRedeliveries]
    /\ unstored \subseteq Tasks

Held(t) == \E w \in Workers : t \in Range(unacked[w])

(* At-least-once: whatever crashes between the Redis writes, the reply and
   the ack, a request that can be parsed is waiting, held by a live channel,
   or answered. *)
NoRequestLost ==
    \A t \in Tasks :
        form[t] \in {"content", "metadata"} =>
            t \in Range(ready) \/ Held(t) \/ events[t] > 0

(* The failed Nack of a closed channel and the broker's own requeue never
   both return a request: there is one copy of it. *)
OneCopy ==
    /\ \A v, w \in Workers :
          v # w => Range(unacked[v]) \intersect Range(unacked[w]) = {}
    /\ \A w \in Workers :
          /\ IsInjective(unacked[w])
          /\ Range(unacked[w]) \intersect Range(ready) = {}
          /\ channel[w] # "up" => unacked[w] = <<>>
    /\ IsInjective(ready)

(* A request is answered twice only because the broker had to take it back:
   without a crash or a lost channel there is exactly one answer. *)
DuplicatesAreRedeliveries == \A t \in Tasks : events[t] <= 1 + redelivered[t]

(* Two workers may process the same request at once (one of them with a
   closed channel), but only one of them can reply to it. *)
OneReplier ==
    \A v, w \in Workers :
        /\ current[v] # None /\ current[v] = current[w]
        /\ channel[v] = "up" /\ channel[w] = "up"
        => v = w

(* However many workers have received a request, there is one copy of it and
   one worker to reply. *)
OneAtATime == OneCopy /\ OneReplier

(* Who is told "completed" within the hour's TTL (which is not modelled)
   finds both Redis keys of the result, unless a write of this task failed
   silently, even if another worker processes the request again. *)
CompletedIsStored ==
    \A t \in completed \ unstored : stored[TaskID(t)] # "none" /\ TaskID(t) \in data

(* If one worker keeps its channel in the end, every request that can be
   parsed is answered, also those that the other workers took and dropped
   (each at most MaxRedeliveries times). *)
Answered ==
    (\E w \in Workers : <>[](channel[w] = "up")) =>
        \A t \in Tasks : form[t] \in {"content", "metadata"} ~> events[t] > 0

-----------------------------------------------------------------------------
(* What the documentation says and the code does not do. *)

(* ProcessResult documents Status as "completed" or "failed".  The record in
   Redis is marshalled before Status is set, so it says neither. *)
StoredStatusKnown == \A k \in Keys : stored[k] \in {"none", "completed", "failed"}

=============================================================================
