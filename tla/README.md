# Verification of the message broker comparison lab

TLA+ models of the parts of the message broker comparison lab in which steps of
several actors interleave, fail or are repeated. They cover the application
(circuit breaker, backpressure guard, RabbitMQ, Redis and Kafka brokers behind
their routes, lag task, benchmarks, start and stop), the Go image worker, and
the clients that the notebooks build on them: locks, workers, sagas, sales,
caches, delayed jobs. TLC checks each model on a small instance. TLAPS proves every
invariant of the five passing runs, and their action properties and two refinements,
for every value of the constants (section 5); liveness stays with TLC.

Paths are relative to the repository root; `app/` holds the FastAPI
application, `image-processor/` the Go worker, `nb09` stands for
`notebooks/09_concurrency_and_distribution.ipynb`, and so on.

## 1. The system

One Python process (FastAPI, one event loop) talks to Redis, RabbitMQ and Kafka
through three broker singletons; a Go process consumes image requests from
RabbitMQ and leaves results in Redis. Notebooks are clients: they send requests to
the application, or talk to the brokers themselves. Coroutines of a Python
process interleave only at an `await` that really suspends. This decides where
the models split an operation into actions: a stretch of code without such an
`await` is one action. A client does not know whether a request that raised was
executed; where it matters, both are outcomes.

| Component | State it keeps | Operations | Interacts with | What is hard |
|---|---|---|---|---|
| Circuit breaker (`app/resilience/circuit_breaker.py`) | stored state, failure count, half-open attempts, time of the last failure, gauge | `call`, `state`, reset route | the calls it wraps, the clock | late answers of calls admitted in another mode; a state that is computed and never stored |
| Backpressure guard (`app/resilience/backpressure.py`) | semaphore, `_active`, `_waiting` | `__aenter__`, `__aexit__` | asyncio's semaphore, timers, cancellation | a grant racing a timer or a cancellation |
| RabbitMQ broker and routes (`app/brokers/rabbitmq_broker.py`, `app/api/rabbitmq_routes.py`) | one shared channel; queues, bindings, messages at the server | publish (direct, ttl, priority, fanout, topic), bind, dlq setup and peek, info, benchmark | RabbitMQ, consumers, the worker | each request is several commands on a channel that any conflict closes under all |
| Image pipeline (`image-processor/`) | deliveries, the request being processed, two Redis keys per result | consume, process, reply, ack, restart | RabbitMQ, Redis, the API's direct route | crash, redelivery, two workers on one request |
| Image algorithms (`image-processor/internal/handler/image.go`) | the image | download or test image, resize, five filters | none | borders, truncation and clamping to eight bits |
| Redis streams and list queue (`app/brokers/redis_broker.py`, `app/api/redis_routes.py`) | stream, groups with pending entries, list, blocked clients at the server | add, create group, group read with ack, push, pop, delete | Redis | lost replies between commands of one request |
| Redis rate limiter (same files) | a sorted set and its expiry | `rate_limit_check` | Redis, two clocks | the time is read before the pipeline runs |
| Redis Bloom filter (same files) | a bit string | add, lookup, delete | Redis | parameters come with every request |
| Redis cache, key-values, vectors, time series, Pub/Sub (same files) | keys at the server | get, set, delete, add, search, range, trim | Redis, notebooks, MCP | two commands per hit; two keys per element |
| Kafka broker and routes (`app/brokers/kafka_broker.py`, `app/api/kafka_routes.py`) | producer, admin, consumer; log and offsets at the server | publish, keyed, batch, subscribe, topics | Kafka | clients created on demand by requests that overlap; batches that are half written; commits beside processing |
| Application lifecycle (`app/lifespan.py`) | the connected brokers, the lag task | startup, shutdown | all brokers | any broker may be down, any close may raise |
| Lag monitor (`app/monitoring/kafka_lag.py`) | its admin client, the lag cache and gauges | loop, measurement, registration | Kafka | offsets read at two times; a cache that outlives errors |
| Benchmarks and metrics (`app/api/benchmark_routes.py`, `app/monitoring/`) | lock, results, histories | six benchmark routes, comparison | the brokers | the MCP tool does not take the lock |
| MCP server (`app/mcp/server.py`) | none of its own | tools that forward to the brokers, `vector_store` | the brokers | a vector and its text are two commands |
| Health report (`app/api/health.py`, `app/brokers/base.py`) | none | `/health` | the brokers | what "connected" means after a failed connect |
| Notebook clients (nb07-nb12, nb15, nb16, nb18) | keys, queues, tasks | lock, workers, sagas, sales, tracking, caches, delayed jobs, token bucket, manual commits | the application, the brokers | check-then-act over several requests, tasks that nobody awaits, cleanup after failures |

PROJECT.json lists the hazards at their lines with the properties that would
catch them; section 4 says what each property states.

## 2. The modules

| Module | Models | Proofs | Run |
|---|---|---|---|
| `BreakerDiagram` | the breaker as an observer of `state` sees it: abstract | | concurrency |
| `CircuitBreaker` | the breaker, its callers, clock and reset route | `ConcurrencyProofs` | concurrency |
| `Backpressure` | the guard with asyncio's semaphore and `wait_for` | `ConcurrencyProofs` | concurrency |
| `Benchmarks` | benchmark routes, their results, the MCP tool | `ConcurrencyProofs` | concurrency |
| `LeaseLock` | nb09: distributed lock around a counter | `ConcurrencyProofs` | concurrency |
| `CompetingWorkers` | nb09: workers sharing a queue | `ConcurrencyProofs` | concurrency |
| `OrderSaga` | nb15: order saga over the application's routes | `ConcurrencyProofs` | concurrency |
| `SagaOrchestrator` | nb10: generic saga | `ConcurrencyProofs` | concurrency |
| `RedisWork` | stream with groups, and list queue | `RedisWorkProofs` | redis |
| `RateLimiter` | the sliding window | `RedisProofs` | redis |
| `BloomFilter` | a filter and requests with different parameters | `RedisProofs` | redis |
| `StockSale` | nb11, nb12: sales through the cache routes | `RedisProofs` | redis |
| `RabbitQueues` | every RabbitMQ route as a sequence of AMQP commands | `RabbitQueuesProofs` | notebooks |
| `DeliveryStatus` | nb16: tracking by chains of tasks | `NotebookProofs` | notebooks |
| `VectorMemory` | vector set with texts: MCP, nb18 | `NotebookProofs` | notebooks |
| `CacheAside` | nb08's cache, and `cache_get` | `NotebookProofs` | notebooks |
| `TokenBucket` | nb07: token bucket script | `NotebookProofs` | notebooks |
| `DelayedJobs` | nb10: sorted set and poller | `NotebookProofs` | notebooks |
| `Lifecycle` | startup, topic requests, lag task, shutdown | `KafkaProofs` | kafka |
| `KafkaTopic` | what the modules about topics share | | kafka |
| `TopicOffsets` | ends and committed offsets of a topic: abstract | | kafka |
| `KafkaLog` | producers, consumers, dead-letter topic (nb07) | `KafkaProofs` | kafka |
| `ConsumerLag` | the lag task's measurements | `KafkaProofs` | kafka |
| `ImagePipeline` | API, input queue, workers, Redis results, result queue | `ImageProofs` | images |
| `ImageFilters` | resize and filters | `ImageProofs` | images |
| `RetryChain` | nb07: dead-letter chain | | retry_chain |

`MCConcurrency`, `MCRedis`, `MCNotebooks`, `MCKafka` and `MCImages` each put several
modules side by side for TLC. Modules put together this way share no state: a
variable `part`, chosen by Init, says which of them runs while the others stay as
they begin, so one run checks each part on its own and not their product. A
liveness property of a part carries the part as its premise. `MCRabbitQueues`
and `MCRateLimiter` hold the constants of their violation runs. `SequenceLemmas`
holds what the proofs share: elements and order of sequences, least elements of
sets of naturals.

What interacts is composed inside a module: `ImagePipeline` composes the API's
publish, RabbitMQ, the workers and Redis; `Lifecycle` the three brokers' connects,
the topic routes and the lag task; `KafkaLog` producers, brokers and consumers;
`VectorMemory` the MCP server and the notebook on one vector set; `Benchmarks` the
routes and the MCP tool. `CircuitBreaker` implements `BreakerDiagram`. `KafkaLog`
implements `TopicOffsets`, and `ConsumerLag` is built on `TopicOffsets`, so what is
said of the lag task holds of any topic with such offsets.

A definition whose comment starts with "Mutant:" is a plausible bug of the
definition below it; no specification uses it, and it is there to show that a
property can fail.

### How state and actions correspond to the code

**CircuitBreaker.** Every `async with self._lock` block runs without a
suspending await, so a `call` is two actions: admission (`Reject`,
`AdmitClosed`, `AdmitProbe`) up to `await func`, and completion (`Succeed` with
`_on_success`, `Fail` with `_on_failure`, `Abandon` for a cancellation or a
nested `CircuitOpenError`). `age` is the time since the last failure, cut off
at the recovery timeout, where `state` no longer distinguishes values. `Mode`
is the `state` property. The branch of `_on_failure` for a stored `HALF_OPEN`
has no disjunct, because nothing stores it; TypeOK checks that. `probes` is a
history variable: the running calls that `halfOpenAttempts` counts.

**Backpressure.** asyncio is external, modelled as CPython 3.13 implements it:
a waiter is a future in a queue, waking it (`WakeWhileAny`, `WakeOne`) and
running its coroutine (`ResumeGranted`, `ResumeTimedOut`, `ResumeCancelled`)
are two steps, and a timer (`Expire`) or a cancellation (`Cancel`) may come
between them. The sets `In("waiting")`, `In("granted")`, `In("active")` are
where coroutines really are; `active` and `waiting` are what the code counts.

**Benchmarks.** A route finds the lock taken and answers 409, or takes it
without suspending (`Begin`); each benchmark then ends with a result
(`Measured`) or an exception (`Breaks`), and the answer releases the lock. The
MCP tool (`BeginTool`, `EndTool`) neither takes it nor adds a result.

**LeaseLock.** One action per Redis command: `SET NX EX`, `GET` and `SET` of the
counter, the release script. Each may fail, executed or not; `LeaseEnds` is
Redis deleting the expired key. `late`, `overran` and `written` are history.

**CompetingWorkers.** `Deliver` with a prefetch of one; `Finish` is the end of
`async with msg.process()` and the test of `max_msgs`; `Leave` closes the
iterator, which gives back what was delivered after the last ack. `Drop` is a
lost connection, `AckRaises` the ack that follows.

**OrderSaga** and **SagaOrchestrator.** An order saga is a sequence of requests
per step, then the request that saves the state; each is `Served`, `Refused` (no
step looks at the status) or `Raises`, executed or not. `Proceed` and `Raise`
follow `execute`: a step counts as executed between its last request and the
save. nb10's orchestrator is modelled at its own level: a step is one write
(`StepSucceeds`, `StepRaises`), a compensation may raise and the next goes on.

**RabbitQueues.** An operation is the sequence of AMQP commands it awaits
(`publish`, `setup_dlq`, `get_dlq_messages`, ...); a request (`InFlight`)
executes one command per action, so commands of different requests interleave
on the shared channel. A conflicting declare (`Refuse`) closes the channel, as
does `LoseConnection`; any subset of the other requests in flight fails with it.
`Expire` and `DeadLetter` are RabbitMQ's and its consumers' steps. `routed` and
`owed` are history variables: where a message was copied, and which queues were
bound when its publish began.

**RetryChain.** The wiring of queues and exchanges, one message, a consumer that
rejects it, and the queues' times to live.

**ImagePipeline.** `Advance` is processMessage step by step: unmarshal, the
encoder, the two Redis `Set`s with ignored errors, the reply, the ack. `Crash`
ends the process, `CloseChannel` only its channel: the goroutine goes on with
its delivery, the process stays and does not reconnect (main waits for a
signal). The broker takes unacked deliveries back in both cases. `form` is how
the request was written into the route's JSON: as `content` (one level too
deep, so its task id is lost), as `metadata`, or so that unmarshalling fails.

**ImageFilters.** An image is a function from points to colours of three eight-bit
levels. `resizeImage` and the filters follow the Go code's integer arithmetic
(`Byte` is `uint8`, `Wide` the sixteen bits of `RGBA()`); products with decimal
factors, floating point in the code, are exact fractions.

**RedisWork.** Redis executes a command atomically; a request is one action per
command that changes what it holds. A group read is `stream_read_group`, one
`AckEntry` per entry, `AnswerRead`; `ReadReplyLost` and `AckFails` are the
connection failing after or before the server executed the command. A pop is
`queue_pop` (which may block: `blocked` is the server's list of waiting
clients), then `AnswerPop` or `PopFails`, or `GiveUp`. `answered`, `dropped` and
`stranded` are history variables: what a 200 contained, what a failed request
had acknowledged or popped, what it left pending. The client is assumed not to
retry commands by itself.

**RateLimiter.** `Check` reads the clock, `Execute` is the MULTI/EXEC pipeline
at the server with the time read before, `Fail` a lost connection of which the
server may have executed the pipeline. `Live` is the key's expiry. The
application's and the server's clock are one clock; `MaxDelay` bounds how late a
pipeline is executed. **TokenBucket** is split the same way: `SendCheck` reads
the clock, `Evaluate` is the Lua script.

**BloomFilter.** An item stands for its two digests, `Positions` is the double
hashing; an add or a lookup is one MULTI/EXEC. `Shapes` are the sizes that
requests' capacity and error rate lead to.

**StockSale.** nb11's payment with the lock key and nb12's booking without it
(`withLock`), one action per request to the cache routes. The lock is a
`cache/set`, which overwrites: `Acquire` has no guard on `locked`.

**DeliveryStatus.** The cells of the notebook (`PublishOrder`, `Gathered`,
`Display`, `Cleanup`) beside the chain of tasks of each delivery (`TaskRequest`,
`TaskRaises`, `TaskWakes`); a unit of time is five seconds, and `TimePasses`
holds sleeps to their ends and requests to one unit.

**VectorMemory.** `StoreVector` and `StoreText` are the two commands of
`vector_store` and of nb18's index; a query searches, reads the text of its
match, or saves its own answer as text, then as vector. Similarity is "same
topic". `excused` is history: elements of which a store was cut short or
overlapped, or whose text expired.

**CacheAside.** `GetOrMiss`, `Fetch`, `Set` are `get_or_fetch`; `GetValue` and
`GetRemaining` the two commands of `cache_get`. `since` is history: when each
version of the data became current.

**DelayedJobs.** `Poll` is ZRANGEBYSCORE, `RemoveAndProcess` ZREM and the job,
`NextRound` the sleep; `Late` lets requests and sleeps take longer.

**Lifecycle.** `stage`, `at` and `step` are where `lifespan` is. `conn` says
how far a connect got: `from_url` and `AIOKafkaProducer(...)` are assigned before
the first await, `connect_robust` after it, so a failed connect leaves
"partial" or "none". `NeedsAdmin` is the test `if not self.admin`;
between it and the assignment in `connect_admin` nothing is awaited, so they
are one action. `DisconnectKafka` is one action: nothing else runs by then.
`Flip` is a server going down or coming back at any time.

**KafkaLog.** `BeginPublish`, `Write` (perhaps twice: the producer is not
idempotent), `AnswerPublish` and `PublishFails` are the three publish methods.
A consumer without auto-commit is nb07's (`Poll`, `Handle`, `DeadLetter`,
`Commit`), one with it is `subscribe` (`NextRecord`, `Handle`, `AutoCommit`);
`Raise` is an exception that ends the loop while the consumer object lives on,
`Restart` a process that ends anywhere. `abandoned` and `lost` are history.

**ConsumerLag.** `ReadCommitted` and `ReadEnds` are the two reads of a
measurement, `MeasureFails` an error of either; `target` walks
`MONITORED_GROUPS`, which `register_consumer_group` may extend at any time.

## 3. Findings

Seven runs expect a violation: each checks one statement made by a comment, a
docstring or a notebook of the repository that the code does not keep.

- `breaker_half_open_admits`: `half_open_limit` is documented as the number of
  concurrent half-open requests. Failed and cancelled attempts are never given
  back, because the branch that would do it tests a stored `HALF_OPEN` that
  never occurs. After that many failed attempts the breaker rejects every call
  until someone calls the reset route.
- `guard_idle_admits`: `max_waiting` is documented as the number of requests
  that may wait. Cancelled waits stay counted, so a guard nobody uses can
  answer everything with 503.
- `image_stored_status`: the record in Redis is marshalled before its `Status`
  is set, so it is neither "completed" nor "failed".
- `rabbit_setup_queue_accepts`: after `dlq/setup`, the direct publish that
  nb03 shows next is refused, since it declares the queue without the
  dead-letter arguments.
- `limiter_denied_for_admitted`: nb02 says a check beyond the limit is not
  recorded. It is, so a client that keeps trying keeps itself out.
- `gather_returns`: nb09 prints the total after its three workers have taken
  seven messages each, but publishes twenty; the gather never returns. The
  instance is smaller by the same shortage: three workers, two messages each,
  five published.
- `retry_chain`: nb07 announces a climb through three retry queues to a final
  one. The variable that names the next exchange is never used: a rejected
  message returns to the first retry queue for ever.

Met while modelling and described here only:

- A success of a call admitted before the trip closes an open breaker at once, an
  edge that the drawn diagrams lack (`BreakerDiagram!StaleSuccessOrReset` has it).
- An image request sent as `content` is processed under the empty task id, and
  nb17's polling reads a field that the answer of `cache/get` does not have, so it
  sees no completed image.
- A Kafka admin client whose start failed stays in `kafka_broker.admin`, and every
  later topic request fails on it. RabbitMQ is not connected again after a failed
  startup, although `lifespan.py` prints that it can be connected later.
- A job that was popped is lost when the rest of the request fails.
- A Bloom lookup with another capacity or error rate than the add can answer
  "certainly absent" for an item that is there.
- nb11's lock key excludes nobody, since `cache/set` overwrites it and answers
  200. Its line 399 promises that nothing is oversold; that is so because its
  payments run one after the other. With `AtOnce = 2` TLC finds an oversale.
- An inventory step of nb15 that runs out keeps the items it has taken before.
- nb16 prints that all deliveries are complete whether or not they are.
- nb10 describes ZREM as coming after processing (line 439); the code removes
  first. Its ZREM answer is not read, so two pollers could both run a job (only
  one is started). A fourth failure is to go to a DLQ (line 304); the code just
  returns. `SagaOrchestrator.completed` is never cleared, so a second `execute` on
  one object would compensate the first one's steps (the notebook makes a new
  object).
- In nb18 an answer's text expires after an hour and its vector does not: such a
  query is reported as a hit with the answer None, and is never inferred again.
- Overlapping `vector_store` calls on one element can leave the vector of one
  beside the text of the other.
- An invalidation during a fetch does not keep the old value from being stored
  after it.

## 4. What the runs check

Counts are TLC's distinct states. Deadlock is checked except in `images`.
`TypeOK` is the type invariant of the parts of a run.

### concurrency (105,581 states)

Breaker: 4 callers, threshold 2, timeout 2 ticks, limit 2. Both half-open attempts
can run beside two calls from before the trip, and two ticks separate "just
failed", "waiting" and "over". Guard: 4 requests, 2 slots, waiting limit 3. Two
waiters behind two slots are the smallest case in which a freed slot has a choice,
and the third place in the count lets cancelled waits accumulate. Benchmarks: 2
clients, 2 runs. Lock: 3 tasks, so that a late one meets two others. Workers: 2,
of 2 messages each. Order saga: 2 items of every initial stock, 3 faults.
Orchestrator: 4 steps.

- `ClosedIsFresh`: a closed breaker has failures left and all its attempts.
- `OpenShields`: the failures an open breaker still counts come from calls running
  at the trip and from attempts, the attempts are counted, and an open breaker is
  never shown closed.
- `ImplementsDiagram`: the breaker implements `BreakerDiagram`, liveness included.
- `GuardCounts`: no slot is lost or handed out twice, and the counters mean what
  they say, however waits end.
- `WaitersServed`: nobody overtakes in the guard's queue, and no slot stays free
  beside a waiter who is not about to get it. `WaitEnds`: every wait ends.
- `ComparisonIsOwn`: the comparison that `/all` returns is of this very run.
- `LeaseProtects`: a task inside owns the key until its own lease ends, and no
  update is lost while none ends inside.
- `SharedOut`: a message is neither lost nor worked on twice but for the
  connections that dropped with it.
- `SagasSettle`: after success every step has its effect, after failure what was
  done is undone, except at the very requests that failed.
- `TasksEnd`: every task of the lock ends, and every worker if there are enough
  messages.

### redis (814,926 states)

Work: 3 requests, 2 groups, 3 items, 2 entries per read; a batch of two and a rest
exist, and a read, a pop and another read overlap. Limiter: 3 checks, windows 3
and 4 with maxima 1 and 2, delay 1, clock up to 7, past two shortest windows and
the expiry of the key. Filter: 2 shapes and 3 items, two of them with a position
in common in each shape. Sale: 3 sales from a stock of 3, with and without the
lock, one or two pieces, 2 faults.

- `TakenIsAccounted`: an item has one fate per group, and what is pending is what
  running and failed requests left unacknowledged.
- `ServedInOrder`: a group passes over no entry, also when created late or after
  the stream was deleted; jobs leave in order, and the server never hands one to
  a pop that gave up.
- `WindowBound`: of the checks that read the clock within the shortest window less
  the delay, at most the largest maximum is allowed. Without the slack for the
  delay TLC finds a violation, so it is the bound the code really keeps.
- `DeniedForCause`: a denied check had `max_requests` recorded predecessors in its
  window.
- `NoFalseNegative`: an item is found with the parameters it was added with,
  whatever requests with others did to the same bits.
- `SalesMatchStock`: sales made one at a time never oversell, and the key holds
  what is left.

### notebooks (991,262 states)

Queues: 2 requests in flight, one queue name with its dead-letter queue, 2 topic
keys, one pattern, 2 messages; a conflict takes one request to cause and one to
suffer. Deliveries: 2, one failing request, 2 slow ones each. Vectors: 2 stores of
one element beside 2 queries on 2 topics. Cache: 2 readers, time to live 2,
latency 1, clock up to 5, one change of the data: an entry can expire, be replaced
and go stale. Bucket: 3 checks of one or two tokens, capacity 2, clock up to 4.
Jobs: 3, due at 2, 3 and 5, six rounds, 2 ticks late.

- `NothingLost`: a peek, cut short anywhere, loses no message.
- `AnswerIsTrue`: what a 200 says is so at the broker, with another request's
  conflict between any two commands.
- `DeadLettersHaveAHome`: a queue with a dead-letter exchange never exists before
  its dead-letter queue is bound.
- `ShownIsTrue`: the timelines that nb16 announces as complete are
  (`ShownIsComplete`); a vector that is found has the text it stands for
  (`FoundHasText`); a value from the cache was current within its time to live and
  the latency of its commands (`StaleAtMost`).
- `BucketBound`: a stretch of granted checks takes no more than a full bucket and
  what was refilled, also when checks overtake each other.
- `JobsOnTime`: jobs are executed once, in order, not before their time, and all
  of them when the poller returns; a lost reply loses one job at most.

### kafka (143,844 states)

Application: 3 topic requests, room for 2 admin clients, one more than the code
should create. Topic: 2 partitions, 2 records, one of which cannot be handled, one
resend, a consumer of either kind. Lag: 2 groups, 2 partitions of at most one
record; a second partition is needed for a group with offsets in some only.

- `NoClientLeft`: no admin client is lost to a second one, and a stopped
  application holds no Kafka client.
- `ApplicationServes`: whatever is down, the application starts to serve and stops
  when told to; once Kafka stays up, the lag task has a started client.
- `AtLeastOnce`: an answered record is on the topic; a record below a committed
  offset was handled, dead-lettered, in hand at an exception, or, with
  auto-commit, in the callback's hand.
- `ImplementsOffsets`: offsets seen from outside never go back or pass the end.
- `NotUnderstated`: a published lag is at least the distance at that time.
- `MeasuringSettles`: once Kafka stays up, the lag shown becomes and stays right.

### images (671,557 states)

Requests: 2 requests, 2 workers, prefetch 2, one redelivery of each request, which
suffices for two workers to process one request at once and for a prefetched one
to return unprocessed. Images: all images of 1x1, 2x2 and 3x2 pixels over four
colours (and the test image), resized to any of these and filtered twice; the
widest has a column away from the border. No deadlock check: all workers
may have lost their channels or been stopped, and a filtered image is an end.

- `NoRequestLost`, `DuplicatesAreRedeliveries`, `OneAtATime`: at-least-once
  delivery without further copies, whatever crashes between the Redis writes, the
  reply and the ack, and one worker at most that may still reply.
- `CompletedIsStored`: both keys exist before "completed" is announced, unless a
  write failed silently.
- `RequestsAnswered`: if some worker keeps its channel, every request is answered.
- `NoArtefacts`: resizing keeps gradients and shows every pixel when it enlarges;
  filters keep an image of one colour at one colour and let no level overflow.

The violation runs use the instance of their component, smaller where the
counterexample allows it.

### Fairness

- CircuitBreaker: only the clock (`Tick`). Callers and brokers owe nothing.
- Backpressure: a ready coroutine is run (`Resume`) and a due timer fires
  (`Expire`), which is what an event loop does; leaving the body is not assumed.
- LeaseLock: each task is scheduled and tries the lock again and again
  (`acquire`), its commands end with a result or an error (`Inside`), Redis deletes
  an expired key (`LeaseEnds`). Weak fairness is enough: when no one holds the key
  for good, a task that is passed over sees the others end.
- CompetingWorkers: RabbitMQ delivers to a worker with room, workers go on
  (`Deliver`, `Finish`, `Leave`, `AckRaises`). Connections need not drop.
- ImagePipeline: RabbitMQ delivers, a running goroutine goes on, docker-compose
  restarts a process that has ended. No fairness brings a closed channel back.
- Lifecycle: what `lifespan`, a request or the lag task awaits ends, with a
  result or an exception. Brokers need never come up, requests need never come,
  the server need never be told to stop.
- ConsumerLag: the task's calls and sleeps end (`Measuring`). Nobody has to
  produce, to consume or to keep Kafka up.
- All others have safety properties only and assume none.

### Symmetry

Only in `redis` (requests, groups) and `notebooks` (requests in flight), which
check no liveness property. Calls of the other parts bear the same names there
where they are interchangeable too.

### Bounds

What would otherwise grow is bounded by constants that appear as guards and stop
only the creation of further work, faults or time: `MaxRedeliveries`,
`MaxMessages`, `MaxItems`, `MaxRuns`, `MaxRecords`, `MaxEnd`, `MaxFilters`,
`LastVersion`, `MaxRejections` (work), `MaxAdmins` (clients), `MaxFaults`,
`MaxFaulty`, `MaxSlow`, `MaxResent`, `LateTicks`, `Latency` (faults and delays),
`MaxTime`, `LatestTick`, `LastTick` (clocks). At its bound the clock of the
limiter or the bucket stands still, which a self-loop of the run says.

## 5. What is proved

Every invariant of the passing runs, for every value of the constants, from the
assumptions the modules name, as are the offsets refinement and the action
properties `NotUnderstated` and `NoArtefacts`. An invariant is rarely inductive as
it stands. Each proof module defines, per part, one that is, and proves that the
initial states satisfy it, that each action preserves it (one lemma per action),
and that it implies the property.

The assumptions are finite sets of actors where they are counted, natural bounds,
positive limits, values such as `None` outside the sets they are none of, and
what a component's definition relies on:

- RateLimiter: no request has a shorter window or a larger maximum than the two
  constants of the bound.
- TokenBucket: a check asks for one token or more. BloomFilter: bits and hashes are
  naturals, `bit_size` is not zero.
- DelayedJobs: due times rise and are within the rounds, and a poll may return all
  jobs, as in the notebook, which registers few jobs and asks for all that are due.
- DeliveryStatus: deliveries are numbered, as the loops of the notebook go through
  them. RabbitQueues: patterns match sets of keys, counts are positive.
- ImageFilters: images have one pixel at least, channels are bytes.
- `SoldOneAtATime` has a premise besides, that sales are made one at a time, which
  the notebooks assume; a finding (section 3) shows what happens otherwise.

**ConcurrencyProofs.**
*CircuitBreaker*: `ClosedAlwaysFresh`, `OpenAlwaysShields`. The invariant is the
conjunction of the checked ones: the step that trips the breaker needs
`ClosedIsFresh` to start the budget of failures. Lemmas count the calls in flight
as one starts or ends. `RefinesDiagram`: the initial state is the diagram's and
every step one of its steps or a stutter.
*Backpressure*: `CountsAlwaysTrue`; its three parts keep each other in range, and
only waiting or granted requests can be interrupted. `AlwaysServed` adds `QueueInv`:
the queue holds the suspended requests once each, grants form no gap before a
pending one, and a slot is free beside a pending one only if a coroutine will run
that passes it on.
*Benchmarks*: `ComparisonAlwaysOwn` needs that one request is past the lock, that it
is the last let in, and that each kind is to be run, failed or measured by it.
*LeaseLock*: `LockProtects`, from which tasks are where with which values, `KeyIsMine`,
and `NothingStale`: until a lease ends inside, the task that has read the counter
has read its current value.
*CompetingWorkers*: `AlwaysSharedOut`: a message is in one place (`OnePlace`), and
those who have taken it are counted by its drops and its place (`TakenTwice`).
*SagaOrchestrator*: `StepsSettleAlways`: the completed steps are the first ones,
settled from the last down.
*OrderSaga*: `StatusAlwaysTrue`: `SagaInv` says of each step none of whose requests
failed what its services are, at each request of its execution (`Doing`) and
compensation (`Undoing`). `StockBounded` bounds a stock by one piece more than the
assumed one, which a compensation gives back to a missing key.

**RedisWorkProofs.** `TakenOnce` and `ServedOldestFirst` follow from one invariant:
an item has one fate at a place (`OneFate`), a group has passed exactly the entries
with a fate in it (`DeliveredInOrder`), all that popped is older than all that
waits (`PoppedInOrder`), waiting clients mean an empty list, and what is pending is
in a hand or stranded (`PendingKnown`).

**RedisProofs.**
*RateLimiter*: `WindowAlwaysBounded`, `DeniedAlwaysForCause`. That an allowed check is
still counted by the next one needs `LimiterTimesRead` (a check in flight is at most
`MaxDelay` old), `ExpiryCovers` (the key outlives the shortest window of every
member) and `ForgottenIsOld` (what any request removed has left the shortest
window).
*BloomFilter*: `FoundOnceAdded`: the bits of what is added stay set.
*StockSale*: `SoldOneAtATime`: with one sale in progress (`SaleAlone`) and none begun
after one raised (`NoneAfterRaised`), the stock a sale has read is the stock there is
(`SaleFresh`).

**RabbitQueuesProofs.** `NothingIsLost`, `AnswersAreTrue`, `DeadLettersArrive`. The
invariant is about the commands that handlers have yet to send: what each needs has
been declared or bound, or comes earlier in its plan (`PlansOK`); a message is in one
plan (`OneWriter`); what an answer will report is so or still to be done
(`PromisesOK`). Since a conflict removes a plan and never reorders one, any two
requests may interleave.

**NotebookProofs.**
*TokenBucket*: `BucketAlwaysBounded` needs the bound between a granted check and the
bucket as it is now (`TakenSince`).
*VectorMemory*: `FoundIsReadable`: an element without an excuse has one store between
its two commands (`StoredByOne`), a query sets its text before its vector
(`TextFirst`).
*CacheAside*: `StaleNoLonger`: the age of what is in hand and under the key (`Recent`)
and of what was served (`ServedRecent`).
*DelayedJobs*: `JobsAlwaysOnTime`: what the poller holds are the next jobs in order,
and all that were due a round ago.
*DeliveryStatus*: `AlwaysComplete`, from five facts about each delivery. `OnTime` says how
far a chain of tasks can be behind the notebook's sleep of 35 seconds, by status and
by slow requests; `KnownLine` and `Displayed` say which timeline that leaves.
`AlwaysTrue` is `ShownIsTrue` of the run.

**KafkaProofs.**
*Lifecycle*: `NoClientLeftBehind`: Kafka is the last to be connected and the first to be
disconnected, when no request is left that could create a client (`Closing`).
*KafkaLog*: `DeliversAtLeastOnce`: what lies between the committed offset and the
position is in hand or settled (`CommitsLate`), every record fetched is accounted
for (`Accounted`), what was sent is written (`SentWritten`), and offsets are in order
(`Between`). `RefinesOffsets` follows from the same invariant: every step is one of
`TopicOffsets` or a stutter, so that what *ConsumerLag*'s `NeverUnderstated` assumes of
a topic is what `KafkaLog` does. There, the offsets read are at most those committed
since (`ReadBehind`).

**ImageProofs.**
*ImagePipeline*: `LosesNoRequest`, `AnswersOncePerDelivery`, `RepliesOneAtATime`,
`StoresWhatIsCompleted`: there is one copy of a request (`OneCopy`), a goroutine with an
open channel works on the first delivery of it (`WorksOnHead`), answers are counted
by redeliveries (`AnswersCounted`), and what has been written by the step a goroutine
is at still is there (`WritesKept`).
*ImageFilters*: `NoArtefactsShown`, for images of every size and all levels. Along
one side the shown point is `(x * from) \div to`, which rises, meets every point when
enlarging and none twice when reducing (`ShownRises`, `ShowsAll`, `ShowsNoneTwice`). A mean is
between 0 and 255 over the 4, 6 or 9 pixels there are, or fewer in narrow images, and
the mean of a window rises along rising columns whether or not its first or last
column is outside (`WindowRises`): taken for columns and for rows, blurring reverses
no gradient. The proofs are about exact arithmetic, as the module is.

**Types of the compositions.** `ConcurrencyTypes`, `RedisTypes`, `NotebookTypes`,
`KafkaTypes` and `ImageTypes` state `TypeOK` of each run. A lemma `PartsOf...` shows that a
step of the composition is a step or a stutter of each part, so that what is proved
of a part holds beside the others.

Only model-checked: liveness (`WaitEnds`, `TasksEnd`, `ApplicationServes`,
`MeasuringSettles`, `RequestsAnswered`, and `ImplementsDiagram`, whose fairness is liveness
of the breaker) and ENABLED, which the prover cannot handle; the violation runs,
whose counterexamples TLC finds; and that the models are what the code does, which
no tool shows.

## 6. What is not modelled

- The health report: it would read Lifecycle's state, in which Redis and Kafka
  count as connected after a failed start; nothing in it changes state.
- Schemas and configuration: declarations; their bounds are used as such.
- The other MCP tools, time series and Pub/Sub: each forwards one command.
- Percentiles of `Stopwatch`, Prometheus counters, logs (the breaker's and the
  lag monitor's gauges are in).
- Order and priority of messages within a RabbitMQ queue: the models use sets.
- The one-hour TTL of image results, the worker's health endpoint, its encoding
  to JPEG or PNG, translucent pixels, and unknown filter names, which are skipped.
- Floating point: ImageFilters and the token bucket compute with exact numbers;
  the image properties do not depend on the last bit, TokenBucket counts whole
  tokens and ticks.
- Reads of Redis that change nothing, keys of streams and queues overwritten
  through `kv_set` or `cache_set`, windows of no length.
- nb10's RabbitMQ TTL queues, Kafka delay and choreographed saga; nb02-nb06, nb13,
  nb14, nb17 and nb19-nb21: demonstrations that run one request after the other,
  measurements and plots. Much of what is counted as lines of a notebook is prose,
  plotting and recorded output, which is why a model of all its behaviour still
  covers a small share of it.
- Mock data, infrastructure files and tests: read for what they say of the
  program. Nothing in the application calls RabbitMQ's `subscribe`.

Worth doing next: an abstract at-least-once queue that both ImagePipeline and
CompetingWorkers implement, with the refinement proved from their invariants; the
saga's promise (all steps, or none but the shaky ones) as an abstract module of
OrderSaga and SagaOrchestrator.
