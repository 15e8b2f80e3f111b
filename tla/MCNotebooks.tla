---------------------------- MODULE MCNotebooks ----------------------------
(***************************************************************************)
(* The RabbitMQ broker behind its routes, and what notebooks build beside  *)
(* the brokers, on small instances.  They share no state, so each is run   *)
(* on its own: `part` says which.                                          *)
(*                                                                         *)
(* queues: two requests in flight on one queue name and its dead-letter    *)
(* queue, enough for a conflict to close the channel under a peek, a setup *)
(* or a publish that another request is in the middle of.                  *)
(* deliveries: two of them, one of whose requests may fail, and two of     *)
(* whose requests may be slow.                                             *)
(* vectors: two stores of one element beside two queries on two topics.    *)
(* cache: two readers, an entry that can expire, be replaced and go stale. *)
(* bucket: three checks of a bucket of two tokens that can overtake each   *)
(* other.                                                                  *)
(* jobs: three of them and a poller of six rounds, two ticks late at most. *)
(***************************************************************************)
EXTENDS MCRabbitQueues, DeliveryStatus, VectorMemory, CacheAside, TokenBucket,
        DelayedJobs, TLC

\* Ticks after `now`.
MCDue == <<2, 3, 5>>

VARIABLE part

vars == <<part, rabbitVars, deliveryVars, memoryVars, cacheVars, bucketVars,
          jobVars>>

Init ==
    /\ part \in {"queues", "deliveries", "vectors", "cache", "bucket", "jobs"}
    /\ RabbitInit /\ DeliveryInit /\ MemoryInit /\ CacheInit /\ BucketInit
    /\ JobsInit

OthersStay ==
    /\ UNCHANGED part
    /\ part # "queues" => UNCHANGED rabbitVars
    /\ part # "deliveries" => UNCHANGED deliveryVars
    /\ part # "vectors" => UNCHANGED memoryVars
    /\ part # "cache" => UNCHANGED cacheVars
    /\ part # "bucket" => UNCHANGED bucketVars
    /\ part # "jobs" => UNCHANGED jobVars

QueueStep == part = "queues" /\ RabbitNext /\ OthersStay
DeliveryStep == part = "deliveries" /\ DeliveryNext /\ OthersStay
VectorStep == part = "vectors" /\ MemoryNext /\ OthersStay
CacheStep == part = "cache" /\ CacheNext /\ OthersStay
BucketStep == part = "bucket" /\ BucketNext /\ OthersStay
JobsStep == part = "jobs" /\ JobsNext /\ OthersStay

\* At its bound the clock of the bucket stands still; the poller of the jobs
\* stops, or is stopped.
Stopped ==
    /\ \/ part = "bucket" /\ ticks = LatestTick
       \/ part = "jobs" /\ cell.at \in {"returned", "raised"}
    /\ UNCHANGED vars

Next ==
    \/ QueueStep \/ DeliveryStep \/ VectorStep \/ CacheStep \/ BucketStep
    \/ JobsStep \/ Stopped

Spec == Init /\ [][Next]_vars

(* Types of all parts. *)
TypeOK ==
    /\ RabbitTypeOK /\ DeliveryTypeOK /\ MemoryTypeOK /\ CacheTypeOK /\ BucketTypeOK
    /\ JobsTypeOK

(* What a notebook is shown is true: the timelines are complete, a vector    *)
(* that is found has the text it stands for, and a value from the cache has  *)
(* been current within its time to live and the latencies of its commands.   *)
ShownIsTrue == ShownIsComplete /\ FoundHasText /\ StaleAtMost

(* Requests are interchangeable (the calls of the memory and the readers of  *)
(* the cache have their names), and no property is a liveness property.      *)
Symmetry == Permutations(InFlight)

=============================================================================
