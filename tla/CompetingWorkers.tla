-------------------------- MODULE CompetingWorkers --------------------------
(***************************************************************************)
(* Competing consumers: notebook 09 fills a queue and gathers workers that *)
(* share it, each with a connection of its own and a prefetch of one       *)
(* (notebooks/09_concurrency_and_distribution.ipynb, section 3).  A worker *)
(* ends after max_msgs messages; leaving its iterator cancels the consumer *)
(* and gives back what was delivered meanwhile.                            *)
(*                                                                         *)
(* A connection can drop while its worker processes a message: RabbitMQ    *)
(* requeues the message, and the acknowledgement that follows raises.      *)
(***************************************************************************)
EXTENDS Naturals, FiniteSets

CONSTANTS
    Workers,
    Messages,       \* published before the workers start
    MaxMsgs         \* max_msgs of every worker

ASSUME WorkersAssumption == IsFiniteSet(Workers)

VARIABLES
    ready,      \* the messages in the queue
    held,       \* [Workers -> the messages delivered to it, not acked]
    stage,      \* [Workers -> where it is in worker()]
    taken,      \* [Workers -> processed, its list of messages]
    acked,      \* the messages acknowledged
    drops       \* [Messages -> how often a connection dropped with it]

workVars == <<ready, held, stage, taken, acked, drops>>

WorkersInit ==
    /\ ready = Messages
    /\ held = [w \in Workers |-> {}]
    /\ stage = [w \in Workers |-> "waiting"]
    /\ taken = [w \in Workers |-> {}]
    /\ acked = {}
    /\ drops = [m \in Messages |-> 0]

\* prefetch_count=1: nothing is delivered beside an unacked message.
HasRoom(w) == stage[w] \in {"waiting", "leaving"} /\ held[w] = {}

\* The queue delivers to a subscribed worker.  One that waits in `async for`
\* appends the message to its list and begins with it; one that has left the
\* loop never sees it.
Deliver(w) ==
    /\ HasRoom(w)
    /\ \E m \in ready :
          /\ ready' = ready \ {m}
          /\ held' = [held EXCEPT ![w] = @ \cup {m}]
          /\ IF stage[w] = "waiting"
             THEN /\ taken' = [taken EXCEPT ![w] = @ \cup {m}]
                  /\ stage' = [stage EXCEPT ![w] = "processing"]
             ELSE UNCHANGED <<taken, stage>>
    /\ UNCHANGED <<acked, drops>>

\* The end of `async with msg.process()`: the ack, then perhaps `break`.
Finish(w) ==
    /\ stage[w] = "processing" /\ held[w] # {}
    /\ acked' = acked \cup held[w]
    /\ held' = [held EXCEPT ![w] = {}]
    /\ stage' = [stage EXCEPT ![w] =
                    IF Cardinality(taken[w]) >= MaxMsgs
                    THEN "leaving" ELSE "waiting"]
    /\ UNCHANGED <<ready, taken, drops>>

\* Mutant: what was delivered after the last ack is forgotten.
LeaveWithIt(w) ==
    /\ stage[w] = "leaving"
    /\ held' = [held EXCEPT ![w] = {}]
    /\ stage' = [stage EXCEPT ![w] = "done"]
    /\ UNCHANGED <<ready, taken, acked, drops>>

\* The iterator is closed (basic.cancel; a message it did not hand out is
\* nacked with requeue), then the connection.
Leave(w) ==
    /\ stage[w] = "leaving"
    /\ ready' = ready \cup held[w]
    /\ held' = [held EXCEPT ![w] = {}]
    /\ stage' = [stage EXCEPT ![w] = "done"]
    /\ UNCHANGED <<taken, acked, drops>>

\* The connection drops under a worker that processes.
Drop(w) ==
    /\ stage[w] = "processing" /\ held[w] # {}
    /\ ready' = ready \cup held[w]
    /\ drops' = [m \in Messages |->
                    IF m \in held[w] THEN drops[m] + 1 ELSE drops[m]]
    /\ held' = [held EXCEPT ![w] = {}]
    /\ UNCHANGED <<stage, taken, acked>>

\* The ack on the closed channel raises, and gather with it.
AckRaises(w) ==
    /\ stage[w] = "processing" /\ held[w] = {}
    /\ stage' = [stage EXCEPT ![w] = "failed"]
    /\ UNCHANGED <<ready, held, taken, acked, drops>>

Over == \A w \in Workers : stage[w] \in {"done", "failed"}

\* All workers have ended.
Gathered == Over /\ UNCHANGED workVars

Step(w) ==
    \/ Deliver(w) \/ Finish(w) \/ Leave(w)
    \/ Drop(w) \/ AckRaises(w)

WorkersNext == Gathered \/ \E w \in Workers : Step(w)

\* The queue delivers while a worker has room, and workers go on.
WorkersFairness ==
    \A w \in Workers :
        /\ WF_workVars(Deliver(w))
        /\ WF_workVars(Finish(w))
        /\ WF_workVars(Leave(w))
        /\ WF_workVars(AckRaises(w))

WorkersSpec == WorkersInit /\ [][WorkersNext]_workVars /\ WorkersFairness

-----------------------------------------------------------------------------
(* Properties *)

WorkersTypeOK ==
    /\ ready \subseteq Messages /\ acked \subseteq Messages
    /\ \A w \in Workers : held[w] \cup taken[w] \subseteq Messages
    /\ \A w \in Workers : Cardinality(held[w]) <= 1
    /\ stage \in [Workers -> {"waiting", "processing", "leaving", "done",
                              "failed"}]
    /\ drops \in [Messages -> 0 .. Cardinality(Workers)]

(* No message is lost between the queue and the workers, and none is worked
   on twice unless the connection of the first worker dropped with it: the
   one delivered to a worker on its way out is given back unseen. *)
SharedOut ==
    /\ \A m \in Messages \ acked :
          m \in ready \/ \E w \in Workers : m \in held[w]
    /\ \A m \in Messages :
          Cardinality({w \in Workers : m \in taken[w]}) <= 1 + drops[m]

(* With enough messages for all of them every worker ends, though another
   fails or holds a message back on its way out. *)
WorkersEnd ==
    Cardinality(Messages) >= Cardinality(Workers) * MaxMsgs =>
        \A w \in Workers : <>(stage[w] \in {"done", "failed"})

-----------------------------------------------------------------------------
(* What the notebook says and the code does not do. *)

(* After the gather the notebook prints how many messages were processed
   ("총 처리: ...개 (중복 없이 분산됨)", line 460): the gather returns.  It
   publishes 20 messages for three workers that wait for seven each. *)
GatherReturns == <>Over

=============================================================================
