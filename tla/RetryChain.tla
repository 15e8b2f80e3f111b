----------------------------- MODULE RetryChain -----------------------------
(***************************************************************************)
(* The dead-letter chain of notebook 07, section 2-2                       *)
(* (notebooks/07_advanced_patterns.ipynb): a main queue, retry queues whose *)
(* messages expire, and a final queue, wired together by exchanges.  One   *)
(* message and a consumer that rejects it.                                 *)
(***************************************************************************)
EXTENDS Naturals

CONSTANTS
    Levels,         \* retry queues
    MaxRejections   \* bound: rejections of the message

Main == <<"adv-main-processing">>
Retry(n) == <<"adv-retry", n>>
RetryQueues == {Retry(n) : n \in 1 .. Levels}
Consumer == <<"consumer">>

VARIABLES
    place,      \* the queue the message is in, or Consumer
    rejections  \* how often it has been rejected

chainVars == <<place, rejections>>

\* The queue bound to the x-dead-letter-exchange of a queue: the main queue's
\* is the exchange of the first retry queue, every retry queue's is that of
\* the main queue.  The third element of an entry of retry_configs,
\* next_dlx_name, is unpacked and used nowhere, and so is the final exchange.
DeadLetterQueue(queue) == IF queue = Main THEN Retry(1) ELSE Main

Init ==
    /\ place = Main     \* published to main_ex
    /\ rejections = 0

\* main_q.get, and nack(requeue=False): the message is dead-lettered.
Receive ==
    /\ place = Main
    /\ place' = Consumer
    /\ UNCHANGED rejections

RejectMessage ==
    /\ place = Consumer
    /\ rejections < MaxRejections
    /\ rejections' = rejections + 1
    /\ place' = DeadLetterQueue(Main)

\* x-message-ttl of a retry queue.
TimeToLive ==
    /\ place \in RetryQueues
    /\ place' = DeadLetterQueue(place)
    /\ UNCHANGED rejections

Next == Receive \/ RejectMessage \/ TimeToLive

Spec == Init /\ [][Next]_chainVars

-----------------------------------------------------------------------------
(* What the notebook says and the code does not do. *)

(* After its n-th rejection a message waits in the n-th retry queue, and
   after more rejections than there are retry queues it is in the final
   queue ("retry-1(1s) -> retry-2(5s) -> retry-3(30s) -> final-dlq", lines
   625, 680 and 729).  It goes round the first one for ever. *)
ClimbsTheChain ==
    \A n \in 1 .. Levels : place = Retry(n) => rejections = n

=============================================================================
