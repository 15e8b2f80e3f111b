---------------------------- MODULE Backpressure ----------------------------
(***************************************************************************)
(* app/resilience/backpressure.py: one BackpressureGuard used with         *)
(* `async with` by the requests of one event loop.                         *)
(*                                                                         *)
(* The slots are an asyncio.Semaphore and the wait is asyncio.wait_for     *)
(* (both external, Python 3.13 as pyproject.toml requires).  A waiter is a *)
(* future in the semaphore's queue.  Waking it and running its coroutine   *)
(* are two steps of the loop, so between them its timer may expire or its  *)
(* task may be cancelled, and new requests may arrive.                     *)
(***************************************************************************)
EXTENDS Integers, Sequences, FiniteSets, SequencesExt

CONSTANTS
    Requests,       \* requests that may use the guard at one time
    MaxConcurrent,  \* max_concurrent
    MaxWaiting      \* max_waiting

ASSUME RequestsAssumption == IsFiniteSet(Requests)
ASSUME ConcurrentAssumption == MaxConcurrent \in Nat \ {0}
ASSUME WaitingAssumption == MaxWaiting \in Nat \ {0}

VARIABLES
    value,      \* _semaphore._value
    waiters,    \* _semaphore._waiters, oldest first
    active,     \* _active
    waiting,    \* _waiting
    pc,         \* per request: where its coroutine is
    interrupt   \* per request: what will be thrown into it when it resumes

guardVars == <<value, waiters, active, waiting, pc, interrupt>>

(* "waiting": suspended on its future; "granted": the future has a result but
   the coroutine has not resumed; "active": inside the `async with` body. *)
Phases == {"idle", "waiting", "granted", "active"}

In(phase) == {r \in Requests : pc[r] = phase}

(* Waiters whose future is not done: those _wake_up_next may choose. *)
Pending == {r \in In("waiting") : interrupt[r] = "none"}

GuardInit ==
    /\ value = MaxConcurrent
    /\ waiters = <<>>
    /\ active = 0
    /\ waiting = 0
    /\ pc = [r \in Requests |-> "idle"]
    /\ interrupt = [r \in Requests |-> "none"]

-----------------------------------------------------------------------------
(* asyncio.Semaphore. *)

(* locked(): no value left, or a waiter whose future is not cancelled.  A
   future is cancelled when its timer or its task's cancel() found it
   pending; a granted one is not. *)
Locked ==
    \/ value = 0
    \/ \E r \in Requests : r \in Pending \/ pc[r] = "granted"

(* Mutant: any n pending waiters. *)
AnyPending(n) == {W \in SUBSET Pending : Cardinality(W) = n}

(* The first n pending waiters, in the queue's order. *)
Oldest(n) ==
    {W \in SUBSET Pending :
        /\ Cardinality(W) = n
        /\ \A i, j \in 1..Len(waiters) :
              i < j /\ waiters[j] \in W => waiters[i] \notin Pending \ W}

Least(m, n) == IF m < n THEN m ELSE n

(* Mutant: a resumed waiter does not pass further slots on. *)
WakeNone(r, next, v) ==
    /\ pc' = [pc EXCEPT ![r] = next]
    /\ value' = v

(* r moves to phase `next` with v slots in hand, of which each pending waiter
   gets one while they last (the loop in acquire's `finally`). *)
WakeWhileAny(r, next, v) ==
    \E W \in Oldest(Least(v, Cardinality(Pending))) :
        /\ pc' = [q \in Requests |->
                    IF q = r THEN next ELSE IF q \in W THEN "granted" ELSE pc[q]]
        /\ value' = v - Cardinality(W)

(* As above for release(), which wakes one waiter at most. *)
WakeOne(r, next, v) ==
    \E W \in Oldest(Least(1, Cardinality(Pending))) :
        /\ pc' = [q \in Requests |->
                    IF q = r THEN next ELSE IF q \in W THEN "granted" ELSE pc[q]]
        /\ value' = v - Cardinality(W)

-----------------------------------------------------------------------------
(* __aenter__ *)

(* Mutant: one waiter too many. *)
Overloaded == waiting >= MaxWaiting

(* 503 "backpressure": nothing is counted. *)
RejectAtOnce(r) ==
    /\ pc[r] = "idle"
    /\ Overloaded
    /\ UNCHANGED guardVars

(* A free slot: acquire() returns without yielding, so `waiting` goes up and
   down in the same step. *)
EnterAtOnce(r) ==
    /\ pc[r] = "idle"
    /\ ~Overloaded /\ ~Locked
    /\ value' = value - 1
    /\ active' = active + 1
    /\ pc' = [pc EXCEPT ![r] = "active"]
    /\ UNCHANGED <<waiters, waiting, interrupt>>

EnterQueue(r) ==
    /\ pc[r] = "idle"
    /\ ~Overloaded /\ Locked
    /\ waiting' = waiting + 1
    /\ waiters' = Append(waiters, r)
    /\ pc' = [pc EXCEPT ![r] = "waiting"]
    /\ UNCHANGED <<value, active, interrupt>>

(* Mutant: the wait has no timer. *)
NoExpiry(r) == FALSE /\ UNCHANGED guardVars

(* wait_for's timer fires: its task.cancel() cancels a pending future; a
   coroutine already granted gets the exception when it resumes. *)
Expire(r) ==
    /\ pc[r] \in {"waiting", "granted"}
    /\ interrupt[r] = "none"
    /\ interrupt' = [interrupt EXCEPT ![r] = "timeout"]
    /\ UNCHANGED <<value, waiters, active, waiting, pc>>

(* The request's own task is cancelled (client gone, server stopping): this
   wins over a timer that also fired, because wait_for then re-raises. *)
Cancel(r) ==
    /\ pc[r] \in {"waiting", "granted"}
    /\ interrupt[r] # "cancel"
    /\ interrupt' = [interrupt EXCEPT ![r] = "cancel"]
    /\ UNCHANGED <<value, waiters, active, waiting, pc>>

LeaveQueue(r) ==
    /\ waiters' = RemoveAt(waiters, CHOOSE i \in DOMAIN waiters : waiters[i] = r)
    /\ interrupt' = [interrupt EXCEPT ![r] = "none"]

(* Mutant: the slot is taken without being counted as active. *)
(* The slot arrived in time. *)
ResumeGranted(r) ==
    /\ pc[r] = "granted" /\ interrupt[r] = "none"
    /\ LeaveQueue(r)
    /\ WakeWhileAny(r, "active", value)
    /\ waiting' = waiting - 1
    /\ active' = active + 1

(* Mutant: a slot granted to an interrupted waiter is lost. *)
SlotsInHandLost(r) == value

(* acquire() gives back a slot it was granted before the interruption. *)
SlotsInHand(r) == IF pc[r] = "granted" THEN value + 1 ELSE value

(* Mutant: `finally` takes the request out of the count as well. *)
(* 503 "backpressure_timeout". *)
ResumeTimedOut(r) ==
    /\ interrupt[r] = "timeout"
    /\ LeaveQueue(r)
    /\ WakeWhileAny(r, "idle", SlotsInHand(r))
    /\ waiting' = waiting - 1
    /\ UNCHANGED active

(* CancelledError is not the TimeoutError that is caught, and `finally` only
   observes a metric: _waiting keeps counting this request for ever. *)
ResumeCancelled(r) ==
    /\ interrupt[r] = "cancel"
    /\ LeaveQueue(r)
    /\ WakeWhileAny(r, "idle", SlotsInHand(r))
    /\ UNCHANGED <<active, waiting>>

-----------------------------------------------------------------------------
(* __aexit__, however the body ended. *)
Exit(r) ==
    /\ pc[r] = "active"
    /\ WakeOne(r, "idle", value + 1)
    /\ active' = active - 1
    /\ UNCHANGED <<waiters, waiting, interrupt>>

-----------------------------------------------------------------------------

Resume(r) == ResumeGranted(r) \/ ResumeTimedOut(r) \/ ResumeCancelled(r)

GuardNext ==
    \E r \in Requests :
        \/ RejectAtOnce(r) \/ EnterAtOnce(r) \/ EnterQueue(r)
        \/ Expire(r) \/ Cancel(r)
        \/ ResumeGranted(r) \/ ResumeTimedOut(r) \/ ResumeCancelled(r)
        \/ Exit(r)

(* The event loop runs every coroutine that is ready and every timer that is
   due.  A request may stay in its body for ever. *)
GuardFairness ==
    \A r \in Requests : WF_guardVars(Resume(r)) /\ WF_guardVars(Expire(r))

GuardSpec == GuardInit /\ [][GuardNext]_guardVars /\ GuardFairness

-----------------------------------------------------------------------------
(* Properties. *)

GuardTypeOK ==
    /\ value \in 0..MaxConcurrent
    /\ waiters \in Seq(Requests)
    /\ active \in 0..MaxConcurrent
    /\ waiting \in 0..MaxWaiting
    /\ pc \in [Requests -> Phases]
    /\ interrupt \in [Requests -> {"none", "timeout", "cancel"}]

(* However a wait ends (granted, timed out, cancelled, or interrupted after
   the grant), its slot is neither lost nor handed out twice. *)
SlotsConserved ==
    value + Cardinality(In("granted")) + Cardinality(In("active")) = MaxConcurrent

(* The `active` that /resilience/backpressure reports is the number of
   requests in their body, whatever order they were interrupted in. *)
ActiveExact == active = Cardinality(In("active"))

(* `waiting` never reports fewer requests than really wait, so the limit
   max_waiting is never exceeded by real waiters. *)
WaitingCovers ==
    Cardinality(In("waiting")) + Cardinality(In("granted")) <= waiting

(* What the semaphore and the two counters say of the requests is true. *)
GuardCounts == SlotsConserved /\ ActiveExact /\ WaitingCovers

(* The queue holds exactly the suspended requests, once each, and a slot
   never goes to a later waiter while an earlier one is pending. *)
FirstComeFirstServed ==
    /\ Len(waiters) = Cardinality(In("waiting") \union In("granted"))
    /\ \A i, j \in 1..Len(waiters) :
          i < j /\ pc[waiters[j]] = "granted" => waiters[i] \notin Pending

(* A pending waiter beside a free slot is not forgotten: a coroutine that
   already left its future will run and hand the slot on. *)
NoLostWakeup ==
    value > 0 /\ Pending # {} =>
        \E r \in Requests : pc[r] = "granted" \/ interrupt[r] # "none"

(* The waiters of the guard are served: in their order, and whenever there is
   a slot, however grants, timers, cancellations and releases meet. *)
WaitersServed == FirstComeFirstServed /\ NoLostWakeup

(* Whatever the active requests do, a request that waits is let in or
   answered 503 (or its own cancellation). *)
WaitEnds == \A r \in Requests : pc[r] = "waiting" ~> pc[r] \in {"active", "idle"}

-----------------------------------------------------------------------------
(* What the documentation says and the code does not do. *)

(* max_waiting is documented as the number of requests allowed to wait for a
   slot, beyond which requests get a 503 at once: a guard nobody uses admits
   a request. Cancelled waiters stay counted, so it can refuse for ever. *)
IdleGuardAdmits == In("idle") = Requests => ~Overloaded

=============================================================================
