--------------------------- MODULE CircuitBreaker ---------------------------
(***************************************************************************)
(* app/resilience/circuit_breaker.py: one CircuitBreaker shared by the     *)
(* coroutines of one event loop, and the reset route of                    *)
(* app/api/resilience_routes.py.                                           *)
(*                                                                         *)
(* `call` suspends only at `await func(...)`: no body of `async with       *)
(* self._lock` awaits, so the lock is never contended and acquiring it     *)
(* does not yield.  A call is therefore two atomic steps, admission        *)
(* (Reject or Admit) and completion (Succeed, Fail or Abandon), and any    *)
(* steps of other calls, the clock and the reset route run between them.   *)
(***************************************************************************)
EXTENDS Integers, FiniteSets

CONSTANTS
    Callers,           \* coroutines that may be inside `call` at one time
    FailureThreshold,  \* failure_threshold
    RecoveryTimeout,   \* recovery_timeout, in ticks of the model's clock
    HalfOpenLimit      \* half_open_limit

ASSUME CallersAssumption == IsFiniteSet(Callers)
ASSUME ThresholdAssumption == FailureThreshold \in Nat \ {0}
ASSUME TimeoutAssumption == RecoveryTimeout \in Nat \ {0}
ASSUME LimitAssumption == HalfOpenLimit \in Nat \ {0}

VARIABLES
    state,             \* _state as stored; HALF_OPEN is only ever computed
    failureCount,      \* _failure_count
    halfOpenAttempts,  \* _half_open_attempts
    age,               \* time.time() - _last_failure_time, capped at RecoveryTimeout
    gauge,             \* the Prometheus gauge circuit_breaker_state
    call,              \* per caller: "idle", or the current_state it was admitted under
    probes             \* history: running calls counted in halfOpenAttempts

breakerVars == <<state, failureCount, halfOpenAttempts, age, gauge, call, probes>>

Gauge == [closed |-> 0, half_open |-> 1, open |-> 2]

InFlight == {c \in Callers : call[c] # "idle"}

(* The `state` property: an open breaker whose timeout elapsed reports
   half-open, but nothing is stored. *)
Mode == IF state = "open" /\ age >= RecoveryTimeout THEN "half_open" ELSE state

BreakerInit ==
    /\ state = "closed"
    /\ failureCount = 0
    /\ halfOpenAttempts = 0
    /\ age = RecoveryTimeout        \* _last_failure_time = 0.0, the epoch
    /\ gauge = Gauge["closed"]
    /\ call = [c \in Callers |-> "idle"]
    /\ probes = {}

-----------------------------------------------------------------------------
(* Admission: from the start of `call` to `await func`. *)

(* Mutant: one attempt too many. *)
ProbesExhaustedLate == halfOpenAttempts > HalfOpenLimit

ProbesExhausted == halfOpenAttempts >= HalfOpenLimit

(* CircuitOpenError raised to the caller; only a rejection counter moves. *)
Reject(c) ==
    /\ call[c] = "idle"
    /\ \/ Mode = "open"
       \/ Mode = "half_open" /\ ProbesExhausted
    /\ UNCHANGED breakerVars

AdmitClosed(c) ==
    /\ call[c] = "idle"
    /\ Mode = "closed"
    /\ call' = [call EXCEPT ![c] = "closed"]
    /\ UNCHANGED <<state, failureCount, halfOpenAttempts, age, gauge, probes>>

(* Mutant: the attempt is not counted. *)
CountAttempt == halfOpenAttempts' = halfOpenAttempts + 1

AdmitProbe(c) ==
    /\ call[c] = "idle"
    /\ Mode = "half_open"
    /\ ~ProbesExhausted
    /\ CountAttempt
    /\ call' = [call EXCEPT ![c] = "half_open"]
    /\ probes' = probes \union {c}
    /\ UNCHANGED <<state, failureCount, age, gauge>>

-----------------------------------------------------------------------------
(* Completion: from the result of `func` to the end of `call`. *)

(* Mutant: the gauge is not written. *)
Transition(new) == state' = new /\ gauge' = Gauge[new]

NoTransition == UNCHANGED <<state, gauge>>

(* Mutant: the attempts are kept over a recovery. *)
ClearCountsButAttempts == failureCount' = 0 /\ UNCHANGED <<halfOpenAttempts, probes>>

(* What _on_success and the reset route both assign. *)
ClearCounts == failureCount' = 0 /\ halfOpenAttempts' = 0 /\ probes' = {}

(* Mutant: the time of the failure is not recorded. *)
CountFailureWithoutTime == failureCount' = failureCount + 1 /\ UNCHANGED age

CountFailure == failureCount' = failureCount + 1 /\ age' = 0

Return(c) == call' = [call EXCEPT ![c] = "idle"]

(* _on_success: closes whatever the breaker's state is by now; prev_state,
   the mode the call was admitted under, is ignored by the code. *)
Succeed(c) ==
    /\ call[c] # "idle"
    /\ IF state # "closed" THEN Transition("closed") ELSE NoTransition
    /\ ClearCounts
    /\ Return(c)
    /\ UNCHANGED age

(* Mutant: the branch for a failed half-open attempt runs. *)
FailRefundsAttempts(c) ==
    /\ call[c] # "idle"
    /\ CountFailure
    /\ IF state = "open" \/ failureCount' >= FailureThreshold
       THEN Transition("open") /\ halfOpenAttempts' = 0
       ELSE NoTransition /\ UNCHANGED halfOpenAttempts
    /\ probes' = {}
    /\ Return(c)

(* _on_failure.  Its branch `elif self._state == HALF_OPEN`, which would give
   the attempts back, tests the stored state: nothing stores HALF_OPEN, so it
   never runs and has no disjunct here (TypeOK checks that nothing does). *)
Fail(c) ==
    /\ call[c] # "idle"
    /\ CountFailure
    /\ IF state = "closed" /\ failureCount' >= FailureThreshold
       THEN Transition("open")
       ELSE NoTransition
    /\ probes' = probes \ {c}
    /\ Return(c)
    /\ UNCHANGED halfOpenAttempts

(* func raised CircuitOpenError (a nested breaker) or was cancelled
   (CancelledError is no Exception): neither handler runs. *)
Abandon(c) ==
    /\ call[c] # "idle"
    /\ probes' = probes \ {c}
    /\ Return(c)
    /\ UNCHANGED <<state, failureCount, halfOpenAttempts, age, gauge>>

-----------------------------------------------------------------------------

(* POST /resilience/circuit-breakers/{broker}/reset writes the fields itself:
   it does not go through _transition, so the gauge keeps its value. *)
Reset ==
    /\ state' = "closed"
    /\ ClearCounts
    /\ UNCHANGED <<age, gauge, call>>

Tick ==
    /\ age < RecoveryTimeout
    /\ age' = age + 1
    /\ UNCHANGED <<state, failureCount, halfOpenAttempts, gauge, call, probes>>

BreakerNext ==
    \/ \E c \in Callers :
          \/ Reject(c) \/ AdmitClosed(c) \/ AdmitProbe(c)
          \/ Succeed(c) \/ Fail(c) \/ Abandon(c)
    \/ Reset
    \/ Tick

(* Only the clock is sure to move: callers, the broker and the operator owe
   the breaker nothing. *)
BreakerSpec == BreakerInit /\ [][BreakerNext]_breakerVars /\ WF_breakerVars(Tick)

-----------------------------------------------------------------------------
(* Properties. *)

(* Types, and two facts TLC has to find: no run stores HALF_OPEN, and no
   run counts more half-open attempts than half_open_limit. *)
BreakerTypeOK ==
    /\ state \in {"closed", "open"}
    /\ failureCount \in Nat
    /\ halfOpenAttempts \in 0..HalfOpenLimit
    /\ age \in 0..RecoveryTimeout
    /\ gauge \in {0, 2}
    /\ call \in [Callers -> {"idle", "closed", "half_open"}]
    /\ probes \subseteq Callers

(* However late the answers of earlier calls arrive, a breaker that is closed
   has not used up its failures and starts its next half-open period with
   every attempt left. *)
ClosedIsFresh ==
    state = "closed" => failureCount < FailureThreshold /\ halfOpenAttempts = 0

(* Between a trip and the next recovery the calls let through to the broker
   are counted, never more than half_open_limit at once: completions of
   calls from before the trip do not free or forge an attempt. *)
ProbesCounted ==
    /\ probes \subseteq {c \in Callers : call[c] = "half_open"}
    /\ Cardinality(probes) <= halfOpenAttempts

(* An open breaker shields the broker: from the trip until it closes, the
   failures that still reach the count come from the calls running at the
   trip and from the half-open attempts, and from nothing else.  This is
   also what bounds the failure_count that `status` reports. *)
FailureBudget ==
    state = "open" =>
        /\ failureCount >= FailureThreshold
        /\ failureCount + Cardinality(InFlight)
              <= FailureThreshold - 1 + Cardinality(Callers) + halfOpenAttempts

(* The gauge that alerts are built on shows an open breaker as open; only
   the opposite error (a reset breaker still shown open) can happen. *)
GaugeShowsOpen == state = "open" => gauge = Gauge["open"]

(* What an open breaker owes the broker behind it, whatever is still
   running: the failures and the calls that reach the broker are bounded
   and counted, and an alert can see that the breaker is open. *)
OpenShields == FailureBudget /\ ProbesCounted /\ GaugeShowsOpen

(* Seen through `state`, the breaker moves only along the edges of
   BreakerDiagram (it cannot turn from closed to half-open, so each trip is
   followed by a full recovery timeout) and never stays open for ever. *)
Diagram == INSTANCE BreakerDiagram WITH mode <- Mode

ImplementsDiagram == Diagram!Spec

-----------------------------------------------------------------------------
(* What the documentation says and the code does not do. *)

(* half_open_limit is documented (CircuitBreaker's docstring) as the greatest
   number of concurrent requests in half-open: with fewer running, another
   is let through.  Attempts that failed or were abandoned are not given
   back, so the breaker can reject every call with none running. *)
HalfOpenAdmits ==
    Mode = "half_open" /\ Cardinality(probes) < HalfOpenLimit => ~ProbesExhausted

=============================================================================
