------------------------ MODULE ConcurrencyProofs -------------------------
(***************************************************************************)
(* What the parts of MCConcurrency keep true for every value of their      *)
(* constants: part by part, and at the end all of them together.           *)
(***************************************************************************)
EXTENDS MCConcurrency, SequenceLemmas, FiniteSetTheorems, TLAPS

-----------------------------------------------------------------------------
(***************************************************************************)
(* What CircuitBreaker keeps true for every number of callers, threshold,  *)
(* timeout and limit, and that it moves along BreakerDiagram's edges.      *)
(***************************************************************************)
(* The inductive invariant is the conjunction of the checked invariants:
   FailureBudget leans on ClosedIsFresh at the step that trips the breaker,
   and the other conjuncts on TypeOK. *)
BreakerInv ==
    /\ BreakerTypeOK
    /\ ClosedIsFresh
    /\ ProbesCounted
    /\ FailureBudget
    /\ GaugeShowsOpen

USE CallersAssumption, ThresholdAssumption, TimeoutAssumption, LimitAssumption

-----------------------------------------------------------------------------
(* A caller that starts a call adds one to the calls in flight. *)
LEMMA InFlightStart ==
    ASSUME BreakerTypeOK, NEW c \in Callers, NEW m \in {"closed", "half_open"},
           call[c] = "idle", call' = [call EXCEPT ![c] = m]
    PROVE  Cardinality(InFlight') = Cardinality(InFlight) + 1
<1>1. IsFiniteSet(InFlight)
  BY FS_Subset DEF InFlight
<1>2. InFlight' = InFlight \union {c} /\ c \notin InFlight
  BY DEF InFlight, BreakerTypeOK
<1> QED
  BY <1>1, <1>2, FS_AddElement

(* A caller whose call ends takes one away. *)
LEMMA InFlightEnd ==
    ASSUME BreakerTypeOK, NEW c \in Callers,
           call[c] # "idle", Return(c)
    PROVE  Cardinality(InFlight') = Cardinality(InFlight) - 1
<1>1. IsFiniteSet(InFlight)
  BY FS_Subset DEF InFlight
<1>2. InFlight' = InFlight \ {c} /\ c \in InFlight
  BY DEF InFlight, BreakerTypeOK, Return
<1> QED
  BY <1>1, <1>2, FS_RemoveElement

(* At most every caller is in a call, and the count is a number. *)
LEMMA InFlightBound ==
    /\ Cardinality(InFlight) \in Nat
    /\ Cardinality(Callers) \in Nat
    /\ Cardinality(InFlight) <= Cardinality(Callers)
  BY FS_Subset, FS_CardinalityType DEF InFlight

(* Adding a caller to the probes, or taking one out, moves their number by
   at most one. *)
LEMMA ProbesStep ==
    ASSUME BreakerTypeOK, NEW c \in Callers
    PROVE  /\ Cardinality(probes) \in Nat
           /\ Cardinality(probes \union {c}) \in Nat
           /\ Cardinality(probes \union {c}) <= Cardinality(probes) + 1
           /\ Cardinality(probes \ {c}) \in Nat
           /\ Cardinality(probes \ {c}) <= Cardinality(probes)
           /\ Cardinality({}) = 0
<1>1. IsFiniteSet(probes)
  BY FS_Subset DEF BreakerTypeOK
<1>2. Cardinality(probes) \in Nat
  BY <1>1, FS_CardinalityType
<1>3. Cardinality(probes \union {c}) <= Cardinality(probes) + 1
  <2>1. CASE c \in probes
    <3>1. probes \union {c} = probes
      BY <2>1
    <3>2. Cardinality(probes \union {c}) = Cardinality(probes)
      BY <3>1
    <3> QED
      BY <1>2, <3>2
  <2>2. CASE c \notin probes
    <3>1. Cardinality(probes \union {c}) = Cardinality(probes) + 1
      BY <1>1, <2>2, FS_AddElement
    <3> QED
      BY <1>2, <3>1
  <2> QED
    BY <2>1, <2>2
<1>4. Cardinality(probes \ {c}) <= Cardinality(probes)
  BY <1>1, FS_Subset
<1>5. Cardinality(probes \union {c}) \in Nat /\ Cardinality(probes \ {c}) \in Nat
  BY <1>1, FS_AddElement, FS_RemoveElement, FS_CardinalityType
<1> QED
  BY <1>2, <1>3, <1>4, <1>5, FS_EmptySet

-----------------------------------------------------------------------------
LEMMA BreakerInitInv == BreakerInit => BreakerInv
<1> SUFFICES ASSUME BreakerInit PROVE BreakerInv
  OBVIOUS
<1>1. BreakerTypeOK
  BY DEF BreakerInit, BreakerTypeOK, Gauge
<1>2. ProbesCounted
  BY FS_EmptySet DEF BreakerInit, ProbesCounted
<1> QED
  BY <1>1, <1>2 DEF BreakerInit, BreakerInv, ClosedIsFresh, FailureBudget, GaugeShowsOpen

LEMMA AdmitInv ==
    ASSUME BreakerInv, NEW c \in Callers, AdmitClosed(c) \/ AdmitProbe(c)
    PROVE  BreakerInv'
<1> USE DEF BreakerInv
<1>1. CASE AdmitClosed(c)
  <2>1. state = "closed"
    BY <1>1 DEF AdmitClosed, Mode
  <2>2. BreakerTypeOK' /\ ClosedIsFresh' /\ GaugeShowsOpen' /\ FailureBudget'
    BY <1>1, <2>1 DEF AdmitClosed, BreakerTypeOK, ClosedIsFresh, GaugeShowsOpen, FailureBudget
  <2>3. ProbesCounted'
    BY <1>1 DEF AdmitClosed, ProbesCounted, BreakerTypeOK
  <2> QED
    BY <2>2, <2>3
<1>2. CASE AdmitProbe(c)
  <2>1. state = "open"
    BY <1>2 DEF AdmitProbe, Mode, BreakerTypeOK
  <2>2. BreakerTypeOK' /\ ClosedIsFresh' /\ GaugeShowsOpen'
    BY <1>2, <2>1 DEF AdmitProbe, CountAttempt, ProbesExhausted, BreakerTypeOK, ClosedIsFresh,
                      GaugeShowsOpen
  <2>3. Cardinality(InFlight') = Cardinality(InFlight) + 1
    BY <1>2, InFlightStart DEF AdmitProbe
  <2>4. FailureBudget'
    BY <1>2, <2>1, <2>3, InFlightBound
       DEF AdmitProbe, CountAttempt, FailureBudget, BreakerTypeOK
  <2>5. ProbesCounted'
    <3>1. probes' \subseteq {d \in Callers : call'[d] = "half_open"}
      BY <1>2 DEF AdmitProbe, ProbesCounted, BreakerTypeOK
    <3>2. Cardinality(probes \union {c}) <= Cardinality(probes) + 1
          /\ Cardinality(probes) \in Nat /\ Cardinality(probes \union {c}) \in Nat
      BY ProbesStep
    <3>3. Cardinality(probes') <= halfOpenAttempts'
      BY <1>2, <3>2 DEF AdmitProbe, CountAttempt, ProbesCounted, BreakerTypeOK
    <3> QED
      BY <3>1, <3>3 DEF ProbesCounted
  <2> QED
    BY <2>2, <2>4, <2>5
<1> QED
  BY <1>1, <1>2

LEMMA SucceedInv ==
    ASSUME BreakerInv, NEW c \in Callers, Succeed(c)
    PROVE  BreakerInv'
<1> USE DEF BreakerInv
<1>1. state' = "closed" /\ BreakerTypeOK' /\ ClosedIsFresh' /\ GaugeShowsOpen' /\ FailureBudget'
  BY DEF Succeed, Transition, NoTransition, ClearCounts, Return, Gauge, BreakerTypeOK,
         ClosedIsFresh, GaugeShowsOpen, FailureBudget
<1>2. ProbesCounted'
  BY FS_EmptySet DEF Succeed, ClearCounts, ProbesCounted
<1> QED
  BY <1>1, <1>2

(* The one step that can trip the breaker: the failure counted by the trip is
   the one of a call that leaves the calls in flight. *)
LEMMA FailInv ==
    ASSUME BreakerInv, NEW c \in Callers, Fail(c)
    PROVE  BreakerInv'
<1> USE DEF BreakerInv
<1>1. BreakerTypeOK'
  BY DEF Fail, CountFailure, Transition, NoTransition, Return, Gauge, BreakerTypeOK
<1>2. ClosedIsFresh' /\ GaugeShowsOpen'
  BY DEF Fail, CountFailure, Transition, NoTransition, Gauge, BreakerTypeOK, ClosedIsFresh,
         GaugeShowsOpen
<1>3. ProbesCounted'
  <2>1. probes' \subseteq {d \in Callers : call'[d] = "half_open"}
    BY DEF Fail, Return, ProbesCounted, BreakerTypeOK
  <2>2. Cardinality(probes') <= halfOpenAttempts'
    <3>1. /\ Cardinality(probes \ {c}) <= Cardinality(probes)
          /\ Cardinality(probes \ {c}) \in Nat /\ Cardinality(probes) \in Nat
      BY ProbesStep
    <3> QED
      BY <3>1 DEF Fail, ProbesCounted, BreakerTypeOK
  <2> QED
    BY <2>1, <2>2 DEF ProbesCounted
<1>4. Cardinality(InFlight') = Cardinality(InFlight) - 1
  BY InFlightEnd DEF Fail
<1>5. FailureBudget'
  BY <1>4, InFlightBound
     DEF Fail, CountFailure, Transition, NoTransition, BreakerTypeOK, ClosedIsFresh, FailureBudget
<1> QED
  BY <1>1, <1>2, <1>3, <1>5

LEMMA AbandonInv ==
    ASSUME BreakerInv, NEW c \in Callers, Abandon(c)
    PROVE  BreakerInv'
<1> USE DEF BreakerInv
<1>1. BreakerTypeOK' /\ ClosedIsFresh' /\ GaugeShowsOpen'
  BY DEF Abandon, Return, BreakerTypeOK, ClosedIsFresh, GaugeShowsOpen
<1>2. ProbesCounted'
  <2>1. probes' \subseteq {d \in Callers : call'[d] = "half_open"}
    BY DEF Abandon, Return, ProbesCounted, BreakerTypeOK
  <2>2. Cardinality(probes') <= halfOpenAttempts'
    <3>1. /\ Cardinality(probes \ {c}) <= Cardinality(probes)
          /\ Cardinality(probes \ {c}) \in Nat /\ Cardinality(probes) \in Nat
      BY ProbesStep
    <3> QED
      BY <3>1 DEF Abandon, ProbesCounted, BreakerTypeOK
  <2> QED
    BY <2>1, <2>2 DEF ProbesCounted
<1>3. FailureBudget'
  <2>1. Cardinality(InFlight') = Cardinality(InFlight) - 1
    BY InFlightEnd DEF Abandon
  <2> QED
    BY <2>1, InFlightBound DEF Abandon, BreakerTypeOK, FailureBudget
<1> QED
  BY <1>1, <1>2, <1>3

LEMMA BreakerResetInv == BreakerInv /\ Reset => BreakerInv'
<1> SUFFICES ASSUME BreakerInv, Reset PROVE BreakerInv'
  OBVIOUS
<1>1. (BreakerTypeOK /\ ClosedIsFresh /\ GaugeShowsOpen /\ FailureBudget)'
  BY DEF BreakerInv, Reset, ClearCounts, BreakerTypeOK, ClosedIsFresh, GaugeShowsOpen, FailureBudget
<1>2. ProbesCounted'
  BY FS_EmptySet DEF Reset, ClearCounts, ProbesCounted
<1> QED
  BY <1>1, <1>2 DEF BreakerInv

LEMMA BreakerTickInv == BreakerInv /\ Tick => BreakerInv'
  BY DEF BreakerInv, Tick, BreakerTypeOK, ClosedIsFresh, GaugeShowsOpen, FailureBudget, ProbesCounted,
         InFlight

LEMMA BreakerNextInv == BreakerInv /\ [BreakerNext]_breakerVars => BreakerInv'
<1> SUFFICES ASSUME BreakerInv, [BreakerNext]_breakerVars PROVE BreakerInv'
  OBVIOUS
<1>1. ASSUME NEW c \in Callers, Reject(c) PROVE BreakerInv'
  BY <1>1 DEF Reject, breakerVars, BreakerInv, BreakerTypeOK, ClosedIsFresh, GaugeShowsOpen, FailureBudget,
              ProbesCounted, InFlight
<1>2. CASE UNCHANGED breakerVars
  BY <1>2 DEF breakerVars, BreakerInv, BreakerTypeOK, ClosedIsFresh, GaugeShowsOpen, FailureBudget,
              ProbesCounted, InFlight
<1> QED
  BY <1>1, <1>2, AdmitInv, SucceedInv, FailInv, AbandonInv, BreakerResetInv, BreakerTickInv DEF BreakerNext

-----------------------------------------------------------------------------
(* All the checked invariants hold whatever the number of callers, the
   threshold, the timeout and the limit. *)
THEOREM BreakerInvariance == BreakerSpec => []BreakerInv
  BY BreakerInitInv, BreakerNextInv, PTL DEF BreakerSpec

(* Nothing ever stores HALF_OPEN and at most half_open_limit half-open
   attempts are counted. *)
THEOREM BreakerTypes == BreakerSpec => []BreakerTypeOK
<1>1. BreakerInv => BreakerTypeOK
  BY DEF BreakerInv
<1> QED
  BY <1>1, BreakerInvariance, PTL

(* A closed breaker has failures and attempts left. *)
THEOREM ClosedAlwaysFresh == BreakerSpec => []ClosedIsFresh
<1>1. BreakerInv => ClosedIsFresh
  BY DEF BreakerInv
<1> QED
  BY <1>1, BreakerInvariance, PTL

(* The failures an open breaker can still count are bounded, running half-open
   calls never outnumber the attempts counted for them, and the gauge shows
   an open breaker open. *)
THEOREM OpenAlwaysShields == BreakerSpec => []OpenShields
<1>1. BreakerInv => OpenShields
  BY DEF BreakerInv, OpenShields
<1> QED
  BY <1>1, BreakerInvariance, PTL

-----------------------------------------------------------------------------
(* Every step is a step of the diagram or leaves the mode alone.  The trip
   sets age to 0, below any recovery timeout, so it shows as "open". *)
LEMMA StepSimulates == BreakerInv /\ [BreakerNext]_breakerVars => [Diagram!Next]_Mode
<1> SUFFICES ASSUME BreakerInv, [BreakerNext]_breakerVars PROVE Diagram!Next \/ Mode' = Mode
  OBVIOUS
<1> USE DEF Diagram!Next, Diagram!Trip, Diagram!Cooldown, Diagram!Recover,
            Diagram!Relapse, Diagram!StaleSuccessOrReset
<1>0. Mode \in {"closed", "open", "half_open"} /\ (Mode = "closed" <=> state = "closed")
  BY DEF BreakerInv, BreakerTypeOK, Mode
<1>1. ASSUME NEW c \in Callers, Reject(c) \/ AdmitClosed(c) \/ AdmitProbe(c) \/ Abandon(c)
      PROVE  Mode' = Mode
  BY <1>1 DEF Reject, breakerVars, AdmitClosed, AdmitProbe, Abandon, Mode
<1>2. ASSUME NEW c \in Callers, Succeed(c)
      PROVE  Mode' = "closed"
  BY <1>2 DEF Succeed, Transition, NoTransition, Mode, BreakerInv, BreakerTypeOK
<1>3. ASSUME NEW c \in Callers, Fail(c)
      PROVE  Mode' = "open" \/ Mode' = Mode
  BY <1>3 DEF Fail, CountFailure, Transition, NoTransition, Mode, BreakerInv, BreakerTypeOK
<1>4. Reset => Mode' = "closed"
  BY DEF Reset, Mode
<1>5. Tick => Mode' = Mode \/ (Mode = "open" /\ Mode' = "half_open")
  BY DEF Tick, Mode, BreakerInv, BreakerTypeOK
<1>6. CASE UNCHANGED breakerVars
  BY <1>6 DEF breakerVars, Mode
<1> QED
  BY <1>0, <1>1, <1>2, <1>3, <1>4, <1>5, <1>6 DEF BreakerNext

(* CircuitBreaker implements the diagram's safety part (its liveness is
   model-checked: it needs ENABLED). *)
THEOREM RefinesDiagram == BreakerSpec => Diagram!Init /\ [][Diagram!Next]_Mode
<1>1. BreakerInit => Diagram!Init
  BY DEF BreakerInit, Diagram!Init, Mode
<1> QED
  BY <1>1, StepSimulates, BreakerInvariance, PTL DEF BreakerSpec

-----------------------------------------------------------------------------
(***************************************************************************)
(* Backpressure's slots and counters, for every number of requests, slots  *)
(* and waiters.                                                            *)
(***************************************************************************)
(* TypeOK without the queue: the counts do not depend on its order. *)
GuardNumbersOK ==
    /\ value \in 0..MaxConcurrent
    /\ active \in 0..MaxConcurrent
    /\ waiting \in 0..MaxWaiting
    /\ pc \in [Requests -> Phases]
    /\ interrupt \in [Requests -> {"none", "timeout", "cancel"}]

(* The three counting invariants bound each other: the slots in hand are in
   range because they are conserved, `active` because it is exact, and
   `waiting` stays above zero because it covers the real waiters. *)
GuardInv == GuardNumbersOK /\ SlotsConserved /\ ActiveExact /\ WaitingCovers

(* Only requests that wait or were granted can be interrupted. *)
InterruptedWait == \A r \in Requests : interrupt[r] # "none" => pc[r] \in {"waiting", "granted"}

USE RequestsAssumption, ConcurrentAssumption, WaitingAssumption

-----------------------------------------------------------------------------
LEMMA PhaseCounts ==
    ASSUME NEW where
    PROVE  IsFiniteSet(In(where)) /\ Cardinality(In(where)) \in Nat
  BY FS_Subset, FS_CardinalityType DEF In

LEMMA PhaseCountsNext ==
    /\ Cardinality(In("waiting")') \in Nat
    /\ Cardinality(In("granted")') \in Nat
    /\ Cardinality(In("active")') \in Nat
  BY FS_Subset, FS_CardinalityType DEF In

(* A request that changes phase moves from one set of requests to another. *)
LEMMA MoveCounts ==
    ASSUME GuardNumbersOK, NEW r \in Requests, NEW next \in Phases,
           pc[r] # next, pc' = [pc EXCEPT ![r] = next]
    PROVE  \A where \in Phases :
              Cardinality(In(where)') =
                 IF where = next THEN Cardinality(In(where)) + 1
                 ELSE IF where = pc[r] THEN Cardinality(In(where)) - 1
                 ELSE Cardinality(In(where))
<1> SUFFICES ASSUME NEW where \in Phases
             PROVE  Cardinality(In(where)') =
                       IF where = next THEN Cardinality(In(where)) + 1
                       ELSE IF where = pc[r] THEN Cardinality(In(where)) - 1
                       ELSE Cardinality(In(where))
  OBVIOUS
<1>1. CASE where = next
  <2>1. In(where)' = In(where) \union {r} /\ r \notin In(where)
    BY <1>1 DEF In, GuardNumbersOK
  <2> QED
    BY <1>1, <2>1, PhaseCounts, FS_AddElement
<1>2. CASE where # next /\ where = pc[r]
  <2>1. In(where)' = In(where) \ {r} /\ r \in In(where)
    BY <1>2 DEF In, GuardNumbersOK
  <2> QED
    <3>1. Cardinality(In(where) \ {r}) = Cardinality(In(where)) - 1
      <4>1. IsFiniteSet(In(where))
        BY PhaseCounts
      <4> QED
        BY <2>1, <4>1, FS_RemoveElement
    <3> QED
      BY <1>2, <2>1, <3>1
<1>3. CASE where # next /\ where # pc[r]
  <2>1. In(where)' = In(where)
    BY <1>3 DEF In, GuardNumbersOK
  <2> QED
    BY <1>3, <2>1
<1> QED
  BY <1>1, <1>2, <1>3

(* A request that leaves the guard or enters its body, and the set W of
   pending waiters woken in the same step. *)
LEMMA WakeCounts ==
    ASSUME GuardNumbersOK, NEW r \in Requests, r \notin Pending,
           NEW next \in {"idle", "active"}, pc[r] # next, pc[r] # "idle",
           NEW W \in SUBSET Pending,
           pc' = [q \in Requests |->
                    IF q = r THEN next ELSE IF q \in W THEN "granted" ELSE pc[q]]
    PROVE  /\ Cardinality(W) \in Nat
           /\ Cardinality(In("granted")') =
                 Cardinality(In("granted")) + Cardinality(W)
                    - (IF pc[r] = "granted" THEN 1 ELSE 0)
           /\ Cardinality(In("waiting")') =
                 Cardinality(In("waiting")) - Cardinality(W)
                    - (IF pc[r] = "waiting" THEN 1 ELSE 0)
           /\ Cardinality(In("active")') =
                 Cardinality(In("active")) + (IF next = "active" THEN 1 ELSE 0)
                    - (IF pc[r] = "active" THEN 1 ELSE 0)
<1>1. IsFiniteSet(W) /\ Cardinality(W) \in Nat /\ W \subseteq In("waiting") /\ r \notin W
  BY PhaseCounts, FS_Subset, FS_CardinalityType DEF Pending
<1> DEFINE G == In("granted") \ {r}
           D == In("waiting") \ {r}
<1>2. /\ IsFiniteSet(G)
      /\ Cardinality(G) \in Nat
      /\ Cardinality(G) = Cardinality(In("granted")) - (IF pc[r] = "granted" THEN 1 ELSE 0)
  <2>1. IsFiniteSet(G) /\ Cardinality(G) \in Nat
    BY PhaseCounts, FS_RemoveElement, FS_CardinalityType
  <2>2. r \in In("granted") <=> pc[r] = "granted"
    BY DEF In
  <2> QED
    BY <2>1, <2>2, PhaseCounts, FS_RemoveElement
<1>3. /\ IsFiniteSet(D)
      /\ Cardinality(D) \in Nat
      /\ Cardinality(D) = Cardinality(In("waiting")) - (IF pc[r] = "waiting" THEN 1 ELSE 0)
  <2>1. IsFiniteSet(D) /\ Cardinality(D) \in Nat
    BY PhaseCounts, FS_RemoveElement, FS_CardinalityType
  <2>2. r \in In("waiting") <=> pc[r] = "waiting"
    BY DEF In
  <2> QED
    BY <2>1, <2>2, PhaseCounts, FS_RemoveElement
<1>4. Cardinality(In("granted")') = Cardinality(G) + Cardinality(W)
  <2>1. In("granted")' = G \union W
    BY <1>1 DEF In, GuardNumbersOK, Phases
  <2>2. G \intersect W = {}
    BY <1>1 DEF In
  <2>3. Cardinality(G \union W) = Cardinality(G) + Cardinality(W) - Cardinality(G \intersect W)
    BY <1>1, <1>2, FS_Union
  <2>4. Cardinality(G \intersect W) = 0
    BY <2>2, FS_EmptySet
  <2>5. Cardinality(G \union W) = Cardinality(G) + Cardinality(W)
    BY <1>1, <1>2, <2>3, <2>4
  <2> QED
    BY <2>1, <2>5
<1>5. Cardinality(In("waiting")') = Cardinality(D) - Cardinality(W)
  <2>1. In("waiting")' = D \ W
    BY <1>1 DEF In, GuardNumbersOK, Phases
  <2>2. D \intersect W = W
    BY <1>1
  <2> QED
    BY <1>1, <1>3, <2>1, <2>2, FS_Difference
<1> HIDE DEF G, D
<1>6. Cardinality(In("active")') =
         Cardinality(In("active")) + (IF next = "active" THEN 1 ELSE 0)
            - (IF pc[r] = "active" THEN 1 ELSE 0)
  <2>1. CASE next = "active"
    <3>1. In("active")' = In("active") \union {r} /\ r \notin In("active")
      BY <1>1, <2>1 DEF In, GuardNumbersOK, Phases
    <3>2. pc[r] # "active"
      BY <2>1
    <3> QED
      BY <2>1, <3>1, <3>2, PhaseCounts, FS_AddElement
  <2>2. CASE next = "idle" /\ pc[r] = "active"
    <3>1. In("active")' = In("active") \ {r} /\ r \in In("active")
      BY <1>1, <2>2 DEF In, GuardNumbersOK, Phases
    <3> QED
      BY <2>2, <3>1, PhaseCounts, FS_RemoveElement
  <2>3. CASE next = "idle" /\ pc[r] # "active"
    <3>1. In("active")' = In("active")
      BY <1>1, <2>3 DEF In, GuardNumbersOK, Phases
    <3> QED
      BY <2>3, <3>1, PhaseCounts
  <2> QED
    BY <2>1, <2>2, <2>3
<1>7. Cardinality(In("granted")') =
         Cardinality(In("granted")) + Cardinality(W) - (IF pc[r] = "granted" THEN 1 ELSE 0)
  BY <1>1, <1>2, <1>4, PhaseCounts
<1>8. Cardinality(In("waiting")') =
         Cardinality(In("waiting")) - Cardinality(W) - (IF pc[r] = "waiting" THEN 1 ELSE 0)
  BY <1>1, <1>3, <1>5, PhaseCounts
<1> QED
  BY <1>1, <1>6, <1>7, <1>8

-----------------------------------------------------------------------------
(* What the loop in acquire()'s `finally` and release() do to the counts. *)
LEMMA WakeStep ==
    ASSUME GuardInv, NEW r \in Requests, r \notin Pending,
           NEW next \in {"idle", "active"}, pc[r] # next, pc[r] # "idle",
           NEW v \in Nat,
           WakeWhileAny(r, next, v) \/ (v # 0 /\ WakeOne(r, next, v))
    PROVE  /\ value' \in Nat
           /\ pc' \in [Requests -> Phases]
           /\ value' + Cardinality(In("granted")') + Cardinality(In("active")') =
                 v + Cardinality(In("granted")) + Cardinality(In("active"))
                   + (IF next = "active" THEN 1 ELSE 0)
                   - (IF pc[r] \in {"granted", "active"} THEN 1 ELSE 0)
           /\ Cardinality(In("waiting")') + Cardinality(In("granted")') =
                 Cardinality(In("waiting")) + Cardinality(In("granted"))
                   - (IF pc[r] \in {"waiting", "granted"} THEN 1 ELSE 0)
           /\ Cardinality(In("active")') =
                 Cardinality(In("active")) + (IF next = "active" THEN 1 ELSE 0)
                    - (IF pc[r] = "active" THEN 1 ELSE 0)
<1>1. PICK W \in SUBSET Pending :
         /\ Cardinality(W) = Least(v, Cardinality(Pending))
               \/ (v # 0 /\ Cardinality(W) = Least(1, Cardinality(Pending)))
         /\ pc' = [q \in Requests |->
                     IF q = r THEN next ELSE IF q \in W THEN "granted" ELSE pc[q]]
         /\ value' = v - Cardinality(W)
  BY DEF WakeWhileAny, WakeOne, Oldest
<1>2. GuardNumbersOK
  BY DEF GuardInv
<1>3. /\ Cardinality(W) \in Nat
      /\ Cardinality(In("granted")') =
            Cardinality(In("granted")) + Cardinality(W)
               - (IF pc[r] = "granted" THEN 1 ELSE 0)
      /\ Cardinality(In("waiting")') =
            Cardinality(In("waiting")) - Cardinality(W)
               - (IF pc[r] = "waiting" THEN 1 ELSE 0)
      /\ Cardinality(In("active")') =
            Cardinality(In("active")) + (IF next = "active" THEN 1 ELSE 0)
               - (IF pc[r] = "active" THEN 1 ELSE 0)
  BY <1>1, <1>2, WakeCounts
<1>4. Cardinality(W) <= v
  <2>1. Cardinality(Pending) \in Nat
    BY PhaseCounts, FS_Subset, FS_CardinalityType DEF Pending
  <2> QED
    BY <1>1, <2>1 DEF Least
<1>5. value' \in Nat
  BY <1>1, <1>3, <1>4
<1>6. pc' \in [Requests -> Phases]
  BY <1>1, <1>2 DEF GuardNumbersOK, Phases
<1>7. /\ Cardinality(In("granted")) \in Nat
      /\ Cardinality(In("waiting")) \in Nat
      /\ Cardinality(In("active")) \in Nat
  BY PhaseCounts
<1> QED
  BY <1>1, <1>3, <1>5, <1>6, <1>7

(* Counts that add up are in range. *)
LEMMA InRange ==
    ASSUME value' \in Nat, SlotsConserved', ActiveExact'
    PROVE  value' \in 0..MaxConcurrent /\ active' \in 0..MaxConcurrent
  BY PhaseCountsNext DEF SlotsConserved, ActiveExact

-----------------------------------------------------------------------------
LEMMA GuardInitInv == GuardInit => GuardInv
<1> SUFFICES ASSUME GuardInit PROVE GuardInv
  OBVIOUS
<1>1. GuardNumbersOK
  BY DEF GuardInit, GuardNumbersOK, Phases
<1>2. In("waiting") = {} /\ In("granted") = {} /\ In("active") = {}
  BY DEF GuardInit, In
<1>3. /\ Cardinality(In("waiting")) = 0
      /\ Cardinality(In("granted")) = 0
      /\ Cardinality(In("active")) = 0
  BY <1>2, FS_EmptySet
<1>4. SlotsConserved /\ ActiveExact /\ WaitingCovers
  BY <1>3 DEF GuardInit, SlotsConserved, ActiveExact, WaitingCovers
<1> QED
  BY <1>1, <1>4 DEF GuardInv

(* Both ways in: a slot at once, or a place in the queue. *)
LEMMA EnterInv ==
    ASSUME GuardInv, NEW r \in Requests, EnterAtOnce(r) \/ EnterQueue(r)
    PROVE  GuardInv'
<1> USE DEF GuardInv
<1>0. /\ Cardinality(In("granted")) \in Nat
      /\ Cardinality(In("waiting")) \in Nat
      /\ Cardinality(In("active")) \in Nat
  BY PhaseCounts
<1>1. CASE EnterAtOnce(r)
  <2>1. /\ Cardinality(In("active")') = Cardinality(In("active")) + 1
        /\ Cardinality(In("granted")') = Cardinality(In("granted"))
        /\ Cardinality(In("waiting")') = Cardinality(In("waiting"))
    BY <1>1, MoveCounts DEF EnterAtOnce, Phases
  <2>2. SlotsConserved' /\ ActiveExact' /\ WaitingCovers'
    BY <1>0, <1>1, <2>1
       DEF EnterAtOnce, GuardNumbersOK, SlotsConserved, ActiveExact, WaitingCovers
  <2>3. value' \in 0..MaxConcurrent /\ active' \in Nat
    BY <1>1 DEF EnterAtOnce, Locked, GuardNumbersOK
  <2>4. active' \in 0..MaxConcurrent
    BY <1>0, <2>1, <2>2, <2>3 DEF SlotsConserved, ActiveExact
  <2>5. GuardNumbersOK'
    BY <1>1, <2>3, <2>4 DEF EnterAtOnce, GuardNumbersOK, Phases
  <2> QED
    BY <2>2, <2>5
<1>2. CASE EnterQueue(r)
  <2>1. /\ Cardinality(In("active")') = Cardinality(In("active"))
        /\ Cardinality(In("granted")') = Cardinality(In("granted"))
        /\ Cardinality(In("waiting")') = Cardinality(In("waiting")) + 1
    BY <1>2, MoveCounts DEF EnterQueue, Phases
  <2>2. SlotsConserved' /\ ActiveExact' /\ WaitingCovers'
    BY <1>0, <1>2, <2>1
       DEF EnterQueue, GuardNumbersOK, SlotsConserved, ActiveExact, WaitingCovers
  <2>3. GuardNumbersOK'
    BY <1>2 DEF EnterQueue, Overloaded, GuardNumbersOK, Phases
  <2> QED
    BY <2>2, <2>3
<1> QED
  BY <1>1, <1>2

(* A timer or a cancellation only marks the request. *)
LEMMA InterruptInv ==
    ASSUME GuardInv, NEW r \in Requests, Expire(r) \/ Cancel(r)
    PROVE  GuardInv'
<1>1. /\ UNCHANGED <<value, active, waiting, pc>>
      /\ interrupt' \in {[interrupt EXCEPT ![r] = "timeout"], [interrupt EXCEPT ![r] = "cancel"]}
  BY DEF Expire, Cancel
<1>2. GuardNumbersOK'
  BY <1>1 DEF GuardInv, GuardNumbersOK
<1>3. In("granted")' = In("granted") /\ In("active")' = In("active") /\ In("waiting")' = In("waiting")
  BY <1>1 DEF In
<1> QED
  BY <1>1, <1>2, <1>3, Zenon DEF GuardInv, SlotsConserved, ActiveExact, WaitingCovers

LEMMA ResumeInv ==
    ASSUME GuardInv, InterruptedWait, NEW r \in Requests, Resume(r)
    PROVE  GuardInv'
<1> USE DEF GuardInv
<1>0. /\ Cardinality(In("granted")) \in Nat
      /\ Cardinality(In("waiting")) \in Nat
      /\ Cardinality(In("active")) \in Nat
  BY PhaseCounts
<1>1. r \notin Pending /\ pc[r] \in {"waiting", "granted"}
  BY DEF Resume, ResumeGranted, ResumeTimedOut, ResumeCancelled, InterruptedWait, Pending,
         In, GuardNumbersOK
<1>2. interrupt' \in [Requests -> {"none", "timeout", "cancel"}]
  BY DEF Resume, ResumeGranted, ResumeTimedOut, ResumeCancelled, LeaveQueue, GuardNumbersOK
<1>3. CASE ResumeGranted(r)
  <2>1. value \in Nat /\ WakeWhileAny(r, "active", value) /\ pc[r] = "granted"
    BY <1>3 DEF ResumeGranted, GuardNumbersOK
  <2>2. /\ value' \in Nat /\ pc' \in [Requests -> Phases]
        /\ value' + Cardinality(In("granted")') + Cardinality(In("active")') =
              value + Cardinality(In("granted")) + Cardinality(In("active"))
        /\ Cardinality(In("waiting")') + Cardinality(In("granted")') =
              Cardinality(In("waiting")) + Cardinality(In("granted")) - 1
        /\ Cardinality(In("active")') = Cardinality(In("active")) + 1
    BY <1>0, <1>1, <2>1, WakeStep DEF GuardNumbersOK
  <2>3. SlotsConserved' /\ ActiveExact' /\ WaitingCovers'
    BY <1>0, <1>3, <2>2
       DEF ResumeGranted, GuardNumbersOK, SlotsConserved, ActiveExact, WaitingCovers
  <2>4. waiting' \in 0..MaxWaiting
    BY <1>0, <1>3, <2>2, PhaseCountsNext
       DEF ResumeGranted, GuardNumbersOK, WaitingCovers
  <2>5. value' \in 0..MaxConcurrent /\ active' \in 0..MaxConcurrent
    BY <2>2, <2>3, InRange
  <2> QED
    BY <1>2, <2>2, <2>3, <2>4, <2>5 DEF GuardNumbersOK
<1>4. ASSUME ResumeTimedOut(r) \/ ResumeCancelled(r) PROVE GuardInv'
  <2>1. SlotsInHand(r) \in Nat /\ WakeWhileAny(r, "idle", SlotsInHand(r))
    BY <1>4 DEF ResumeTimedOut, ResumeCancelled, SlotsInHand, GuardNumbersOK
  <2>2. /\ value' \in Nat /\ pc' \in [Requests -> Phases]
        /\ value' + Cardinality(In("granted")') + Cardinality(In("active")') =
              value + Cardinality(In("granted")) + Cardinality(In("active"))
        /\ Cardinality(In("waiting")') + Cardinality(In("granted")') =
              Cardinality(In("waiting")) + Cardinality(In("granted")) - 1
        /\ Cardinality(In("active")') = Cardinality(In("active"))
    BY <1>0, <1>1, <2>1, WakeStep DEF SlotsInHand, GuardNumbersOK
  <2>3. active' = active /\ (waiting' = waiting - 1 \/ waiting' = waiting)
    BY <1>4 DEF ResumeTimedOut, ResumeCancelled
  <2>4. SlotsConserved' /\ ActiveExact' /\ WaitingCovers'
    BY <1>0, <2>2, <2>3, PhaseCountsNext
       DEF GuardNumbersOK, SlotsConserved, ActiveExact, WaitingCovers
  <2>5. waiting' \in 0..MaxWaiting
    BY <1>0, <2>2, <2>3, PhaseCountsNext DEF GuardNumbersOK, WaitingCovers
  <2>6. value' \in 0..MaxConcurrent /\ active' \in 0..MaxConcurrent
    BY <2>2, <2>4, InRange
  <2> QED
    BY <1>2, <2>2, <2>4, <2>5, <2>6 DEF GuardNumbersOK
<1> QED
  BY <1>3, <1>4 DEF Resume

LEMMA ExitInv ==
    ASSUME GuardInv, NEW r \in Requests, Exit(r)
    PROVE  GuardInv'
<1> USE DEF GuardInv
<1>0. /\ Cardinality(In("granted")) \in Nat
      /\ Cardinality(In("waiting")) \in Nat
      /\ Cardinality(In("active")) \in Nat
  BY PhaseCounts
<1>1. /\ r \notin Pending /\ pc[r] = "active"
      /\ value + 1 \in Nat /\ value + 1 # 0 /\ WakeOne(r, "idle", value + 1)
  BY DEF Exit, Pending, In, GuardNumbersOK
<1>2. /\ value' \in Nat /\ pc' \in [Requests -> Phases]
      /\ value' + Cardinality(In("granted")') + Cardinality(In("active")') =
            value + Cardinality(In("granted")) + Cardinality(In("active"))
      /\ Cardinality(In("waiting")') + Cardinality(In("granted")') =
            Cardinality(In("waiting")) + Cardinality(In("granted"))
      /\ Cardinality(In("active")') = Cardinality(In("active")) - 1
  BY <1>0, <1>1, WakeStep DEF GuardNumbersOK
<1>3. active' = active - 1 /\ waiting' = waiting /\ interrupt' = interrupt
  BY DEF Exit
<1>4. SlotsConserved' /\ ActiveExact' /\ WaitingCovers'
  BY <1>0, <1>2, <1>3, PhaseCountsNext
     DEF GuardNumbersOK, SlotsConserved, ActiveExact, WaitingCovers
<1>5. value' \in 0..MaxConcurrent /\ active' \in 0..MaxConcurrent
  BY <1>2, <1>4, InRange
<1> QED
  BY <1>2, <1>3, <1>4, <1>5 DEF GuardNumbersOK

(* Marks are set on waiting requests only and cleared when they resume; a
   wake-up grants a request that has none. *)
LEMMA InterruptedInv ==
    ASSUME GuardInv, InterruptedWait, NEW r \in Requests,
           \/ EnterAtOnce(r) \/ EnterQueue(r) \/ Expire(r) \/ Cancel(r)
           \/ Resume(r) \/ Exit(r)
    PROVE  InterruptedWait'
<1> USE DEF GuardInv, GuardNumbersOK, InterruptedWait
<1>1. CASE EnterAtOnce(r) \/ EnterQueue(r) \/ Expire(r) \/ Cancel(r)
  BY <1>1 DEF EnterAtOnce, EnterQueue, Expire, Cancel, Phases
<1>2. ASSUME NEW next, NEW v, WakeWhileAny(r, next, v) \/ WakeOne(r, next, v)
      PROVE  \A q \in Requests \ {r} : pc'[q] = pc[q] \/ pc'[q] = "granted"
  BY <1>2 DEF WakeWhileAny, WakeOne
<1>3. CASE Resume(r)
  <2>1. \A q \in Requests \ {r} : pc'[q] = pc[q] \/ pc'[q] = "granted"
    BY <1>2, <1>3 DEF Resume, ResumeGranted, ResumeTimedOut, ResumeCancelled
  <2>2. interrupt' = [interrupt EXCEPT ![r] = "none"]
    BY <1>3 DEF Resume, ResumeGranted, ResumeTimedOut, ResumeCancelled, LeaveQueue
  <2> QED
    BY <2>1, <2>2
<1>4. CASE Exit(r)
  <2>1. \A q \in Requests \ {r} : pc'[q] = pc[q] \/ pc'[q] = "granted"
    BY <1>2, <1>4 DEF Exit
  <2>2. interrupt' = interrupt /\ interrupt[r] = "none"
    BY <1>4 DEF Exit
  <2> QED
    BY <2>1, <2>2
<1> QED
  BY <1>1, <1>3, <1>4

-----------------------------------------------------------------------------
LEMMA GuardNextInv == GuardInv /\ InterruptedWait /\ [GuardNext]_guardVars => GuardInv' /\ InterruptedWait'
<1> SUFFICES ASSUME GuardInv, InterruptedWait, [GuardNext]_guardVars PROVE GuardInv' /\ InterruptedWait'
  OBVIOUS
<1>1. ASSUME UNCHANGED guardVars PROVE GuardInv' /\ InterruptedWait'
  BY <1>1 DEF guardVars, GuardInv, InterruptedWait, GuardNumbersOK, SlotsConserved, ActiveExact,
              WaitingCovers, In
<1>2. ASSUME NEW r \in Requests, RejectAtOnce(r) PROVE UNCHANGED guardVars
  BY <1>2 DEF RejectAtOnce
<1>3. ASSUME NEW r \in Requests,
             \/ EnterAtOnce(r) \/ EnterQueue(r) \/ Expire(r) \/ Cancel(r)
             \/ Resume(r) \/ Exit(r)
      PROVE  GuardInv' /\ InterruptedWait'
  BY <1>3, EnterInv, InterruptInv, ResumeInv, ExitInv, InterruptedInv
<1> QED
  BY <1>1, <1>2, <1>3 DEF GuardNext, Resume

(* All the counting invariants hold together. *)
THEOREM GuardInvariance ==
    GuardInit /\ [][GuardNext]_guardVars => [](GuardInv /\ InterruptedWait)
<1>1. GuardInit => InterruptedWait
  BY DEF GuardInit, InterruptedWait
<1> QED
  BY <1>1, GuardInitInv, GuardNextInv, PTL

(* No slot is lost or handed out twice, `active` never drifts from the
   requests in their body and `waiting` never undercounts, for any number of
   requests and slots, whichever waits are interrupted and when. *)
THEOREM CountsAlwaysTrue == GuardSpec => []GuardCounts
<1>1. GuardInv => GuardCounts
  BY DEF GuardInv, GuardCounts
<1> QED
  BY <1>1, GuardInvariance, PTL DEF GuardSpec

-----------------------------------------------------------------------------
\* No slot is granted past a request that has waited longer.
InOrder ==
    \A i, j \in 1 .. Len(waiters) :
       i < j /\ pc[waiters[j]] = "granted" => waiters[i] \notin Pending

(* The queue of the guard holds the suspended requests, once each; of two of *)
(* them the later is not granted a slot while the earlier is pending, and    *)
(* nobody is pending beside a free slot without a coroutine that will run.   *)
QueueInv ==
    /\ waiters \in Seq(Requests) /\ IsInjective(waiters)
    /\ Range(waiters) = In("waiting") \union In("granted")
    /\ InOrder
    /\ NoLostWakeup

\* The slots that r has in hand go to the oldest pending ones W.
Wakes(r, next, W) ==
    /\ pc' = [q \in Requests |-> IF q = r THEN next ELSE IF q \in W THEN "granted" ELSE pc[q]]
    /\ W \subseteq Pending
    /\ \A i, j \in 1 .. Len(waiters) :
          i < j /\ waiters[j] \in W => waiters[i] \notin Pending \ W
    /\ \A q \in Requests \ {r} : interrupt'[q] = interrupt[q]

(* Who is pending, suspended and granted after a wake-up.                    *)
LEMMA WakeSets ==
    ASSUME GuardNumbersOK, NEW r \in Requests, r \notin Pending,
           NEW next \in {"idle", "active"}, NEW W, Wakes(r, next, W)
    PROVE  /\ Pending' = Pending \ W
           /\ In("waiting")' \union In("granted")' =
                 (In("waiting") \union In("granted")) \ {r}
           /\ InOrder =>
                 \A i, j \in 1 .. Len(waiters) :
                    (i < j /\ waiters[j] \in Requests \ {r} /\ pc'[waiters[j]] = "granted")
                       => waiters[i] \notin Pending'
<1>1. \A q \in Requests :
         /\ q = r => pc'[q] = next
         /\ q # r /\ q \in W => pc'[q] = "granted" /\ pc[q] = "waiting"
         /\ q # r /\ q \notin W => pc'[q] = pc[q]
         /\ q # r => interrupt'[q] = interrupt[q]
  BY DEF Wakes, Pending, In
<1>2. Pending' = Pending \ W
  <2>1. ASSUME NEW q \in Requests PROVE q \in Pending' <=> q \in Pending \ W
    BY <1>1 DEF Pending, In
  <2>2. Pending \subseteq Requests /\ Pending' \subseteq Requests
    BY DEF Pending, In
  <2> QED
    BY <2>1, <2>2
<1>3. In("waiting")' \union In("granted")' = (In("waiting") \union In("granted")) \ {r}
  <2>1. ASSUME NEW q \in Requests
        PROVE  q \in In("waiting")' \union In("granted")' <=>
                  q \in (In("waiting") \union In("granted")) \ {r}
    BY <1>1 DEF In
  <2>2. /\ In("waiting")' \union In("granted")' \subseteq Requests
        /\ In("waiting") \union In("granted") \subseteq Requests
    BY DEF In
  <2> QED
    BY <2>1, <2>2
<1>4. ASSUME InOrder, NEW i \in 1 .. Len(waiters), NEW j \in 1 .. Len(waiters),
             i < j, waiters[j] \in Requests \ {r}, pc'[waiters[j]] = "granted"
      PROVE  waiters[i] \notin Pending'
  <2>1. CASE waiters[j] \in W
    BY <1>2, <1>4, <2>1 DEF Wakes
  <2>2. CASE waiters[j] \notin W
    BY <1>1, <1>2, <1>4, <2>2 DEF InOrder
  <2> QED
    BY <2>1, <2>2
<1> QED
  BY <1>2, <1>3, <1>4

(* The request that leaves the queue leaves the others in their order.       *)
LEMMA LeavesQueue ==
    ASSUME GuardNumbersOK, QueueInv, NEW r \in Requests, LeaveQueue(r),
           pc[r] \in {"waiting", "granted"}, r \notin Pending,
           NEW next \in {"idle", "active"}, NEW W, Wakes(r, next, W)
    PROVE  /\ waiters' \in Seq(Requests) /\ IsInjective(waiters')
           /\ Range(waiters') = In("waiting")' \union In("granted")'
           /\ InOrder'
<1> DEFINE k == CHOOSE i \in DOMAIN waiters : waiters[i] = r
<1>1. waiters \in Seq(Requests) /\ IsInjective(waiters) /\ Len(waiters) \in Nat
  BY LenProperties DEF QueueInv
<1>2. k \in 1 .. Len(waiters) /\ waiters[k] = r
  <2>1. r \in Range(waiters)
    BY DEF QueueInv, In
  <2>2. \E i \in DOMAIN waiters : waiters[i] = r
    BY <2>1 DEF Range
  <2> QED
    BY <1>1, <2>2
<1>3. waiters' = RemoveAt(waiters, k)
  BY DEF LeaveQueue
<1> HIDE DEF k
<1>4. /\ waiters' \in Seq(Requests) /\ Len(waiters') = Len(waiters) - 1
      /\ \A i \in 1 .. Len(waiters) - 1 :
            waiters'[i] = IF i < k THEN waiters[i] ELSE waiters[i + 1]
  BY <1>1, <1>2, <1>3, RemovedAt
<1>5. IsInjective(waiters') /\ Range(waiters') = Range(waiters) \ {r}
  BY <1>1, <1>2, <1>3, RangeRemoved
<1>6. Range(waiters') = In("waiting")' \union In("granted")'
  BY <1>5, WakeSets DEF QueueInv
<1>7. ASSUME NEW i \in 1 .. Len(waiters'), NEW j \in 1 .. Len(waiters'), i < j,
             pc'[waiters'[j]] = "granted"
      PROVE  waiters'[i] \notin Pending'
  <2>1. PICK m \in 1 .. Len(waiters), n \in 1 .. Len(waiters) :
           m < n /\ waiters'[i] = waiters[m] /\ waiters'[j] = waiters[n] /\ n # k
    <3> DEFINE m == IF i < k THEN i ELSE i + 1
               n == IF j < k THEN j ELSE j + 1
    <3>1. m \in 1 .. Len(waiters) /\ n \in 1 .. Len(waiters) /\ m < n /\ n # k
      BY <1>1, <1>2, <1>4, <1>7
    <3>2. waiters'[i] = waiters[m] /\ waiters'[j] = waiters[n]
      BY <1>4
    <3> QED
      BY <3>1, <3>2
  <2>2. waiters[n] \in Requests \ {r}
    BY <1>1, <1>2, <2>1 DEF IsInjective
  <2>3. \A a, b \in 1 .. Len(waiters) :
           (a < b /\ waiters[b] \in Requests \ {r} /\ pc'[waiters[b]] = "granted")
              => waiters[a] \notin Pending'
    BY WakeSets DEF QueueInv
  <2> QED
    BY <1>7, <2>1, <2>2, <2>3
<1> QED
  BY <1>4, <1>5, <1>6, <1>7 DEF InOrder

(* While a slot is left over, all that were pending have one.                *)
LEMMA AllAreWoken ==
    ASSUME NEW W \in SUBSET Pending, NEW v \in Nat,
           Cardinality(W) = Least(v, Cardinality(Pending)), v - Cardinality(W) > 0
    PROVE  W = Pending
<1>1. IsFiniteSet(Pending) /\ IsFiniteSet(W) /\ Cardinality(W) \in Nat /\ Cardinality(Pending) \in Nat
  BY PhaseCounts, FS_Subset, FS_CardinalityType DEF Pending
<1>2. Cardinality(W) = Cardinality(Pending)
  BY <1>1 DEF Least
<1> QED
  BY <1>1, <1>2, FS_Subset

LEMMA ResumeQueueInv ==
    ASSUME GuardNumbersOK, InterruptedWait, QueueInv, NEW r \in Requests, Resume(r)
    PROVE  QueueInv'
<1>1. /\ r \notin Pending /\ pc[r] \in {"waiting", "granted"} /\ LeaveQueue(r)
      /\ interrupt' = [interrupt EXCEPT ![r] = "none"]
  BY DEF Resume, ResumeGranted, ResumeTimedOut, ResumeCancelled, InterruptedWait, Pending,
         In, GuardNumbersOK, LeaveQueue
<1>2. PICK next \in {"idle", "active"}, v \in Nat : WakeWhileAny(r, next, v)
  BY DEF Resume, ResumeGranted, ResumeTimedOut, ResumeCancelled, SlotsInHand, GuardNumbersOK
<1>3. PICK W \in SUBSET Pending :
         /\ Cardinality(W) = Least(v, Cardinality(Pending))
         /\ value' = v - Cardinality(W)
         /\ Wakes(r, next, W)
  BY <1>1, <1>2 DEF WakeWhileAny, Oldest, Wakes, GuardNumbersOK
<1>4. NoLostWakeup'
  <2> SUFFICES ASSUME value' > 0 PROVE Pending' = {}
    BY DEF NoLostWakeup
  <2>1. W = Pending
    BY <1>3, AllAreWoken
  <2> QED
    BY <1>1, <1>3, <2>1, WakeSets
<1> QED
  BY <1>1, <1>3, <1>4, LeavesQueue DEF QueueInv

LEMMA ExitQueueInv ==
    ASSUME GuardNumbersOK, InterruptedWait, QueueInv, NEW r \in Requests, Exit(r)
    PROVE  QueueInv'
<1>1. /\ r \notin Pending /\ pc[r] = "active" /\ UNCHANGED <<waiters, interrupt>>
      /\ WakeOne(r, "idle", value + 1)
  BY DEF Exit, Pending, In
<1>2. PICK W \in SUBSET Pending :
         /\ Cardinality(W) = Least(1, Cardinality(Pending))
         /\ Wakes(r, "idle", W)
  BY <1>1 DEF WakeOne, Oldest, Wakes
<1>3. NoLostWakeup'
  <2> SUFFICES ASSUME NEW p \in Pending' PROVE \E q \in Requests : pc'[q] = "granted"
    BY DEF NoLostWakeup
  <2>1. p \in Pending
    BY <1>1, <1>2, WakeSets
  <2>2. IsFiniteSet(Pending) /\ Cardinality(Pending) \in Nat
    BY PhaseCounts, FS_Subset, FS_CardinalityType DEF Pending
  <2>3. Cardinality(Pending) # 0
    BY <2>1, <2>2, FS_EmptySet
  <2>4. Cardinality(W) # 0
    BY <1>2, <2>2, <2>3 DEF Least
  <2>5. PICK q \in W : TRUE
    BY <2>4, FS_EmptySet
  <2>6. q \in Requests /\ q # r
    BY <1>1, <1>2, <2>5 DEF Pending, In
  <2>7. pc'[q] = "granted"
    BY <1>2, <2>5, <2>6 DEF Wakes
  <2> QED
    BY <2>6, <2>7
<1>4. r \notin Range(waiters) /\ \A i \in 1 .. Len(waiters) : waiters[i] \in Requests \ {r}
  <2>1. r \notin Range(waiters)
    BY <1>1 DEF QueueInv, In
  <2> QED
    BY <2>1 DEF QueueInv, Range
<1>5. Range(waiters) = In("waiting")' \union In("granted")'
  BY <1>1, <1>2, <1>4, WakeSets DEF QueueInv
<1>6. InOrder'
  <2>1. \A a, b \in 1 .. Len(waiters) :
           (a < b /\ waiters[b] \in Requests \ {r} /\ pc'[waiters[b]] = "granted")
              => waiters[a] \notin Pending'
    BY <1>1, <1>2, WakeSets DEF QueueInv
  <2> QED
    BY <1>1, <1>4, <2>1 DEF InOrder
<1> QED
  BY <1>1, <1>3, <1>5, <1>6 DEF QueueInv

LEMMA EnterQueueInv ==
    ASSUME GuardNumbersOK, InterruptedWait, QueueInv, NEW r \in Requests,
           EnterAtOnce(r) \/ EnterQueue(r) \/ Expire(r) \/ Cancel(r)
    PROVE  QueueInv'
<1> USE DEF GuardNumbersOK
<1>1. CASE EnterAtOnce(r)
  <2>1. /\ pc[r] = "idle" /\ pc' = [pc EXCEPT ![r] = "active"]
        /\ UNCHANGED <<waiters, interrupt>> /\ Pending = {}
    BY <1>1 DEF EnterAtOnce, Locked, Pending, In
  <2>2. Pending' = {} /\ In("waiting")' = In("waiting") /\ In("granted")' = In("granted")
    BY <2>1 DEF Pending, In
  <2> QED
    BY <2>1, <2>2 DEF QueueInv, NoLostWakeup, InOrder
<1>2. CASE EnterQueue(r)
  <2>1. /\ pc[r] = "idle" /\ Locked /\ pc' = [pc EXCEPT ![r] = "waiting"]
        /\ waiters' = Append(waiters, r)
        /\ UNCHANGED <<value, interrupt>>
    BY <1>2 DEF EnterQueue
  <2>2. r \notin Range(waiters) /\ waiters \in Seq(Requests) /\ IsInjective(waiters)
    BY <2>1 DEF QueueInv, In
  <2>3. /\ waiters' \in Seq(Requests) /\ IsInjective(waiters')
        /\ Range(waiters') = Range(waiters) \cup {r}
    BY <2>1, <2>2, RangeAppend, InjectiveAppend
  <2>4. In("waiting")' = In("waiting") \cup {r} /\ In("granted")' = In("granted")
    BY <2>1 DEF In
  <2>5. \A q \in Requests \ {r} : (q \in Pending' <=> q \in Pending) /\ pc'[q] = pc[q]
    BY <2>1 DEF Pending, In
  <2>6. /\ Len(waiters') = Len(waiters) + 1 /\ Len(waiters) \in Nat
        /\ waiters'[Len(waiters) + 1] = r
        /\ \A i \in 1 .. Len(waiters) : waiters'[i] = waiters[i] /\ waiters[i] \in Requests \ {r}
    <3>1. \A i \in 1 .. Len(waiters) : waiters[i] \in Requests \ {r}
      BY <2>2 DEF Range
    <3> QED
      BY <2>1, <2>2, <3>1, AppendProperties
  <2>7. ASSUME NEW i \in 1 .. Len(waiters'), NEW j \in 1 .. Len(waiters'), i < j,
               pc'[waiters'[j]] = "granted"
        PROVE  waiters'[i] \notin Pending'
    <3>1. j # Len(waiters) + 1
      BY <2>1, <2>6, <2>7
    <3>2. i \in 1 .. Len(waiters) /\ j \in 1 .. Len(waiters)
      BY <2>6, <2>7, <3>1
    <3>3. /\ waiters'[i] = waiters[i] /\ waiters'[j] = waiters[j]
          /\ waiters[i] \in Requests \ {r} /\ waiters[j] \in Requests \ {r}
      BY <2>6, <3>2
    <3>4. pc[waiters[j]] = "granted"
      BY <2>5, <2>7, <3>3
    <3>5. waiters[i] \notin Pending
      BY <2>7, <3>2, <3>4 DEF QueueInv, InOrder
    <3> QED
      BY <2>5, <3>3, <3>5
  <2>8. NoLostWakeup'
    <3> SUFFICES ASSUME value > 0
                 PROVE  \E q \in Requests : pc'[q] = "granted" \/ interrupt'[q] # "none"
      BY <2>1 DEF NoLostWakeup
    <3>1. PICK q \in Requests : q \in Pending \/ pc[q] = "granted"
      BY <2>1 DEF Locked
    <3>2. PICK p \in Requests : pc[p] = "granted" \/ interrupt[p] # "none"
      BY <3>1 DEF QueueInv, NoLostWakeup
    <3>3. p # r \/ interrupt[p] # "none"
      BY <2>1, <3>2
    <3> QED
      BY <2>1, <3>2, <3>3
  <2>9. Range(waiters') = In("waiting")' \union In("granted")'
    BY <2>3, <2>4 DEF QueueInv
  <2> QED
    BY <2>3, <2>7, <2>8, <2>9 DEF QueueInv, InOrder
<1>3. CASE Expire(r) \/ Cancel(r)
  <2>1. /\ UNCHANGED <<waiters, pc>> /\ interrupt'[r] # "none"
        /\ \A q \in Requests : interrupt'[q] = interrupt[q] \/ interrupt'[q] # "none"
    BY <1>3 DEF Expire, Cancel
  <2>2. Pending' \subseteq Pending /\ In("waiting")' = In("waiting") /\ In("granted")' = In("granted")
    BY <2>1 DEF Pending, In
  <2>3. NoLostWakeup'
    BY <2>1 DEF NoLostWakeup
  <2> QED
    BY <2>1, <2>2, <2>3 DEF QueueInv, InOrder
<1> QED
  BY <1>1, <1>2, <1>3

(* Entering, being interrupted, resuming and leaving keep the queue so.      *)
THEOREM QueueInvariance == GuardInit /\ [][GuardNext]_guardVars => []QueueInv
<1>1. GuardInit => QueueInv
  <2> SUFFICES ASSUME GuardInit PROVE QueueInv
    OBVIOUS
  <2>1. waiters = <<>> /\ In("waiting") = {} /\ In("granted") = {} /\ Pending = {}
    BY DEF GuardInit, In, Pending
  <2> QED
    BY <2>1, RangeEmpty DEF QueueInv, NoLostWakeup, InOrder
<1>2. /\ GuardInv /\ InterruptedWait /\ QueueInv /\ [GuardNext]_guardVars => QueueInv'
  <2> SUFFICES ASSUME GuardNumbersOK, InterruptedWait, QueueInv, [GuardNext]_guardVars
               PROVE  QueueInv'
    BY DEF GuardInv
  <2>1. ASSUME UNCHANGED guardVars PROVE QueueInv'
    BY <2>1 DEF guardVars, QueueInv, NoLostWakeup, InOrder, Pending, In
  <2>2. ASSUME NEW r \in Requests, RejectAtOnce(r) PROVE UNCHANGED guardVars
    BY <2>2 DEF RejectAtOnce
  <2> QED
    BY <2>1, <2>2, EnterQueueInv, ResumeQueueInv, ExitQueueInv DEF GuardNext, Resume
<1> QED
  BY <1>1, <1>2, GuardInvariance, PTL

LEMMA RangeSize ==
    ASSUME NEW S, IsFiniteSet(S), NEW s \in Seq(S), IsInjective(s)
    PROVE  Cardinality(Range(s)) = Len(s)
<1>1. /\ s \in [1 .. Len(s) -> Range(s)] /\ Len(s) \in Nat
      /\ \A x \in Range(s) : \E i \in 1 .. Len(s) : s[i] = x
      /\ \A i, j \in 1 .. Len(s) : s[i] = s[j] => i = j
  BY DEF Range, IsInjective
<1>2. s \in Bijection(1 .. Len(s), Range(s))
  BY <1>1 DEF Bijection, Injection, Surjection, IsInjective
<1>3. ExistsBijection(1 .. Len(s), Range(s))
  BY <1>2 DEF ExistsBijection
<1>4. IsFiniteSet(1 .. Len(s)) /\ Cardinality(1 .. Len(s)) = Len(s)
  <2>1. 1 \in Int /\ Len(s) \in Int
    BY <1>1
  <2>2. /\ IsFiniteSet(1 .. Len(s))
        /\ Cardinality(1 .. Len(s)) = IF 1 > Len(s) THEN 0 ELSE Len(s) - 1 + 1
    BY <2>1, FS_Interval
  <2> QED
    BY <1>1, <2>2
<1> QED
  BY <1>3, <1>4, FS_Bijection

(* Waiters are served in their order, and none is forgotten beside a free    *)
(* slot, however grants, timers, cancellations and releases meet.            *)
THEOREM AlwaysServed == GuardSpec => []WaitersServed
<1>1. QueueInv => WaitersServed
  <2> SUFFICES ASSUME QueueInv PROVE WaitersServed
    OBVIOUS
  <2>1. Len(waiters) = Cardinality(In("waiting") \union In("granted"))
    BY RangeSize DEF QueueInv
  <2> QED
    BY <2>1 DEF QueueInv, WaitersServed, FirstComeFirstServed, InOrder
<1> QED
  BY <1>1, QueueInvariance, PTL DEF GuardSpec

-----------------------------------------------------------------------------
(***************************************************************************)
(* The lock of LeaseLock protects its counter, for any number of tasks and *)
(* of increments, whichever commands fail.                                 *)
(***************************************************************************)
LockStages == Critical \cup {"try", "done", "failed"}

(* Until a lease runs out inside, what a task has read is still what the
   counter holds: the task about to set it is alone. *)
NothingStale ==
    ~overran => /\ late = {}
                /\ counter = written
                /\ \A t \in Tasks : doing[t] = "set" => seen[t] = counter

(* Of the types only those that the lock depends on. *)
LockStagesOK ==
    /\ doing \in [Tasks -> LockStages]
    /\ seen \in [Tasks -> Nat]
    /\ counter \in Nat /\ written \in Nat
    /\ overran \in BOOLEAN

LockInv == LockStagesOK /\ KeyIsMine /\ NothingStale

USE LockAssumption DEF LockStages, Critical, Holds

-----------------------------------------------------------------------------
LEMMA LockInitInv == LockInit => LockInv
<1> SUFFICES ASSUME LockInit PROVE LockInv
  OBVIOUS
<1>1. LockStagesOK
  BY DEF LockInit, LockStagesOK
<1>2. \A t \in Tasks : doing[t] = "try"
  BY DEF LockInit
<1> QED
  BY <1>1, <1>2 DEF LockInit, LockInv, KeyIsMine, NothingStale

LEMMA AcquireInv ==
    ASSUME LockInv, NEW t \in Tasks, acquire(t) \/ AcquireFails(t)
    PROVE  LockInv'
<1>1. LockStagesOK'
  BY DEF acquire, AcquireFails, LockInv, LockStagesOK
<1>2. KeyIsMine'
  (* The key was absent, so whoever was inside had lost its lease. *)
  <2>1. CASE acquire(t)
    BY <2>1 DEF acquire, Absent, LockInv, LockStagesOK, KeyIsMine
  <2>2. CASE AcquireFails(t)
    BY <2>2 DEF AcquireFails, Absent, LockInv, LockStagesOK, KeyIsMine
  <2> QED
    BY <2>1, <2>2
<1>3. NothingStale'
  BY DEF acquire, AcquireFails, LockInv, LockStagesOK, NothingStale
<1> QED
  BY <1>1, <1>2, <1>3 DEF LockInv

(* Two tasks are inside together only after a lease ran out. *)
LEMMA LockAlone ==
    ASSUME LockInv, ~overran, NEW t \in Tasks, NEW u \in Tasks, Holds(t), Holds(u)
    PROVE  t = u
  BY DEF LockInv, KeyIsMine, NothingStale

LEMMA InsideInv ==
    ASSUME LockInv, NEW t \in Tasks,
           GetCounter(t) \/ SetCounter(t) \/ CommandFails(t)
    PROVE  LockInv'
<1>1. LockStagesOK'
  BY DEF GetCounter, SetCounter, CommandFails, SetTo, LockInv, LockStagesOK
<1>2. KeyIsMine'
  BY DEF GetCounter, SetCounter, CommandFails, LockInv, LockStagesOK, KeyIsMine
<1>3. NothingStale'
  <2>1. CASE GetCounter(t)
    BY <2>1 DEF GetCounter, LockInv, LockStagesOK, NothingStale
  <2>2. CASE SetCounter(t)
    BY <2>2, LockAlone DEF SetCounter, SetTo, LockInv, LockStagesOK, NothingStale
  <2>3. CASE CommandFails(t)
    BY <2>3, LockAlone DEF CommandFails, SetTo, LockInv, LockStagesOK, NothingStale
  <2> QED
    BY <2>1, <2>2, <2>3
<1> QED
  BY <1>1, <1>2, <1>3 DEF LockInv

(* A release deletes the key only where it is the task's own. *)
LEMMA ReleaseInv ==
    ASSUME LockInv, NEW t \in Tasks, release(t) \/ ReleaseFails(t)
    PROVE  LockInv'
<1>1. /\ doing' \in [Tasks -> LockStages]
      /\ ~Holds(t)'
      /\ \A u \in Tasks \ {t} : doing'[u] = doing[u]
  BY DEF release, ReleaseFails, LockInv, LockStagesOK
<1>2. \A u \in Tasks \ {t} : key = u => key' = u
  BY DEF release, ReleaseFails, DeleteOwn
<1>3. UNCHANGED <<counter, seen, late, overran, written>>
  BY DEF release, ReleaseFails
<1> QED
  BY <1>1, <1>2, <1>3 DEF LockInv, LockStagesOK, KeyIsMine, NothingStale

LEMMA LockNextInv == LockInv /\ [LockNext]_lockVars => LockInv'
<1> SUFFICES ASSUME LockInv, [LockNext]_lockVars PROVE LockInv'
  OBVIOUS
<1>1. ASSUME NEW t \in Tasks, safe_increment(t) PROVE LockInv'
  BY <1>1, AcquireInv, InsideInv, ReleaseInv DEF safe_increment, Inside
<1>2. CASE LeaseEnds
  BY <1>2 DEF LeaseEnds, LockInv, LockStagesOK, KeyIsMine, NothingStale
<1>3. CASE UNCHANGED lockVars
  BY <1>3 DEF lockVars, LockInv, LockStagesOK, KeyIsMine, NothingStale
<1> QED
  BY <1>1, <1>2, <1>3 DEF LockNext, TasksDone

(* A task inside owns the key until its own lease ends, and no update is lost
   before one ends inside: for every number of tasks and increments. *)
THEOREM LockProtects == LockSpec => []LeaseProtects
<1>1. LockInv => LeaseProtects
  BY DEF LockInv, LeaseProtects, NoLostUpdate, NothingStale
<1> QED
  BY <1>1, LockInitInv, LockNextInv, PTL DEF LockSpec

-----------------------------------------------------------------------------
(***************************************************************************)
(* CompetingWorkers share the messages out, for any number of workers and  *)
(* messages and any max_msgs, whichever connections drop.                  *)
(***************************************************************************)
WorkerStages == {"waiting", "processing", "leaving", "done", "failed"}

SetsOK ==
    /\ ready \subseteq Messages
    /\ acked \subseteq Messages
    /\ held \in [Workers -> SUBSET Messages]
    /\ taken \in [Workers -> SUBSET Messages]
    /\ stage \in [Workers -> WorkerStages]
    /\ drops \in [Messages -> Nat]

Takers(m) == {w \in Workers : m \in taken[w]}

(* A message is in one place: in the queue, with one worker, or acked. *)
OnePlace ==
    /\ ready \cap acked = {}
    /\ \A w \in Workers : held[w] \cap (ready \cup acked) = {}
    /\ \A v, w \in Workers : v # w => held[v] \cap held[w] = {}
    /\ \A m \in Messages :
          m \in ready \cup acked \/ \E w \in Workers : m \in held[w]

(* Only a drop brings a message back that a worker has begun with: in the
   queue, or with a worker on its way out, it has been taken no oftener than
   connections dropped with it, and elsewhere at most once more. *)
TakenTwice ==
    \A m \in Messages :
        /\ Cardinality(Takers(m)) <= 1 + drops[m]
        /\ m \in ready => Cardinality(Takers(m)) <= drops[m]
        /\ \A w \in Workers : stage[w] = "leaving" /\ m \in held[w] =>
              Cardinality(Takers(m)) <= drops[m]

WorkersInv == SetsOK /\ OnePlace /\ TakenTwice

USE WorkersAssumption

-----------------------------------------------------------------------------
LEMMA TakersCount ==
    ASSUME NEW m
    PROVE  IsFiniteSet(Takers(m)) /\ Cardinality(Takers(m)) \in Nat
  BY FS_Subset, FS_CardinalityType DEF Takers

LEMMA WorkerOneMore ==
    ASSUME NEW S, IsFiniteSet(S), NEW x
    PROVE  /\ Cardinality(S \cup {x}) \in Nat
           /\ Cardinality(S \cup {x}) <= Cardinality(S) + 1
<1>1. Cardinality(S) \in Nat
  BY FS_CardinalityType
<1>2. Cardinality(S \cup {x}) =
          IF x \in S THEN Cardinality(S) ELSE Cardinality(S) + 1
  BY FS_AddElement
<1> QED
  BY <1>1, <1>2

LEMMA WorkerInitInv == WorkersInit => WorkersInv
<1> SUFFICES ASSUME WorkersInit PROVE WorkersInv
  OBVIOUS
<1>1. SetsOK
  BY DEF WorkersInit, SetsOK, WorkerStages
<1>2. OnePlace
  BY DEF WorkersInit, OnePlace
<1>3. ASSUME NEW m \in Messages PROVE Takers(m) = {}
  BY DEF WorkersInit, Takers
<1>4. TakenTwice
  BY <1>3, FS_EmptySet DEF WorkersInit, TakenTwice
<1> QED
  BY <1>1, <1>2, <1>4 DEF WorkersInv

LEMMA DeliverInv ==
    ASSUME WorkersInv, NEW w \in Workers, Deliver(w)
    PROVE  WorkersInv'
<1>1. PICK m \in ready :
         /\ ready' = ready \ {m}
         /\ held' = [held EXCEPT ![w] = @ \cup {m}]
         /\ IF stage[w] = "waiting"
            THEN /\ taken' = [taken EXCEPT ![w] = @ \cup {m}]
                 /\ stage' = [stage EXCEPT ![w] = "processing"]
            ELSE UNCHANGED <<taken, stage>>
  BY DEF Deliver
<1>2. UNCHANGED <<acked, drops>> /\ m \in Messages
  BY DEF Deliver, WorkersInv, SetsOK
<1>3. SetsOK'
  BY <1>1, <1>2 DEF WorkersInv, SetsOK, WorkerStages
<1>4. OnePlace'
  BY <1>1, <1>2 DEF WorkersInv, SetsOK, OnePlace
<1>5. TakenTwice'
  <2> SUFFICES ASSUME NEW n \in Messages
               PROVE  /\ Cardinality(Takers(n)') <= 1 + drops[n]
                      /\ n \in ready' => Cardinality(Takers(n)') <= drops[n]
                      /\ \A v \in Workers : stage'[v] = "leaving" /\ n \in held'[v] =>
                            Cardinality(Takers(n)') <= drops[n]
    BY <1>2 DEF TakenTwice
  <2>1. CASE stage[w] # "waiting"
    <3>1. Takers(n)' = Takers(n)
      BY <1>1, <2>1 DEF Takers
    <3> QED
      BY <1>1, <2>1, <3>1 DEF WorkersInv, SetsOK, TakenTwice
  <2>2. CASE stage[w] = "waiting" /\ n # m
    <3>1. Takers(n)' = Takers(n)
      BY <1>1, <2>2 DEF Takers, WorkersInv, SetsOK
    <3>2. n \in ready' <=> n \in ready
      BY <1>1, <2>2
    <3>3. \A v \in Workers : stage'[v] = "leaving" /\ n \in held'[v] =>
              stage[v] = "leaving" /\ n \in held[v]
      BY <1>1, <2>2 DEF WorkersInv, SetsOK
    <3> QED
      BY <3>1, <3>2, <3>3 DEF WorkersInv, TakenTwice
  <2>3. CASE stage[w] = "waiting" /\ n = m
    <3>1. Takers(n)' = Takers(n) \cup {w}
      BY <1>1, <2>3 DEF Takers, WorkersInv, SetsOK
    <3>2. /\ Cardinality(Takers(n)') \in Nat
          /\ Cardinality(Takers(n)') <= Cardinality(Takers(n)) + 1
      BY <3>1, TakersCount, WorkerOneMore
    <3>3. \A v \in Workers : stage'[v] = "leaving" => n \notin held'[v]
      BY <1>1, <2>3 DEF WorkersInv, SetsOK, OnePlace
    <3>4. Cardinality(Takers(n)) <= drops[n] /\ n \notin ready' /\ drops[n] \in Nat
      BY <1>1, <2>3 DEF WorkersInv, SetsOK, TakenTwice
    <3>5. Cardinality(Takers(n)) \in Nat
      BY TakersCount
    <3> QED
      BY <3>2, <3>3, <3>4, <3>5
  <2> QED
    BY <2>1, <2>2, <2>3
<1> QED
  BY <1>3, <1>4, <1>5 DEF WorkersInv

(* The message leaves the worker: acked, or back in the queue. *)
LEMMA FinishInv ==
    ASSUME WorkersInv, NEW w \in Workers, Finish(w)
    PROVE  WorkersInv'
<1> USE DEF Finish, WorkersInv, SetsOK, WorkerStages
<1>1. SetsOK'
  OBVIOUS
<1>2. OnePlace'
  BY DEF OnePlace
<1>3. \A m \in Messages : Takers(m)' = Takers(m)
  BY DEF Takers
<1>4. TakenTwice'
  BY <1>3 DEF TakenTwice
<1> QED
  BY <1>1, <1>2, <1>4

LEMMA LeaveInv ==
    ASSUME WorkersInv, NEW w \in Workers, Leave(w)
    PROVE  WorkersInv'
<1> USE DEF Leave, WorkersInv, SetsOK, WorkerStages
<1>1. SetsOK'
  OBVIOUS
<1>2. OnePlace'
  BY DEF OnePlace
<1>3. \A m \in Messages : Takers(m)' = Takers(m)
  BY DEF Takers
<1>4. TakenTwice'
  BY <1>3 DEF TakenTwice
<1> QED
  BY <1>1, <1>2, <1>4

(* The dropped message may be taken once more, and is counted as dropped. *)
LEMMA DropInv ==
    ASSUME WorkersInv, NEW w \in Workers, Drop(w)
    PROVE  WorkersInv'
<1> USE DEF Drop, WorkersInv, SetsOK, WorkerStages
<1>1. SetsOK'
  OBVIOUS
<1>2. OnePlace'
  BY DEF OnePlace
<1>3. \A m \in Messages : Takers(m)' = Takers(m) /\ Cardinality(Takers(m)) \in Nat
  BY TakersCount DEF Takers
<1>4. TakenTwice'
  BY <1>3 DEF TakenTwice
<1> QED
  BY <1>1, <1>2, <1>4

LEMMA WorkerNextInv == WorkersInv /\ [WorkersNext]_workVars => WorkersInv'
<1> SUFFICES ASSUME WorkersInv, [WorkersNext]_workVars PROVE WorkersInv'
  OBVIOUS
<1>1. ASSUME UNCHANGED <<ready, held, taken, acked, drops>>,
             stage' \in [Workers -> WorkerStages],
             \A v \in Workers : stage'[v] = "leaving" => stage[v] = "leaving"
      PROVE  WorkersInv'
  BY <1>1 DEF WorkersInv, SetsOK, OnePlace, TakenTwice, Takers
<1>2. ASSUME NEW w \in Workers, AckRaises(w) PROVE WorkersInv'
  BY <1>1, <1>2 DEF AckRaises, WorkersInv, SetsOK, WorkerStages
<1>3. ASSUME NEW w \in Workers, Step(w) PROVE WorkersInv'
  BY <1>2, <1>3, DeliverInv, FinishInv, LeaveInv, DropInv DEF Step
<1>4. CASE UNCHANGED workVars
  BY <1>1, <1>4 DEF workVars, WorkersInv, SetsOK
<1> QED
  BY <1>3, <1>4 DEF WorkersNext, Gathered

(* Every message is in the queue, with a worker or acked, and worked on once
   and once more for every connection that dropped with it, at the most: for
   all numbers of workers and messages. *)
THEOREM AlwaysSharedOut == WorkersSpec => []SharedOut
<1>1. WorkersInv => SharedOut
  BY DEF WorkersInv, SharedOut, OnePlace, TakenTwice, Takers
<1> QED
  BY <1>1, WorkerInitInv, WorkerNextInv, PTL DEF WorkersSpec


-----------------------------------------------------------------------------
(***************************************************************************)
(* What SagaOrchestrator leaves behind, for every number of steps.         *)
(***************************************************************************)
(* The completed steps are the first ones, in order: while it executes all   *)
(* before the one it is at, then those whose compensation has not had its    *)
(* turn.                                                                     *)
OrchestratorInv ==
    LET n == Len(completed)
        f == orchestrator.step
    IN  /\ OrchestratorTypeOK
        /\ completed \in Seq(StepNumbers) /\ \A i \in 1 .. n : completed[i] = i
        /\ orchestrator.at = "execute" =>
              /\ n = f - 1 /\ unsettled = {}
              /\ \A i \in StepNumbers : service[i] = IF i < f THEN "done" ELSE "none"
        /\ orchestrator.at = "returned" => \A i \in StepNumbers : service[i] = "done"
        /\ orchestrator.at \in {"compensate", "raised"} =>
              /\ n < f
              /\ \A i \in StepNumbers :
                    /\ i \in unsettled => n < i /\ i < f
                    /\ i <= n => service[i] = "done"
                    /\ n < i /\ i < f => service[i] = "undone" \/ i \in unsettled
                    /\ i = f => service[i] # "undone"
                    /\ i > f => service[i] = "none"
        /\ orchestrator.at = "raised" => n = 0

LEMMA OrchestratorBegins == OrchestratorInit => OrchestratorInv
  BY SagaStepsAssumption DEF OrchestratorInit, OrchestratorInv, OrchestratorTypeOK, StepNumbers

LEMMA SucceedsInv == OrchestratorInv /\ StepSucceeds => OrchestratorInv'
<1> SUFFICES ASSUME OrchestratorInv, StepSucceeds PROVE OrchestratorInv'
  OBVIOUS
<1> DEFINE f == orchestrator.step
           n == Len(completed)
<1>1. /\ f \in Nat \ {0} /\ f <= SagaSteps /\ SagaSteps \in Nat
      /\ completed \in Seq(StepNumbers) /\ n = f - 1 /\ unsettled = {}
      /\ orchestrator.at = "execute"
  <2>1. orchestrator.at = "execute"
    BY DEF StepSucceeds
  <2>2. f \in 1 .. SagaSteps /\ SagaSteps \in Nat
    BY SagaStepsAssumption DEF OrchestratorInv, OrchestratorTypeOK, StepNumbers
  <2>3. completed \in Seq(StepNumbers) /\ n = f - 1 /\ unsettled = {}
    BY <2>1 DEF OrchestratorInv
  <2> QED
    BY <2>1, <2>2, <2>3
<1>2. /\ completed' \in Seq(StepNumbers) /\ Len(completed') = f
      /\ \A i \in 1 .. f : completed'[i] = i
  <2>1. completed' = Append(completed, f) /\ f \in StepNumbers
    BY <1>1 DEF StepSucceeds, StepNumbers
  <2>2. /\ Append(completed, f) \in Seq(StepNumbers)
        /\ Len(Append(completed, f)) = n + 1
        /\ \A i \in 1 .. n : Append(completed, f)[i] = completed[i]
        /\ Append(completed, f)[n + 1] = f
    BY <1>1, <2>1, AppendProperties
  <2> QED
    BY <1>1, <2>1, <2>2 DEF OrchestratorInv
<1>3. \A i \in StepNumbers : service'[i] = IF i < f + 1 THEN "done" ELSE "none"
  BY <1>1, SMTT(20) DEF OrchestratorInv, OrchestratorTypeOK, StepSucceeds, Records, StepNumbers
<1>4. OrchestratorTypeOK'
  <2>1. service' \in [StepNumbers -> {"none", "done", "undone"}]
    BY DEF OrchestratorInv, OrchestratorTypeOK, StepSucceeds, Records
  <2>2. orchestrator' \in [at : {"execute", "compensate", "returned", "raised"},
                           step : StepNumbers]
    <3> DEFINE R == [at : {"execute", "compensate", "returned", "raised"}, step : StepNumbers]
    <3>1. orchestrator \in R
      BY DEF OrchestratorInv, OrchestratorTypeOK
    <3>2. CASE f < SagaSteps
      <4>1. f + 1 \in StepNumbers
        BY <1>1, <3>2 DEF StepNumbers
      <4>2. orchestrator' = [orchestrator EXCEPT !.step = f + 1]
        BY <3>2 DEF StepSucceeds
      <4> QED
        BY <3>1, <4>1, <4>2
    <3>3. CASE f = SagaSteps
      <4>1. orchestrator' = [orchestrator EXCEPT !.at = "returned"]
        BY <1>1, <3>3 DEF StepSucceeds
      <4> QED
        BY <3>1, <4>1
    <3> QED
      BY <1>1, <3>2, <3>3
  <2> QED
    BY <1>2, <2>1, <2>2 DEF OrchestratorInv, OrchestratorTypeOK, StepSucceeds
<1>5. \/ f < SagaSteps /\ orchestrator'.at = "execute" /\ orchestrator'.step = f + 1
      \/ f = SagaSteps /\ orchestrator'.at = "returned"
  BY <1>1 DEF OrchestratorInv, OrchestratorTypeOK, StepSucceeds
<1>6. unsettled' = {}
  BY <1>1 DEF StepSucceeds
<1>7. CASE f < SagaSteps /\ orchestrator'.at = "execute" /\ orchestrator'.step = f + 1
  BY <1>1, <1>2, <1>3, <1>4, <1>6, <1>7 DEF OrchestratorInv
<1>8. CASE f = SagaSteps /\ orchestrator'.at = "returned"
  <2>1. \A i \in StepNumbers : service'[i] = "done"
    BY <1>1, <1>3, <1>8 DEF StepNumbers
  <2> QED
    BY <1>2, <1>4, <1>8, <2>1 DEF OrchestratorInv
<1> QED
  BY <1>5, <1>7, <1>8

LEMMA RaisesInv == OrchestratorInv /\ StepRaises => OrchestratorInv'
<1> SUFFICES ASSUME OrchestratorInv, StepRaises PROVE OrchestratorInv'
  OBVIOUS
<1> DEFINE f == orchestrator.step
<1>1. /\ f \in StepNumbers /\ orchestrator.at = "execute" /\ Len(completed) = f - 1
      /\ orchestrator'.at = "compensate" /\ orchestrator'.step = f
      /\ unsettled = {} /\ UNCHANGED <<refused, completed, unsettled>>
  BY DEF OrchestratorInv, OrchestratorTypeOK, StepRaises, OrchestratorGoes
<1>2. \A i \in StepNumbers :
         \/ service'[i] = service[i]
         \/ i = f /\ service'[i] = "done"
  BY DEF OrchestratorInv, OrchestratorTypeOK, StepRaises, Records
<1>3. OrchestratorTypeOK'
  BY <1>1 DEF OrchestratorInv, OrchestratorTypeOK, StepRaises, OrchestratorGoes, Records
<1> QED
  BY <1>1, <1>2, <1>3, SagaStepsAssumption DEF OrchestratorInv, StepNumbers

(* The last of the completed steps comes first, and leaves the others as     *)
(* they were.                                                                *)
LEMMA LastReversed ==
    ASSUME NEW S, NEW s \in Seq(S), s # << >>
    PROVE  /\ Reversed(s) # << >> /\ Head(Reversed(s)) = s[Len(s)]
           /\ Reversed(Tail(Reversed(s))) \in Seq(S)
           /\ Len(Reversed(Tail(Reversed(s)))) = Len(s) - 1
           /\ \A i \in 1 .. Len(s) - 1 : Reversed(Tail(Reversed(s)))[i] = s[i]
<1> DEFINE r == [i \in 1 .. Len(s) |-> s[(Len(s) - i) + 1]]
<1>1. Reversed(s) = r /\ r \in Seq(S) /\ Len(r) = Len(s) /\ Len(s) \in Nat \ {0}
  BY EmptySeq DEF Reversed, Reverse
<1>2. r # << >> /\ Head(r) = s[Len(s)]
  BY <1>1
<1>3. /\ Tail(r) \in Seq(S) /\ Len(Tail(r)) = Len(s) - 1
      /\ \A i \in 1 .. Len(s) - 1 : Tail(r)[i] = s[Len(s) - i]
  BY <1>1, <1>2
<1> DEFINE t == Tail(r)
           u == [i \in 1 .. Len(t) |-> t[(Len(t) - i) + 1]]
<1>4. Reversed(t) = u
  BY DEF Reversed, Reverse
<1> HIDE DEF t, r
<1>5. u \in Seq(S) /\ Len(u) = Len(s) - 1 /\ \A i \in 1 .. Len(s) - 1 : u[i] = s[i]
  <2>1. t \in Seq(S) /\ Len(t) = Len(s) - 1 /\ \A i \in 1 .. Len(s) - 1 : t[i] = s[Len(s) - i]
    BY <1>3 DEF t
  <2>2. \A i \in 1 .. Len(t) : (Len(t) - i) + 1 \in 1 .. Len(t) /\ t[(Len(t) - i) + 1] \in S
    BY <2>1
  <2>3. u \in Seq(S) /\ Len(u) = Len(t) /\ \A i \in 1 .. Len(t) : u[i] = t[(Len(t) - i) + 1]
    BY <2>1, <2>2
  <2> HIDE DEF u
  <2>4. \A i \in 1 .. Len(s) - 1 :
           /\ i \in 1 .. Len(t) /\ (Len(t) - i) + 1 \in 1 .. Len(s) - 1
           /\ Len(s) - ((Len(t) - i) + 1) = i
    BY <1>1, <2>1
  <2> QED
    BY <2>1, <2>3, <2>4
<1> QED
  BY <1>1, <1>2, <1>4, <1>5 DEF t

LEMMA CompensateInv == OrchestratorInv /\ CompensateStep => OrchestratorInv'
<1> SUFFICES ASSUME OrchestratorInv, CompensateStep PROVE OrchestratorInv'
  OBVIOUS
<1> DEFINE f == orchestrator.step
           n == Len(completed)
<1>1. /\ completed \in Seq(StepNumbers) /\ completed # << >> /\ n \in Nat \ {0}
      /\ orchestrator.at = "compensate" /\ n < f /\ f \in StepNumbers
      /\ UNCHANGED <<refused, orchestrator>>
  BY EmptySeq DEF OrchestratorInv, OrchestratorTypeOK, CompensateStep
<1>2. /\ Head(Reversed(completed)) = n
      /\ completed' \in Seq(StepNumbers) /\ Len(completed') = n - 1
      /\ \A i \in 1 .. n - 1 : completed'[i] = i
  BY <1>1, LastReversed DEF CompensateStep, OrchestratorInv
<1>3. n \in StepNumbers
  BY <1>1, SagaStepsAssumption DEF StepNumbers
<1>4. /\ service' = [service EXCEPT ![n] = "undone"] \/ service' = service
      /\ \/ service' = [service EXCEPT ![n] = "undone"] /\ unsettled' = unsettled
         \/ unsettled' = unsettled \cup {n}
  BY <1>2 DEF CompensateStep, Records
<1>5. /\ \A i \in StepNumbers \ {n} :
            service'[i] = service[i] /\ (i \in unsettled' <=> i \in unsettled)
      /\ service'[n] = "undone" \/ n \in unsettled'
  BY <1>3, <1>4 DEF OrchestratorInv, OrchestratorTypeOK
<1>6. OrchestratorTypeOK'
  <2>1. service' \in [StepNumbers -> {"none", "done", "undone"}] /\ unsettled' \subseteq StepNumbers
    BY <1>3, <1>4 DEF OrchestratorInv, OrchestratorTypeOK
  <2> QED
    BY <1>1, <1>2, <2>1 DEF OrchestratorInv, OrchestratorTypeOK
<1>7. \A i \in StepNumbers :
         /\ i \in unsettled' => n - 1 < i /\ i < f
         /\ i <= n - 1 => service'[i] = "done"
         /\ n - 1 < i /\ i < f => service'[i] = "undone" \/ i \in unsettled'
         /\ i = f => service'[i] # "undone"
         /\ i > f => service'[i] = "none"
  <2> SUFFICES ASSUME NEW i \in StepNumbers
               PROVE  /\ i \in unsettled' => n - 1 < i /\ i < f
                      /\ i <= n - 1 => service'[i] = "done"
                      /\ n - 1 < i /\ i < f => service'[i] = "undone" \/ i \in unsettled'
                      /\ i = f => service'[i] # "undone"
                      /\ i > f => service'[i] = "none"
    OBVIOUS
  <2>1. /\ i \in Nat /\ n \in Nat /\ f \in Nat /\ n < f
        /\ i \in unsettled => n < i /\ i < f
        /\ i <= n => service[i] = "done"
        /\ n < i /\ i < f => service[i] = "undone" \/ i \in unsettled
        /\ i = f => service[i] # "undone"
        /\ i > f => service[i] = "none"
    BY <1>1 DEF OrchestratorInv, StepNumbers
  <2>2. CASE i = n
    BY <1>5, <2>1, <2>2
  <2>3. CASE i # n
    <3>1. service'[i] = service[i] /\ (i \in unsettled' <=> i \in unsettled)
      BY <1>5, <2>3
    <3>2. (i <= n - 1 <=> i <= n) /\ (n - 1 < i <=> n < i)
      BY <2>1, <2>3
    <3> QED
      BY <2>1, <3>1, <3>2
  <2> QED
    BY <2>2, <2>3
<1>8. orchestrator'.at = "compensate" /\ orchestrator'.step = f /\ n - 1 < f
  BY <1>1 DEF StepNumbers
<1>9. \A i \in 1 .. Len(completed') : completed'[i] = i
  BY <1>2
<1> QED
  BY <1>2, <1>6, <1>7, <1>8, <1>9 DEF OrchestratorInv

LEMMA RaiseAgainInv == OrchestratorInv /\ RaiseAgain => OrchestratorInv'
<1> SUFFICES ASSUME OrchestratorInv, RaiseAgain PROVE OrchestratorInv'
  OBVIOUS
<1>1. /\ orchestrator.at = "compensate" /\ completed = << >>
      /\ orchestrator'.at = "raised" /\ orchestrator'.step = orchestrator.step
      /\ UNCHANGED <<refused, completed, service, unsettled>>
  BY DEF OrchestratorInv, OrchestratorTypeOK, RaiseAgain, OrchestratorGoes
<1>2. OrchestratorTypeOK'
  BY <1>1 DEF OrchestratorInv, OrchestratorTypeOK, RaiseAgain, OrchestratorGoes
<1>3. Len(completed) = 0
  BY <1>1
<1> QED
  BY <1>1, <1>2, <1>3 DEF OrchestratorInv

(* The stages of the orchestrator preserve the invariant.                    *)
THEOREM OrchestratorInvariance == OrchestratorSpec => []OrchestratorInv
<1>1. OrchestratorInv /\ [OrchestratorNext]_orchestratorVars => OrchestratorInv'
  <2> SUFFICES ASSUME OrchestratorInv, [OrchestratorNext]_orchestratorVars
               PROVE  OrchestratorInv'
    OBVIOUS
  <2>1. CASE NextSaga
    BY <2>1, SagaStepsAssumption
       DEF NextSaga, OrchestratorInv, OrchestratorTypeOK, StepNumbers
  <2>2. CASE UNCHANGED orchestratorVars
    BY <2>2 DEF orchestratorVars, OrchestratorInv, OrchestratorTypeOK
  <2> QED
    BY <2>1, <2>2, SucceedsInv, RaisesInv, CompensateInv, RaiseAgainInv DEF OrchestratorNext
<1> QED
  BY OrchestratorBegins, <1>1, PTL DEF OrchestratorSpec

(* Whatever fails, a saga that returns has done every step, and one that     *)
(* raises has compensated all it had completed, or tried to, the later ones  *)
(* first.                                                                    *)
THEOREM StepsSettleAlways == OrchestratorSpec => []StepsSettled
<1>1. OrchestratorInv => StepsSettled
  <2> SUFFICES ASSUME OrchestratorInv PROVE StepsSettled
    OBVIOUS
  <2> DEFINE f == orchestrator.step
             n == Len(completed)
  <2>1. /\ orchestrator.at \in {"execute", "compensate", "returned", "raised"}
        /\ f \in Nat /\ n \in Nat /\ StepNumbers \subseteq Nat
    BY SagaStepsAssumption DEF OrchestratorInv, OrchestratorTypeOK, StepNumbers
  <2>2. CASE orchestrator.at \in {"execute", "returned"}
    BY <2>1, <2>2 DEF OrchestratorInv, StepsSettled
  <2>3. CASE orchestrator.at \in {"compensate", "raised"}
    <3>1. /\ n < f
          /\ \A i \in StepNumbers :
                /\ i \in unsettled => n < i /\ i < f
                /\ i <= n => service[i] = "done"
                /\ n < i /\ i < f => service[i] = "undone" \/ i \in unsettled
                /\ i = f => service[i] # "undone"
                /\ i > f => service[i] = "none"
      BY <2>3 DEF OrchestratorInv
    <3>2. orchestrator.at = "raised" => n = 0
      BY DEF OrchestratorInv
    <3>3. orchestrator.at = "raised" =>
             \A i \in StepNumbers :
                /\ i < f => service[i] = "undone" \/ i \in unsettled
                /\ i = f => service[i] # "undone"
                /\ i > f => service[i] = "none"
      BY <2>1, <3>1, <3>2 DEF StepNumbers
    <3>4. ASSUME NEW i \in StepNumbers, NEW j \in StepNumbers, i < j, service[i] = "undone"
          PROVE  ~(service[j] = "done" /\ j # f /\ j \notin unsettled)
      BY <2>1, <3>1, <3>4
    <3> QED
      BY <2>3, <3>3, <3>4 DEF StepsSettled
  <2> QED
    BY <2>1, <2>2, <2>3
<1> QED
  BY <1>1, OrchestratorInvariance, PTL

-----------------------------------------------------------------------------
(***************************************************************************)
(* Benchmarks: the comparison of /all is of its own run, for every number  *)
(* of clients and of runs.                                                 *)
(***************************************************************************)
KindSet == Range(Kinds)

\* The run that was let in last has measured a kind.
IsMeasured(k) == \E i \in 1 .. Len(results) : results[i] = <<k, runs>>

(* One request at a time is past the lock, and it is the last that was let   *)
(* in.  Of the kinds of /all it has measured or failed those it has not      *)
(* still to run, and results are in the order of their runs.                 *)
BenchInv ==
    /\ runs \in 0 .. MaxRuns
    /\ tool \in Tools \cup {"none"}
    /\ running \in [Clients -> [run : Nat, todo : Seq(KindSet), all : BOOLEAN,
                                failed : SUBSET KindSet]]
    /\ results \in Seq(KindSet \X Nat)
    /\ \A i \in 1 .. Len(results) : results[i][2] >= 1 /\ results[i][2] <= runs
    /\ \A i, j \in 1 .. Len(results) : i < j => results[i][2] <= results[j][2]
    /\ \A c, d \in Clients : running[c] # Idle /\ running[d] # Idle => c = d
    /\ \A c \in Clients : running[c] # Idle =>
          /\ running[c].run = runs /\ runs >= 1
          /\ running[c].all =>
                /\ IsInjective(running[c].todo)
                /\ \A k \in KindSet :
                      /\ k \in Range(running[c].todo) \cup running[c].failed => ~IsMeasured(k)
                      /\ k \in Range(running[c].todo) => k \notin running[c].failed
                      /\ \/ k \in Range(running[c].todo) \cup running[c].failed
                         \/ IsMeasured(k)
    /\ ComparisonIsOwn

LEMMA KindsDiffer == Kinds \in Seq(KindSet) /\ IsInjective(Kinds) /\ KindSet = ToSet(Kinds)
<1>1. DOMAIN Kinds = 1 .. 5 /\ Len(Kinds) = 5
  BY DEF Kinds
<1>2. Kinds \in Seq(KindSet)
  <2>1. \A i \in 1 .. 5 : Kinds[i] \in KindSet
    BY <1>1 DEF KindSet, Range
  <2>2. Kinds = [i \in 1 .. 5 |-> Kinds[i]]
    BY DEF Kinds
  <2> HIDE DEF KindSet
  <2> QED
    BY <2>1, <2>2
<1>3. IsInjective(Kinds)
  BY DEF Kinds, IsInjective
<1> QED
  BY <1>2, <1>3 DEF KindSet, Range, ToSet

LEMMA BenchBegins == BenchInit => BenchInv
<1> SUFFICES ASSUME BenchInit PROVE BenchInv
  OBVIOUS
<1>1. Idle \in [run : Nat, todo : Seq(KindSet), all : BOOLEAN, failed : SUBSET KindSet]
  BY DEF Idle, NoRun
<1> QED
  BY <1>1, MaxRunsAssumption DEF BenchInit, BenchInv, ComparisonIsOwn

(* What LatestOf finds is the run of the last result of the kind.            *)
LEMMA LatestIsLast ==
    ASSUME BenchInv, NEW k \in KindSet
    PROVE  /\ IsMeasured(k) => LatestOf(k) = runs
           /\ ~IsMeasured(k) /\ runs >= 1 => LatestOf(k) < runs
<1> DEFINE of == {i \in DOMAIN results : results[i][1] = k}
<1>1. /\ results \in Seq(KindSet \X Nat) /\ Len(results) \in Nat /\ runs \in Nat
      /\ DOMAIN results = 1 .. Len(results)
      /\ \A i \in 1 .. Len(results) :
            /\ results[i] = <<results[i][1], results[i][2]>>
            /\ results[i][2] \in Nat /\ results[i][2] <= runs
  BY DEF BenchInv
<1>2. CASE of = {}
  <2>1. LatestOf(k) = 0
    BY <1>2 DEF LatestOf, NoRun
  <2>2. ~IsMeasured(k)
    <3> SUFFICES ASSUME NEW i \in 1 .. Len(results), results[i] = <<k, runs>> PROVE FALSE
      BY DEF IsMeasured
    <3>1. results[i][1] = k
      OBVIOUS
    <3> QED
      BY <1>1, <1>2, <3>1
  <2> QED
    BY <1>1, <2>1, <2>2
<1>3. CASE of # {}
  <2>1. of \subseteq 0 .. Len(results)
    BY <1>1
  <2>2. \E n \in of : \A i \in of : i <= n
    <3> HIDE DEF of
    <3> QED
      BY <1>1, <1>3, <2>1, GreatestOf
  <2>3. Max(of) \in of /\ \A i \in of : Max(of) >= i
    <3>1. \E n \in of : \A i \in of : n >= i
      BY <2>1, <2>2
    <3> HIDE DEF of
    <3> QED
      BY <3>1 DEF Max
  <2> DEFINE last == Max(of)
  <2>4. LatestOf(k) = results[last][2] /\ last \in 1 .. Len(results) /\ results[last][1] = k
    BY <1>1, <1>3, <2>3 DEF LatestOf
  <2> HIDE DEF last
  <2>5. ASSUME IsMeasured(k) PROVE LatestOf(k) = runs
    <3>1. PICK i \in 1 .. Len(results) : results[i] = <<k, runs>>
      BY <2>5 DEF IsMeasured
    <3>2. i \in of /\ results[i][2] = runs
      BY <1>1, <3>1
    <3>3. i <= last
      BY <1>1, <2>3, <2>4, <3>2 DEF last
    <3>4. runs <= results[last][2]
      BY <1>1, <2>4, <3>2, <3>3 DEF BenchInv
    <3> QED
      BY <1>1, <2>4, <3>4
  <2>6. ASSUME ~IsMeasured(k) PROVE LatestOf(k) < runs
    <3>1. results[last] = <<k, results[last][2]>>
      BY <1>1, <2>4
    <3>2. results[last][2] # runs
      BY <2>4, <2>6, <3>1 DEF IsMeasured
    <3>3. results[last][2] \in Nat /\ results[last][2] <= runs
      BY <1>1, <2>4
    <3>4. results[last][2] < runs
      BY <1>1, <3>2, <3>3
    <3> QED
      BY <2>4, <3>4
  <2> QED
    BY <2>5, <2>6
<1> QED
  BY <1>2, <1>3

LEMMA BenchBeginInv ==
    ASSUME BenchInv, NEW c \in Clients, Begin(c)
    PROVE  BenchInv'
<1>1. /\ \A d \in Clients : running[d] = Idle
      /\ runs \in Nat /\ runs < MaxRuns /\ runs' = runs + 1
      /\ UNCHANGED <<tool, results, answers>>
  BY DEF Begin, Free, BenchmarkLocked, BenchInv
<1>2. PICK todo \in {<<Kinds[k]>> : k \in DOMAIN Kinds} \cup {Kinds} :
         running' = [running EXCEPT ![c] = [run |-> runs + 1, todo |-> todo,
                                            all |-> todo = Kinds, failed |-> {}]]
  BY DEF Begin
<1>3. todo \in Seq(KindSet)
  <2>1. \A k \in DOMAIN Kinds : Kinds[k] \in KindSet
    BY DEF KindSet, Range
  <2>2. CASE todo = Kinds
    BY <2>2, KindsDiffer
  <2>3. ASSUME NEW k \in DOMAIN Kinds, todo = <<Kinds[k]>> PROVE todo \in Seq(KindSet)
    <3> HIDE DEF KindSet
    <3>1. Kinds[k] \in KindSet
      BY <2>1
    <3> QED
      BY <2>3, <3>1
  <2> QED
    BY <2>2, <2>3
<1> DEFINE new == [run |-> runs + 1, todo |-> todo, all |-> todo = Kinds, failed |-> {}]
           R == [run : Nat, todo : Seq(KindSet), all : BOOLEAN, failed : SUBSET KindSet]
<1>4. new \in R /\ new.run = runs' /\ new.failed = {} /\ new.todo = todo
      /\ (new.all => todo = Kinds)
  <2>1. CASE todo = Kinds
    <3>1. new = [run |-> runs + 1, todo |-> todo, all |-> TRUE, failed |-> {}]
      BY <2>1
    <3> HIDE DEF new
    <3> QED
      BY <1>1, <1>3, <2>1, <3>1
  <2>2. CASE todo # Kinds
    <3>1. new = [run |-> runs + 1, todo |-> todo, all |-> FALSE, failed |-> {}]
      BY <2>2
    <3> HIDE DEF new
    <3> QED
      BY <1>1, <1>3, <2>2, <3>1
  <2> QED
    BY <2>1, <2>2
<1> HIDE DEF new
<1>5. running' \in [Clients -> R] /\ \A d \in Clients : running'[d] = IF d = c THEN new ELSE Idle
  BY <1>1, <1>2, <1>4 DEF BenchInv, new
<1>6. \A k : ~IsMeasured(k)'
  <2> SUFFICES ASSUME NEW k, NEW i \in 1 .. Len(results), results[i] = <<k, runs + 1>>
               PROVE  FALSE
    BY <1>1 DEF IsMeasured
  <2>1. results[i][2] <= runs
    BY DEF BenchInv
  <2> QED
    BY <1>1, <2>1
<1>7. \A d \in Clients : running'[d] # Idle =>
         /\ d = c
         /\ running'[d].run = runs' /\ runs' >= 1
         /\ running'[d].all => running'[d].todo = Kinds /\ running'[d].failed = {}
  BY <1>1, <1>4, <1>5
<1>8. ComparisonIsOwn'
  BY <1>1 DEF BenchInv, ComparisonIsOwn
<1>9. /\ runs' \in 0 .. MaxRuns
      /\ \A i \in 1 .. Len(results) : results[i][2] >= 1 /\ results[i][2] <= runs + 1
  <2>1. \A i \in 1 .. Len(results) : results[i][2] \in Nat
    BY DEF BenchInv
  <2> QED
    BY <1>1, <2>1, MaxRunsAssumption DEF BenchInv
<1>10. \A d \in Clients : running'[d] # Idle =>
          /\ running'[d].run = runs' /\ runs' >= 1
          /\ running'[d].all =>
                /\ IsInjective(running'[d].todo)
                /\ \A k \in KindSet :
                      /\ k \in Range(running'[d].todo) \cup running'[d].failed => ~IsMeasured(k)'
                      /\ k \in Range(running'[d].todo) => k \notin running'[d].failed
                      /\ \/ k \in Range(running'[d].todo) \cup running'[d].failed
                         \/ IsMeasured(k)'
  BY <1>6, <1>7, KindsDiffer DEF KindSet
<1> QED
  BY <1>1, <1>5, <1>7, <1>8, <1>9, <1>10 DEF BenchInv

(* The one that is past the lock, with a benchmark still to run.             *)
LEMMA AtWork ==
    ASSUME BenchInv, NEW c \in Clients, Todo(c) # <<>>
    PROVE  /\ running[c] # Idle /\ running[c].run = runs /\ runs >= 1 /\ runs \in Nat
           /\ \A d \in Clients \ {c} : running[d] = Idle
           /\ Todo(c) = running[c].todo /\ Todo(c) \in Seq(KindSet)
           /\ Head(Todo(c)) \in KindSet /\ Tail(Todo(c)) \in Seq(KindSet)
           /\ Range(Todo(c)) = {Head(Todo(c))} \cup Range(Tail(Todo(c)))
           /\ IsInjective(Todo(c)) =>
                 IsInjective(Tail(Todo(c))) /\ Head(Todo(c)) \notin Range(Tail(Todo(c)))
<1>1. running[c] # Idle /\ Todo(c) = running[c].todo
  BY DEF Todo, Idle
<1>2. running[c].todo \in Seq(KindSet) /\ runs \in Nat
  BY DEF BenchInv
<1>3. running[c].run = runs /\ runs >= 1 /\ \A d \in Clients \ {c} : running[d] = Idle
  BY <1>1 DEF BenchInv
<1> QED
  BY <1>1, <1>2, <1>3, HeadAndTail

(* What is true of the request at work when it has dealt with its next kind, *)
(* in one way or the other.                                                  *)
LEMMA DealtWith ==
    ASSUME BenchInv, NEW c \in Clients, Todo(c) # <<>>, running[c].all,
           running'[c].todo = Tail(Todo(c)),
           \/ /\ running'[c].failed = running[c].failed
              /\ \A k \in KindSet : IsMeasured(k)' <=> IsMeasured(k) \/ k = Head(Todo(c))
           \/ /\ running'[c].failed = running[c].failed \cup {Head(Todo(c))}
              /\ \A k \in KindSet : IsMeasured(k)' <=> IsMeasured(k)
    PROVE  /\ IsInjective(running'[c].todo)
           /\ \A k \in KindSet :
                 /\ k \in Range(running'[c].todo) \cup running'[c].failed => ~IsMeasured(k)'
                 /\ k \in Range(running'[c].todo) => k \notin running'[c].failed
                 /\ \/ k \in Range(running'[c].todo) \cup running'[c].failed
                    \/ IsMeasured(k)'
<1> DEFINE h == Head(Todo(c))
           t == Tail(Todo(c))
<1>1. running[c].all => IsInjective(running[c].todo)
  BY AtWork DEF BenchInv
<1>2. /\ IsInjective(t) /\ h \notin Range(t) /\ h \in KindSet
      /\ Range(running[c].todo) = {h} \cup Range(t)
  BY <1>1, AtWork
<1>3. \A k \in KindSet :
         /\ k \in Range(running[c].todo) \cup running[c].failed => ~IsMeasured(k)
         /\ k \in Range(running[c].todo) => k \notin running[c].failed
         /\ \/ k \in Range(running[c].todo) \cup running[c].failed
            \/ IsMeasured(k)
  BY AtWork DEF BenchInv
<1>4. running'[c].todo = t
  OBVIOUS
<1> HIDE DEF h, t
<1>5. \/ /\ running'[c].failed = running[c].failed
         /\ \A k \in KindSet : IsMeasured(k)' <=> IsMeasured(k) \/ k = h
      \/ /\ running'[c].failed = running[c].failed \cup {h}
         /\ \A k \in KindSet : IsMeasured(k)' <=> IsMeasured(k)
  BY DEF h
<1> QED
  BY <1>2, <1>3, <1>4, <1>5

LEMMA MeasuredInv ==
    ASSUME BenchInv, NEW c \in Clients, Measured(c)
    PROVE  BenchInv'
<1> DEFINE h == Head(Todo(c))
           e == <<h, runs>>
           R == [run : Nat, todo : Seq(KindSet), all : BOOLEAN, failed : SUBSET KindSet]
<1>1. /\ Todo(c) # <<>> /\ running' = [running EXCEPT ![c].todo = Tail(@)]
      /\ results' = Append(results, e)
      /\ UNCHANGED <<runs, tool, answers>>
  BY AtWork DEF Measured
<1>2. /\ running[c] # Idle /\ running[c].run = runs /\ runs >= 1 /\ runs \in Nat
      /\ \A d \in Clients \ {c} : running[d] = Idle
      /\ Todo(c) = running[c].todo /\ h \in KindSet /\ Tail(Todo(c)) \in Seq(KindSet)
  BY <1>1, AtWork
<1>3. /\ running[c] \in R /\ running \in [Clients -> R]
      /\ results \in Seq(KindSet \X Nat) /\ Len(results) \in Nat
  BY DEF BenchInv
<1>4. running' \in [Clients -> R]
  BY <1>1, <1>2, <1>3
<1>5. /\ running'[c].todo = Tail(Todo(c))
      /\ running'[c].run = runs /\ running'[c].all = running[c].all
      /\ running'[c].failed = running[c].failed
      /\ \A d \in Clients \ {c} : running'[d] = Idle
  BY <1>1, <1>2, <1>3
<1>6. /\ results' \in Seq(KindSet \X Nat) /\ Len(results') = Len(results) + 1
      /\ \A i \in 1 .. Len(results) : results'[i] = results[i]
      /\ results'[Len(results) + 1] = e
  <2>1. e \in KindSet \X Nat
    BY <1>2
  <2> HIDE DEF e
  <2> QED
    BY <1>1, <1>3, <2>1, AppendProperties
<1>7. \A i \in 1 .. Len(results') : \/ i \in 1 .. Len(results)
                                    \/ i = Len(results) + 1
  BY <1>3, <1>6
<1>8. \A k \in KindSet : IsMeasured(k)' <=> IsMeasured(k) \/ k = h
  <2> SUFFICES ASSUME NEW k \in KindSet PROVE IsMeasured(k)' <=> IsMeasured(k) \/ k = h
    OBVIOUS
  <2>1. ASSUME IsMeasured(k)' PROVE IsMeasured(k) \/ k = h
    <3>1. PICK i \in 1 .. Len(results') : results'[i] = <<k, runs>>
      BY <1>1, <2>1 DEF IsMeasured
    <3>2. CASE i \in 1 .. Len(results)
      BY <1>6, <3>1, <3>2 DEF IsMeasured
    <3>3. CASE i = Len(results) + 1
      BY <1>6, <3>1, <3>3
    <3> QED
      BY <1>7, <3>2, <3>3
  <2>2. ASSUME IsMeasured(k) PROVE IsMeasured(k)'
    <3>1. PICK i \in 1 .. Len(results) : results[i] = <<k, runs>>
      BY <2>2 DEF IsMeasured
    <3>2. i \in 1 .. Len(results')
      BY <1>3, <1>6, <3>1
    <3>3. results'[i] = <<k, runs>>
      BY <1>6, <3>1
    <3> QED
      BY <1>1, <3>2, <3>3 DEF IsMeasured
  <2>3. ASSUME k = h PROVE IsMeasured(k)'
    <3>1. Len(results) + 1 \in 1 .. Len(results') /\ results'[Len(results) + 1] = <<k, runs>>
      BY <1>3, <1>6, <2>3
    <3> QED
      BY <1>1, <3>1 DEF IsMeasured
  <2> QED
    BY <2>1, <2>2, <2>3
<1>9. \A i \in 1 .. Len(results') : results'[i][2] >= 1 /\ results'[i][2] <= runs
  <2> SUFFICES ASSUME NEW i \in 1 .. Len(results')
               PROVE  results'[i][2] >= 1 /\ results'[i][2] <= runs
    OBVIOUS
  <2>1. CASE i \in 1 .. Len(results)
    BY <1>6, <2>1 DEF BenchInv
  <2>2. CASE i = Len(results) + 1
    BY <1>2, <1>6, <2>2
  <2> QED
    BY <1>7, <2>1, <2>2
<1>10. \A i, j \in 1 .. Len(results') : i < j => results'[i][2] <= results'[j][2]
  <2> SUFFICES ASSUME NEW i \in 1 .. Len(results'), NEW j \in 1 .. Len(results'), i < j
               PROVE  results'[i][2] <= results'[j][2]
    OBVIOUS
  <2>1. i \in 1 .. Len(results) /\ results'[i] = results[i]
    <3>1. Len(results) \in Nat /\ Len(results') = Len(results) + 1
      BY <1>3, <1>6
    <3>2. i \in 1 .. Len(results)
      BY <3>1
    <3> QED
      BY <1>6, <3>2
  <2>2. CASE j \in 1 .. Len(results)
    <3>1. results'[j] = results[j] /\ results[i][2] <= results[j][2]
      BY <1>6, <2>1, <2>2 DEF BenchInv
    <3> QED
      BY <2>1, <3>1
  <2>3. CASE j = Len(results) + 1
    <3>1. results[i][2] <= runs
      BY <2>1 DEF BenchInv
    <3> QED
      BY <1>6, <2>1, <2>3, <3>1
  <2> QED
    BY <1>7, <2>2, <2>3
<1>11. ComparisonIsOwn'
  BY <1>1 DEF BenchInv, ComparisonIsOwn
<1> HIDE DEF h, e
<1>12. running'[c].all =>
          /\ IsInjective(running'[c].todo)
          /\ \A k \in KindSet :
                /\ k \in Range(running'[c].todo) \cup running'[c].failed => ~IsMeasured(k)'
                /\ k \in Range(running'[c].todo) => k \notin running'[c].failed
                /\ \/ k \in Range(running'[c].todo) \cup running'[c].failed
                   \/ IsMeasured(k)'
  BY <1>1, <1>5, <1>8, DealtWith DEF h
<1> QED
  BY <1>1, <1>2, <1>4, <1>5, <1>6, <1>9, <1>10, <1>11, <1>12 DEF BenchInv

LEMMA BreaksInv ==
    ASSUME BenchInv, NEW c \in Clients, Breaks(c)
    PROVE  BenchInv'
<1> DEFINE h == Head(Todo(c))
           R == [run : Nat, todo : Seq(KindSet), all : BOOLEAN, failed : SUBSET KindSet]
<1>1. Todo(c) # <<>> /\ UNCHANGED <<runs, tool, results, answers>>
  BY DEF Breaks
<1>2. /\ running[c] # Idle /\ running[c].run = runs /\ runs >= 1 /\ runs \in Nat
      /\ \A d \in Clients \ {c} : running[d] = Idle
      /\ Todo(c) = running[c].todo /\ h \in KindSet /\ Tail(Todo(c)) \in Seq(KindSet)
  BY <1>1, AtWork
<1>3. running[c] \in R /\ running \in [Clients -> R] /\ Idle \in R
  BY DEF BenchInv, Idle, NoRun
<1>4. /\ \A k \in KindSet : IsMeasured(k)' <=> IsMeasured(k)
      /\ ComparisonIsOwn'
  BY <1>1 DEF IsMeasured, BenchInv, ComparisonIsOwn
<1>5. CASE ~running[c].all
  <2>1. running' = [running EXCEPT ![c] = Idle]
    BY <1>3, <1>5 DEF Breaks
  <2>2. running' \in [Clients -> R] /\ \A d \in Clients : running'[d] = Idle
    BY <1>2, <1>3, <2>1
  <2> QED
    BY <1>1, <1>4, <2>2 DEF BenchInv
<1>6. CASE running[c].all
  <2> DEFINE shorter == [running EXCEPT ![c].todo = Tail(@)]
  <2>1. running' = [shorter EXCEPT ![c].failed = @ \cup {h}]
    BY <1>6 DEF Breaks
  <2>2. /\ shorter \in [Clients -> R] /\ \A d \in Clients \ {c} : shorter[d] = running[d]
        /\ shorter[c].run = running[c].run /\ shorter[c].todo = Tail(Todo(c))
        /\ shorter[c].failed = running[c].failed
    BY <1>2, <1>3
  <2> HIDE DEF shorter
  <2>3. /\ running' \in [Clients -> R]
        /\ \A d \in Clients \ {c} : running'[d] = Idle
    <3>1. shorter[c] \in R /\ shorter[c].failed \cup {h} \in SUBSET KindSet
      BY <1>2, <1>3, <2>2
    <3>2. running'[c] = [shorter[c] EXCEPT !.failed = @ \cup {h}]
      BY <2>1, <2>2
    <3>3. running'[c] \in R
      BY <3>1, <3>2
    <3>4. \A d \in Clients \ {c} : running'[d] = shorter[d]
      BY <2>1, <2>2
    <3> HIDE DEF R
    <3>5. running' \in [Clients -> R]
      BY <2>1, <2>2, <3>3, <3>4
    <3> QED
      BY <1>2, <2>2, <3>4, <3>5
  <2>4. /\ running'[c].run = runs /\ running'[c].todo = Tail(Todo(c))
        /\ running'[c].failed = running[c].failed \cup {h}
    BY <1>2, <2>1, <2>2
  <2> HIDE DEF h
  <2>5. /\ IsInjective(running'[c].todo)
        /\ \A k \in KindSet :
              /\ k \in Range(running'[c].todo) \cup running'[c].failed => ~IsMeasured(k)'
              /\ k \in Range(running'[c].todo) => k \notin running'[c].failed
              /\ \/ k \in Range(running'[c].todo) \cup running'[c].failed
                 \/ IsMeasured(k)'
    BY <1>1, <1>4, <1>6, <2>4, DealtWith DEF h
  <2> QED
    BY <1>1, <1>2, <1>4, <2>3, <2>4, <2>5 DEF BenchInv
<1> QED
  BY <1>5, <1>6

LEMMA AnswerInv ==
    ASSUME BenchInv, NEW c \in Clients, AnswerBenchmark(c)
    PROVE  BenchInv'
<1> DEFINE R == [run : Nat, todo : Seq(KindSet), all : BOOLEAN, failed : SUBSET KindSet]
<1>1. /\ running[c] # Idle /\ running[c].todo = <<>> /\ running' = [running EXCEPT ![c] = Idle]
      /\ UNCHANGED <<runs, tool, results>>
  BY DEF AnswerBenchmark, Todo
<1>2. running \in [Clients -> R] /\ Idle \in R
  BY DEF BenchInv, Idle, NoRun
<1>3. running' \in [Clients -> R] /\ \A d \in Clients : running'[d] = Idle
  BY <1>1, <1>2 DEF BenchInv
<1>4. ComparisonIsOwn'
  <2>1. CASE ~running[c].all
    BY <2>1 DEF AnswerBenchmark, BenchInv, ComparisonIsOwn
  <2>2. CASE running[c].all
    <3> DEFINE a == [run |-> running[c].run, failed |-> running[c].failed,
                     comparison |-> [k \in ToSet(Kinds) |-> LatestOf(k)]]
    <3>1. answers' = answers \cup {a}
      BY <2>2 DEF AnswerBenchmark
    <3>2. ASSUME NEW k \in ToSet(Kinds)
          PROVE  IF k \in a.failed THEN a.comparison[k] < a.run ELSE a.comparison[k] = a.run
      <4>1. k \in KindSet /\ a.comparison[k] = LatestOf(k) /\ a.failed = running[c].failed
        BY <3>2, KindsDiffer
      <4>2. a.run = runs /\ runs >= 1
        BY <1>1 DEF BenchInv
      <4>3. /\ k \in running[c].failed => ~IsMeasured(k)
            /\ k \notin running[c].failed => IsMeasured(k)
        BY <1>1, <2>2, <4>1, RangeEmpty DEF BenchInv
      <4> HIDE DEF a
      <4> QED
        BY <4>1, <4>2, <4>3, LatestIsLast
    <3> HIDE DEF a
    <3> QED
      BY <3>1, <3>2 DEF BenchInv, ComparisonIsOwn
  <2> QED
    BY <2>1, <2>2
<1>5. UNCHANGED <<runs, tool, results>>
  BY <1>1
<1> QED
  BY <1>3, <1>4, <1>5 DEF BenchInv

(* Every step keeps it, those of the MCP tool too, which takes no lock.      *)
THEOREM BenchInvariance == BenchSpec => []BenchInv
<1>1. BenchInv /\ [BenchNext]_benchVars => BenchInv'
  <2> SUFFICES ASSUME BenchInv, [BenchNext]_benchVars PROVE BenchInv'
    OBVIOUS
  <2>1. ASSUME UNCHANGED <<runs, running, results, answers>>, tool' \in Tools \cup {"none"}
        PROVE  BenchInv'
    BY <2>1 DEF BenchInv, IsMeasured, ComparisonIsOwn
  <2>2. CASE BeginTool \/ EndTool \/ UNCHANGED benchVars
    BY <2>1, <2>2 DEF BeginTool, EndTool, benchVars, BenchInv
  <2> QED
    BY <2>2, BenchBeginInv, MeasuredInv, BreaksInv, AnswerInv DEF BenchNext
<1> QED
  BY BenchBegins, <1>1, PTL DEF BenchSpec

(* The comparison in an answer of /all is of this very run, and of an older  *)
(* one only where the run failed.                                            *)
THEOREM ComparisonAlwaysOwn == BenchSpec => []ComparisonIsOwn
<1>1. BenchInv => ComparisonIsOwn
  BY DEF BenchInv
<1> QED
  BY <1>1, BenchInvariance, PTL

-----------------------------------------------------------------------------
(***************************************************************************)
(* OrderSaga: what the status says is true, for every number of items and  *)
(* of faults.                                                              *)
(***************************************************************************)
LEMMA SagaNumbers ==
    /\ Items \in Nat /\ Items >= 1 /\ Plenty \in Nat /\ Plenty >= 1 /\ MaxFaults \in Nat
    /\ NoKey = 0 - 1 /\ NoKey \in Int
  BY SagaAssumption DEF NoKey

\* How many requests a step has, with the one that saves its state.
Length ==
    IF step = 3 THEN 2 * Items + 1 ELSE IF step = 2 /\ phase = "execute" THEN 3 ELSE 2

LEMMA ItemRequests ==
    /\ PerItem \in Seq([op : {"get", "set"}, arg : Nat]) /\ Len(PerItem) = 2 * Items
    /\ \A i \in 1 .. Items :
          /\ PerItem[2 * i - 1] = [op |-> "get", arg |-> i]
          /\ PerItem[2 * i] = [op |-> "set", arg |-> i]
<1>1. \A n \in 1 .. 2 * Items :
         PerItem[n] = [op |-> IF n % 2 = 1 THEN "get" ELSE "set", arg |-> (n + 1) \div 2]
  BY DEF PerItem
<1>2. \A n \in 1 .. 2 * Items : (n + 1) \div 2 \in Nat
  BY SagaNumbers
<1>3. PerItem \in Seq([op : {"get", "set"}, arg : Nat]) /\ Len(PerItem) = 2 * Items
  BY <1>2, SagaNumbers DEF PerItem
<1>4. ASSUME NEW i \in 1 .. Items
      PROVE  /\ (2 * i - 1) % 2 = 1 /\ (2 * i - 1 + 1) \div 2 = i /\ 2 * i - 1 \in 1 .. 2 * Items
             /\ (2 * i) % 2 = 0 /\ (2 * i + 1) \div 2 = i /\ 2 * i \in 1 .. 2 * Items
  BY SagaNumbers
<1>5. ASSUME NEW i \in 1 .. Items
      PROVE  /\ PerItem[2 * i - 1] = [op |-> "get", arg |-> i]
             /\ PerItem[2 * i] = [op |-> "set", arg |-> i]
  <2>1. PerItem[2 * i - 1] = [op |-> "get", arg |-> i]
    BY <1>1, <1>4
  <2>2. PerItem[2 * i] = [op |-> "set", arg |-> i]
    BY <1>1, <1>4
  <2> QED
    BY <2>1, <2>2
<1> QED
  BY <1>3, <1>5

LEMMA RequestsLength == Running /\ step \in Steps => Len(SagaRequests) = Length
<1> SUFFICES ASSUME Running, step \in Steps
             PROVE  Len(SagaRequests) = Length
  OBVIOUS
<1>1. phase \in {"execute", "compensate"} /\ step \in 1 .. 4
  BY DEF Running, Steps
<1>2. CASE step = 3
  <2> DEFINE R == [op : {"get", "set", "save"}, arg : Nat \cup {"COMPLETED", "COMPENSATED"}]
  <2>1. PICK e \in {Save("COMPLETED"), Save("COMPENSATED")} : SagaRequests = Append(PerItem, e)
    BY <1>1, <1>2 DEF SagaRequests, Execute, Compensate
  <2>2. e \in R /\ [op : {"get", "set"}, arg : Nat] \subseteq R
    BY DEF Save
  <2>3. PerItem \in Seq([op : {"get", "set"}, arg : Nat])
    BY ItemRequests
  <2> HIDE DEF R
  <2>4. PerItem \in Seq(R)
    BY <2>2, <2>3, SeqWiden
  <2> QED
    BY <1>2, <2>1, <2>2, <2>4, ItemRequests, AppendProperties DEF Length
<1>3. CASE step = 1
  BY <1>1, <1>3 DEF SagaRequests, Execute, Compensate, Length, Put, Delete, Save
<1>4. CASE step = 2
  BY <1>1, <1>4 DEF SagaRequests, Execute, Compensate, Length, Put, Delete, Save
<1>5. CASE step = 4
  BY <1>1, <1>5 DEF SagaRequests, Execute, Compensate, Length, Put, Delete, Save
<1> QED
  BY <1>1, <1>2, <1>3, <1>4, <1>5

LEMMA NextLength == (Running /\ step \in Steps => Len(SagaRequests) = Length)'
  BY RequestsLength, PTL

(* The request a running saga is at.                                         *)
LEMMA RequestAt ==
    ASSUME SagaTypeOK, Running
    PROVE  /\ Len(SagaRequests) = Length /\ at \in 1 .. Length
           /\ at = Length => Request.op = "save" /\ Request.arg \in {"COMPLETED", "COMPENSATED"}
           /\ at < Length /\ step = 1 =>
                 Request = IF phase = "execute" THEN Put("order") ELSE Delete("order")
           /\ at < Length /\ step = 2 =>
                 Request = IF phase = "execute"
                           THEN IF at = 1 THEN Put("payment") ELSE Put("payment.completed")
                           ELSE Put("refund")
           /\ at < Length /\ step = 3 =>
                 \E i \in 1 .. Items :
                    \/ at = 2 * i - 1 /\ Request = [op |-> "get", arg |-> i]
                    \/ at = 2 * i /\ Request = [op |-> "set", arg |-> i]
           /\ at < Length /\ step = 4 =>
                 Request = IF phase = "execute" THEN Put("shipping.ready")
                                                ELSE Put("shipping.cancelled")
<1>1. /\ phase \in {"execute", "compensate"} /\ step \in 1 .. 4
      /\ at \in 1 .. Len(SagaRequests)
  BY DEF SagaTypeOK, Running, Steps
<1>2. CASE step = 3
  <2> DEFINE R == [op : {"get", "set", "save"}, arg : Nat \cup {"COMPLETED", "COMPENSATED"}]
  <2>1. PICK e \in {Save("COMPLETED"), Save("COMPENSATED")} : SagaRequests = Append(PerItem, e)
    BY <1>1, <1>2 DEF SagaRequests, Execute, Compensate
  <2>2. e \in R /\ PerItem \in Seq(R)
    <3>1. e \in R /\ [op : {"get", "set"}, arg : Nat] \subseteq R
      BY DEF Save
    <3>2. PerItem \in Seq([op : {"get", "set"}, arg : Nat])
      BY ItemRequests
    <3> HIDE DEF R
    <3> QED
      BY <3>1, <3>2, SeqWiden
  <2> HIDE DEF R
  <2>3. /\ Len(SagaRequests) = 2 * Items + 1
        /\ \A n \in 1 .. 2 * Items : SagaRequests[n] = PerItem[n]
        /\ SagaRequests[2 * Items + 1] = e
    BY <2>1, <2>2, ItemRequests, AppendProperties
  <2>4. at \in 1 .. 2 * Items + 1 /\ Length = 2 * Items + 1
    BY <1>1, <1>2, <2>3 DEF Length
  <2>5. ASSUME at < Length
        PROVE  \E i \in 1 .. Items :
                  \/ at = 2 * i - 1 /\ Request = [op |-> "get", arg |-> i]
                  \/ at = 2 * i /\ Request = [op |-> "set", arg |-> i]
    <3>1. PICK i \in 1 .. Items : at = 2 * i - 1 \/ at = 2 * i
      <4>1. at \in 1 .. 2 * Items
        BY <2>4, <2>5, SagaNumbers
      <4>2. (at + 1) \div 2 \in 1 .. Items
        BY <4>1, SagaNumbers
      <4>3. at = 2 * ((at + 1) \div 2) - 1 \/ at = 2 * ((at + 1) \div 2)
        BY <4>1, SagaNumbers
      <4> QED
        BY <4>2, <4>3
    <3>2. Request = PerItem[at]
      BY <2>3, <2>4, <2>5, SagaNumbers DEF Request
    <3> QED
      BY <3>1, <3>2, ItemRequests
  <2>6. at = Length => Request = e
    BY <2>3, <2>4 DEF Request
  <2> QED
    BY <1>2, <2>3, <2>4, <2>5, <2>6 DEF Save
<1>3. CASE step = 1
  BY <1>1, <1>3 DEF SagaRequests, Execute, Compensate, Length, Request, Put, Delete, Save
<1>4. CASE step = 2
  BY <1>1, <1>4 DEF SagaRequests, Execute, Compensate, Length, Request, Put, Delete, Save
<1>5. CASE step = 4
  BY <1>1, <1>5 DEF SagaRequests, Execute, Compensate, Length, Request, Put, Delete, Save
<1> QED
  BY <1>1, <1>2, <1>3, <1>4, <1>5

\* The piece of item i has been taken.
TakenOf(i) == stock[i] = Level(initial[i]) - 1 /\ stock[i] >= 0

Done(s) == Performed(s) /\ (s = 3 => \A i \in 1 .. Items : TakenOf(i))

\* What the step that is executed has done before its request `at`.
Doing(s) ==
    /\ s \in {1, 2, 4} /\ at = 1 => Untouched(s)
    /\ s = 2 /\ at >= 2 => "payment" \in effects
    /\ s = 3 => \A i \in 1 .. Items :
          /\ 2 * i < at => TakenOf(i)
          /\ at <= 2 * i => stock[i] = initial[i]
          /\ at = 2 * i => read = Level(initial[i]) /\ read >= 1
    /\ at = Length => Done(s)

\* And what the step that is compensated has.
Undoing(s) ==
    /\ s = 3 => \A i \in 1 .. Items :
          /\ 2 * i < at => Level(stock[i]) = Level(initial[i])
          /\ at <= 2 * i => TakenOf(i)
          /\ at = 2 * i => read = stock[i]
    /\ at = Length => Undone(s)

\* What is true of a step none of whose requests failed.
StatusOf(s) ==
    /\ phase = "execute" =>
          /\ s < step => Done(s)
          /\ s = step => Doing(s)
          /\ s > step => Untouched(s)
    /\ phase = "compensate" =>
          /\ s < step => Done(s)
          /\ s = step => Undoing(s)
          /\ step < s /\ s <= executed => Undone(s)
          /\ s > executed => Untouched(s) \/ RanOut(s)
    /\ phase = "SUCCESS" => Performed(s)
    /\ phase = "FAILED" => Undone(s) \/ Untouched(s) \/ RanOut(s)

\* A stock never exceeds what is assumed of a missing one, but for the piece
\* that its compensation gives back.
StockBounded ==
    \A i \in 1 .. Items :
       /\ stock[i] \in NoKey .. Plenty + 1
       /\ \/ stock[i] <= Plenty
          \/ /\ phase \in {"compensate", "FAILED"}
             /\ phase = "compensate" /\ step >= 3 => step = 3 /\ 2 * i < at
       /\ Running /\ step = 3 /\ at = 2 * i =>
             read \in (IF phase = "execute" THEN 1 ELSE 0) .. Plenty

SagaControl ==
    /\ phase \in {"execute", "compensate", "SUCCESS", "FAILED"}
    /\ step \in Steps /\ executed \in 0 .. 4
    /\ Running => at \in 1 .. Length
    /\ phase = "execute" => executed = IF at = Length THEN step ELSE step - 1
    /\ phase = "compensate" => step <= executed

SagaInv ==
    /\ SagaTypeOK
    /\ initial \in [1 .. Items -> {NoKey, 0, 1}]
    /\ SagaControl
    /\ StockBounded
    /\ \A s \in Steps \ shaky : StatusOf(s)

\* What was true of the services of step s still is.
Kept(s) ==
    /\ (Performed(s) => Performed(s)') /\ (Untouched(s) => Untouched(s)')
    /\ (Undone(s) => Undone(s)') /\ (RanOut(s) => RanOut(s)')
    /\ Done(s) => Done(s)'

LEMMA NothingDone ==
    ASSUME UNCHANGED <<initial, stock, effects>>, NEW s \in Steps
    PROVE  Kept(s)
  BY DEF Kept, Performed, Untouched, Undone, RanOut, Done, TakenOf

(* A request of one step leaves the services of the others alone.            *)
LEMMA OwnServices ==
    ASSUME SagaInv, Running, Apply, UNCHANGED initial, NEW s \in Steps, s # step
    PROVE  Kept(s)
<1>1. step \in 1 .. 4 /\ s \in 1 .. 4 /\ at \in 1 .. Length
  BY DEF SagaInv, SagaControl, Steps
<1>2. CASE at = Length
  <2>1. Request.op = "save"
    BY <1>2, RequestAt DEF SagaInv
  <2> QED
    BY <2>1, NothingDone DEF Apply
<1>3. CASE at < Length /\ step = 3
  <2>1. effects' = effects
    <3>1. Request.op \in {"get", "set"}
      BY <1>3, RequestAt DEF SagaInv
    <3> QED
      BY <3>1 DEF Apply
  <2>2. s \in {1, 2, 4}
    BY <1>1, <1>3
  <2>3. CASE s = 1
    BY <2>1, <2>3 DEF Kept, Performed, Untouched, Undone, RanOut, Done
  <2>4. CASE s = 2
    BY <2>1, <2>4 DEF Kept, Performed, Untouched, Undone, RanOut, Done
  <2>5. CASE s = 4
    BY <2>1, <2>5 DEF Kept, Performed, Untouched, Undone, RanOut, Done
  <2> QED
    BY <2>2, <2>3, <2>4, <2>5
<1>4. CASE at < Length /\ step # 3
  <2>1. /\ stock' = stock
        /\ \E e \in {"order", "payment", "payment.completed", "refund",
                     "shipping.ready", "shipping.cancelled"} :
              /\ effects' = effects \cup {e} \/ effects' = effects \ {e}
              /\ e = "order" => step = 1
              /\ e \in {"payment", "payment.completed", "refund"} => step = 2
              /\ e \in {"shipping.ready", "shipping.cancelled"} => step = 4
    <3>1. step \in {1, 2, 4}
      BY <1>1, <1>4
    <3>2. CASE step = 1
      <4>1. Request = IF phase = "execute" THEN Put("order") ELSE Delete("order")
        BY <1>4, <3>2, RequestAt DEF SagaInv
      <4> QED
        BY <3>2, <4>1 DEF Apply, Put, Delete
    <3>3. CASE step = 2
      <4>1. Request \in {Put("payment"), Put("payment.completed"), Put("refund")}
        BY <1>4, <3>3, RequestAt DEF SagaInv
      <4> QED
        BY <3>3, <4>1 DEF Apply, Put
    <3>4. CASE step = 4
      <4>1. Request \in {Put("shipping.ready"), Put("shipping.cancelled")}
        BY <1>4, <3>4, RequestAt DEF SagaInv
      <4> QED
        BY <3>4, <4>1 DEF Apply, Put
    <3> QED
      BY <3>1, <3>2, <3>3, <3>4
  <2>2. CASE s = 1
    BY <2>1, <2>2 DEF Kept, Performed, Untouched, Undone, RanOut, Done
  <2>3. CASE s = 2
    BY <2>1, <2>3 DEF Kept, Performed, Untouched, Undone, RanOut, Done
  <2>4. CASE s = 3
    <3>1. stock' = stock
      BY <2>1
    <3> QED
      BY <2>4, <3>1 DEF Kept, Performed, Untouched, Undone, RanOut, Done, TakenOf
  <2>5. CASE s = 4
    BY <2>1, <2>5 DEF Kept, Performed, Untouched, Undone, RanOut, Done
  <2> QED
    BY <1>1, <2>2, <2>3, <2>4, <2>5
<1> QED
  BY <1>1, <1>2, <1>3, <1>4, SagaNumbers DEF Length

(* Where a raise leads: to the last recorded step, or to the one before.     *)
LEMMA RaiseControl ==
    ASSUME SagaInv, Running, Raise
    PROVE  /\ SagaControl' /\ executed' = executed
           /\ phase' \in {"compensate", "FAILED"}
           /\ phase' = "compensate" =>
                 at' = 1 /\ at' < Length' /\ Running'
           /\ phase = "execute" /\ at < Length =>
                 /\ executed = step - 1
                 /\ IF step = 1 THEN phase' = "FAILED"
                                ELSE phase' = "compensate" /\ step' = step - 1
           /\ phase = "execute" /\ at = Length =>
                 executed = step /\ phase' = "compensate" /\ step' = step
           /\ phase = "compensate" =>
                 IF step = 1 THEN phase' = "FAILED"
                             ELSE phase' = "compensate" /\ step' = step - 1
<1>1. /\ step \in 1 .. 4 /\ executed \in 0 .. 4 /\ phase \in {"execute", "compensate"}
      /\ at \in 1 .. Length /\ (phase = "compensate" => step <= executed)
      /\ (phase = "execute" => executed = IF at = Length THEN step ELSE step - 1)
  BY DEF SagaInv, SagaControl, Running, Steps
<1>2. Length \in Nat
  BY SagaNumbers DEF Length
<1>3. /\ at' = 1 /\ executed' = executed
      /\ step' = IF (IF phase = "execute" THEN executed ELSE step - 1) = 0
                 THEN 1 ELSE IF phase = "execute" THEN executed ELSE step - 1
      /\ phase' = IF (IF phase = "execute" THEN executed ELSE step - 1) = 0
                  THEN "FAILED" ELSE "compensate"
  BY DEF Raise
<1>4. step' \in 1 .. 4
  BY <1>1, <1>2, <1>3
<1>5. phase' = "compensate" => step' <= executed'
  BY <1>1, <1>2, <1>3
<1>6. phase' = "compensate" => at' < Length' /\ at' \in 1 .. Length'
  BY <1>3, <1>4, SagaNumbers DEF Length
<1>7. phase' # "execute" /\ phase' \in {"compensate", "FAILED"}
  BY <1>3
<1>8. SagaControl'
  BY <1>1, <1>3, <1>4, <1>5, <1>6, <1>7 DEF SagaControl, Running, Steps
<1> QED
  BY <1>1, <1>2, <1>3, <1>6, <1>7, <1>8 DEF Running

LEMMA RaiseStatus ==
    ASSUME SagaInv, Running, Raise, NEW s \in Steps, StatusOf(s),
           s # step => Kept(s),
           s = step => \/ phase = "execute" /\ at = Length /\ Done(s)'
                       \/ phase = "execute" /\ at < Length /\ RanOut(s)'
                       \/ phase = "compensate" /\ Undone(s)'
    PROVE  StatusOf(s)'
<1>1. /\ step \in 1 .. 4 /\ executed \in 0 .. 4 /\ phase \in {"execute", "compensate"}
      /\ s \in 1 .. 4 /\ at \in 1 .. Length /\ Length \in Nat
  BY SagaNumbers DEF SagaInv, SagaControl, Running, Steps, Length
<1>2. Done(s)' /\ at' = 1 /\ at' < Length' /\ Length' \in Int => Undoing(s)'
  <2>1. SUFFICES ASSUME Done(s)', at' = 1, at' < Length', Length' \in Int
                 PROVE  Undoing(s)'
    OBVIOUS
  <2>2. \A i \in 1 .. Items : ~(2 * i < at') /\ at' # 2 * i
    BY <2>1, SagaNumbers
  <2> QED
    BY <2>1, <2>2 DEF Undoing, Done
<1>3. phase' = "compensate" => at' = 1 /\ at' < Length' /\ Length' \in Int
  BY RaiseControl, SagaNumbers DEF Length
<1>4. CASE phase' = "compensate"
  <2>1. s < step' => Done(s)'
    BY <1>1, <1>4, RaiseControl DEF StatusOf, Kept
  <2>2. s = step' => Done(s)'
    BY <1>1, <1>4, RaiseControl DEF StatusOf, Kept
  <2>3. step' < s /\ s <= executed' => Undone(s)'
    BY <1>1, <1>4, RaiseControl DEF StatusOf, Kept
  <2>4. ASSUME s > executed' PROVE Untouched(s)' \/ RanOut(s)'
    <3>1. CASE phase = "execute" /\ s = step
      BY <1>1, <2>4, <3>1, RaiseControl
    <3>2. CASE phase = "execute" /\ s # step
      <4>1. s > step
        BY <1>1, <2>4, <3>2, RaiseControl
      <4> QED
        BY <3>2, <4>1 DEF StatusOf, Kept
    <3>3. CASE phase = "compensate"
      <4>1. s > executed /\ s # step
        BY <1>1, <2>4, <3>3, RaiseControl DEF SagaInv, SagaControl
      <4> QED
        BY <3>3, <4>1 DEF StatusOf, Kept
    <3> QED
      BY <1>1, <3>1, <3>2, <3>3
  <2> QED
    BY <1>2, <1>3, <1>4, <2>1, <2>2, <2>3, <2>4 DEF StatusOf
<1>5. CASE phase' = "FAILED"
  <2>1. step = 1
    BY <1>1, <1>5, RaiseControl
  <2>2. Undone(s)' \/ Untouched(s)' \/ RanOut(s)'
    BY <1>1, <1>5, <2>1, RaiseControl DEF StatusOf, Kept, SagaInv, SagaControl
  <2> QED
    BY <1>5, <2>2 DEF StatusOf
<1> QED
  BY <1>4, <1>5, RaiseControl

(* Where a request that returned leads, when the step goes on.               *)
LEMMA NextControl ==
    ASSUME SagaInv, Running, NEW skip \in {0, 1}, Proceed(skip), at + skip < Length,
           skip = 1 => phase = "compensate"
    PROVE  /\ SagaControl'
           /\ at' = at + 1 + skip /\ step' = step /\ phase' = phase /\ Length' = Length
           /\ phase = "compensate" => executed' = executed
<1>1. /\ step \in 1 .. 4 /\ executed \in 0 .. 4 /\ phase \in {"execute", "compensate"}
      /\ at \in 1 .. Length /\ (phase = "compensate" => step <= executed)
      /\ (phase = "execute" => executed = IF at = Length THEN step ELSE step - 1)
      /\ Length \in Nat
  BY SagaNumbers DEF SagaInv, SagaControl, Running, Steps, Length
<1>2. Len(SagaRequests) = Length
  BY RequestsLength DEF SagaInv, SagaControl
<1>3. ~(at + 1 + skip > Length)
  BY <1>1
<1>4. /\ at' = at + 1 + skip /\ step' = step /\ phase' = phase
      /\ executed' = IF phase = "execute" /\ at = Length - 1 THEN step ELSE executed
  BY <1>1, <1>2, <1>3 DEF Proceed, Recorded
<1>5. Length' = Length
  BY <1>4 DEF Length
<1>6. phase = "execute" => executed' = IF at' = Length THEN step ELSE step - 1
  BY <1>1, <1>4
<1>7. at' \in 1 .. Length /\ executed' \in 0 .. 4
  BY <1>1, <1>3, <1>4
<1>8. phase = "compensate" => executed' = executed
  BY <1>4
<1> QED
  BY <1>1, <1>4, <1>5, <1>6, <1>7, <1>8 DEF SagaControl, Running, Steps

LEMMA NextStatus ==
    ASSUME SagaInv, Running, NEW skip \in {0, 1}, Proceed(skip), at + skip < Length,
           skip = 1 => phase = "compensate",
           NEW s \in Steps, StatusOf(s), s # step => Kept(s),
           s = step => IF phase = "execute" THEN Doing(s)' ELSE Undoing(s)'
    PROVE  StatusOf(s)'
<1>1. phase \in {"execute", "compensate"} /\ step \in 1 .. 4 /\ s \in 1 .. 4
  BY DEF SagaInv, SagaControl, Running, Steps
<1>2. /\ step' = step /\ phase' = phase /\ (phase = "compensate" => executed' = executed)
      /\ (phase = "compensate" => step <= executed) /\ executed \in 0 .. 4
  BY NextControl DEF SagaInv, SagaControl
<1>3. CASE s = step
  BY <1>1, <1>2, <1>3 DEF StatusOf
<1>4. CASE s # step
  BY <1>1, <1>2, <1>4 DEF StatusOf, Kept
<1> QED
  BY <1>3, <1>4

(* And when its state has been saved.                                        *)
LEMMA EndControl ==
    ASSUME SagaInv, Running, Proceed(0), at = Length
    PROVE  /\ SagaControl' /\ executed' = executed /\ at' = 1
           /\ Running' => at' < Length'
           /\ phase = "execute" =>
                 /\ executed = step
                 /\ IF step = 4 THEN phase' = "SUCCESS"
                                ELSE phase' = "execute" /\ step' = step + 1
           /\ phase = "compensate" =>
                 IF step = 1 THEN phase' = "FAILED"
                             ELSE phase' = "compensate" /\ step' = step - 1
<1>1. /\ step \in 1 .. 4 /\ executed \in 0 .. 4 /\ phase \in {"execute", "compensate"}
      /\ at \in 1 .. Length /\ (phase = "compensate" => step <= executed)
      /\ (phase = "execute" => executed = IF at = Length THEN step ELSE step - 1)
      /\ Length \in Nat
  BY SagaNumbers DEF SagaInv, SagaControl, Running, Steps, Length
<1>2. Len(SagaRequests) = Length
  BY RequestsLength DEF SagaInv, SagaControl
<1>3. at + 1 + 0 > Length /\ at # Length - 1
  BY <1>1
<1>4. /\ at' = 1 /\ executed' = executed
      /\ IF phase = "execute"
         THEN /\ step' = IF step < 4 THEN step + 1 ELSE step
              /\ phase' = IF step = 4 THEN "SUCCESS" ELSE phase
         ELSE /\ step' = IF step > 1 THEN step - 1 ELSE step
              /\ phase' = IF step = 1 THEN "FAILED" ELSE phase
  BY <1>1, <1>2, <1>3 DEF Proceed, Recorded
<1>5. step' \in 1 .. 4
  BY <1>1, <1>4
<1>6. 1 < Length' /\ Length' \in Nat
  BY <1>5, SagaNumbers DEF Length
<1>7. phase' = "execute" => executed' = step' - 1
  BY <1>1, <1>4
<1>8. phase' = "compensate" => step' <= executed'
  BY <1>1, <1>4
<1>9. phase' \in {"execute", "compensate", "SUCCESS", "FAILED"}
  BY <1>1, <1>4
<1>10. at' \in 1 .. Length'
  BY <1>4, <1>6
<1>11. phase' = "execute" => executed' = IF at' = Length' THEN step' ELSE step' - 1
  BY <1>4, <1>6, <1>7
<1>12. SagaControl'
  BY <1>1, <1>4, <1>5, <1>8, <1>9, <1>10, <1>11 DEF SagaControl, Running, Steps
<1> QED
  BY <1>1, <1>4, <1>6, <1>12

LEMMA EndStatus ==
    ASSUME SagaInv, Running, Proceed(0), at = Length,
           NEW s \in Steps, StatusOf(s), Kept(s)
    PROVE  StatusOf(s)'
<1>1. /\ phase \in {"execute", "compensate"} /\ step \in 1 .. 4 /\ s \in 1 .. 4
      /\ executed \in 0 .. 4 /\ (phase = "compensate" => step <= executed)
  BY DEF SagaInv, SagaControl, Running, Steps
<1>2. /\ s = step /\ phase = "execute" => Done(s)
      /\ s = step /\ phase = "compensate" => Undone(s)
  BY DEF StatusOf, Doing, Undoing
<1>3. Running' => at' = 1 /\ at' # Length'
  BY EndControl, SagaNumbers DEF Length
<1>4. CASE phase = "execute" /\ step < 4
  <2>1. phase' = "execute" /\ step' = step + 1
    BY <1>1, <1>4, EndControl
  <2>2. s < step' => Done(s)'
    BY <1>1, <1>2, <1>4, <2>1 DEF StatusOf, Kept
  <2>3. s >= step' => Untouched(s)'
    BY <1>1, <1>4, <2>1 DEF StatusOf, Kept
  <2>4. s = step' => Doing(s)'
    <3>1. SUFFICES ASSUME s = step' PROVE Doing(s)'
      OBVIOUS
    <3>2. Untouched(s)' /\ at' = 1 /\ at' # Length'
      BY <1>1, <1>3, <2>1, <2>3, <3>1 DEF Running
    <3>3. s = 3 => \A i \in 1 .. Items : stock'[i] = initial'[i]
      BY <3>2 DEF Untouched
    <3>4. \A i \in 1 .. Items : ~(2 * i < at') /\ at' # 2 * i
      BY <3>2, SagaNumbers
    <3>5. ~(at' >= 2)
      BY <3>2
    <3> QED
      BY <3>2, <3>3, <3>4, <3>5 DEF Doing
  <2> QED
    BY <1>1, <2>1, <2>2, <2>3, <2>4 DEF StatusOf
<1>5. CASE phase = "execute" /\ step = 4
  <2>1. phase' = "SUCCESS"
    BY <1>5, EndControl
  <2>2. Performed(s)'
    BY <1>1, <1>2, <1>5 DEF StatusOf, Kept, Done
  <2> QED
    BY <2>1, <2>2 DEF StatusOf
<1>6. CASE phase = "compensate" /\ step > 1
  <2>1. phase' = "compensate" /\ step' = step - 1 /\ executed' = executed
    BY <1>1, <1>6, EndControl
  <2>2. s <= step' => Done(s)'
    BY <1>1, <1>6, <2>1 DEF StatusOf, Kept
  <2>3. s = step' => Undoing(s)'
    <3>1. SUFFICES ASSUME s = step' PROVE Undoing(s)'
      OBVIOUS
    <3>2. Done(s)' /\ at' = 1 /\ at' # Length'
      BY <1>1, <1>3, <2>1, <2>2, <3>1 DEF Running
    <3>3. \A i \in 1 .. Items : ~(2 * i < at') /\ at' # 2 * i
      BY <3>2, SagaNumbers
    <3> QED
      BY <3>2, <3>3 DEF Undoing, Done
  <2>4. step' < s /\ s <= executed' => Undone(s)'
    BY <1>1, <1>2, <1>6, <2>1 DEF StatusOf, Kept
  <2>5. s > executed' => Untouched(s)' \/ RanOut(s)'
    BY <1>1, <1>6, <2>1 DEF StatusOf, Kept
  <2> QED
    BY <1>1, <2>1, <2>2, <2>3, <2>4, <2>5 DEF StatusOf
<1>7. CASE phase = "compensate" /\ step = 1
  <2>1. phase' = "FAILED"
    BY <1>7, EndControl
  <2>2. Undone(s)' \/ Untouched(s)' \/ RanOut(s)'
    BY <1>1, <1>2, <1>7 DEF StatusOf, Kept
  <2> QED
    BY <2>1, <2>2 DEF StatusOf
<1> QED
  BY <1>1, <1>4, <1>5, <1>6, <1>7

\* A request changes at most the stock of the item it is at.
Moved ==
    \/ stock' = stock
    \/ \E i \in 1 .. Items :
          /\ step = 3 /\ at = 2 * i
          /\ stock' = [stock EXCEPT ![i] = IF phase = "execute" THEN read - 1 ELSE read + 1]

LEMMA AppliedMoves ==
    ASSUME SagaInv, Running, Apply
    PROVE  Moved /\ saved' \in [Steps -> {"none", "COMPLETED", "COMPENSATED"}]
<1>1. step \in 1 .. 4 /\ at \in 1 .. Length /\ Length \in Nat
  BY SagaNumbers DEF SagaInv, SagaControl, Steps, Length
<1>2. saved \in [Steps -> {"none", "COMPLETED", "COMPENSATED"}]
  BY DEF SagaInv, SagaTypeOK
<1>3. CASE at = Length
  <2>1. Request.op = "save" /\ Request.arg \in {"COMPLETED", "COMPENSATED"}
    BY <1>3, RequestAt DEF SagaInv
  <2> QED
    BY <1>2, <2>1 DEF Apply, Moved
<1>4. CASE at < Length /\ step = 3
  <2>1. PICK i \in 1 .. Items : \/ at = 2 * i - 1 /\ Request = [op |-> "get", arg |-> i]
                                \/ at = 2 * i /\ Request = [op |-> "set", arg |-> i]
    BY <1>4, RequestAt DEF SagaInv
  <2>2. CASE at = 2 * i - 1 /\ Request = [op |-> "get", arg |-> i]
    BY <1>2, <2>2 DEF Apply, Moved
  <2>3. CASE at = 2 * i /\ Request = [op |-> "set", arg |-> i]
    <3>1. stock' = [stock EXCEPT ![i] = IF phase = "execute" THEN read - 1 ELSE read + 1]
      BY <2>3 DEF Apply
    <3>2. saved' = saved
      BY <2>3 DEF Apply
    <3> QED
      BY <1>2, <1>4, <2>3, <3>1, <3>2 DEF Moved
  <2> QED
    BY <2>1, <2>2, <2>3
<1>5. CASE at < Length /\ step # 3
  <2>1. Request.op \in {"put", "delete"}
    <3>1. step \in {1, 2, 4}
      BY <1>1, <1>5
    <3> QED
      BY <1>5, <3>1, RequestAt DEF SagaInv, Put, Delete
  <2> QED
    BY <1>2, <2>1 DEF Apply, Moved
<1> QED
  BY <1>1, <1>3, <1>4, <1>5

LEMMA MovedStock ==
    ASSUME SagaInv, Running, Moved
    PROVE  /\ stock' \in [1 .. Items -> NoKey .. Plenty + 1]
           /\ \A i \in 1 .. Items : stock'[i] <= Plenty \/
                 (phase = "compensate" /\ (step >= 3 => step = 3 /\ 2 * i <= at))
<1>1. /\ step \in 1 .. 4 /\ at \in 1 .. Length /\ Length \in Nat
      /\ phase \in {"execute", "compensate"}
  BY SagaNumbers DEF SagaInv, SagaControl, Steps, Length, Running
<1>2. stock \in [1 .. Items -> NoKey .. Plenty + 1]
  BY DEF SagaInv, SagaTypeOK
<1>3. \A i \in 1 .. Items : stock[i] <= Plenty \/
         (phase = "compensate" /\ (step >= 3 => step = 3 /\ 2 * i < at))
  BY <1>1 DEF SagaInv, StockBounded
<1>4. CASE stock' = stock
  BY <1>1, <1>2, <1>3, <1>4, SagaNumbers
<1>5. ASSUME NEW i \in 1 .. Items, step = 3, at = 2 * i,
             stock' = [stock EXCEPT ![i] = IF phase = "execute" THEN read - 1 ELSE read + 1]
      PROVE  /\ stock' \in [1 .. Items -> NoKey .. Plenty + 1]
             /\ \A j \in 1 .. Items : stock'[j] <= Plenty \/
                   (phase = "compensate" /\ (step >= 3 => step = 3 /\ 2 * j <= at))
  <2>1. read \in (IF phase = "execute" THEN 1 ELSE 0) .. Plenty
    BY <1>5 DEF SagaInv, StockBounded
  <2>2. IF phase = "execute" THEN read - 1 \in 0 .. Plenty ELSE read + 1 \in 0 .. Plenty + 1
    BY <2>1, SagaNumbers
  <2>3. stock' \in [1 .. Items -> NoKey .. Plenty + 1]
    BY <1>2, <1>5, <2>2, SagaNumbers
  <2>4. ASSUME NEW j \in 1 .. Items
        PROVE  stock'[j] <= Plenty \/
                  (phase = "compensate" /\ (step >= 3 => step = 3 /\ 2 * j <= at))
    <3>1. CASE j = i
      <4>1. stock'[i] = IF phase = "execute" THEN read - 1 ELSE read + 1
        BY <1>2, <1>5
      <4> QED
        BY <1>1, <1>5, <2>2, <3>1, <4>1, SagaNumbers
    <3>2. CASE j # i
      <4>1. stock'[j] = stock[j]
        BY <1>2, <1>5, <3>2
      <4> QED
        BY <1>1, <1>3, <4>1, SagaNumbers
    <3> QED
      BY <3>1, <3>2
  <2> QED
    BY <2>3, <2>4
<1> QED
  BY <1>4, <1>5 DEF Moved

LEMMA StockRaised ==
    ASSUME SagaInv, Running, Moved, Raise
    PROVE  StockBounded'
<1>1. step \in 1 .. 4 /\ phase \in {"execute", "compensate"}
  BY DEF SagaInv, SagaControl, Steps, Running
<1>2. /\ phase' \in {"compensate", "FAILED"}
      /\ phase' = "compensate" => at' = 1 /\ (phase = "compensate" => step' = step - 1)
  BY RaiseControl
<1>3. SUFFICES ASSUME NEW i \in 1 .. Items
               PROVE  /\ stock'[i] \in NoKey .. Plenty + 1
                      /\ \/ stock'[i] <= Plenty
                         \/ /\ phase' \in {"compensate", "FAILED"}
                            /\ phase' = "compensate" /\ step' >= 3 => step' = 3 /\ 2 * i < at'
                      /\ ~(Running' /\ at' = 2 * i)
  BY DEF StockBounded
<1>4. stock'[i] <= Plenty \/ (phase = "compensate" /\ (step >= 3 => step = 3))
  BY MovedStock
<1>5. ~(Running' /\ at' = 2 * i)
  BY <1>2 DEF Running
<1>6. stock'[i] \in NoKey .. Plenty + 1
  BY MovedStock
<1> QED
  BY <1>1, <1>2, <1>4, <1>5, <1>6

LEMMA StockAtEnd ==
    ASSUME SagaInv, Running, stock' = stock, Proceed(0), at = Length
    PROVE  StockBounded'
<1>1. step \in 1 .. 4 /\ phase \in {"execute", "compensate"}
  BY DEF SagaInv, SagaControl, Steps, Running
<1>2. at' = 1 /\ (phase = "compensate" => IF step = 1 THEN phase' = "FAILED"
                                ELSE phase' = "compensate" /\ step' = step - 1)
  BY EndControl
<1>3. SUFFICES ASSUME NEW i \in 1 .. Items
               PROVE  /\ stock'[i] \in NoKey .. Plenty + 1
                      /\ \/ stock'[i] <= Plenty
                         \/ /\ phase' \in {"compensate", "FAILED"}
                            /\ phase' = "compensate" /\ step' >= 3 => step' = 3 /\ 2 * i < at'
                      /\ ~(at' = 2 * i)
  BY DEF StockBounded
<1>4. stock'[i] <= Plenty \/ (phase = "compensate" /\ (step >= 3 => step = 3))
  BY MovedStock DEF Moved
<1>5. at' # 2 * i
  BY <1>2
<1>6. stock'[i] \in NoKey .. Plenty + 1
  BY MovedStock DEF Moved
<1> QED
  BY <1>1, <1>2, <1>4, <1>5, <1>6

LEMMA StockNext ==
    ASSUME SagaInv, Running, Moved, NEW skip \in {0, 1}, Proceed(skip), at + skip < Length,
           skip = 1 => phase = "compensate",
           \A i \in 1 .. Items : step = 3 /\ at + 1 + skip = 2 * i =>
              read' \in (IF phase = "execute" THEN 1 ELSE 0) .. Plenty
    PROVE  StockBounded'
<1>1. /\ step \in 1 .. 4 /\ phase \in {"execute", "compensate"}
      /\ at \in 1 .. Length /\ Length \in Nat
  BY SagaNumbers DEF SagaInv, SagaControl, Steps, Running, Length
<1>2. at' = at + 1 + skip /\ step' = step /\ phase' = phase
  BY NextControl
<1>3. SUFFICES ASSUME NEW i \in 1 .. Items
               PROVE  /\ stock'[i] \in NoKey .. Plenty + 1
                      /\ \/ stock'[i] <= Plenty
                         \/ /\ phase' \in {"compensate", "FAILED"}
                            /\ phase' = "compensate" /\ step' >= 3 => step' = 3 /\ 2 * i < at'
                      /\ Running' /\ step' = 3 /\ at' = 2 * i =>
                            read' \in (IF phase' = "execute" THEN 1 ELSE 0) .. Plenty
  BY DEF StockBounded
<1>4. stock'[i] <= Plenty \/ (phase = "compensate" /\ (step >= 3 => step = 3 /\ 2 * i <= at))
  BY MovedStock
<1>5. stock'[i] \in NoKey .. Plenty + 1
  BY MovedStock
<1>6. Running' /\ step' = 3 /\ at' = 2 * i =>
         read' \in (IF phase' = "execute" THEN 1 ELSE 0) .. Plenty
  BY <1>2
<1> QED
  BY <1>1, <1>2, <1>4, <1>5, <1>6

LEMMA SagaTypesNext ==
    ASSUME SagaControl', shaky' \subseteq Steps,
           stock' \in [1 .. Items -> NoKey .. Plenty + 1],
           saved' \in [Steps -> {"none", "COMPLETED", "COMPENSATED"}]
    PROVE  SagaTypeOK'
<1>1. Running' => at' \in 1 .. Len(SagaRequests)'
  BY NextLength DEF SagaControl
<1> QED
  BY <1>1 DEF SagaControl, SagaTypeOK

(* A request that is served brings its own step forward.                     *)
LEMMA ServedOwn ==
    ASSUME SagaInv, Running, Apply, Request.op # "get", UNCHANGED initial,
           Proceed(0), at < Length, NEW s \in Steps, s = step, StatusOf(s)
    PROVE  IF phase = "execute" THEN Doing(s)' ELSE Undoing(s)'
<1>1. /\ step \in 1 .. 4 /\ phase \in {"execute", "compensate"}
      /\ at \in 1 .. Length /\ Length \in Nat
  BY SagaNumbers DEF SagaInv, SagaControl, Steps, Running, Length
<1>2. at' = at + 1 /\ Length' = Length
  BY NextControl, <1>1
<1>3. (phase = "execute" => Doing(s)) /\ (phase = "compensate" => Undoing(s))
  BY DEF StatusOf
<1>4. CASE step = 1
  <2>1. Length = 2 /\ at = 1 /\ at' = 2
    BY <1>1, <1>2, <1>4 DEF Length
  <2>2. Request = IF phase = "execute" THEN Put("order") ELSE Delete("order")
    BY <1>4, RequestAt DEF SagaInv
  <2> QED
    BY <1>1, <1>4, <2>1, <2>2
    DEF Apply, Put, Delete, Doing, Undoing, Done, Performed, Undone
<1>5. CASE step = 4
  <2>1. Length = 2 /\ at = 1 /\ at' = 2
    BY <1>1, <1>2, <1>5 DEF Length
  <2>2. Request = IF phase = "execute" THEN Put("shipping.ready") ELSE Put("shipping.cancelled")
    BY <1>5, RequestAt DEF SagaInv
  <2> QED
    BY <1>1, <1>5, <2>1, <2>2
    DEF Apply, Put, Delete, Doing, Undoing, Done, Performed, Undone
<1>6. CASE step = 2 /\ phase = "execute"
  <2>1. Length = 3 /\ at \in {1, 2} /\ at' = at + 1 /\ Length' = 3
    BY <1>1, <1>2, <1>6 DEF Length
  <2>2. Request = IF at = 1 THEN Put("payment") ELSE Put("payment.completed")
    BY <1>6, RequestAt DEF SagaInv
  <2>3. at = 2 => "payment" \in effects
    BY <1>3, <1>6 DEF Doing
  <2>4. /\ at = 1 => effects' = effects \cup {"payment"}
        /\ at = 2 => effects' = effects \cup {"payment.completed"}
    BY <2>2 DEF Apply, Put
  <2> QED
    BY <1>6, <2>1, <2>3, <2>4 DEF Doing, Done, Performed
<1>7. CASE step = 2 /\ phase = "compensate"
  <2>1. Length = 2 /\ at = 1 /\ at' = 2
    BY <1>1, <1>2, <1>7 DEF Length
  <2>2. Request = Put("refund")
    BY <1>7, RequestAt DEF SagaInv
  <2>3. effects' = effects \cup {"refund"}
    BY <2>2 DEF Apply, Put
  <2> QED
    BY <1>7, <2>1, <2>3 DEF Undoing, Undone
<1>8. CASE step = 3
  <2>1. PICK i \in 1 .. Items : at = 2 * i /\ Request = [op |-> "set", arg |-> i]
    BY <1>8, RequestAt DEF SagaInv
  <2>2. Length = 2 * Items + 1 /\ at' = 2 * i + 1 /\ i \in Nat
    BY <1>2, <1>8, <2>1, SagaNumbers DEF Length
  <2>3. stock' = [stock EXCEPT ![i] = IF phase = "execute" THEN read - 1 ELSE read + 1]
    BY <2>1 DEF Apply
  <2>4. stock \in [1 .. Items -> NoKey .. Plenty + 1]
    BY DEF SagaInv, SagaTypeOK
  <2>5. initial \in [1 .. Items -> {NoKey, 0, 1}]
    BY DEF SagaInv
  <2>6. \A j \in 1 .. Items : j # i => stock'[j] = stock[j]
    BY <2>3, <2>4
  <2>7. \A j \in 1 .. Items : Level(initial[j]) \in Nat /\ Level(initial[j]) # NoKey
    BY <2>5, SagaNumbers DEF Level
  <2>8. CASE phase = "execute"
    <3>1. read = Level(initial[i]) /\ read >= 1
      BY <1>3, <1>8, <2>1, <2>8 DEF Doing
    <3>2. stock'[i] = Level(initial[i]) - 1 /\ stock'[i] >= 0
      BY <2>3, <2>4, <2>7, <2>8, <3>1
    <3>3. TakenOf(i)'
      BY <3>2 DEF TakenOf, Level
    <3>4. ASSUME NEW j \in 1 .. Items
          PROVE  /\ 2 * j < at' => TakenOf(j)'
                 /\ at' <= 2 * j => stock'[j] = initial'[j]
                 /\ at' # 2 * j
      <4>1. at' # 2 * j
        BY <2>2
      <4>2. CASE j = i
        BY <2>2, <3>3, <4>1, <4>2
      <4>3. CASE j # i
        <5>1. /\ 2 * j < at' => 2 * j < at
              /\ at' <= 2 * j => at <= 2 * j
          BY <2>1, <2>2, <4>3
        <5>2. (2 * j < at => TakenOf(j)) /\ (at <= 2 * j => stock[j] = initial[j])
          BY <1>3, <1>8, <2>8 DEF Doing
        <5>3. TakenOf(j) => TakenOf(j)'
          BY <2>6, <4>3 DEF TakenOf, Level
        <5> QED
          BY <2>6, <4>1, <4>3, <5>1, <5>2, <5>3
      <4> QED
        BY <4>2, <4>3
    <3>5. at' = Length' => Done(s)'
      <4>1. SUFFICES ASSUME at' = Length' PROVE Done(s)'
        OBVIOUS
      <4>2. \A j \in 1 .. Items : 2 * j < at'
        BY <1>2, <2>2, <4>1, SagaNumbers
      <4>3. \A j \in 1 .. Items : TakenOf(j)'
        BY <3>4, <4>2
      <4> QED
        BY <1>8, <4>3 DEF Done, Performed, TakenOf
    <3> QED
      BY <1>8, <2>8, <3>4, <3>5 DEF Doing
  <2>9. CASE phase = "compensate"
    <3>1. read = stock[i] /\ TakenOf(i)
      BY <1>3, <1>8, <2>1, <2>9, SagaNumbers DEF Undoing
    <3>2. stock'[i] = Level(initial[i]) /\ stock'[i] # NoKey
      BY <2>3, <2>4, <2>7, <2>9, <3>1 DEF TakenOf
    <3>3. Level(stock'[i]) = Level(initial'[i])
      BY <3>2 DEF Level
    <3>4. ASSUME NEW j \in 1 .. Items
          PROVE  /\ 2 * j < at' => Level(stock'[j]) = Level(initial'[j])
                 /\ at' <= 2 * j => TakenOf(j)'
                 /\ at' # 2 * j
      <4>1. at' # 2 * j
        BY <2>2
      <4>2. CASE j = i
        BY <2>2, <3>3, <4>1, <4>2
      <4>3. CASE j # i
        <5>1. /\ 2 * j < at' => 2 * j < at
              /\ at' <= 2 * j => at <= 2 * j
          BY <2>1, <2>2, <4>3
        <5>2. /\ 2 * j < at => Level(stock[j]) = Level(initial[j])
              /\ at <= 2 * j => TakenOf(j)
          BY <1>3, <1>8, <2>9 DEF Undoing
        <5>3. TakenOf(j) => TakenOf(j)'
          BY <2>6, <4>3 DEF TakenOf, Level
        <5> QED
          BY <2>6, <4>1, <4>3, <5>1, <5>2, <5>3
      <4> QED
        BY <4>2, <4>3
    <3>5. at' = Length' => Undone(s)'
      <4>1. SUFFICES ASSUME at' = Length' PROVE Undone(s)'
        OBVIOUS
      <4>2. \A j \in 1 .. Items : 2 * j < at'
        BY <1>2, <2>2, <4>1, SagaNumbers
      <4>3. \A j \in 1 .. Items : Level(stock'[j]) = Level(initial'[j])
        BY <3>4, <4>2
      <4> QED
        BY <1>8, <4>3 DEF Undone, Level
    <3> QED
      BY <1>8, <2>9, <3>4, <3>5 DEF Undoing
  <2> QED
    BY <1>1, <2>8, <2>9
<1> QED
  BY <1>1, <1>4, <1>5, <1>6, <1>7, <1>8

LEMMA ServedKeeps ==
    ASSUME SagaInv, Served
    PROVE  SagaInv'
<1>1. /\ Running /\ Request.op # "get" /\ Apply /\ Proceed(0)
      /\ shaky' = shaky /\ initial' = initial /\ read' = read
  BY DEF Served, NoFault
<1>2. /\ at \in 1 .. Length /\ Length \in Nat /\ shaky \subseteq Steps
      /\ initial \in [1 .. Items -> {NoKey, 0, 1}]
  BY <1>1, SagaNumbers DEF SagaInv, SagaControl, SagaTypeOK, Length
<1>3. Moved /\ saved' \in [Steps -> {"none", "COMPLETED", "COMPENSATED"}]
  BY <1>1, AppliedMoves
<1>4. stock' \in [1 .. Items -> NoKey .. Plenty + 1]
  BY <1>1, <1>3, MovedStock
<1>5. CASE at = Length
  <2>1. Request.op = "save"
    BY <1>1, <1>5, RequestAt DEF SagaInv
  <2>2. stock' = stock /\ effects' = effects
    BY <1>1, <2>1 DEF Apply
  <2>3. SagaControl'
    BY <1>1, <1>5, EndControl
  <2>4. StockBounded'
    BY <1>1, <1>5, <2>2, StockAtEnd
  <2>5. \A s \in Steps \ shaky' : StatusOf(s)'
    BY <1>1, <1>5, <2>2, NothingDone, EndStatus DEF SagaInv
  <2> QED
    BY <1>1, <1>2, <1>3, <1>4, <2>3, <2>4, <2>5, SagaTypesNext DEF SagaInv
<1>6. CASE at < Length
  <2>1. SagaControl'
    BY <1>1, <1>6, <1>2, NextControl
  <2>2. StockBounded'
    <3>1. \A i \in 1 .. Items : ~(step = 3 /\ at + 1 + 0 = 2 * i)
      <4>1. SUFFICES ASSUME step = 3
                     PROVE  \A i \in 1 .. Items : at + 1 + 0 # 2 * i
        OBVIOUS
      <4>2. PICK j \in 1 .. Items : at = 2 * j
        BY <1>1, <1>6, <4>1, RequestAt DEF SagaInv
      <4> QED
        BY <4>2, SagaNumbers
    <3> QED
      BY <1>1, <1>2, <1>3, <1>6, <3>1, StockNext
  <2>3. ASSUME NEW s \in Steps \ shaky PROVE StatusOf(s)'
    <3>1. StatusOf(s)
      BY DEF SagaInv
    <3>2. s # step => Kept(s)
      BY <1>1, OwnServices
    <3>3. s = step => IF phase = "execute" THEN Doing(s)' ELSE Undoing(s)'
      BY <1>1, <1>6, <3>1, ServedOwn
    <3> QED
      BY <1>1, <1>2, <1>6, <3>1, <3>2, <3>3, NextStatus
  <2> QED
    BY <1>1, <1>2, <1>3, <1>4, <2>1, <2>2, <2>3, SagaTypesNext DEF SagaInv
<1> QED
  BY <1>2, <1>5, <1>6

LEMMA OnlyTheLastSaves ==
    ASSUME SagaInv, Running
    PROVE  Request.op = "save" <=> at = Length
<1>1. step \in 1 .. 4 /\ at \in 1 .. Length /\ Length \in Nat
  BY SagaNumbers DEF SagaInv, SagaControl, Steps, Length
<1>2. at = Length => Request.op = "save"
  BY RequestAt DEF SagaInv
<1>3. at < Length => Request.op # "save"
  <2>1. CASE step = 3
    BY <2>1, RequestAt DEF SagaInv
  <2>2. CASE step = 1
    BY <2>2, RequestAt DEF SagaInv, Put, Delete
  <2>3. CASE step = 2
    BY <2>3, RequestAt DEF SagaInv, Put
  <2>4. CASE step = 4
    BY <2>4, RequestAt DEF SagaInv, Put
  <2> QED
    BY <1>1, <2>1, <2>2, <2>3, <2>4
<1> QED
  BY <1>1, <1>2, <1>3

LEMMA RefusedKeeps ==
    ASSUME SagaInv, Refused
    PROVE  SagaInv'
<1>1. /\ Running /\ Proceed(0)
      /\ shaky' = IF Request.op = "save" THEN shaky ELSE shaky \cup {step}
      /\ UNCHANGED <<initial, stock, effects, saved, read>>
  BY DEF Refused, Fault
<1>2. /\ at \in 1 .. Length /\ Length \in Nat /\ shaky \subseteq Steps /\ step \in Steps
      /\ initial \in [1 .. Items -> {NoKey, 0, 1}]
  BY <1>1, SagaNumbers DEF SagaInv, SagaControl, SagaTypeOK, Length
<1>3. /\ stock' \in [1 .. Items -> NoKey .. Plenty + 1]
      /\ saved' \in [Steps -> {"none", "COMPLETED", "COMPENSATED"}]
      /\ shaky' \subseteq Steps
  BY <1>1, <1>2 DEF SagaInv, SagaTypeOK
<1>4. CASE at = Length
  <2>1. shaky' = shaky
    BY <1>1, <1>4, OnlyTheLastSaves
  <2>2. SagaControl'
    BY <1>1, <1>4, EndControl
  <2>3. StockBounded'
    BY <1>1, <1>4, StockAtEnd
  <2>4. \A s \in Steps \ shaky' : StatusOf(s)'
    BY <1>1, <1>4, <2>1, NothingDone, EndStatus DEF SagaInv
  <2> QED
    BY <1>1, <1>2, <1>3, <2>2, <2>3, <2>4, SagaTypesNext DEF SagaInv
<1>5. CASE at < Length
  <2>1. shaky' = shaky \cup {step}
    BY <1>1, <1>2, <1>5, OnlyTheLastSaves
  <2>2. SagaControl'
    BY <1>1, <1>2, <1>5, NextControl
  <2>3. StockBounded'
    <3>1. \A i \in 1 .. Items : ~(step = 3 /\ at + 1 + 0 = 2 * i)
      <4>1. SUFFICES ASSUME step = 3
                     PROVE  \A i \in 1 .. Items : at + 1 + 0 # 2 * i
        OBVIOUS
      <4>2. PICK j \in 1 .. Items : at = 2 * j
        BY <1>1, <1>5, <4>1, RequestAt DEF SagaInv, Refused
      <4> QED
        BY <4>2, SagaNumbers
    <3>2. Moved
      BY <1>1 DEF Moved
    <3> QED
      BY <1>1, <1>2, <1>5, <3>1, <3>2, StockNext
  <2>4. ASSUME NEW s \in Steps \ shaky' PROVE StatusOf(s)'
    <3>1. s # step /\ StatusOf(s) /\ Kept(s)
      BY <1>1, <2>1, NothingDone DEF SagaInv
    <3> QED
      BY <1>1, <1>2, <1>5, <3>1, NextStatus
  <2> QED
    BY <1>1, <1>2, <1>3, <2>2, <2>3, <2>4, SagaTypesNext DEF SagaInv
<1> QED
  BY <1>2, <1>4, <1>5

LEMMA RaisesKeeps ==
    ASSUME SagaInv, Raises
    PROVE  SagaInv'
<1>1. /\ Running /\ Raise
      /\ Apply \/ UNCHANGED <<effects, stock, saved>>
      /\ shaky' = IF Request.op = "save" THEN shaky ELSE shaky \cup {step}
      /\ UNCHANGED <<initial, read>>
  BY DEF Raises, Fault
<1>2. /\ at \in 1 .. Length /\ Length \in Nat /\ shaky \subseteq Steps /\ step \in Steps
      /\ initial \in [1 .. Items -> {NoKey, 0, 1}]
      /\ phase \in {"execute", "compensate"}
  BY <1>1, SagaNumbers DEF SagaInv, SagaControl, SagaTypeOK, Length, Running
<1>3. Moved /\ saved' \in [Steps -> {"none", "COMPLETED", "COMPENSATED"}]
  BY <1>1, AppliedMoves DEF SagaInv, SagaTypeOK, Moved
<1>4. stock' \in [1 .. Items -> NoKey .. Plenty + 1] /\ shaky' \subseteq Steps
  BY <1>1, <1>2, <1>3, MovedStock
<1>5. SagaControl' /\ StockBounded'
  BY <1>1, <1>3, RaiseControl, StockRaised
<1>6. ASSUME NEW s \in Steps \ shaky' PROVE StatusOf(s)'
  <2>1. s \in Steps /\ StatusOf(s)
    BY <1>1 DEF SagaInv
  <2>2. s # step => Kept(s)
    BY <1>1, <2>1, NothingDone, OwnServices
  <2>3. ASSUME s = step
        PROVE  \/ phase = "execute" /\ at = Length /\ Done(s)'
               \/ phase = "compensate" /\ Undone(s)'
    <3>1. Request.op = "save" /\ at = Length
      BY <1>1, <2>3, OnlyTheLastSaves
    <3>2. stock' = stock /\ effects' = effects
      BY <1>1, <3>1 DEF Apply
    <3>3. Kept(s)
      BY <1>1, <2>1, <3>2, NothingDone
    <3> QED
      BY <1>2, <2>1, <2>3, <3>1, <3>3 DEF StatusOf, Doing, Undoing, Kept
  <2> QED
    BY <1>1, <2>1, <2>2, <2>3, RaiseStatus
<1> QED
  BY <1>1, <1>2, <1>3, <1>4, <1>5, <1>6, SagaTypesNext DEF SagaInv

LEMMA GetStockKeeps ==
    ASSUME SagaInv, GetStock
    PROVE  SagaInv'
<1>1. Running /\ Request.op = "get" /\ UNCHANGED <<initial, stock, effects, saved>>
  BY DEF GetStock
<1>2. /\ at \in 1 .. Length /\ Length \in Nat /\ shaky \subseteq Steps /\ step \in Steps
      /\ initial \in [1 .. Items -> {NoKey, 0, 1}]
      /\ phase \in {"execute", "compensate"}
      /\ stock \in [1 .. Items -> NoKey .. Plenty + 1]
      /\ step \in 1 .. 4
  BY <1>1, SagaNumbers DEF SagaInv, SagaControl, SagaTypeOK, Length, Running, Steps
<1>3. at < Length /\ step = 3
  <2>1. at # Length
    BY <1>1, OnlyTheLastSaves
  <2>2. CASE step = 1
    BY <1>1, <1>2, <2>1, <2>2, RequestAt DEF SagaInv, Put, Delete
  <2>3. CASE step = 2
    BY <1>1, <1>2, <2>1, <2>3, RequestAt DEF SagaInv, Put
  <2>4. CASE step = 4
    BY <1>1, <1>2, <2>1, <2>4, RequestAt DEF SagaInv, Put
  <2> QED
    BY <1>2, <2>1, <2>2, <2>3, <2>4
<1>4. PICK i \in 1 .. Items : at = 2 * i - 1 /\ Request = [op |-> "get", arg |-> i]
  BY <1>1, <1>3, RequestAt DEF SagaInv
<1>5. PICK served \in BOOLEAN :
         LET found == served /\ stock[i] # NoKey
             level == IF found THEN stock[i] ELSE Plenty
         IN  /\ IF served THEN NoFault ELSE Fault
             /\ IF phase = "execute"
                THEN IF level < 1 THEN Raise /\ UNCHANGED read
                                  ELSE Proceed(0) /\ read' = level
                ELSE IF found THEN Proceed(0) /\ read' = level
                              ELSE Proceed(1) /\ UNCHANGED read
  BY <1>4 DEF GetStock
<1>6. /\ shaky' = IF served THEN shaky ELSE shaky \cup {3}
      /\ shaky' \subseteq Steps
  BY <1>1, <1>2, <1>3, <1>5 DEF NoFault, Fault
<1>7. Moved /\ \A s \in Steps : Kept(s)
  BY <1>1, NothingDone DEF Moved
<1>8. Length = 2 * Items + 1 /\ at + 1 < Length
  BY <1>3, <1>4, SagaNumbers DEF Length
<1>9. saved' \in [Steps -> {"none", "COMPLETED", "COMPENSATED"}]
  BY <1>1 DEF SagaInv, SagaTypeOK
<1>10. stock[i] \in NoKey .. Plenty + 1 /\ (phase = "execute" => stock[i] <= Plenty)
  <2>1. phase = "execute" => phase \notin {"compensate", "FAILED"}
    OBVIOUS
  <2> QED
    BY <1>2, <2>1 DEF SagaInv, StockBounded
<1>11. SagaControl' /\ StockBounded' /\ \A s \in Steps \ shaky' : StatusOf(s)'
  <2>1. CASE phase = "execute" /\ (IF served /\ stock[i] # NoKey THEN stock[i] ELSE Plenty) < 1
    <3>1. Raise /\ served /\ stock[i] = 0
      BY <1>5, <1>10, <2>1, SagaNumbers
    <3>2. ASSUME NEW s \in Steps \ shaky' PROVE StatusOf(s)'
      <4>1. StatusOf(s) /\ s \in Steps
        BY <1>6 DEF SagaInv
      <4>2. s = step => RanOut(s)'
        <5>1. SUFFICES ASSUME s = step PROVE RanOut(s)'
          OBVIOUS
        <5>2. \A j \in 1 .. Items : at <= 2 * j => stock[j] = initial[j]
          BY <1>3, <2>1, <4>1, <5>1 DEF StatusOf, Doing
        <5>3. initial[i] = 0 /\ \A j \in i .. Items : j \in 1 .. Items /\ stock[j] = initial[j]
          BY <1>4, <3>1, <5>2, SagaNumbers
        <5> QED
          BY <1>1, <1>3, <5>1, <5>3 DEF RanOut
      <4> QED
        BY <1>1, <1>3, <1>7, <2>1, <3>1, <4>1, <4>2, RaiseStatus
    <3> QED
      BY <1>1, <1>7, <3>1, <3>2, RaiseControl, StockRaised
  <2>2. CASE phase = "execute" /\ ~((IF served /\ stock[i] # NoKey THEN stock[i] ELSE Plenty) < 1)
    <3>1. Proceed(0) /\ read' = IF served /\ stock[i] # NoKey THEN stock[i] ELSE Plenty
      BY <1>5, <2>2
    <3>2. read' \in 1 .. Plenty
      BY <1>10, <2>2, <3>1, SagaNumbers
    <3>3. SagaControl' /\ StockBounded' /\ at' = 2 * i /\ step' = step /\ Length' = Length
      BY <1>1, <1>2, <1>3, <1>4, <1>7, <1>8, <2>2, <3>1, <3>2, NextControl, StockNext
    <3>4. ASSUME NEW s \in Steps \ shaky' PROVE StatusOf(s)'
      <4>1. StatusOf(s) /\ s \in Steps /\ (s = 3 => served)
        BY <1>6 DEF SagaInv
      <4>2. s = step => Doing(s)'
        <5>1. SUFFICES ASSUME s = step PROVE Doing(s)'
          OBVIOUS
        <5>2. \A j \in 1 .. Items : /\ 2 * j < at => TakenOf(j)
                                    /\ at <= 2 * j => stock[j] = initial[j]
          BY <1>3, <2>2, <4>1, <5>1 DEF StatusOf, Doing
        <5>3. read' = Level(initial[i])
          BY <1>3, <1>4, <3>1, <4>1, <5>1, <5>2, SagaNumbers DEF Level
        <5>4. ASSUME NEW j \in 1 .. Items
              PROVE  /\ 2 * j < at' => TakenOf(j)'
                     /\ at' <= 2 * j => stock'[j] = initial'[j]
                     /\ at' = 2 * j => read' = Level(initial'[j]) /\ read' >= 1
          <6>1. /\ 2 * j < at' => 2 * j < at
                /\ at' <= 2 * j => at <= 2 * j
                /\ at' = 2 * j => j = i
            BY <1>4, <3>3, SagaNumbers
          <6>2. TakenOf(j) => TakenOf(j)'
            BY <1>1 DEF TakenOf
          <6>3. at' = 2 * j => read' = Level(initial'[j]) /\ read' >= 1
            BY <1>1, <3>2, <5>3, <6>1
          <6> QED
            BY <1>1, <5>2, <6>1, <6>2, <6>3
        <5>5. at' # Length'
          BY <1>4, <1>8, <3>3, SagaNumbers
        <5> QED
          BY <1>3, <5>1, <5>4, <5>5 DEF Doing
      <4> QED
        BY <1>1, <1>2, <1>7, <1>8, <2>2, <3>1, <4>1, <4>2, NextStatus
    <3> QED
      BY <3>3, <3>4
  <2>3. CASE phase = "compensate" /\ served /\ stock[i] # NoKey
    <3>1. Proceed(0) /\ read' = stock[i]
      BY <1>5, <2>3
    <3>2. read' \in 0 .. Plenty
      <4>1. ~(2 * i < at)
        BY <1>4
      <4>2. stock[i] <= Plenty
        BY <1>3, <2>3, <4>1 DEF SagaInv, StockBounded
      <4> QED
        BY <1>10, <2>3, <3>1, <4>2, SagaNumbers
    <3>3. SagaControl' /\ StockBounded' /\ at' = 2 * i /\ step' = step /\ Length' = Length
      BY <1>1, <1>2, <1>3, <1>4, <1>7, <1>8, <2>3, <3>1, <3>2, NextControl, StockNext
    <3>4. ASSUME NEW s \in Steps \ shaky' PROVE StatusOf(s)'
      <4>1. StatusOf(s) /\ s \in Steps
        BY <1>6 DEF SagaInv
      <4>2. s = step => Undoing(s)'
        <5>1. SUFFICES ASSUME s = step PROVE Undoing(s)'
          OBVIOUS
        <5>2. \A j \in 1 .. Items : /\ 2 * j < at => Level(stock[j]) = Level(initial[j])
                                    /\ at <= 2 * j => TakenOf(j)
          BY <1>3, <2>3, <4>1, <5>1 DEF StatusOf, Undoing
        <5>3. ASSUME NEW j \in 1 .. Items
              PROVE  /\ 2 * j < at' => Level(stock'[j]) = Level(initial'[j])
                     /\ at' <= 2 * j => TakenOf(j)'
                     /\ at' = 2 * j => read' = stock'[j]
          <6>1. /\ 2 * j < at' => 2 * j < at
                /\ at' <= 2 * j => at <= 2 * j
                /\ at' = 2 * j => j = i
            BY <1>4, <3>3, SagaNumbers
          <6>2. TakenOf(j) => TakenOf(j)'
            BY <1>1 DEF TakenOf
          <6> QED
            BY <1>1, <3>1, <5>2, <6>1, <6>2
        <5>4. at' # Length'
          BY <1>4, <1>8, <3>3, SagaNumbers
        <5> QED
          BY <1>3, <5>1, <5>3, <5>4 DEF Undoing
      <4> QED
        BY <1>1, <1>2, <1>7, <1>8, <2>3, <3>1, <4>1, <4>2, NextStatus
    <3> QED
      BY <3>3, <3>4
  <2>4. CASE phase = "compensate" /\ ~(served /\ stock[i] # NoKey)
    <3>1. Proceed(1)
      BY <1>5, <2>4
    <3>2. \A j \in 1 .. Items : at + 1 + 1 # 2 * j
      BY <1>4, SagaNumbers
    <3>3. SagaControl' /\ StockBounded'
      BY <1>1, <1>7, <1>8, <2>4, <3>1, <3>2, NextControl, StockNext
    <3>4. ASSUME NEW s \in Steps \ shaky' PROVE StatusOf(s)'
      <4>1. StatusOf(s) /\ s \in Steps
        BY <1>6 DEF SagaInv
      <4>2. s # step
        <5>1. SUFFICES ASSUME s = 3 PROVE FALSE
          BY <1>3
        <5>2. served /\ stock[i] = NoKey
          BY <1>6, <2>4, <5>1
        <5>3. TakenOf(i)
          BY <1>3, <1>4, <2>4, <4>1, <5>1, SagaNumbers DEF StatusOf, Undoing
        <5>4. stock[i] >= 0 /\ stock[i] = 0 - 1
          BY <5>2, <5>3, SagaNumbers DEF TakenOf
        <5> QED
          BY <5>4
      <4> QED
        BY <1>1, <1>7, <1>8, <2>4, <3>1, <4>1, <4>2, NextStatus
    <3> QED
      BY <3>3, <3>4
  <2> QED
    BY <1>2, <2>1, <2>2, <2>3, <2>4
<1> QED
  BY <1>1, <1>2, <1>6, <1>9, <1>11, SagaTypesNext DEF SagaInv

LEMMA SagaBegins == SagaInit => SagaInv
<1> SUFFICES ASSUME SagaInit PROVE SagaInv
  OBVIOUS
<1>1. /\ initial \in [1 .. Items -> {NoKey, 0, 1}] /\ stock = initial /\ effects = {}
      /\ saved = [s \in Steps |-> "none"]
      /\ phase = "execute" /\ step = 1 /\ at = 1 /\ read = 0 /\ executed = 0 /\ shaky = {}
  BY DEF SagaInit
<1>2. Length = 2
  BY <1>1 DEF Length
<1>3. SagaControl
  BY <1>1, <1>2 DEF SagaControl, Steps
<1>4. stock \in [1 .. Items -> NoKey .. Plenty + 1]
  <2>1. {NoKey, 0, 1} \subseteq NoKey .. Plenty + 1
    BY SagaNumbers
  <2> QED
    BY <1>1, <2>1
<1>5. \A i \in 1 .. Items : stock[i] <= Plenty
  BY <1>1, SagaNumbers
<1>6. StockBounded
  BY <1>1, <1>4, <1>5 DEF StockBounded
<1>7. SagaTypeOK
  <2>1. Len(SagaRequests) = 2
    BY <1>1, <1>2, RequestsLength DEF Running, Steps
  <2> QED
    BY <1>1, <1>3, <1>4, <2>1 DEF SagaTypeOK, SagaControl
<1>8. \A s \in Steps \ shaky : StatusOf(s)
  <2>1. ASSUME NEW s \in 1 .. 4 PROVE StatusOf(s)
    <3>1. Untouched(s)
      <4>1. CASE s = 1
        BY <1>1, <4>1 DEF Untouched
      <4>2. CASE s = 2
        BY <1>1, <4>2 DEF Untouched
      <4>3. CASE s = 3
        BY <1>1, <4>3 DEF Untouched
      <4>4. CASE s = 4
        BY <1>1, <4>4 DEF Untouched
      <4> QED
        BY <4>1, <4>2, <4>3, <4>4
    <3>2. s = 1 => Doing(s)
      BY <1>1, <1>2, <3>1 DEF Doing
    <3> QED
      BY <1>1, <3>1, <3>2 DEF StatusOf
  <2> QED
    BY <2>1 DEF Steps
<1> QED
  BY <1>1, <1>3, <1>6, <1>7, <1>8 DEF SagaInv

THEOREM SagaInvariance == SagaSpec => []SagaInv
<1>1. SagaInv /\ UNCHANGED sagaVars => SagaInv'
  <2> SUFFICES ASSUME SagaInv, UNCHANGED sagaVars PROVE SagaInv'
    OBVIOUS
  <2>1. /\ UNCHANGED <<initial, stock, effects, saved, phase, step, at, read, executed, shaky>>
    BY DEF sagaVars
  <2>2. SagaTypeOK' /\ SagaControl' /\ StockBounded' /\ initial' = initial /\ Length' = Length
    <3>1. SagaTypeOK'
      BY <2>1 DEF SagaInv, SagaTypeOK, Running, SagaRequests
    <3>2. SagaControl' /\ Length' = Length
      BY <2>1 DEF SagaInv, SagaControl, Running, Length
    <3>3. StockBounded'
      BY <2>1 DEF SagaInv, StockBounded, Running
    <3> QED
      BY <2>1, <3>1, <3>2, <3>3
  <2>3. ASSUME NEW s \in Steps \ shaky PROVE StatusOf(s)'
    <3>1. StatusOf(s)
      BY DEF SagaInv
    <3>2. /\ Performed(s)' = Performed(s) /\ Untouched(s)' = Untouched(s)
          /\ Undone(s)' = Undone(s) /\ RanOut(s)' = RanOut(s) /\ Done(s)' = Done(s)
      BY <2>1 DEF Performed, Untouched, Undone, RanOut, Done, TakenOf
    <3>3. Doing(s)' = Doing(s) /\ Undoing(s)' = Undoing(s)
      BY <2>1, <2>2, <3>2 DEF Doing, Undoing, TakenOf
    <3> QED
      BY <2>1, <3>1, <3>2, <3>3 DEF StatusOf
  <2> QED
    BY <2>1, <2>2, <2>3 DEF SagaInv
<1>2. SagaInv /\ [SagaNext]_sagaVars => SagaInv'
  BY <1>1, GetStockKeeps, ServedKeeps, RefusedKeeps, RaisesKeeps DEF SagaNext, SagaEnded
<1> QED
  BY SagaBegins, <1>2, PTL DEF SagaSpec

(* The status an order saga returns is true of the services of each step     *)
(* none of whose requests failed.                                            *)
THEOREM StatusAlwaysTrue == SagaSpec => []StatusIsTrue
<1>1. SagaInv => StatusIsTrue
  BY DEF SagaInv, StatusIsTrue, StatusOf
<1> QED
  BY <1>1, SagaInvariance, PTL

(* Both sagas of the run: the orchestrator settles each step, and the status *)
(* of the order saga is true.                                                *)
THEOREM SagasAlwaysSettle == SagaSpec /\ OrchestratorSpec => []SagasSettle
  BY StatusAlwaysTrue, StepsSettleAlways, PTL DEF SagasSettle

-----------------------------------------------------------------------------
(***************************************************************************)
(* Types of the whole: the part that runs keeps its own, the others stay.  *)
(***************************************************************************)
\* The workers whose connection has dropped.
Broken == {w \in Workers : stage[w] \in {"processing", "failed"} /\ held[w] = {}}

(* A worker holds one message at the most, and each drop costs a worker.     *)
WorkersTyped ==
    /\ SetsOK
    /\ \A w \in Workers : held[w] = {} \/ \E m \in Messages : held[w] = {m}
    /\ \A m \in Messages : drops[m] <= Cardinality(Broken)

LEMMA BrokenCount ==
    /\ IsFiniteSet(Broken) /\ Cardinality(Broken) \in Nat
    /\ Cardinality(Broken) <= Cardinality(Workers) /\ Cardinality(Workers) \in Nat
    /\ Cardinality(Broken') \in Nat
    /\ Broken \subseteq Broken' => Cardinality(Broken) <= Cardinality(Broken')
<1>1. Broken \subseteq Workers /\ Broken' \subseteq Workers
  BY DEF Broken
<1>2. IsFiniteSet(Broken')
  BY <1>1, FS_Subset
<1> QED
  BY <1>1, <1>2, FS_Subset, FS_CardinalityType

LEMMA WorkersTypedNext == WorkersTyped /\ [WorkersNext]_workVars => WorkersTyped'
<1> SUFFICES ASSUME WorkersTyped, [WorkersNext]_workVars PROVE WorkersTyped'
  OBVIOUS
<1> USE DEF WorkersTyped, SetsOK, WorkerStages
<1>1. ASSUME Broken \subseteq Broken', drops' = drops, SetsOK',
             \A w \in Workers : held'[w] = {} \/ \E m \in Messages : held'[w] = {m}
      PROVE  WorkersTyped'
  BY <1>1, BrokenCount
<1>2. ASSUME NEW w \in Workers, Deliver(w) PROVE WorkersTyped'
  <2>1. PICK m \in ready : /\ ready' = ready \ {m}
                           /\ held' = [held EXCEPT ![w] = @ \cup {m}]
                           /\ IF stage[w] = "waiting"
                              THEN /\ taken' = [taken EXCEPT ![w] = @ \cup {m}]
                                   /\ stage' = [stage EXCEPT ![w] = "processing"]
                              ELSE UNCHANGED <<taken, stage>>
    BY <1>2 DEF Deliver
  <2>2. HasRoom(w) /\ acked' = acked /\ drops' = drops /\ m \in Messages
    BY <1>2 DEF Deliver
  <2>3. SetsOK'
    BY <2>1, <2>2
  <2>4. held'[w] = {m} /\ \A v \in Workers \ {w} : held'[v] = held[v] /\ stage'[v] = stage[v]
    BY <2>1, <2>2 DEF HasRoom
  <2>5. Broken \subseteq Broken'
    BY <2>2, <2>4 DEF Broken, HasRoom
  <2> QED
    BY <1>1, <2>2, <2>3, <2>4, <2>5
<1>3. ASSUME NEW w \in Workers, Finish(w) PROVE WorkersTyped'
  <2>1. SetsOK' /\ drops' = drops
    BY <1>3 DEF Finish
  <2>2. held'[w] = {} /\ \A v \in Workers \ {w} : held'[v] = held[v] /\ stage'[v] = stage[v]
    BY <1>3 DEF Finish
  <2>3. Broken \subseteq Broken'
    BY <1>3, <2>2 DEF Broken, Finish
  <2> QED
    BY <1>1, <2>1, <2>2, <2>3
<1>4. ASSUME NEW w \in Workers, Leave(w) PROVE WorkersTyped'
  <2>1. SetsOK' /\ drops' = drops
    BY <1>4 DEF Leave
  <2>2. held'[w] = {} /\ \A v \in Workers \ {w} : held'[v] = held[v] /\ stage'[v] = stage[v]
    BY <1>4 DEF Leave
  <2>3. Broken \subseteq Broken'
    BY <1>4, <2>2 DEF Broken, Leave
  <2> QED
    BY <1>1, <2>1, <2>2, <2>3
<1>5. ASSUME NEW w \in Workers, AckRaises(w) PROVE WorkersTyped'
  <2>1. SetsOK' /\ drops' = drops /\ held' = held
    BY <1>5 DEF AckRaises
  <2>2. Broken \subseteq Broken'
    BY <1>5 DEF Broken, AckRaises
  <2> QED
    BY <1>1, <2>1, <2>2
<1>6. ASSUME NEW w \in Workers, Drop(w) PROVE WorkersTyped'
  <2>1. SetsOK' /\ stage' = stage /\ held' = [held EXCEPT ![w] = {}]
    BY <1>6 DEF Drop
  <2>2. w \notin Broken /\ Broken' = Broken \cup {w}
    BY <1>6, <2>1 DEF Drop, Broken
  <2>3. Cardinality(Broken') = Cardinality(Broken) + 1
    BY <2>2, BrokenCount, FS_AddElement
  <2>4. \A m \in Messages : drops'[m] <= drops[m] + 1
    BY <1>6 DEF Drop
  <2>5. \A m \in Messages : drops'[m] <= Cardinality(Broken')
    BY <2>1, <2>3, <2>4, BrokenCount
  <2> QED
    BY <2>1, <2>5
<1>7. CASE UNCHANGED workVars
  BY <1>1, <1>7 DEF workVars, Broken
<1> QED
  BY <1>2, <1>3, <1>4, <1>5, <1>6, <1>7 DEF WorkersNext, Step, Gathered

LEMMA WorkersTypedFirst == WorkersInit => WorkersTyped
<1> SUFFICES ASSUME WorkersInit PROVE WorkersTyped
  OBVIOUS
<1>1. SetsOK /\ \A w \in Workers : held[w] = {}
  BY DEF WorkersInit, SetsOK, WorkerStages
<1>2. \A m \in Messages : drops[m] <= Cardinality(Broken)
  BY BrokenCount DEF WorkersInit
<1> QED
  BY <1>1, <1>2 DEF WorkersTyped

LEMMA LockTyped ==
    /\ LockInit => LockTypeOK
    /\ LockTypeOK /\ [LockNext]_lockVars => LockTypeOK'
<1>1. ASSUME LockInit PROVE LockTypeOK
  <2>1. /\ doing \in [Tasks -> Critical \cup {"try", "done", "failed"}]
        /\ seen \in [Tasks -> Nat] /\ left \in [Tasks -> Int]
    BY <1>1, LockAssumption DEF LockInit
  <2> QED
    BY <1>1, <2>1 DEF LockInit, LockTypeOK
<1>2. ASSUME LockTypeOK, [LockNext]_lockVars PROVE LockTypeOK'
  <2>1. ASSUME NEW t \in Tasks, acquire(t) \/ AcquireFails(t) PROVE LockTypeOK'
    BY <1>2, <2>1 DEF LockTypeOK, acquire, AcquireFails
  <2>2. ASSUME NEW t \in Tasks, GetCounter(t) \/ SetCounter(t) \/ CommandFails(t)
        PROVE  LockTypeOK'
    BY <1>2, <2>2 DEF LockTypeOK, GetCounter, SetCounter, CommandFails, SetTo
  <2>3. ASSUME NEW t \in Tasks, release(t) \/ ReleaseFails(t) PROVE LockTypeOK'
    BY <1>2, <2>3 DEF LockTypeOK, release, ReleaseFails, DeleteOwn
  <2>4. CASE LeaseEnds \/ UNCHANGED lockVars
    BY <1>2, <2>4 DEF LockTypeOK, LeaseEnds, lockVars
  <2> QED
    BY <1>2, <2>1, <2>2, <2>3, <2>4 DEF LockNext, safe_increment, Inside, TasksDone
<1> QED
  BY <1>1, <1>2

(* The instance that TLC checks moves one part at a time; so what is proved of
   the parts holds of it. *)
LEMMA PartsOfConcurrency ==
    Spec => /\ BreakerInit /\ [][BreakerNext]_breakerVars
            /\ GuardInit /\ [][GuardNext]_guardVars
            /\ LockInit /\ [][LockNext]_lockVars
            /\ WorkersInit /\ [][WorkersNext]_workVars
            /\ BenchSpec /\ SagaSpec /\ OrchestratorSpec
<1>1. Init => /\ BreakerInit /\ GuardInit /\ LockInit /\ WorkersInit /\ BenchInit
              /\ SagaInit /\ OrchestratorInit
  BY DEF Init
<1>2. [Next]_vars =>
         /\ [BreakerNext]_breakerVars /\ [GuardNext]_guardVars /\ [LockNext]_lockVars
         /\ [WorkersNext]_workVars /\ [BenchNext]_benchVars /\ [SagaNext]_sagaVars
         /\ [OrchestratorNext]_orchestratorVars
  BY DEF Next, vars, OthersStay, BreakerStep, GuardStep, BenchStep, LockStep, WorkersStep,
         SagaStep, OrchestratorStep
<1> QED
  BY <1>1, <1>2, PTL DEF Spec, BenchSpec, SagaSpec, OrchestratorSpec

(* All that the breaker, the guard, the benchmarks, the lock, the workers and
   the sagas keep has its type, for all their numbers. *)
THEOREM ConcurrencyTypes == Spec => []TypeOK
<1>1. BreakerInv => BreakerTypeOK
  BY DEF BreakerInv
<1>2. GuardInv /\ QueueInv => GuardTypeOK
  BY DEF GuardInv, GuardNumbersOK, QueueInv, GuardTypeOK
<1>3. BenchInv => BenchTypeOK
  <2>1. SUFFICES ASSUME BenchInv PROVE BenchTypeOK
    OBVIOUS
  <2>2. \A c \in Clients : running[c].run \in 0 .. runs
    BY <2>1, MaxRunsAssumption DEF BenchInv, Idle, NoRun
  <2> QED
    BY <2>1, <2>2, MaxRunsAssumption DEF BenchInv, BenchTypeOK
<1>4. WorkersTyped => WorkersTypeOK
  <2>1. SUFFICES ASSUME WorkersTyped PROVE WorkersTypeOK
    OBVIOUS
  <2>2. \A w \in Workers : Cardinality(held[w]) <= 1
    <3>1. ASSUME NEW w \in Workers PROVE Cardinality(held[w]) <= 1
      <4>1. CASE held[w] = {}
        BY <4>1, FS_EmptySet
      <4>2. CASE held[w] # {}
        <5>1. PICK m : held[w] = {m}
          BY <2>1, <4>2 DEF WorkersTyped
        <5>2. Cardinality({m}) = 1
          BY FS_Singleton
        <5> QED
          BY <5>1, <5>2
      <4> QED
        BY <4>1, <4>2
    <3> QED
      BY <3>1
  <2>3. drops \in [Messages -> 0 .. Cardinality(Workers)]
    BY <2>1, BrokenCount DEF WorkersTyped, SetsOK
  <2> QED
    BY <2>1, <2>2, <2>3 DEF WorkersTypeOK, WorkersTyped, SetsOK, WorkerStages
<1>5. SagaInv => SagaTypeOK
  BY DEF SagaInv
<1>6. OrchestratorInv => OrchestratorTypeOK
  BY DEF OrchestratorInv
<1>7. TypeOK <=> /\ BreakerTypeOK /\ GuardTypeOK /\ BenchTypeOK /\ LockTypeOK
                 /\ WorkersTypeOK /\ SagaTypeOK /\ OrchestratorTypeOK
  BY DEF TypeOK
<1>8. BreakerInit /\ [][BreakerNext]_breakerVars => []BreakerInv
  BY BreakerInitInv, BreakerNextInv, PTL
<1>9. LockInit /\ [][LockNext]_lockVars => []LockTypeOK
  BY LockTyped, PTL
<1>10. WorkersInit /\ [][WorkersNext]_workVars => []WorkersTyped
  BY WorkersTypedFirst, WorkersTypedNext, PTL
<1> QED
  BY <1>1, <1>2, <1>3, <1>4, <1>5, <1>6, <1>7, <1>8, <1>9, <1>10, PartsOfConcurrency,
     GuardInvariance, QueueInvariance, BenchInvariance, SagaInvariance,
     OrchestratorInvariance, PTL

=============================================================================
