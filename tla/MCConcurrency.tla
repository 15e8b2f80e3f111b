--------------------------- MODULE MCConcurrency ---------------------------
(***************************************************************************)
(* Seven components that keep concurrent actors apart, on small instances.   *)
(* They share no state, so each is run on its own: `part` says which, and  *)
(* the others stay as they begin.  Backpressure and CircuitBreaker guard   *)
(* requests and Benchmarks runs beside them in the application; LeaseLock, *)
(* CompetingWorkers and the two sagas are clients of it, in the notebooks. *)
(*                                                                         *)
(* The breaker: four callers, so that both half-open attempts can run      *)
(* beside two calls from before the trip.  The guard: two slots and four   *)
(* requests, so that both holders can leave before a granted waiter runs.  *)
(* The lock: three tasks, so that a late one meets two others.  The        *)
(* workers: two messages each.  The order saga: two items and three     *)
(* faults.  The orchestrator: four steps.                                  *)
(***************************************************************************)
EXTENDS CircuitBreaker, Backpressure, Benchmarks, LeaseLock,
        CompetingWorkers, OrderSaga, SagaOrchestrator

VARIABLE part

Init ==
    /\ part \in {"breaker", "guard", "benchmarks", "lock", "workers", "saga",
               "orchestrator"}
    /\ BreakerInit /\ GuardInit /\ BenchInit /\ LockInit /\ WorkersInit
    /\ SagaInit /\ (part # "saga" => initial = [i \in 1 .. Items |-> 1])
    /\ OrchestratorInit /\ (part # "orchestrator" => refused = 0)

\* All parts but the one that runs.
OthersStay ==
    /\ UNCHANGED part
    /\ part # "breaker" => UNCHANGED breakerVars
    /\ part # "guard" => UNCHANGED guardVars
    /\ part # "benchmarks" => UNCHANGED benchVars
    /\ part # "lock" => UNCHANGED lockVars
    /\ part # "workers" => UNCHANGED workVars
    /\ part # "saga" => UNCHANGED sagaVars
    /\ part # "orchestrator" => UNCHANGED orchestratorVars

BreakerStep == part = "breaker" /\ BreakerNext /\ OthersStay
GuardStep == part = "guard" /\ GuardNext /\ OthersStay
BenchStep == part = "benchmarks" /\ BenchNext /\ OthersStay
LockStep == part = "lock" /\ LockNext /\ OthersStay
WorkersStep == part = "workers" /\ WorkersNext /\ OthersStay
SagaStep == part = "saga" /\ SagaNext /\ OthersStay
OrchestratorStep ==
    part = "orchestrator" /\ OrchestratorNext /\ OthersStay

Next ==
    \/ BreakerStep \/ GuardStep \/ BenchStep \/ LockStep \/ WorkersStep
    \/ SagaStep \/ OrchestratorStep

vars == <<part, breakerVars, guardVars, benchVars, lockVars, workVars, sagaVars,
          orchestratorVars>>

Fairness ==
    \/ part = "breaker" /\ WF_breakerVars(Tick)
    \/ part = "guard" /\ GuardFairness
    \/ part = "lock" /\ LockFairness
    \/ part = "workers" /\ WorkersFairness
    \/ part \in {"benchmarks", "saga", "orchestrator"}

Spec == Init /\ [][Next]_vars /\ Fairness

TypeOK ==
    /\ BreakerTypeOK /\ GuardTypeOK /\ BenchTypeOK
    /\ LockTypeOK /\ WorkersTypeOK /\ SagaTypeOK
    /\ OrchestratorTypeOK

(* What the two sagas leave behind, whatever fails: see their modules. *)
SagasSettle == StatusIsTrue /\ StepsSettled

\* The part that runs keeps its promise of liveness: see EveryTaskEnds and
\* WorkersEnd.
TasksEnd ==
    /\ part = "lock" => EveryTaskEnds
    /\ part = "workers" => WorkersEnd

=============================================================================
