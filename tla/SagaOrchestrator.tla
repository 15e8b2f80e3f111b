-------------------------- MODULE SagaOrchestrator --------------------------
(***************************************************************************)
(* SagaOrchestrator of notebook 10: the steps of a saga one after the      *)
(* other, each a write to a service's state; when one raises, the          *)
(* compensations of the completed ones in reverse.  A write may raise in   *)
(* the client although it was executed.                                    *)
(***************************************************************************)
EXTENDS Naturals, Sequences, SequencesExt

CONSTANT SagaSteps     \* how many steps have been added

ASSUME SagaStepsAssumption == SagaSteps \in Nat \ {0}

VARIABLES
    refused,     \* the step whose service refuses (should_fail), or 0
    orchestrator,\* what it is at, and the number of its step
    completed,   \* the steps to be compensated, in order
    service,     \* [1 .. SagaSteps -> what the service has recorded]
    unsettled    \* history: steps whose compensation raised

orchestratorVars == <<refused, orchestrator, completed, service, unsettled>>

StepNumbers == 1 .. SagaSteps

OrchestratorInit ==
    /\ refused \in 0 .. SagaSteps
    /\ orchestrator = [at |-> "execute", step |-> 1]
    /\ completed = << >>
    /\ service = [i \in StepNumbers |-> "none"]
    /\ unsettled = {}

OrchestratorTypeOK ==
    /\ refused \in 0 .. SagaSteps
    /\ orchestrator \in [at : {"execute", "compensate", "returned", "raised"},
                         step : StepNumbers]
    /\ \A i \in DOMAIN completed : completed[i] \in StepNumbers
    /\ service \in [StepNumbers -> {"none", "done", "undone"}]
    /\ unsettled \subseteq StepNumbers

-----------------------------------------------------------------------------
OrchestratorGoes(stage) == orchestrator' = [orchestrator EXCEPT !.at = stage]

Records(i, what) == service' = [service EXCEPT ![i] = what]

\* step.action returns, and the step is among the completed ones.
StepSucceeds ==
    LET i == orchestrator.step
    IN  /\ orchestrator.at = "execute" /\ i # refused
        /\ Records(i, "done")
        /\ completed' = Append(completed, i)
        /\ orchestrator' = IF i < SagaSteps THEN [orchestrator EXCEPT !.step = i + 1]
                                            ELSE [orchestrator EXCEPT !.at = "returned"]
        /\ UNCHANGED <<refused, unsettled>>

\* It raises: refused before the write, or without a reply to it.
StepRaises ==
    LET i == orchestrator.step
    IN  /\ orchestrator.at = "execute"
        /\ UNCHANGED service \/ (i # refused /\ Records(i, "done"))
        /\ OrchestratorGoes("compensate")
        /\ UNCHANGED <<refused, completed, unsettled>>

\* Mutant: compensations in the order of the steps.
NotReversed(steps) == steps

Reversed(steps) == Reverse(steps)

\* The compensation of the next completed step; an exception is printed and
\* the others go on.
CompensateStep ==
    /\ orchestrator.at = "compensate" /\ completed # << >>
    /\ LET order == Reversed(completed)
           i == Head(order)
       IN  /\ completed' = Reversed(Tail(order))
           /\ \/ Records(i, "undone") /\ UNCHANGED unsettled
              \/ /\ UNCHANGED service \/ Records(i, "undone")
                 /\ unsettled' = unsettled \cup {i}
    /\ UNCHANGED <<refused, orchestrator>>

\* All have had their turn: execute raises what it has caught.
RaiseAgain ==
    /\ orchestrator.at = "compensate" /\ completed = << >>
    /\ OrchestratorGoes("raised")
    /\ UNCHANGED <<refused, completed, service, unsettled>>

\* The notebook deletes the hash and runs another saga.
NextSaga ==
    /\ orchestrator.at \in {"returned", "raised"}
    /\ refused' \in 0 .. SagaSteps
    /\ orchestrator' = [at |-> "execute", step |-> 1]
    /\ completed' = << >>
    /\ service' = [i \in StepNumbers |-> "none"]
    /\ unsettled' = {}

OrchestratorNext ==
    StepSucceeds \/ StepRaises \/ CompensateStep \/ RaiseAgain \/ NextSaga

OrchestratorSpec == OrchestratorInit /\ [][OrchestratorNext]_orchestratorVars

-----------------------------------------------------------------------------
(* A saga that returns has done every step.  One that raises has undone all  *)
(* steps before the one that raised but those whose compensation raised too, *)
(* has not begun any after it, and what it may leave behind is the step that *)
(* raised after its write.  On the way no step is undone while a later one   *)
(* still stands.                                                             *)
StepsSettled ==
    LET failed == orchestrator.step
        Stands(i) == service[i] = "done" /\ i # failed /\ i \notin unsettled
    IN  /\ orchestrator.at = "returned" => \A i \in StepNumbers : service[i] = "done"
        /\ orchestrator.at = "raised" =>
              \A i \in StepNumbers :
                 /\ i < failed => service[i] = "undone" \/ i \in unsettled
                 /\ i = failed => service[i] # "undone"
                 /\ i > failed => service[i] = "none"
        /\ \A i, j \in StepNumbers : i < j /\ service[i] = "undone" => ~Stands(j)

=============================================================================
