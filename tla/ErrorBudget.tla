---------------------------- MODULE ErrorBudget ----------------------------
(***************************************************************************)
(* The circuit breaker over recent failures.  TaskWorker asks it before    *)
(* every run, on the count of task.failed events inside its window; the    *)
(* executor records such an event after the transition to failed, best     *)
(* effort.  Everything else a worker does is WorkerRuns.                   *)
(*                                                                         *)
(* run() asks after it read its row, run_next() before it lists.  Between  *)
(* the question and the event lies the whole run, so workers that run side *)
(* by side may all have been let through on one count.                     *)
(***************************************************************************)
EXTENDS WorkerRuns

CONSTANT MaxFailures  \* ErrorBudget.max_failures; 0 turns it off

ASSUME BudgetAssumption ==
    /\ MaxFailures \in Nat
    /\ Workers # {}

VARIABLES
    failures,  \* task.failed events inside the window
    standing   \* of each worker: not asked, let through, failed its task

budgetVars == <<failures, standing>>
allVars == <<vars, budgetVars>>

BudgetTypeOK ==
    /\ failures \in Nat
    /\ standing \in [Workers -> {"out", "admitted", "failed"}]

\* The log is durable: it may hold failures of tasks that are over.
BudgetInit ==
    /\ Init
    /\ failures \in 0..MaxFailures
    /\ standing = [w \in Workers |-> "out"]

ExhaustedWhenExceeded == MaxFailures > 0 /\ failures > MaxFailures

Exhausted == MaxFailures > 0 /\ failures >= MaxFailures

-----------------------------------------------------------------------------

\* run_next() asks before anything else.
Admit(w) ==
    /\ pc[w] = "idle" /\ standing[w] = "out"
    /\ ~Exhausted
    /\ standing' = [standing EXCEPT ![w] = "admitted"]
    /\ UNCHANGED <<vars, failures>>

Begin(w) ==
    /\ \/ standing[w] = "out" /\ \E t \in Tasks : StartRun(w, t)
       \/ standing[w] = "admitted" /\ StartRunNext(w)
    /\ UNCHANGED budgetVars

\* run() asks between its read and its other guards, which look at what it
\* read; the loop of run_next() does not ask again.
GuardBudget(w) ==
    /\ standing[w] = "out" => ~Exhausted
    /\ Pick(w)
    /\ standing' = [standing EXCEPT ![w] = "admitted"]
    /\ UNCHANGED failures

\* TaskWorkerError; the task stays as it is.
Refused(w) ==
    /\ pc[w] = "pick" /\ todo[w] # {}
    /\ standing[w] = "out" /\ Exhausted
    /\ Forget(w)
    /\ UNCHANGED <<queueVars, runs, gitVars, budgetVars>>

\* The run; a process that ends before its last transition records nothing.
Working(w) ==
    /\ \/ GiveUp(w) \/ CheckDependencies(w) \/ CheckPolicy(w) \/ FailTask(w)
       \/ ClaimTask(w) \/ ClaimLost(w) \/ Reread(w) \/ WorktreeFails(w)
       \/ RunHarness(w) \/ Push(w) \/ OpenDraftPr(w) \/ Crash(w)
    /\ standing' = [standing EXCEPT ![w] = IF pc'[w] = "idle" THEN "out" ELSE @]
    /\ UNCHANGED failures

\* The last transition; a conflict is raised before the event.
Ending(w) ==
    /\ Finish(w)
    /\ LET fails == ~result[w].ok /\ state[snap[w].task] = snap[w].state
       IN  standing' = [standing EXCEPT ![w] = IF fails THEN "failed" ELSE "out"]
    /\ UNCHANGED failures

\* _emit: task.failed is recorded, or an error is swallowed, or the process
\* dies before.
Emit(w) ==
    /\ standing[w] = "failed"
    /\ standing' = [standing EXCEPT ![w] = "out"]
    /\ failures' \in {failures, failures + 1}
    /\ UNCHANGED vars

\* A failure leaves the window.
AgeOut ==
    /\ failures > 0
    /\ failures' = failures - 1
    /\ UNCHANGED <<vars, standing>>

Others ==
    /\ \/ \E t \in Tasks : Submit(t) \/ OperatorClaim(t)
       \/ \E t \in Tasks, to \in OperatorMoves : OperatorMove(t, to)
       \/ Sweep \/ PassTime
    /\ UNCHANGED budgetVars

BudgetStep(w) ==
    Admit(w) \/ Begin(w) \/ GuardBudget(w) \/ Refused(w) \/ Working(w) \/ Ending(w) \/ Emit(w)

BudgetNext == (\E w \in Workers : BudgetStep(w)) \/ AgeOut \/ Others

BudgetSpec == BudgetInit /\ [][BudgetNext]_allVars

-----------------------------------------------------------------------------
(* Properties                                                              *)

Admitted == {w \in Workers : standing[w] # "out"}

\* The breaker is late by no more than the workers that were let through: the
\* failures in the window, with those that running workers may still add,
\* stay below the limit plus the number of workers.
BudgetBound ==
    MaxFailures > 0 =>
        failures + Cardinality(Admitted) < MaxFailures + Cardinality(Workers)
=============================================================================
