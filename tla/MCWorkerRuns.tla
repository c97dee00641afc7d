---------------------------- MODULE MCWorkerRuns ----------------------------
(* Instances of WorkerRuns, with its error budget, for TLC.                *)
EXTENDS ErrorBudget, TLC

CONSTANTS t1, t2

WorkerSymmetry == Permutations(Workers)

\* No dependencies, and a chain: t2 depends on t1.
NoDeps == [t \in Tasks |-> {}]
Chain == [t \in Tasks |-> IF t = t2 THEN {t1} ELSE {}]
=============================================================================
