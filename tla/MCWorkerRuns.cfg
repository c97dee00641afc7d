\* Two workers and one task; the operator claims, cancels and edits policies.
\* Every lease ends after one tick: MaxTime and MaxRuns leave room for one run
\* more than RetryBound allows.
CONSTANTS
    t1 = t1
    t2 = t2
    Tasks = {t1}
    NULL = NULL
    Lease = 0
    MaxTime = 3
    MaxRuns = 4
    Workers = {w1, w2}
    MaxAttempts = 1
    Deps <- NoDeps
    Faults = TRUE
    Crashes = TRUE
    OperatorMoves = {"rejected", "running", "policy"}
    MaxFailures = 1
SPECIFICATION BudgetSpec
INVARIANTS
    MutualExclusion
    RunsArePaid
    RetryBound
    DoneIsPublished
    BudgetBound
SYMMETRY WorkerSymmetry
CHECK_DEADLOCK FALSE
