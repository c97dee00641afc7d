\* One worker that may die; git, the forge and the harness never fail.
CONSTANTS
    t1 = t1
    t2 = t2
    Tasks = {t1}
    NULL = NULL
    Lease = 1
    MaxTime = 4
    MaxRuns = 2
    Workers = {w1}
    MaxAttempts = 3
    Deps <- NoDeps
    Faults = FALSE
    Crashes = TRUE
    OperatorMoves = {}
    MaxFailures = 0
SPECIFICATION BudgetSpec
INVARIANTS
    RetryDoesNotFail
CHECK_DEADLOCK FALSE
