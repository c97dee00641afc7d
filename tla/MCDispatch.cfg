\* t2 depends on t1, a page of the sweep holds one task; pods die, work fails,
\* the API fails or a pod dies early once.  Every claim's lease ends after one
\* tick and a task is claimed at most MaxAttempts times, so MaxTime and MaxRuns
\* cut nothing off.
CONSTANTS
    t1 = t1
    t2 = t2
    NULL = NULL
    Lease = 0
    Tasks = {t1, t2}
    MaxTime = 4
    MaxRuns = 2
    Workers = {t1, t2}
    MaxAttempts = 2
    Deps <- Chain
    Faults = TRUE
    Crashes = TRUE
    OperatorMoves = {}
    Limit = 1
    MaxHitches = 1
SPECIFICATION FairDispatchSpec
INVARIANTS
    DependencyPublishedFirst
PROPERTIES
    ImplementsLifecycle
    ImplementsQueue
CHECK_DEADLOCK FALSE
