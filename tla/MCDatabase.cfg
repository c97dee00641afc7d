\* Two workers race for a task while the policies are replaced; up to two
\* connections are lost.
CONSTANTS
    NULL = NULL
    task = task
    p = p
    q = q
    c1 = c1
    c2 = c2
    cli = cli
    free = free
    finished = finished
    stale = stale
    fresh = fresh
    Clients = {c1, c2, cli}
    Keys = {task, p, q}
    Values = {free, finished, stale, fresh, c1, c2}
    Old <- OldTable
    Policies = {p, q}
    Program <- Calls
    MaxBreaks = 2
SPECIFICATION FairSpec
INVARIANTS
    ToldIsTrue
    PoliciesInForce
PROPERTIES
    EveryCallReturns
CHECK_DEADLOCK FALSE
