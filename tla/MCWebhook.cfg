\* One or two threads; requests that are silent, refused or too long, a stop
\* and a restart.
CONSTANTS
    NULL = NULL
    r1 = r1
    r2 = r2
    r3 = r3
    s1 = s1
    s2 = s2
    Requests = {r1, r2, r3}
    Senders = {s1, s2}
    Sender <- From
    Length <- Lengths
    MaxWorkers = 2
    MaxBody = 1
    Limit = 1
    Window = 2
    MaxTime = 3
    MaxRestarts = 1
SPECIFICATION FairSpec
INVARIANTS
    LimitedIsEarned
    RateBound
PROPERTIES
    EveryRequestEnds
    StopReturns
CHECK_DEADLOCK FALSE
