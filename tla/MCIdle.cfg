\* Two ticks overlap; mails fail and processes die.
CONSTANTS
    m1 = m1
    m2 = m2
    p1 = p1
    p2 = p2
    Markers <- TwoMarkers
    Ticks = {p1, p2}
    MaxPerRun = 2
    MinQueueDepth = 1
    MaxProposals = 2
    MaxCommits = 1
    MaxReal = 1
    MaxFaults = 1
SPECIFICATION FairIdleSpec
INVARIANTS
    GateHolds
    AskedOnce
PROPERTIES
    NewWorkProposed
CHECK_DEADLOCK FALSE
