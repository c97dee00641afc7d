\* A gate whose model may be late; nothing else fails.
CONSTANTS
    NULL = NULL
    Late = Late
    g1 = g1
    s1 = s1
    l1 = l1
    l2 = l2
    Gates = {g1}
    Shells = {s1}
    Labelers = {}
    Deployments <- Stores
    Confidences = {5, 9}
    Nouls = {0, 5, 8}
    Threshold = 6
    Edges = {5, 7, 9}
    Target = 6
    Faults = {"timeout"}
    MaxRecords = 2
SPECIFICATION Spec
INVARIANT LateFallsBack
CHECK_DEADLOCK FALSE
