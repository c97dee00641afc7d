\* Deciding and labelling with every fault, over both stores.
CONSTANTS
    NULL = NULL
    Late = Late
    g1 = g1
    s1 = s1
    l1 = l1
    l2 = l2
    Gates = {g1}
    Shells = {s1}
    Labelers = {l1, l2}
    Deployments <- Stores
    Confidences = {5, 9}
    Nouls = {0, 5, 8}
    Threshold = 6
    Edges = {5, 7, 9}
    Target = 6
    Faults = {"outage", "timeout", "log", "crash"}
    MaxRecords = 2
SYMMETRY LabelerSymmetry
SPECIFICATION Spec
INVARIANTS
    GateAnswers
    RecordedOnce
    LabelFits
    ThresholdEarned
CHECK_DEADLOCK FALSE
