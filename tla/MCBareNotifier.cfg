\* The wiring of cli/commands.py and http.py with a recipient.
CONSTANTS
    t1 = t1
    Tasks = {t1}
    NULL = NULL
    Lease = 0
    MaxTime = 0
    MaxRuns = 0
    Planes = {p1}
    Consoles = {}
    Reading <- Texts
    Answers <- OneAnswer
    Orders = {"rejected"}
    Wiring = "bare"
    MayDeny = FALSE
    MaxTokens = 2
    MaxReplies = 1
    MaxFaults = 0
    OperatorMoves = {}
SPECIFICATION Spec
INVARIANTS
    ParkedIsAsked
CHECK_DEADLOCK FALSE
