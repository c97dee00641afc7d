\* Two overlapping passes and an operator's shell over one gated task: mail may
\* be denied or refused, a reply may fit or carry a token that was passed on;
\* tokens expire, the task is cancelled, one fault.
CONSTANTS
    t1 = t1
    Tasks = {t1}
    NULL = NULL
    Lease = 0
    MaxTime = 0
    MaxRuns = 0
    Planes = {p1, p2}
    Consoles = {c}
    Reading <- Texts
    Answers <- ForwardedAnswers
    Orders = {"rejected"}
    Wiring = "mail"
    MayDeny = TRUE
    MaxTokens = 2
    MaxReplies = 1
    MaxFaults = 1
    OperatorMoves = {"rejected"}
SPECIFICATION FairSpec
INVARIANTS
    GateHolds
    MailNotLost
    OneOpenRequest
    ParkedIsAsked
PROPERTIES
    MailHandled
    ReplyDecides
CHECK_DEADLOCK FALSE
