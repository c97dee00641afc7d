\* The harness in the process, in a sidecar that stays and in one that serves
\* one request; a sidecar may die; two revisions.  Every setting and every
\* repository; a bundle of two files.
CONSTANTS
    NULL = NULL
    Nothing = Nothing
    BundleFiles = 2
    Rounds = 2
    Setups = {"local", "sidecar", "once"}
    MaxEdits = 4
    MaxRequests = 4
SPECIFICATION FairSpec
INVARIANTS
    CommitIsVerified
    AnswerFits
    CleanedUp
    OneSession
    SetupComplete
    HarnessInside
PROPERTIES
    Ends
