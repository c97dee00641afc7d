\* The three backends; over JMAP, poll and listen side by side; two of three emails are one message.
CONSTANTS
    NULL = NULL
    e1 = e1
    e2 = e2
    e3 = e3
    m1 = m1
    m2 = m2
    Emails = {e1, e2, e3}
    MessageIds = {m1, m2}
    MessageId <- Ids
    Kinds = {"jmap", "imap", "agentmail"}
    Poller = Poller
    Listener = Listener
    Processes = {Poller, Listener}
    Limit <- Limits
    MaxEvents = 2
    MaxMishaps = 1
SPECIFICATION FairSpec
INVARIANTS
    FiledIsHandled
PROPERTIES
    EveryMailFiled
    Settles
CHECK_DEADLOCK FALSE
