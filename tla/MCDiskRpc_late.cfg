CONSTANTS
    Node = {n1, n2}
    Local = Local
    Call = {c1, c2}
    None = None
    Deadline = {TRUE}
    Delegating = FALSE
    QueueLimit = 0
    ReplyLimit = 0
    MaxErrors = 0
    MaxCrashes = 0
SPECIFICATION FairSpec
PROPERTIES
    HandleKeepsRunning
CHECK_DEADLOCK FALSE
