CONSTANTS
    Node = {n1, n2}
    Local = Local
    Call = {c1, c2}
    None = None
    Deadline = {FALSE}
    Delegating = FALSE
    QueueLimit = 0
    ReplyLimit = 0
    MaxErrors = 1
    MaxCrashes = 0
SPECIFICATION FairSpec
PROPERTIES
    NoDeadlineReturns
CHECK_DEADLOCK FALSE
