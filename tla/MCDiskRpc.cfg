CONSTANTS
    Node = {n1, n2}
    Local = Local
    Call = {c1, c2}
    None = None
    Deadline = {TRUE}
    Delegating = TRUE
    QueueLimit = 0
    ReplyLimit = 0
    MaxErrors = 1
    MaxCrashes = 1
SPECIFICATION FairSpec
INVARIANTS
    TypeOK
    AtMostOnce
    PendingAreWaiting
    QueueBounded
PROPERTIES
    DeadlineReturns
    HandleSurvivesErrors
CHECK_DEADLOCK FALSE
