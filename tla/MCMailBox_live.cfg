CONSTANTS
    Node = {n1, n2}
    Local = Local
    Blocks = 2
    Long = {TRUE, FALSE}
    None = None
    MaxTorn = 0
    MaxCrashes = 0
    MaxMsgs = 3
SPECIFICATION FairSpec
PROPERTIES
    WaitingIsReceived
CHECK_DEADLOCK FALSE
