CONSTANTS
    Node = {n1, n2}
    Local = Local
    Blocks = 2
    Long = {FALSE}
    None = None
    MaxTorn = 1
    MaxCrashes = 1
    MaxMsgs = 2
SYMMETRY NodeSymmetry
SPECIFICATION Spec
INVARIANTS
    ConsistentView
PROPERTIES
    LiveDataUntouched
    ImplementsPostOffice
CHECK_DEADLOCK FALSE
