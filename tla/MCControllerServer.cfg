CONSTANTS
    Node = {n1, n2}
    Vol = {v1, v2}
    Snap = {s1}
    Call = {c1, c2}
    Used = {v1}
    None = None
    MaxFaults = 1
    MaxCrashes = 1
SYMMETRY NodeCallSymmetry
SPECIFICATION Spec
INVARIANTS
    TypeOK
    CreatedIsUsable
    PointInTime
    KeptUntilDeleted
    HandlerKeepsLease
    NothingLeftBehind
CHECK_DEADLOCK FALSE
