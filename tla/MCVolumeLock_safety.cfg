CONSTANTS
    Node = {n1, n2}
    Vol = {v1, rpc}
    Managed = {v1}
    Op = {stage, snap}
    StageOp = stage
    None = None
    Flaky = TRUE
    MaxLate = 0
    MaxCrashes = 2
SYMMETRY NodeSymmetry
SPECIFICATION Spec
INVARIANTS
    TypeOK
    MutualExclusion
    HeldIsActive
    OwnerTagWhileHeld
    AtMostOneOwner
PROPERTY ImplementsExclusiveLock
