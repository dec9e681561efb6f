CONSTANTS
    Node = {n1, n2}
    Vol = {v1}
    Managed = {v1}
    Op = {stage, snap}
    StageOp = stage
    None = None
    Flaky = FALSE
    MaxLate = 1
    MaxCrashes = 0
SPECIFICATION Spec
INVARIANT MutualExclusion
