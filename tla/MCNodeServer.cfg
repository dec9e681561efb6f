CONSTANTS
    Node = {n1, n2}
    Vol = {v}
    None = None
    Flaky = TRUE
    MaxSize = 2
    MaxCrashes = 2
SYMMETRY NodeSymmetry
SPECIFICATION Spec
INVARIANTS
    TypeOK
    StagedIsUsable
    TargetShowsVolume
    UnstagedIsReleased
    SingleNodeAccess
    ExpansionIsComplete
