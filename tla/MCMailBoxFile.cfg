CONSTANTS
    Part = {heads, tree}
    Val = {0, 1, 2}
    MaxTorn = 1
    Driver = {d1, d2, d3}
    Nobody = Nobody
    MaxChanges = 2
    MaxDeaths = 1
    Size = 8
SPECIFICATION MCSpec
INVARIANTS
    TypeOK
    Transactional
    FormattedIsUsable
    StartKeepsState
    TreeIsExact
PROPERTY ImplementsBlockAllocator
CHECK_DEADLOCK FALSE
