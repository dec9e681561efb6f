CONSTANTS
    Id <- Ids
    Source = {v1, v2}
    NoSource = NoSource
    MaxEntries = 2
    Sector = 4
    Word = 64
    MaxBytes = 24
    DefaultSize = 8
    Parts = 10
    NaN = NaN
    Unset = Unset
    FsType = {ext4, xfs, none}
    DefaultFs = ext4
    MaxCaps = 3
    TagPrefix <- Prefix
    TagKey <- Keys
    Byte <- Bytes
    MaxValue = 2
SPECIFICATION MCSpec
INVARIANTS
    ListingIsExact
    SizeIsInRange
    CapabilitiesAreHonoured
    TagsSurviveLvm
CHECK_DEADLOCK FALSE
