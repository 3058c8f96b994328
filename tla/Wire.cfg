SPECIFICATION Spec
CONSTANTS
    WireBits = 3
    Size = 9
    MaxOffset = 12
    Counts = {0, 1, 3, 4, 8, 9}
    Offsets <- MCOffsets
INVARIANTS
    TypeOK
    PositionFollows
    ResultFollows
    OnlyCountsAbort
CHECK_DEADLOCK FALSE
