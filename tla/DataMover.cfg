SPECIFICATION CacheFairSpec
CONSTANTS
    Paths = {p1, p2, p3}
    NoEntry = NoEntry
    Garbled = Garbled
    MaxCopies = 5
INVARIANTS
    MoverTypeOK
    CachedCopyIsWhole
    CopyInProgress
PROPERTIES
    MoverReturnsToWait
    ImplementsCacheFill
