SPECIFICATION Spec
CONSTANTS
    d1 = d1
    DataSet = {d1, d2}
    Others = {o1}
    Size <- MCSize
    MaxFd = 2
    Counts = {1}
    MaxOpens = 3
    NoEntry = NoEntry
INVARIANTS
    TypeOK
    OneFamilyIsRight
    MapsAgree
    OnlyFcloseLeaks
CHECK_DEADLOCK FALSE
