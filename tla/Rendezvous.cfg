SPECIFICATION FairSpec
CONSTANTS
    Threads = {t1, t2}
    MaxCalls = 2
    NoResult = NoResult
INVARIANTS
    TypeOK
    SerialCallsWait
    OwnResult
    NoLostWakeup
PROPERTIES
    CallReturns
CHECK_DEADLOCK FALSE
