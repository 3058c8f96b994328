SPECIFICATION Spec
CONSTANTS
    Threads = {t1, t2}
    MaxCalls = 1
    NoResult = NoResult
INVARIANTS
    CallbackBeforeReturn
CHECK_DEADLOCK FALSE
