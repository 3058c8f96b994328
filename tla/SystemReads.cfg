SPECIFICATION Spec
CONSTANTS
    Paths = {p1, p2}
    NoEntry = NoEntry
    Garbled = Garbled
    MaxCopies = 0
    RemoteFds = {3, 4}
    Missing = {}
    Unreadable = {p1}
    Size <- MCSize
    Zeros = Zeros
    Clients = {c1, c2}
    LocalFds = {l1}
    ReadArgs <- MCReadArgs
    SeekArgs <- MCSeekArgs
    MaxOpens = 2
    NoCall = NoCall
    NoReply = NoReply
SYMMETRY Symmetry
INVARIANTS
    SystemTypeOK
    OneRequestAtATime
    RequestsHitOwnFile
    ReadNeverFallsBack
PROPERTIES
    ImplementsPosixFiles
CHECK_DEADLOCK FALSE
