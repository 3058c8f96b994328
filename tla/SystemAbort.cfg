SPECIFICATION Spec
CONSTANTS
    Paths = {p1, p2}
    NoEntry = NoEntry
    Garbled = Garbled
    MaxCopies = 0
    RemoteFds = {3, 4}
    Missing = {}
    Unreadable = {}
    Size <- MCSize
    Zeros = Zeros
    Clients = {c1, c2}
    LocalFds = {l1}
    ReadArgs <- NoArgs
    SeekArgs <- NoArgs
    MaxOpens = 2
    NoCall = NoCall
    NoReply = NoReply
INVARIANTS
    ServerNeverAborts
CHECK_DEADLOCK FALSE
