SPECIFICATION FairSpec
CONSTANTS
    Paths = {p1, p2}
    NoEntry = NoEntry
    Garbled = Garbled
    MaxCopies = 0
    RemoteFds = {3, 4}
    Missing = {p2}
    Unreadable = {}
    Size <- MCSize
    Zeros = Zeros
    Clients = {c1, c2}
    LocalFds = {l1}
    ReadArgs <- MCOneRead
    SeekArgs <- MCOneSeek
    MaxOpens = 3
    NoCall = NoCall
    NoReply = NoReply
INVARIANTS
    RemoteFdHasOneHolder
    RedirectionIsTransparent
PROPERTIES
    CallsReturn
CHECK_DEADLOCK FALSE
