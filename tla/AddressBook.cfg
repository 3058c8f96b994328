SPECIFICATION FairSpec
CONSTANTS
    p1 = p1
    NumRanks = 2
    Clients = {c1}
    Paths = {p1, p2}
    Hash <- MCHash
    ServerCounts = {0, 2, 3}
    MaxStarts = 2
    MaxStreams = 3
    NoAddr = NoAddr
    NoCall = NoCall
INVARIANTS
    TypeOK
    DescriptorsGoHome
    StartInAdvanceIsSafe
    StreamsBounded
PROPERTIES
    RequestsAnswered
    ImplementsDirectory
CHECK_DEADLOCK FALSE
