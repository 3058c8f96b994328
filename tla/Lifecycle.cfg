SPECIFICATION FairSpec
CONSTANTS
    Threads = {main, t2}
    Main = main
    ServerCounts = {0, 1}
    MaxContexts = 3
INVARIANTS
    TypeOK
    OneInitPerThread
    RequestsAreServed
    

    
CHECK_DEADLOCK FALSE
