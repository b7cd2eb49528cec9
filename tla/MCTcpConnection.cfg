SPECIFICATION FairSpec
CONSTANTS
    t1 = t1
    t2 = t2
    m1 = m1
    m2 = m2
    NoMessage = NoMessage
    Threads <- MCThreads
    Messages <- MCMessages
    Size = 2
    PeerMayReset = TRUE
INVARIANTS
    StreamIntact
    AbortExplained
    ClosedOnce
PROPERTIES
    FinAfterData
    ShutdownCompletes
    BytesWritten
CHECK_DEADLOCK FALSE
