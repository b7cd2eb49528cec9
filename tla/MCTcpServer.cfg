SPECIFICATION FairSpec
CONSTANTS
    MaxThreads = 2
    MaxConns = 3
INVARIANTS
    ConnectionsAgree
PROPERTIES
    ClosedAreDestroyed
CHECK_DEADLOCK FALSE
