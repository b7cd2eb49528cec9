SPECIFICATION Spec
CONSTANTS
    c1 = c1
    c2 = c2
    c3 = c3
    c4 = c4
    Channels <- MCChannels
    Fd <- MCFd
INVARIANTS
    RegisteredConsistent
    NoOrphanEntry
PROPERTIES
    OthersUntouched
    ReportsInterested
