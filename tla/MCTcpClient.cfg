SPECIFICATION FairSpec
CONSTANTS
    s1 = s1
    s2 = s2
    NoSocket = NoSocket
    Sockets <- MCSockets
    TimerIds <- MCTimerIds
    kInitRetryDelayMs = 1
    kMaxRetryDelayMs = 3
    MaxCalls = 3
INVARIANTS
    SocketsOwned
    AssertionsHold
    SafeDestruction
PROPERTIES
    OneConnection
    StopHolds
    KeepsConnected
CHECK_DEADLOCK FALSE
