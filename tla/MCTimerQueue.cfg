SPECIFICATION FairSpec
CONSTANTS
    t1 = t1
    a1 = a1
    a2 = a2
    NoTimer = NoTimer
    Addrs <- MCAddrs
    Threads <- MCThreads
    Delays <- MCDelays
    Intervals <- MCIntervals
    MaxSeq = 2
    MaxTime = 2
    MaxClockSteps = 1
    MaxPending = 2
INVARIANTS
    SetsAgree
    NoUseAfterFree
    NoResurrection
PROPERTIES
    CancelIsPrecise
    TimersExpire
CHECK_DEADLOCK FALSE
