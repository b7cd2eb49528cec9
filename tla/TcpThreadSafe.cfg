\* send() and shutdown() on two threads, a peer that never resets.
SPECIFICATION Spec
CONSTANTS
    t1 = t1
    t2 = t2
    m1 = m1
    m2 = m2
    NoMessage = NoMessage
    Threads <- MCThreads
    Messages <- MCMessages
    Size = 2
    PeerMayReset = FALSE
INVARIANTS
    NeverAborts
CHECK_DEADLOCK FALSE
