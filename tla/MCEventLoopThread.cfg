SPECIFICATION ThreadFairSpec
CONSTANTS
    Owner = owner
    LoopThread = loopThread
    NoThread = NoThread
    user = user
    f1 = f1
    f2 = f2
    Threads <- MCThreads
    Functors <- MCFunctors
    EventfdMax = 2
INVARIANTS
    LoopHandedOver
PROPERTIES
    FunctorsRun
    DestructorReturns
CHECK_DEADLOCK FALSE
