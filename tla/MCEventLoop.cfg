SPECIFICATION FairSpec
CONSTANTS
    t1 = t1
    t2 = t2
    f1 = f1
    f2 = f2
    f3 = f3
    Threads <- MCThreads
    Functors <- MCFunctors
    EventfdMax = 2
INVARIANTS
    NoStrandedWork
PROPERTIES
    FunctorsRunOnceInOrder
    QueuedFunctorsRun
    QuitHonoured
