SPECIFICATION LatchedFairSpec
CONSTANTS
    w1 = w1
    w2 = w2
    p1 = p1
    p2 = p2
    k1 = k1
    k2 = k2
    k3 = k3
    k4 = k4
    Workers <- MCWorkers
    Producers <- MCProducers
    Tasks <- MCTasks
    NoTask = NoTask
    maxQueueSize_ = 2
    Counting <- MCCounting
    Main = main
    NoThread = NoThread
INVARIANTS
    QueueBounded
    TakenOnceInOrder
    LatchOutlivesUsers
PROPERTIES
    TasksRun
    AddTaskReturns
    StopReturns
    LatchOpens
CHECK_DEADLOCK FALSE
