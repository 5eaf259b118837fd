\* Safety and refinement of the synchronization objects and the interfaces
SPECIFICATION Spec
CONSTANTS
    t1 = t1
    t2 = t2
    t3 = t3
    v1 = v1
    v2 = v2
    v3 = v3
    NoItem = NoItem
    OK = OK
    FAIL = FAIL
    NULL = NULL
    Unread <- MCUnread
    Tasks <- MCTasks
    SyncObjects <- MCSyncObjects
    TimeoutBits = 3
    WAIT_INFINITE = 3
    configMAX_PRIORITIES = 3
    MAX_LATE = 1
    MAX_VALUE = 2
    Scenarios <- MCScenarios
CHECK_DEADLOCK FALSE
INVARIANTS
    TypeOK
    TokensConserved
    WaitersHaveCause
    FlagsWaitersUnsatisfied
    QueueWaitersHaveCause
    BlocksConserved
    MutexHandOver
    SpinOwnerHasFlag
    HeapConserved
    SetTokensBacked
    NotificationsReachWaiter
    MessageBlocksConserved
    PendingTimersQueued
    RearmingQueued
    CurrentWeightsBounded
    SchedulabilityExact
PROPERTY
    QueueSpec
