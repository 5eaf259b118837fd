\* Three tasks of different priority and two mutexes
SPECIFICATION Spec
CONSTANTS
    Tasks <- Three
    SyncObjects <- Two
    WAIT_INFINITE = 3
    MAX_PRIORITIES = 3
    BaseWeight <- Weights
    RECURSION_MAX = 2
    Timeouts = {0, 2, 3}
INVARIANTS
    TypeOK
    OwnershipExact
    HandOver
    QueuesMatchWeights
    BoostEndsWithOwnership
PROPERTY
    HighestPriorityRuns
