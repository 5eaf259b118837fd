\* Safety, refinement and progress of the lock
SPECIFICATION FairSpec
CONSTANTS
    t1 = t1
    t2 = t2
    t3 = t3
    t4 = t4
    Tasks <- Four
    SyncObjects <- CVs
    WAIT_INFINITE = 3
    Timeouts = {0, 1, 3}
INVARIANTS
    TypeOK
    CountersExact
    BlockedWriterHasCause
PROPERTIES
    LockSpec
    WriterProgress
