\* A blocked reader and a writer that times out
SPECIFICATION Spec
CONSTANTS
    t1 = t1
    t2 = t2
    t3 = t3
    t4 = t4
    Tasks <- Three
    SyncObjects <- CVs
    WAIT_INFINITE = 3
    Timeouts = {0, 1, 3}
INVARIANT
    BlockedReaderHasCause
