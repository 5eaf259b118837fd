\* One mutex; a waiter times out while another one waits
SPECIFICATION Spec
CONSTANTS
    Tasks <- Three
    SyncObjects <- One
    WAIT_INFINITE = 3
    MAX_PRIORITIES = 3
    BaseWeight <- Weights
    RECURSION_MAX = 2
    Timeouts = {0, 1, 3}
INVARIANT
    WaitersBoostOwner
