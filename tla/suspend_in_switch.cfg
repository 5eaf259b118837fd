\* Two slots; an interrupt calls Suspend between the tick and PendSV
SPECIFICATION Spec
CONSTANTS
    t1 = t1
    t2 = t2
    t3 = t3
    none = none
    UserTasks <- Tasks
    NoTask = none
    TASKS_MAX = 2
    WAIT_INFINITE = 4
    TICKLESS_TICKS_MAX = 3
    SleepTicks = {2}
    Calls <- IsrSuspendCalls
INVARIANTS
    SavedContextIsRunning
