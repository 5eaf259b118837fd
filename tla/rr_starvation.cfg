\* Three slots, tasks that yield
SPECIFICATION FairSpec
CONSTANTS
    t1 = t1
    t2 = t2
    t3 = t3
    none = none
    UserTasks <- Tasks
    NoTask = none
    TASKS_MAX = 3
    WAIT_INFINITE = 4
    TICKLESS_TICKS_MAX = 1
    SleepTicks = {2}
    Calls <- SleepCalls
PROPERTIES
    NoStarvation
