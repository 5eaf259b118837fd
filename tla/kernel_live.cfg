\* Three slots, tasks that sleep, yield, add and resume tasks, and exit
SPECIFICATION FairSpec
CONSTANTS
    t1 = t1
    t2 = t2
    t3 = t3
    none = none
    UserTasks <- Tasks
    NoTask = none
    TASKS_MAX = 3
    WAIT_INFINITE = 4
    TICKLESS_TICKS_MAX = 3
    SleepTicks = {2, 3}
    Calls <- FairCalls
PROPERTIES
    SleepEnds
    ExitFreesSlot
