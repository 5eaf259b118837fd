\* Every call, on two slots
SPECIFICATION Spec
CONSTANTS
    t1 = t1
    t2 = t2
    t3 = t3
    none = none
    TASKS_MAX = 2
    UserTasks <- Tasks
    NoTask = none
    WAIT_INFINITE = 4
    TICKLESS_TICKS_MAX = 3
    SleepTicks = {1, 3}
    Calls <- AllCalls
SYMMETRY Symmetry
INVARIANTS
    TypeOK
    ListsConsistent
    CursorIsRunnable
    NextIsAwake
    RunningIsTaskNow
    SavedContextIsRunning
    SleepTrapOnlyWhenIdle
    AddRequestServed
    TimerNotLate
PROPERTY
    ExecutingSlotKept
