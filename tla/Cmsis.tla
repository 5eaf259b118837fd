------------------------------- MODULE Cmsis -------------------------------
(***************************************************************************)
(* The CMSIS-RTOS2 interface, interop/cmsis/rtos2/src/cmsis_os2_stk.cpp.   *)
(* Objects are made in memory of the caller or on the heap: regions in x   *)
(* says how many regions the heap gives.  An osStatus_t is OK, or FAIL for *)
(* every error code.                                                       *)
(***************************************************************************)
EXTENDS TimerHost, Semaphore, EventFlags, BlockMemoryPool, TaskHandle

osPriorityIdle == 1
osPriorityISR == 56

CmsisPrioToStk(p) ==
    IF p <= osPriorityIdle THEN 0 ELSE IF p >= osPriorityISR THEN 31 ELSE (p * 31) \div 56

StkPrioToCmsis(p) == Min({Max({(p * 56) \div 31, osPriorityIdle}), osPriorityISR})

CmsisTimeoutToStk(ticks) == Min({ticks, WAIT_INFINITE})

(* An object in memory of the caller or, region by region, on the heap *)
PlacementNewOrHeap(t, c, object) == Construct(t, c, c.x.regions, object)

ObjDestroy(t, c) == ObjFree(t, c)

(* The native call with the time-out of the CMSIS call *)
Wrapped(c, op) == [c EXCEPT !.op = op, !.ticks = CmsisTimeoutToStk(@)]

-----------------------------------------------------------------------------
(* osKernelLock is a critical section that lasts: nothing else runs until it is left *)
KernelLock == [kind |-> "lock", g_StkKernelLocked |-> 0, holder |-> NULL]

LockStep(t, c, n) ==
    /\ Set(c.o, [obj[c.o] EXCEPT !.g_StkKernelLocked = n, !.holder = IF n = 0 THEN NULL ELSE t])
    /\ Return(t, c, OK) /\ UNCHANGED <<wait, now>>

Leaves(t, c) ==
    IF obj[c.o].g_StkKernelLocked = 0 THEN Refuse(t, c)
    ELSE LockStep(t, c, obj[c.o].g_StkKernelLocked - 1)

osKernelLock(t, c) ==
    c.op = "osKernelLock" /\ LockStep(t, c, obj[c.o].g_StkKernelLocked + 1)

osKernelUnlock(t, c) == c.op = "osKernelUnlock" /\ Leaves(t, c)

(* x = 1 locks, any other value unlocks *)
osKernelRestoreLock(t, c) ==
    /\ c.op = "osKernelRestoreLock"
    /\ IF c.x = 1 THEN LockStep(t, c, obj[c.o].g_StkKernelLocked + 1) ELSE Leaves(t, c)

KernelCalls(t, c) == osKernelLock(t, c) \/ osKernelUnlock(t, c) \/ osKernelRestoreLock(t, c)

-----------------------------------------------------------------------------
(* A thread: its join state, and its flags in m_flags *)
StkThread(x) ==
    [kind |-> "thread", task |-> x.task, m_stk_priority |-> CmsisPrioToStk(x.priority),
     m_join_state |-> IF x.joinable THEN "Joinable" ELSE "Detached", m_suspended |-> FALSE,
     m_flags |-> {}]

ValidPriority(p) == p \in osPriorityIdle..osPriorityISR

(* x = [task, priority, joinable, regions] *)
osThreadNew(t, c) ==
    /\ c.op = "osThreadNew"
    /\ IF ValidPriority(c.x.priority) THEN PlacementNewOrHeap(t, c, StkThread(c.x))
                                      ELSE Refuse(t, c)

osThreadGetState(t, c) ==
    /\ c.op = "osThreadGetState"
    /\ Return(t, c, IF obj[c.o].m_suspended THEN "Blocked"
                    ELSE IF obj[c.o].task = t THEN "Running" ELSE "Ready")
    /\ UNCHANGED <<obj, wait, now>>

osThreadSetPriority(t, c) ==
    /\ c.op = "osThreadSetPriority"
    /\ IF ValidPriority(c.x)
       THEN /\ Set(c.o, [obj[c.o] EXCEPT !.m_stk_priority = CmsisPrioToStk(c.x)])
            /\ Return(t, c, OK) /\ UNCHANGED <<wait, now>>
       ELSE Refuse(t, c)

osThreadGetPriority(t, c) ==
    /\ c.op = "osThreadGetPriority"
    /\ Return(t, c, StkPrioToCmsis(obj[c.o].m_stk_priority)) /\ UNCHANGED <<obj, wait, now>>

(* SuspendTask writes m_suspended: FALSE for a thread that sleeps or waits already *)
osThreadSuspend(t, c) ==
    /\ c.op = "osThreadSuspend" /\ UNCHANGED <<ret, now>>
    /\ Set(c.o, [obj[c.o] EXCEPT !.m_suspended = ~IsWaiting(wait, obj[c.o].task)])
    /\ wait' = Suspends(c.o)
    /\ Goto(t, [c EXCEPT !.op = "Awake"])

osThreadResume(t, c) ==
    /\ c.op = "osThreadResume" /\ UNCHANGED now
    /\ Set(c.o, [obj[c.o] EXCEPT !.m_suspended = FALSE])
    /\ wait' = IF obj[c.o].m_suspended THEN Wakes(c.o) ELSE wait
    /\ Return(t, c, OK)

osThreadDetach(t, c) ==
    /\ c.op = "osThreadDetach"
    /\ CASE obj[c.o].m_join_state \in {"Detached", "Joined"} -> Refuse(t, c)
         [] obj[c.o].m_join_state = "Exited" -> ObjDestroy(t, c)
         [] OTHER ->
              /\ Set(c.o, [obj[c.o] EXCEPT !.m_join_state = "Detached"])
              /\ Return(t, c, OK) /\ UNCHANGED <<wait, now>>

JoinList(o) == <<o, "join">>

(* The caller is the joiner, whatever the state was, and waits *)
osThreadJoin(t, c) ==
    /\ c.op = "osThreadJoin"
    /\ IF obj[c.o].task = t \/ obj[c.o].m_join_state \in {"Detached", "Joined"}
       THEN Refuse(t, c)
       ELSE /\ Set(c.o, [obj[c.o] EXCEPT !.m_join_state = "Joined"])
            /\ KernelWait(t, [c EXCEPT !.op = "JoinWait"], wait, JoinList(c.o), WAIT_INFINITE)
            /\ UNCHANGED now

JoinWait(t, c) ==
    /\ c.op = "JoinWait"
    /\ CASE obj[c.o].m_join_state = "Joined" ->
              KernelWait(t, c, wait, JoinList(c.o), WAIT_INFINITE) /\ UNCHANGED <<obj, now>>
         [] obj[c.o].m_join_state = "Exited" -> ObjDestroy(t, c)
         [] OTHER -> Refuse(t, c)

(* The calling thread asks for its removal; the kernel calls OnExit and frees the slot,
   and the task is gone *)
osThreadExit(t, c) ==
    /\ c.op = "osThreadExit"
    /\ Goto(t, [c EXCEPT !.op = "OnExit"])
    /\ UNCHANGED <<obj, wait, ret, now>>

OnExit(t, c) ==
    /\ c.op = "OnExit"
    /\ Set(c.o, [obj[c.o] EXCEPT !.m_join_state = "Exited"])
    /\ wait' = WakeAll(wait, JoinList(c.o))
    /\ Goto(t, [c EXCEPT !.op = "Gone"])
    /\ UNCHANGED <<ret, now>>

(* Of a kernel that runs: the thread is terminated only while it does not *)
osThreadTerminate(t, c) == c.op = "osThreadTerminate" /\ Refuse(t, c)

osDelay(t, c) == c.op = "osDelay" /\ SleepsFor(t, c, CmsisTimeoutToStk(c.ticks))

osDelayUntil(t, c) == c.op = "osDelayUntil" /\ SleepsUntil(t, c, c.ticks)

ThreadCalls(t, c) ==
    \/ osThreadNew(t, c) \/ osThreadGetState(t, c) \/ osThreadSetPriority(t, c)
    \/ osThreadGetPriority(t, c) \/ osThreadSuspend(t, c) \/ osThreadResume(t, c)
    \/ osThreadDetach(t, c) \/ osThreadJoin(t, c) \/ JoinWait(t, c) \/ osThreadExit(t, c)
    \/ OnExit(t, c) \/ osThreadTerminate(t, c) \/ osDelay(t, c) \/ osDelayUntil(t, c)

-----------------------------------------------------------------------------
(* Flags *)
osFlagsErrorTimeout == 1..31
osFlagsErrorParameter == 2..31

StkFlagsResultToCmsis(r) ==
    CASE r = ERROR_TIMEOUT -> osFlagsErrorTimeout
      [] r = ERROR_PARAMETER -> osFlagsErrorParameter
      [] OTHER -> r

CmsisFlagsOptionsToStk(options) ==
    {o \in {"all", "no clear"} : /\ o = "all" => "osFlagsWaitAll" \in options
                                 /\ o = "no clear" => "osFlagsNoClear" \in options}

WrappedWait(c) ==
    [Wrapped(c, "EventFlagsWait") EXCEPT !.x.options = CmsisFlagsOptionsToStk(@)]

FlagsResult(t, c) ==
    /\ c.op = "FlagsResult"
    /\ Return(t, c, StkFlagsResultToCmsis(ret[t])) /\ UNCHANGED <<obj, wait, now>>

ThenResult(d, c) == Calling(d, [c EXCEPT !.op = "FlagsResult"])

osThreadFlagsSet(t, c) ==
    /\ c.op = "osThreadFlagsSet"
    /\ IF ERROR_BIT \in c.x
       THEN Return(t, c, osFlagsErrorParameter) /\ UNCHANGED <<obj, wait, now>>
       ELSE EventFlagsSet(t, ThenResult(Wrapped(c, "EventFlagsSet"), c))

osThreadFlagsClear(t, c) ==
    c.op = "osThreadFlagsClear" /\ EventFlagsClear(t, ThenResult(Wrapped(c, "EventFlagsClear"), c))

osThreadFlagsGet(t, c) ==
    c.op = "osThreadFlagsGet" /\ EventFlagsGet(t, Wrapped(c, "EventFlagsGet"))

osThreadFlagsWait(t, c) ==
    c.op = "osThreadFlagsWait" /\ EventFlagsWait(t, ThenResult(WrappedWait(c), c))

StkEventFlags == EventFlagsObject({})

osEventFlagsNew(t, c) ==
    c.op = "osEventFlagsNew" /\ PlacementNewOrHeap(t, c, StkEventFlags)

osEventFlagsSet(t, c) ==
    /\ c.op = "osEventFlagsSet"
    /\ IF ERROR_BIT \in c.x
       THEN Return(t, c, osFlagsErrorParameter) /\ UNCHANGED <<obj, wait, now>>
       ELSE EventFlagsSet(t, ThenResult(Wrapped(c, "EventFlagsSet"), c))

osEventFlagsClear(t, c) ==
    c.op = "osEventFlagsClear" /\ EventFlagsClear(t, ThenResult(Wrapped(c, "EventFlagsClear"), c))

osEventFlagsGet(t, c) ==
    c.op = "osEventFlagsGet" /\ EventFlagsGet(t, Wrapped(c, "EventFlagsGet"))

osEventFlagsWait(t, c) ==
    c.op = "osEventFlagsWait" /\ EventFlagsWait(t, ThenResult(WrappedWait(c), c))

osEventFlagsDelete(t, c) == c.op = "osEventFlagsDelete" /\ ObjDestroy(t, c)

FlagsCalls(t, c) ==
    \/ FlagsResult(t, c) \/ osThreadFlagsSet(t, c) \/ osThreadFlagsClear(t, c)
    \/ osThreadFlagsGet(t, c) \/ osThreadFlagsWait(t, c) \/ osEventFlagsNew(t, c)
    \/ osEventFlagsSet(t, c) \/ osEventFlagsClear(t, c) \/ osEventFlagsGet(t, c)
    \/ osEventFlagsWait(t, c) \/ osEventFlagsDelete(t, c)

-----------------------------------------------------------------------------
(* Timers.  x = [periodic, regions] *)
StkTimer(x) == Extended(TimerObject(NULL), [m_type |-> x.periodic, m_period_ticks |-> 0])

osTimerNew(t, c) == c.op = "osTimerNew" /\ PlacementNewOrHeap(t, c, StkTimer(c.x))

(* m_period_ticks is written before the Restart, which takes the tick count *)
osTimerStart(t, c) ==
    LET period == IF obj[c.o].m_type THEN c.x ELSE 0
    IN  /\ c.op = "osTimerStart"
        /\ Set(c.o, [obj[c.o] EXCEPT !.m_period_ticks = period])
        /\ Goto(t, On(c, "TimerRestart", c.o, [delay |-> c.x, period |-> period], NO_WAIT))
        /\ UNCHANGED <<wait, ret, now>>

StopFrame(c) == On(c, "TimerStop", c.o, [delay |-> 0, period |-> 0], NO_WAIT)

osTimerStop(t, c) ==
    /\ c.op = "osTimerStop"
    /\ IF obj[c.o].m_active THEN TimerStop(t, StopFrame(c)) ELSE Refuse(t, c)

osTimerIsRunning(t, c) ==
    /\ c.op = "osTimerIsRunning"
    /\ Return(t, c, Status(obj[c.o].m_active)) /\ UNCHANGED <<obj, wait, now>>

(* A Stop that finds no room leaves the timer *)
osTimerDelete(t, c) ==
    /\ c.op = "osTimerDelete"
    /\ IF obj[c.o].m_active
       THEN TimerStop(t, Calling(StopFrame(c), [c EXCEPT !.op = "TimerDestroy"]))
       ELSE ObjDestroy(t, c)

TimerDestroy(t, c) ==
    c.op = "TimerDestroy" /\ IF ret[t] = FAIL THEN Refuse(t, c) ELSE ObjDestroy(t, c)

CmsisTimerCalls(t, c) ==
    \/ osTimerNew(t, c) \/ osTimerStart(t, c) \/ osTimerStop(t, c)
    \/ osTimerIsRunning(t, c) \/ osTimerDelete(t, c) \/ TimerDestroy(t, c)

-----------------------------------------------------------------------------
(* Mutexes, x = [robust, regions], and semaphores, x = [max, initial, regions] *)
StkMutex == MutexObject

StkSemaphore(initial, max_count) == SemaphoreObject(initial, max_count)

osMutexNew(t, c) ==
    /\ c.op = "osMutexNew"
    /\ IF c.x.robust THEN Refuse(t, c) ELSE PlacementNewOrHeap(t, c, StkMutex)

osMutexAcquire(t, c) == c.op = "osMutexAcquire" /\ MutexLock(t, Wrapped(c, "MutexLock"))

osMutexRelease(t, c) == c.op = "osMutexRelease" /\ MutexUnlock(t, Wrapped(c, "MutexUnlock"))

osMutexGetOwner(t, c) ==
    c.op = "osMutexGetOwner" /\ Return(t, c, obj[c.o].m_owner_tid) /\ UNCHANGED <<obj, wait, now>>

osMutexDelete(t, c) == c.op = "osMutexDelete" /\ ObjDestroy(t, c)

osSemaphoreNew(t, c) ==
    /\ c.op = "osSemaphoreNew"
    /\ IF c.x.max = 0 \/ c.x.initial > c.x.max THEN Refuse(t, c)
       ELSE PlacementNewOrHeap(t, c, StkSemaphore(Min({c.x.initial, COUNT_MAX}),
                                                   Min({c.x.max, COUNT_MAX})))

osSemaphoreAcquire(t, c) ==
    c.op = "osSemaphoreAcquire" /\ SemaphoreWait(t, Wrapped(c, "SemaphoreWait"))

(* Whether the semaphore takes another token is left to the assertion in Signal *)
osSemaphoreRelease(t, c) ==
    c.op = "osSemaphoreRelease" /\ SemaphoreSignal(t, Wrapped(c, "SemaphoreSignal"))

osSemaphoreGetCount(t, c) ==
    c.op = "osSemaphoreGetCount" /\ Return(t, c, obj[c.o].m_count) /\ UNCHANGED <<obj, wait, now>>

osSemaphoreDelete(t, c) == c.op = "osSemaphoreDelete" /\ ObjDestroy(t, c)

LockCalls(t, c) ==
    \/ osMutexNew(t, c) \/ osMutexAcquire(t, c) \/ osMutexRelease(t, c)
    \/ osMutexGetOwner(t, c) \/ osMutexDelete(t, c) \/ osSemaphoreNew(t, c)
    \/ osSemaphoreAcquire(t, c) \/ osSemaphoreRelease(t, c) \/ osSemaphoreGetCount(t, c)
    \/ osSemaphoreDelete(t, c)

-----------------------------------------------------------------------------
(* Memory pools and message queues: the control block, and the storage if the caller
   has none that is large enough.  x = [count, size, regions] *)
StkMemPool(x) == PoolObject(x.count, x.count)

StkMessageQueue(x) == RingObject("queue", x.count)

osMemoryPoolNew(t, c) ==
    /\ c.op = "osMemoryPoolNew"
    /\ IF c.x.count = 0 \/ c.x.size = 0 THEN Refuse(t, c)
       ELSE PlacementNewOrHeap(t, c, StkMemPool(c.x))

osMemoryPoolAlloc(t, c) == c.op = "osMemoryPoolAlloc" /\ PoolAlloc(t, Wrapped(c, "PoolAlloc"))

osMemoryPoolFree(t, c) == c.op = "osMemoryPoolFree" /\ PoolFree(t, Wrapped(c, "PoolFree"))

osMemoryPoolGetCount(t, c) ==
    /\ c.op = "osMemoryPoolGetCount"
    /\ Return(t, c, obj[c.o].m_used_count) /\ UNCHANGED <<obj, wait, now>>

osMemoryPoolGetSpace(t, c) ==
    /\ c.op = "osMemoryPoolGetSpace"
    /\ Return(t, c, obj[c.o].m_capacity - obj[c.o].m_used_count) /\ UNCHANGED <<obj, wait, now>>

osMemoryPoolDelete(t, c) == c.op = "osMemoryPoolDelete" /\ ObjDestroy(t, c)

osMessageQueueNew(t, c) ==
    /\ c.op = "osMessageQueueNew"
    /\ IF c.x.count \notin 1..CAPACITY_MAX \/ c.x.size = 0 THEN Refuse(t, c)
       ELSE PlacementNewOrHeap(t, c, StkMessageQueue(c.x))

osMessageQueuePut(t, c) ==
    c.op = "osMessageQueuePut" /\ MessageQueuePut(t, Wrapped(c, "MessageQueuePut"))

osMessageQueueGet(t, c) ==
    c.op = "osMessageQueueGet" /\ MessageQueueGet(t, Wrapped(c, "MessageQueueGet"))

osMessageQueueGetCount(t, c) ==
    /\ c.op = "osMessageQueueGetCount"
    /\ Return(t, c, obj[c.o].m_count) /\ UNCHANGED <<obj, wait, now>>

osMessageQueueGetSpace(t, c) ==
    /\ c.op = "osMessageQueueGetSpace"
    /\ Return(t, c, obj[c.o].m_capacity - obj[c.o].m_count) /\ UNCHANGED <<obj, wait, now>>

osMessageQueueReset(t, c) ==
    c.op = "osMessageQueueReset" /\ MessageQueueReset(t, Wrapped(c, "MessageQueueReset"))

osMessageQueueDelete(t, c) == c.op = "osMessageQueueDelete" /\ ObjDestroy(t, c)

StorageCalls(t, c) ==
    \/ osMemoryPoolNew(t, c) \/ osMemoryPoolAlloc(t, c) \/ osMemoryPoolFree(t, c)
    \/ osMemoryPoolGetCount(t, c) \/ osMemoryPoolGetSpace(t, c) \/ osMemoryPoolDelete(t, c)
    \/ osMessageQueueNew(t, c) \/ osMessageQueuePut(t, c) \/ osMessageQueueGet(t, c)
    \/ osMessageQueueGetCount(t, c) \/ osMessageQueueGetSpace(t, c)
    \/ osMessageQueueReset(t, c) \/ osMessageQueueDelete(t, c)

CmsisStep(t, c) ==
    \/ KernelCalls(t, c) \/ ThreadCalls(t, c) \/ FlagsCalls(t, c) \/ CmsisTimerCalls(t, c)
    \/ LockCalls(t, c) \/ StorageCalls(t, c)
=============================================================================
