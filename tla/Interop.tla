------------------------------ MODULE Interop ------------------------------
(***************************************************************************)
(* Tasks and interrupts that call the synchronization objects, the timer   *)
(* host, and the FreeRTOS, CMSIS-RTOS2 and C interfaces over them.         *)
(*                                                                         *)
(* A scenario is a program: the components it is linked with, the objects  *)
(* it has and the calls each of its tasks may make, in any order and any   *)
(* number of times.  CallerMay is what the interfaces demand of their      *)
(* callers.                                                                *)
(***************************************************************************)
EXTENDS FreeRTOSTask, FreeRTOSBuffer, FreeRTOSTimer, Cmsis, CApi, SmoothWeighted, Monotonic,
        FiniteSets

CONSTANTS
    Scenarios,   \* a function from names to records [uses, objects, calls, horizon]
    MAX_VALUE    \* bound on the values of notifications, recursion and the kernel lock

ASSUME TasksAssumption == IsFiniteSet(Tasks)

VARIABLE scenario   \* the name of the scenario the behaviour is in

The == Scenarios[scenario]

vars == <<obj, wait, call, ret, now, scenario>>

Init ==
    /\ scenario \in DOMAIN Scenarios
    /\ obj = The.objects
    /\ wait = NoWaiters
    /\ call = [t \in Tasks |-> NoCall]
    /\ ret = [t \in Tasks |-> NULL]
    /\ now = 0

(* The components the program is linked with, and the steps of their functions *)
Uses(component) == component \in The.uses

NativeStep(t, c) ==
    \/ Uses("Semaphore") /\ SemaphoreStep(t, c)
    \/ Uses("EventFlags") /\ EventFlagsStep(t, c)
    \/ Uses("MessageQueue") /\ MessageQueueStep(t, c)
    \/ Uses("Pipe") /\ PipeStep(t, c)
    \/ Uses("BlockMemoryPool") /\ PoolStep(t, c)
    \/ Uses("ConditionVariable") /\ CvStep(t, c)
    \/ Uses("SpinLock") /\ SpinLockStep(t, c)
    \/ Uses("TimerHost") /\ TimerHostStep(t, c)
    \/ Uses("SmoothWeighted") /\ SwrrStep(t, c)
    \/ Uses("Monotonic") /\ MonoStep(t, c)
    \/ Awake(t, c)

Step(t, c) ==
    \/ NativeStep(t, c)
    \/ Uses("Heap") /\ HeapCalls(t, c)
    \/ Uses("FreeRTOSQueue") /\ FreeRTOSQueueStep(t, c)
    \/ Uses("FreeRTOSTask") /\ FreeRTOSTaskStep(t, c)
    \/ Uses("FreeRTOSBuffer") /\ FreeRTOSBufferStep(t, c)
    \/ Uses("FreeRTOSTimer") /\ FreeRTOSTimerStep(t, c)
    \/ Uses("Cmsis") /\ CmsisStep(t, c)
    \/ Uses("CApi") /\ CApiStep(t, c)

-----------------------------------------------------------------------------
Objects(kind) == {o \in DOMAIN obj : obj[o].kind = kind}

CreateOps == {"pvPortMalloc", "xQueueCreate", "xQueueCreateStatic", "xQueueCreateSet", "xSemaphoreCreateBinary",
    "xSemaphoreCreateBinaryStatic", "xSemaphoreCreateCounting", "xSemaphoreCreateCountingStatic",
    "xSemaphoreCreateMutex", "xSemaphoreCreateMutexStatic", "xSemaphoreCreateRecursiveMutex",
    "xSemaphoreCreateRecursiveMutexStatic", "xTaskCreate", "xTaskCreateStatic",
    "xTaskCreateRestricted", "xTaskCreateRestrictedStatic", "xEventGroupCreate", "xEventGroupCreateStatic", "xStreamBufferCreate",
    "xStreamBufferCreateStatic", "xStreamBufferCreateWithCallback",
    "xStreamBufferCreateStaticWithCallback", "xMessageBufferCreate",
    "xMessageBufferCreateWithCallback", "xMessageBufferCreateStatic",
    "xMessageBufferCreateStaticWithCallback", "xTimerCreate", "xTimerCreateStatic",
    "osThreadNew", "osTimerNew", "osEventFlagsNew", "osMutexNew", "osSemaphoreNew",
    "osMemoryPoolNew", "osMessageQueueNew", "stk_mutex_create", "stk_spinlock_create",
    "stk_cv_create", "stk_event_create", "stk_sem_create", "stk_ef_create", "stk_pipe_create",
    "stk_msgq_create", "stk_periodic_trigger_create"}

DeleteOps == {"vPortFree", "vQueueDelete", "vSemaphoreDelete", "vTaskDelete", "vEventGroupDelete",
    "vStreamBufferDelete", "vMessageBufferDelete", "xTimerDelete",
    "osTimerDelete", "osEventFlagsDelete", "osMutexDelete", "osSemaphoreDelete",
    "osMemoryPoolDelete", "osMessageQueueDelete", "stk_mutex_destroy", "stk_spinlock_destroy",
    "stk_cv_destroy", "stk_event_destroy", "stk_sem_destroy", "stk_ef_destroy",
    "stk_pipe_destroy", "stk_msgq_destroy", "stk_periodic_trigger_destroy"}

(* No other task is in a call, other than the tasks of the timer host, which wait for
   a command and for an expired timer *)
Alone(t) == \A u \in Tasks \ {t} : Idle(u) \/ (call[u].op = "PipeTRead" /\ IsWaiting(wait, u))

(* Nobody holds the object, nor is it in a queue of the timer host *)
Released(o) ==
    CASE obj[o].kind \in {"mutex", "spin"} -> obj[o].m_owner_tid = NULL
      [] obj[o].kind = "pool" -> obj[o].m_used_count = 0
      [] obj[o].kind = "messages" -> obj[obj[o].m_pool].m_used_count = 0
      [] obj[o].kind = "timer" ->
            /\ ~obj[o].m_pending /\ ~obj[o].m_rearming
            /\ Empty(obj["commands"]) /\ ("ready" \in DOMAIN obj => Empty(obj["ready"]))
      [] obj[o].kind = "ctask" -> wait.list[SleepList(o)] = <<>>
      [] OTHER -> TRUE

(* The deletion of an object frees memory that nothing refers to *)
MayFree(t, o) == Alone(t) /\ Released(o) /\ (obj[o].kind = "timer" => ~obj[o].m_active)

(* ResumeTask and SleepCancel also wake a task that waits on a synchronization
   object: the caller knows that it does not *)
NotInWait(o) == IsWaiting(wait, obj[o].task) => IsLinked(wait.list[SleepList(o)], obj[o].task)

ResumeOps == {"vTaskResume", "xTaskResumeFromISR", "xTaskAbortDelay", "osThreadResume",
              "stk_kernel_resume_task"}

NotifyOps == {"xTaskNotifyGiveIndexed", "xTaskNotifyIndexed", "xTaskNotifyAndQueryIndexed",
    "xTaskNotifyFromISRIndexed", "xTaskNotifyGive", "xTaskNotify", "xTaskNotifyFromISR",
    "xTaskNotifyAndQuery", "xTaskNotifyAndQueryFromISRIndexed", "xTaskNotifyAndQueryFromISR"}

Signals(o) == {t \in Tasks : ~Idle(t) /\ call[t].o = o /\ call[t].op = "SemaphoreSignal"}

(* A token or a block is given back by who got it, once, before it takes another *)
WaitOps == {"SemaphoreWait", "xSemaphoreTake", "xSemaphoreTakeFromISR", "osSemaphoreAcquire",
            "stk_sem_wait", "stk_sem_trywait"}
SignalOps == {"SemaphoreSignal", "xSemaphoreGive", "xSemaphoreGiveFromISR", "osSemaphoreRelease",
              "stk_sem_signal"}
AllocOps == {"PoolAlloc", "osMemoryPoolAlloc", "stk_blockpool_alloc", "stk_blockpool_timed_alloc",
             "stk_blockpool_try_alloc"}
FreeOps == {"PoolFree", "osMemoryPoolFree", "stk_blockpool_free"}
LockOps == {"MutexLock", "xSemaphoreTake", "osMutexAcquire", "stk_mutex_lock", "stk_mutex_trylock",
            "stk_mutex_timed_lock", "SpinLockLock", "SpinLockTryLock", "stk_spinlock_lock",
            "stk_spinlock_trylock"}
UnlockOps == {"MutexUnlock", "osMutexRelease", "stk_mutex_unlock", "SpinLockUnlock",
              "stk_spinlock_unlock", "stk_cv_wait"}

CallerOwns(t, c) ==
    /\ c.op \in SignalOps /\ c.x = "own" => ret[t] = OK
    /\ c.op \in WaitOps /\ c.x = "own" => ret[t] # OK
    /\ c.op \in FreeOps => c.x = ret[t]
    /\ c.op \in AllocOps => ret[t] \in {NULL, OK, FAIL}
    /\ c.op \in UnlockOps => obj[IF c.op = "stk_cv_wait" THEN c.x ELSE c.o].m_owner_tid = t
    /\ c.op = "xSemaphoreGive" /\ obj[c.o].kind = "mutex" => obj[c.o].m_owner_tid = t
    /\ c.op \in LockOps /\ obj[c.o].kind \in {"mutex", "spin"} => obj[c.o].m_recursion_count < MAX_VALUE

InSet(o) == "m_set" \in DOMAIN obj[o] /\ obj[o].m_set # NULL

(* The member of a queue set that t was told to read *)
Told(t) == {o \in DOMAIN obj : Objects("set") # {} /\ ret[t] = <<o>>}

MemberReads == {"xQueueReceiveFromISR", "xSemaphoreTakeFromISR"}

(* The preconditions of the FreeRTOS calls: a member of a set is read by who was told
   of it, and moved while no notification of it is under way; a message buffer is reset
   while nobody uses it.  The value of a slot is bounded by MAX_VALUE *)
FreeRTOSMay(t, c) ==
    /\ c.op \in MemberReads /\ InSet(c.o) => c.o \in Told(t)
    /\ Told(t) # {} => c.op \in MemberReads /\ c.o \in Told(t)
    /\ c.op \in {"xQueueAddToSet", "xQueueRemoveFromSet"} =>
          \A u \in Tasks \ {t} : Idle(u)
    /\ c.op \in NotifyOps => obj[c.o].value < MAX_VALUE
    /\ c.op \in {"xMessageBufferReset", "xMessageBufferResetFromISR"} => Alone(t)
    /\ \A u \in Tasks : call[u].op \notin {"xMessageBufferReset", "ResetFree"}

(* osKernelLock: its holder does not wait, and nobody else runs.  A thread that has
   exited is not joined, and one that is joined is not detached *)
Locked(t) ==
    \E o \in Objects("lock") : obj[o].g_StkKernelLocked # 0 /\ obj[o].holder # t

CmsisMay(t, c) ==
    /\ (\E o \in Objects("lock") : obj[o].holder = t) => c.ticks = NO_WAIT
    /\ c.op \in {"osKernelLock", "osKernelRestoreLock"} => obj[c.o].g_StkKernelLocked < MAX_VALUE
    /\ c.op = "osThreadJoin" => obj[c.o].m_join_state # "Exited"
    /\ c.op = "osThreadDetach" =>
          \A u \in Tasks : ~(call[u] # NoCall /\ call[u].op = "JoinWait" /\ call[u].o = c.o)

(* The kernel adds a task once, and tells of a sleep and of the wake-up in turn *)
KernelMay(c) ==
    LET s == obj[c.o]
        managed == ToSet(s.m_tasks) \cup ToSet(s.m_sleep)
    IN  /\ c.op = "SwrrAddTask" => c.x \notin managed
        /\ c.op = "SwrrRemoveTask" => c.x \in managed
        /\ c.op = "OnTaskSleep" => c.x \in ToSet(s.m_tasks)
        /\ c.op = "OnTaskWake" => c.x \in ToSet(s.m_sleep)

(* A hard real-time task is added once, and removed if it is there *)
HrtMay(c) ==
    LET ids == {obj[c.o].m_tasks[i].id : i \in DOMAIN obj[c.o].m_tasks}
    IN  /\ c.op = "MonoAddTask" => c.x.id \notin ids
        /\ c.op = "MonoRemoveTask" => c.x \in ToSet(obj[c.o].m_tasks)

CallerMay(t, c) ==
    /\ IF c.op \in CreateOps THEN obj[c.o] = NoObject ELSE obj[c.o].kind # "none"
    /\ c.op \in DeleteOps => Alone(t) /\ Released(c.o) /\ obj[c.o].kind = c.x
    /\ c.op \in {"stk_blockpool_destroy", "stk_task_destroy"} =>
          obj[c.x].kind # "none" /\ Alone(t) /\ Released(c.x)
    /\ c.op \in ResumeOps => NotInWait(c.o)
    /\ c.op \in {"UpdateTime", "ProcessTimers"} => ret[t] = NULL
    /\ obj[c.o].kind = "swrr" => KernelMay(c)
    /\ obj[c.o].kind = "monotonic" => HrtMay(c)
    /\ CallerOwns(t, c) /\ FreeRTOSMay(t, c) /\ CmsisMay(t, c)

Begin(t) ==
    \E c \in The.calls[t] :
        /\ Idle(t) /\ ~IsWaiting(wait, t) /\ ~Locked(t)
        /\ CallerMay(t, c)
        /\ Step(t, c)

(* A task in ConditionVariable::Wait runs on until it sleeps, on the list or not *)
Continue(t) ==
    /\ ~Idle(t) /\ ~Locked(t)
    /\ ~IsWaiting(wait, t) \/ call[t].op = "CvSleep"
    /\ call[t].op \in {"TimerDeleted", "TimerDestroy"} => MayFree(t, call[t].o)
    /\ Step(t, call[t])

(* Bounds: time passes up to the horizon of the scenario, if it has a clock, and only
   while every timer and trigger is looked at in time *)
Tick ==
    /\ \A o \in Objects("lock") : obj[o].g_StkKernelLocked = 0
    /\ The.horizon > 0 =>
          /\ now < The.horizon /\ ClockInRange
          /\ \A o \in Objects("trigger") : obj[o].started => Since(obj[o].m_next) <= MAX_LATE
    /\ KernelTick(The.horizon > 0)

Next ==
    /\ \/ \E t \in Tasks : Begin(t) \/ Continue(t)
       \/ Tick
    /\ UNCHANGED scenario

Spec == Init /\ [][Next]_vars

-----------------------------------------------------------------------------
(* Tasks in a call of one of the methods ops of o that were woken and will go on *)
OnTheWay(o, ops) ==
    {t \in Tasks : /\ call[t] # NoCall /\ call[t].op \in ops /\ call[t].o = o
                   /\ ~IsWaiting(wait, t) /\ Signalled(t, call[t])}

(* Type correctness of every variable, and the ranges of counts and of the indices of
   the ring buffers *)
TypeOK ==
    /\ scenario \in DOMAIN Scenarios
    /\ DOMAIN obj = DOMAIN The.objects
    /\ wait \in [list: [SyncObjects -> Seq(Tasks)], time: [Tasks -> -WAIT_INFINITE-1..WAIT_INFINITE],
                 timeout: [Tasks -> BOOLEAN]]
    /\ \A t \in Tasks : call[t] = NoCall \/ call[t].ticks \in -WAIT_INFINITE-1..portMAX_DELAY
    /\ now \in 0..2^TimeoutBits-1
    /\ \A o \in Objects("semaphore") : obj[o].m_count \in 0..obj[o].m_count_max
    /\ \A o \in UNION {Objects(k) : k \in {"queue", "pipe", "set", "envelopes"}} :
          /\ obj[o].m_count \in 0..obj[o].m_capacity
          /\ {obj[o].m_head, obj[o].m_tail} \subseteq 0..obj[o].m_capacity-1

(* A semaphore neither loses nor makes a token: what is in m_count, what waiters
   were given and not returned with, and what tasks took and did not give back, is
   what there was, through signals, time-outs and calls that overtake a waiter *)
TokensConserved ==
    \A o \in Objects("semaphore") :
        LET own(t) == \E c \in The.calls[t] : c.o = o /\ c.op \in WaitOps /\ c.x = "own"
        IN  (\E t \in Tasks : own(t)) =>
              obj[o].m_count + Cardinality(OnTheWay(o, {"SemaphoreWait"}))
                + Cardinality({t \in Tasks : own(t) /\ ret[t] = OK
                                            /\ (Idle(t) \/ call[t].op = "SemaphoreSignal")})
              = The.objects[o].m_count

(* Nobody waits for what is there: a semaphore with waiters has no token, an event
   with waiters is not signaled, and a thread that somebody waits to join has not
   exited, be it before the join or after it *)
WaitersHaveCause ==
    /\ \A o \in Objects("semaphore") : wait.list[<<o, "list">>] # <<>> => obj[o].m_count = 0
    /\ \A o \in Objects("event") : wait.list[<<o, "list">>] # <<>> => ~obj[o].m_signaled
    /\ \A o \in Objects("thread") :
          obj[o].m_join_state = "Exited" \/ call[obj[o].task].op = "Gone" =>
              wait.list[JoinList(o)] = <<>>

(* A task blocked in EventFlags::Wait waits for flags that are not set: a Set wakes
   every waiter, and one whose flags another waiter cleared first waits again *)
FlagsWaitersUnsatisfied ==
    \A o \in Objects("flags") \cup Objects("thread") : \A t \in Tasks :
        IsLinked(wait.list[<<o, "cv">>], t) =>
            ~IsSatisfied(obj[o].m_flags, call[t].x.flags, call[t].x.options)

ReadOps == {"MessageQueueGet", "PipeRead", "PipeTRead", "PipeReadLoop",
            "PipeTriggerLoop"}
WriteOps == {"MessageQueuePut", "MessageQueuePutFront", "PipeWrite", "PipeTWrite",
             "PipeWriteLoop"}

Need(c) == IF c.op = "PipeTriggerLoop" THEN c.x.trigger ELSE 1

(* A blocked reader or writer of a message queue or pipe has a reason to wait: the
   elements, or the free slots, are not more than the tasks that were notified of
   them and are on their way *)
QueueWaitersHaveCause ==
    \A o \in Objects("queue") \cup Objects("pipe") :
        /\ (\E i \in DOMAIN wait.list[NotEmpty(o)] :
               Need(call[wait.list[NotEmpty(o)][i]]) <= obj[o].m_count) =>
              obj[o].m_count <= Cardinality(OnTheWay(o, ReadOps))
        /\ wait.list[NotFull(o)] # <<>> =>
              obj[o].m_capacity - obj[o].m_count <= Cardinality(OnTheWay(o, WriteOps))

(* The pools whose blocks tasks hold *)
FreePools == Objects("pool") \ {obj[o].m_pool : o \in Objects("messages")}

(* Every block of a pool is free once or belongs to one task, and an allocator is
   blocked only while no block is free or one that was notified is on its way *)
BlocksConserved ==
    \A o \in FreePools :
        LET owners == {t \in Tasks : /\ \E c \in The.calls[t] : c.o = o /\ c.op \in AllocOps
                                     /\ ret[t] \notin {OK, FAIL, NULL}}
        IN  /\ obj[o].m_used_count = Cardinality(owners)
            /\ obj[o].m_storage =>
                  /\ ToSet(obj[o].m_free_list) \cup {ret[t] : t \in owners} = 0..obj[o].m_capacity-1
                  /\ Len(obj[o].m_free_list) = GetFreeCount(obj[o])
            /\ wait.list[<<o, "cv">>] # <<>> =>
                  Len(obj[o].m_free_list) <= Cardinality(OnTheWay(o, {"PoolAlloc"}))

(* Mutex::Unlock hands over to its first waiter: a task that returns from its wait for
   the mutex without a time-out owns it, and nobody waits for a mutex that is free *)
MutexHandOver ==
    \A o \in Objects("mutex") :
        /\ wait.list[<<o, "list">>] # <<>> => obj[o].m_owner_tid # NULL
        /\ obj[o].m_owner_tid = NULL <=> obj[o].m_recursion_count = 0
        /\ \A t \in OnTheWay(o, {"MutexLock"}) : obj[o].m_owner_tid = t

(* MakeLocked never panics: the task that got the flag of a spin lock finds it without
   an owner, and an owner has the flag *)
SpinOwnerHasFlag ==
    \A o \in Objects("spin") :
        /\ obj[o].m_owner_tid # NULL => obj[o].m_lock
        /\ \A t \in Tasks : call[t] # NoCall /\ call[t].op = "MakeLocked" /\ call[t].o = o =>
              obj[o].m_lock /\ obj[o].m_owner_tid = NULL /\ obj[o].m_recursion_count = 0

-----------------------------------------------------------------------------
(* The heap is what the objects own and what constructors under way hold: a failed
   construction gives everything back, and so does a deletion; the least that was ever
   free is not more than what is free *)
HeapConserved ==
    "heap" \in DOMAIN obj =>
        LET owned == [o \in DOMAIN obj |->
                IF o \in Objects("none") \cup {"heap"} \/ "owned" \notin DOMAIN obj[o]
                THEN 0 ELSE obj[o].owned]
            held == [t \in Tasks |->
                IF call[t] # NoCall /\ call[t].op \in CreateOps THEN Got(call[t].acc) ELSE 0]
        IN  /\ obj["heap"].allocated = MapThenSumSet(LAMBDA o : owned[o], DOMAIN obj)
                                        + MapThenSumSet(LAMBDA t : held[t], Tasks)
            /\ obj["heap"].allocated \in 0..obj["heap"].capacity
            /\ obj["heap"].min_ever_free \in 0..GetAvailable(obj["heap"])

(* A queue set has a handle for each element of its members: in the set, on its way
   from the sender, or with the task that selected it and has not read the member *)
Handles(o, s) == Len(SelectSeq(Content(obj[s]), LAMBDA h : h = o))

SetTokensBacked ==
    \A o \in Objects("queue") \cup Objects("semaphore") :
        InSet(o) =>
            obj[o].m_count = Handles(o, obj[o].m_set)
                + Cardinality({t \in Tasks : /\ call[t] # NoCall /\ call[t].o = o
                                             /\ call[t].op = "QueueSetNotify" /\ ret[t] # FAIL})
                + Cardinality({t \in Tasks : Idle(t) /\ o \in Told(t)})

(* A notification reaches its task: a task blocked in xTaskNotifyWait, which clears
   the value it returns, has no value pending unless the notifier is about to signal *)
NotificationsReachWaiter ==
    \A o \in Objects("notify") : \A t \in Tasks :
        IsLinked(wait.list[<<o, "list">>], t) /\ call[t].then.op = "NotifyWaited" =>
            obj[o].value = 0 \/ Signals(o) # {}

(* The blocks of a message buffer: each one that is in use has one envelope, in the
   queue or with the task that got it or is about to put it *)
MessageBlocksConserved ==
    \A o \in Objects("messages") :
        LET between(t) == /\ call[t] # NoCall /\ call[t].o = o
                          /\ \/ call[t].op = "MessagePut" /\ ret[t] # NULL
                             \/ call[t].op = "MessageSent" /\ ret[t] # OK
                             \/ call[t].op \in {"MessageGot", "MessageGotFromISR", "ResetFree"}
                                /\ ret[t] # <<>>
        IN  obj[obj[o].m_pool].m_used_count =
              obj[obj[o].m_eq].m_count + Cardinality({t \in Tasks : between(t)})

-----------------------------------------------------------------------------
(* A timer that is pending will be handled: it is in the queue of the handlers, or
   with the tick task or a handler on its way into it or out of it.  A timer that is
   pending and in no queue is skipped by UpdateTime for ever *)
InQueue(q, P(_)) == \E i \in 1..q.m_count : P(Content(q)[i])

PendingTimersQueued ==
    \A o \in Objects("timer") : obj[o].m_pending =>
        \/ InQueue(obj["ready"], LAMBDA x : x = o)
        \/ \E t \in Tasks : /\ call[t] # NoCall
                            /\ \/ call[t].op = "PipeTWrite" /\ call[t].o = "ready" /\ call[t].x = o
                               \/ call[t].op = "Handle" /\ ret[t] = <<o>>
                               \/ call[t].op = "OnExpired" /\ call[t].x = o

(* The timer o has a command in the queue, on its way there or in the tick task *)
CommandQueued(o) ==
    \/ InQueue(obj["commands"], LAMBDA x : x.timer = o)
    \/ \E t \in Tasks : /\ call[t] # NoCall
                        /\ \/ call[t].op = "PushDone" /\ call[t].o = o
                           \/ Underway(call[t]) /\ call[t].x.timer = o
                           \/ call[t].op = "Execute" /\ ret[t] # <<>> /\ ret[t][1].timer = o

(* A timer marked m_rearming has its command in the queue or on its way: else every
   later Restart of it would be dropped and answered with true.  A START_OR_RESET of
   an active timer breaks this, see RearmedTimersHaveCommand *)
RearmingQueued ==
    (\A t \in Tasks : \A c \in The.calls[t] : c.op \notin {"TimerStartOrReset", "stk_timer_start_or_reset"}) =>
        \A o \in Objects("timer") : obj[o].m_rearming => CommandQueued(o)

(* The current weights do not drift, however tasks are added, removed, put to sleep and
   woken with a boost between the choices of GetNext: each stays within the sum of all
   weights times the number of tasks, and m_total_weight is the sum of the weights of
   the tasks that are runnable *)
CurrentWeightsBounded ==
    \A o \in Objects("swrr") :
        LET s == obj[o]
            sum(S) == MapThenSumSet(LAMBDA k : s.weight[k], S)
            limit == Cardinality(DOMAIN s.weight) * sum(DOMAIN s.weight)
        IN  /\ s.m_total_weight = sum(ToSet(s.m_tasks))
            /\ \A k \in ToSet(s.m_tasks) : s.current[k] \in -limit..limit

(* The schedulability check is exact: when the first task fits in its period, at which
   the check does not look, the tasks pass if and only if none of them, run by GetNext,
   is late in a whole hyperperiod.  If they pass, the response time computed for each
   is the one it has, and the loads do not exceed the processor *)
SchedulabilityExact ==
    \A o \in Objects("monotonic") :
        LET tasks == obj[o].m_tasks
            run == Schedule(tasks)
        IN  tasks # <<>> /\ tasks[1].deadline <= tasks[1].period =>
              /\ CalculateWCRT(tasks) <=> ~run.missed
              /\ CalculateWCRT(tasks) =>
                    /\ \A i \in DOMAIN tasks : Wcrt(tasks, i) = run.first[i]
                    /\ GetTaskCpuLoad(tasks, Len(tasks)) <= 100

-----------------------------------------------------------------------------
(* The ring buffers are first-in first-out queues that lose and repeat nothing *)
QueueReaders == {"MessageQueueGet", "PipeRead", "PipeReadBulk", "PipeReadTriggered",
    "PipeTRead", "PipeTReadBulk",
    "xQueueReceive", "xQueueReceiveFromISR", "xStreamBufferReceive", "xStreamBufferReceiveFromISR",
    "osMessageQueueGet", "stk_msgq_get", "stk_msgq_tryget", "stk_pipe_read", "stk_pipe_tryread",
    "UpdateTime", "ProcessTimers"}

Reads(t) == \E c \in The.calls[t] : c.op \in QueueReaders

Rings == Objects("queue") \cup Objects("pipe")

ResetOps == {"MessageQueueReset", "PipeReset", "PipeTReset", "xQueueReset", "xQueueOverwrite",
    "xQueueOverwriteFromISR", "xStreamBufferReset", "xStreamBufferResetFromISR",
    "osMessageQueueReset", "stk_msgq_reset", "stk_pipe_reset"}

Resettable ==
    {o \in DOMAIN The.objects :
        \E t \in Tasks : \E c \in The.calls[t] : c.o = o /\ c.op \in ResetOps \cup DeleteOps}

Queues == INSTANCE Fifo WITH
    Readers  <- Tasks,
    items    <- [o \in DOMAIN obj |-> IF o \in Rings THEN Content(obj[o]) ELSE <<>>],
    capacity <- [o \in DOMAIN obj |-> IF o \in Rings THEN obj[o].m_capacity ELSE 0],
    inbox    <- [t \in Tasks |->
                   IF call[t] # NoCall /\ call[t].op = "PipeReadLoop" THEN call[t].acc
                   ELSE IF Reads(t) /\ ret[t] \notin {OK, FAIL, NULL}
                   THEN ret[t] ELSE <<>>],
    resettable <- Resettable
QueueSpec == Queues!Spec

-----------------------------------------------------------------------------
(* "Periodic: fires every period ticks until explicitly stopped": the tick task does
   not wait without limit for a command while a timer is active *)
TickTaskWakesForTimers ==
    \A t \in Tasks :
        IsLinked(wait.list[NotEmpty("commands")], t) /\ wait.time[t] = WAIT_INFINITE =>
            \A o \in Objects("timer") : ~obj[o].m_active

(* m_rearming is "true while a CMD_RESTART / CMD_START_OR_RESET is already in the
   command queue" (stk_time_timer.h): a timer that is marked has its command queued *)
RearmedTimersHaveCommand ==
    \A o \in Objects("timer") : obj[o].m_rearming => CommandQueued(o)
=============================================================================
