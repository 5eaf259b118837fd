-------------------------------- MODULE CApi --------------------------------
(***************************************************************************)
(* The C interface, interop/c/src.  Most functions assert that the handle  *)
(* is not null and call the C++ method of the object behind it; for each   *)
(* family of functions a table says which method, and with which time-out. *)
(* The objects are made in memory of the caller, x.fits says whether it is *)
(* large enough; block pools, tasks and timers are in tables of slots.     *)
(***************************************************************************)
EXTENDS SpinLock, ConditionVariable, EventFlags, TimerHost, BlockMemoryPool, TaskHandle

(* The method with the time-out of the function, with none, and without limit *)
Same(op) == [op |-> op, wait |-> "same"]
Try(op) == [op |-> op, wait |-> "no"]
Forever(op) == [op |-> op, wait |-> "forever"]

Delegates(t, c, table) ==
    /\ c.op \in DOMAIN table
    /\ Goto(t, [c EXCEPT !.op = table[c.op].op,
                         !.ticks = CASE table[c.op].wait = "same" -> c.ticks
                                     [] table[c.op].wait = "no" -> NO_WAIT
                                     [] OTHER -> WAIT_INFINITE])
    /\ UNCHANGED <<obj, wait, ret, now>>

Creates(t, c, name, object) ==
    /\ c.op = name
    /\ IF c.x.fits
       THEN Set(c.o, Extended(object, [owned |-> 0])) /\ Return(t, c, OK) /\ UNCHANGED <<wait, now>>
       ELSE Refuse(t, c)

Destroys(t, c, name) ==
    /\ c.op = name
    /\ Set(c.o, NoObject) /\ Return(t, c, OK) /\ UNCHANGED <<wait, now>>

-----------------------------------------------------------------------------
stk_mutex(t, c) ==
    \/ Creates(t, c, "stk_mutex_create", MutexObject)
    \/ Destroys(t, c, "stk_mutex_destroy")
    \/ Delegates(t, c, [stk_mutex_lock |-> Forever("MutexLock"),
         stk_mutex_trylock |-> Try("MutexLock"), stk_mutex_timed_lock |-> Same("MutexLock"),
         stk_mutex_unlock |-> Same("MutexUnlock")])

stk_spinlock(t, c) ==
    \/ Creates(t, c, "stk_spinlock_create", SpinObject)
    \/ Destroys(t, c, "stk_spinlock_destroy")
    \/ Delegates(t, c, [stk_spinlock_lock |-> Same("SpinLockLock"),
         stk_spinlock_trylock |-> Same("SpinLockTryLock"),
         stk_spinlock_unlock |-> Same("SpinLockUnlock")])

stk_cv(t, c) ==
    \/ Creates(t, c, "stk_cv_create", CvObject)
    \/ Destroys(t, c, "stk_cv_destroy")
    \/ Delegates(t, c, [stk_cv_wait |-> Same("CvWait"),
         stk_cv_notify_one |-> Same("CvNotifyOne"), stk_cv_notify_all |-> Same("CvNotifyAll")])

stk_event(t, c) ==
    \/ Creates(t, c, "stk_event_create", EventObject(c.x.manual_reset, FALSE))
    \/ Destroys(t, c, "stk_event_destroy")
    \/ Delegates(t, c, [stk_event_wait |-> Same("EventWait"), stk_event_trywait |-> Try("EventWait"),
         stk_event_set |-> Same("EventSet"), stk_event_reset |-> Same("EventReset"),
         stk_event_pulse |-> Same("EventPulse")])

(* A maximum of 0 stands for COUNT_MAX; an initial count below it is asserted *)
stk_sem(t, c) ==
    \/ Creates(t, c, "stk_sem_create",
         SemaphoreObject(c.x.initial, IF c.x.max = 0 THEN COUNT_MAX ELSE c.x.max))
    \/ Destroys(t, c, "stk_sem_destroy")
    \/ Delegates(t, c, [stk_sem_wait |-> Same("SemaphoreWait"),
         stk_sem_trywait |-> Try("SemaphoreWait"), stk_sem_signal |-> Same("SemaphoreSignal")])
    \/ c.op = "stk_sem_get_count" /\ Answers(t, c, obj[c.o].m_count)

stk_ef(t, c) ==
    \/ Creates(t, c, "stk_ef_create", EventFlagsObject(c.x.initial_flags))
    \/ Destroys(t, c, "stk_ef_destroy")
    \/ Delegates(t, c, [stk_ef_set |-> Same("EventFlagsSet"), stk_ef_clear |-> Same("EventFlagsClear"),
         stk_ef_get |-> Same("EventFlagsGet"), stk_ef_wait |-> Same("EventFlagsWait"),
         stk_ef_trywait |-> Try("EventFlagsWait")])

stk_pipe(t, c) ==
    \/ Creates(t, c, "stk_pipe_create", PipeObject(c.x.capacity))
    \/ Destroys(t, c, "stk_pipe_destroy")
    \/ Delegates(t, c, [stk_pipe_write |-> Same("PipeWrite"), stk_pipe_trywrite |-> Try("PipeWrite"),
         stk_pipe_read |-> Same("PipeRead"), stk_pipe_tryread |-> Try("PipeRead"),
         stk_pipe_write_bulk |-> Same("PipeWriteBulk"),
         stk_pipe_trywrite_bulk |-> Try("PipeWriteBulk"),
         stk_pipe_read_bulk |-> Same("PipeReadBulk"), stk_pipe_tryread_bulk |-> Try("PipeReadBulk"),
         stk_pipe_read_bulk_triggered |-> Same("PipeReadTriggered"),
         stk_pipe_tryread_bulk_triggered |-> Try("PipeReadTriggered"),
         stk_pipe_reset |-> Same("PipeReset")])

RingReports(q) == <<q.m_capacity, q.m_count, q.m_capacity - q.m_count, Empty(q), Full(q)>>

stk_pipe_get(t, c) ==
    c.op = "stk_pipe_get" /\ Answers(t, c, RingReports(obj[c.o]))

stk_msgq(t, c) ==
    \/ Creates(t, c, "stk_msgq_create", RingObject("queue", c.x.capacity))
    \/ Destroys(t, c, "stk_msgq_destroy")
    \/ Delegates(t, c, [stk_msgq_put |-> Same("MessageQueuePut"),
         stk_msgq_tryput |-> Try("MessageQueuePut"),
         stk_msgq_putfront |-> Same("MessageQueuePutFront"),
         stk_msgq_tryputfront |-> Try("MessageQueuePutFront"),
         stk_msgq_get |-> Same("MessageQueueGet"), stk_msgq_tryget |-> Try("MessageQueueGet"),
         stk_msgq_peek |-> Same("MessageQueuePeek"), stk_msgq_trypeek |-> Try("MessageQueuePeek"),
         stk_msgq_peekfront |-> Same("MessageQueuePeek"),
         stk_msgq_trypeekfront |-> Try("MessageQueuePeek"),
         stk_msgq_reset |-> Same("MessageQueueReset")])

stk_msgq_get_count(t, c) ==
    c.op = "stk_msgq_get_count" /\ Answers(t, c, RingReports(obj[c.o]))

SyncFamilies(t, c) ==
    \/ stk_mutex(t, c) \/ stk_spinlock(t, c) \/ stk_cv(t, c) \/ stk_event(t, c) \/ stk_sem(t, c)
    \/ stk_ef(t, c) \/ stk_pipe(t, c) \/ stk_pipe_get(t, c) \/ stk_msgq(t, c)
    \/ stk_msgq_get_count(t, c)

-----------------------------------------------------------------------------
(* Slots: x.slots is the table, a sequence of names; a slot is free while it maps to
   NoObject.  A call takes the first free one, and returns its name *)
FreeSlots(slots) == {i \in DOMAIN slots : obj[slots[i]] = NoObject}

AcquireSlot(t, c, object) ==
    IF FreeSlots(c.x.slots) = {} THEN Return(t, c, NULL) /\ UNCHANGED obj
    ELSE LET slot == c.x.slots[Min(FreeSlots(c.x.slots))]
         IN  Set(slot, object) /\ Return(t, c, slot)

(* The slot is found by its handle and is free *)
ReleaseSlot(t, c) == Set(c.x, NoObject) /\ Return(t, c, OK)

(* The heap may be exhausted *)
stk_blockpool_create(t, c) ==
    /\ c.op = "stk_blockpool_create" /\ UNCHANGED <<wait, now>>
    /\ \E got \in BOOLEAN : AcquireSlot(t, c, HeapPoolObject(c.x.capacity, got))

stk_blockpool_create_static(t, c) ==
    /\ c.op = "stk_blockpool_create_static" /\ UNCHANGED <<wait, now>>
    /\ AcquireSlot(t, c, PoolObject(c.x.capacity, c.x.capacity))

stk_blockpool_destroy(t, c) ==
    c.op = "stk_blockpool_destroy" /\ ReleaseSlot(t, c) /\ UNCHANGED <<wait, now>>

stk_blockpool_alloc(t, c) ==
    Delegates(t, c, [stk_blockpool_alloc |-> Forever("PoolAlloc"),
        stk_blockpool_timed_alloc |-> Same("PoolAlloc"), stk_blockpool_try_alloc |-> Try("PoolAlloc"),
        stk_blockpool_free |-> Same("PoolFree")])

stk_blockpool_get(t, c) ==
    /\ c.op = "stk_blockpool_get"
    /\ Answers(t, c, <<obj[c.o].m_storage, obj[c.o].m_capacity, obj[c.o].m_used_count,
                       GetFreeCount(obj[c.o])>>)

PoolFamily(t, c) ==
    \/ stk_blockpool_create(t, c) \/ stk_blockpool_create_static(t, c)
    \/ stk_blockpool_destroy(t, c) \/ stk_blockpool_alloc(t, c) \/ stk_blockpool_get(t, c)

-----------------------------------------------------------------------------
(* Tasks: x = [slots, task], task the one the entry function runs as *)
TaskWrapper(x) == [kind |-> "ctask", task |-> x.task, m_weight |-> 1]

AllocateTask(t, c) == AcquireSlot(t, c, TaskWrapper(c.x))

stk_task_create(t, c) ==
    c.op = "stk_task_create" /\ AllocateTask(t, c) /\ UNCHANGED <<wait, now>>

FreeTask(t, c) == c.op = "stk_task_destroy" /\ ReleaseSlot(t, c) /\ UNCHANGED <<wait, now>>

stk_task_set_weight(t, c) ==
    /\ c.op = "stk_task_set_weight"
    /\ Set(c.o, [obj[c.o] EXCEPT !.m_weight = c.x])
    /\ Return(t, c, OK) /\ UNCHANGED <<wait, now>>

(* *suspended tells whether the call did it *)
stk_kernel_suspend_task(t, c) ==
    /\ c.op = "stk_kernel_suspend_task" /\ UNCHANGED <<obj, ret, now>>
    /\ wait' = Suspends(c.o)
    /\ Goto(t, [c EXCEPT !.op = "Awake"])

stk_kernel_resume_task(t, c) ==
    /\ c.op = "stk_kernel_resume_task" /\ UNCHANGED <<obj, now>>
    /\ wait' = Wakes(c.o) /\ Return(t, c, OK)

stk_sleep(t, c) == c.op = "stk_sleep" /\ SleepsFor(t, c, c.ticks)

stk_sleep_until(t, c) == c.op = "stk_sleep_until" /\ SleepsUntil(t, c, c.ticks)

TaskFamily(t, c) ==
    \/ stk_task_create(t, c) \/ FreeTask(t, c) \/ stk_task_set_weight(t, c)
    \/ stk_kernel_suspend_task(t, c) \/ stk_kernel_resume_task(t, c)
    \/ stk_sleep(t, c) \/ stk_sleep_until(t, c)

-----------------------------------------------------------------------------
(* Timers: the slot keeps its TimerHost::Timer when it is free *)
CTimerWrapper(busy) == Extended(TimerObject(NULL), [busy |-> busy])

stk_timer_create(t, c) ==
    LET free == {i \in DOMAIN c.x.slots : ~obj[c.x.slots[i]].busy}
        slot == c.x.slots[Min(free)]
    IN  /\ c.op = "stk_timer_create" /\ UNCHANGED <<wait, now>>
        /\ IF free = {} THEN Return(t, c, NULL) /\ UNCHANGED obj
           ELSE Set(slot, [obj[slot] EXCEPT !.busy = TRUE]) /\ Return(t, c, slot)

(* That the timer is not active is asserted; a command for it may be in the queue *)
stk_timer_destroy(t, c) ==
    /\ c.op = "stk_timer_destroy" /\ ~obj[c.o].m_active /\ UNCHANGED <<wait, now>>
    /\ Set(c.o, [obj[c.o] EXCEPT !.busy = FALSE]) /\ Return(t, c, OK)

stk_timer_start(t, c) ==
    Delegates(t, c, [stk_timer_start |-> Same("TimerStart"), stk_timer_stop |-> Same("TimerStop"),
        stk_timer_reset |-> Same("TimerReset"), stk_timer_restart |-> Same("TimerRestart"),
        stk_timer_start_or_reset |-> Same("TimerStartOrReset"),
        stk_timer_set_period |-> Same("TimerSetPeriod"), stk_timerhost_shutdown |-> Same("Shutdown")])

stk_timer_is_active(t, c) ==
    /\ c.op = "stk_timer_is_active"
    /\ Answers(t, c, <<obj[c.o].m_active, obj[c.o].m_period, obj[c.o].m_deadline>>)

TimerFamily(t, c) ==
    \/ stk_timer_create(t, c) \/ stk_timer_destroy(t, c) \/ stk_timer_start(t, c)
    \/ stk_timer_is_active(t, c)

-----------------------------------------------------------------------------
(* time::PeriodicTrigger (time/stk_time_util.h) and its C functions *)
TriggerObject(period) ==
    [kind |-> "trigger", m_next |-> 0, m_period |-> period, started |-> FALSE]

PeriodicTrigger(period, start) ==
    IF start
    THEN [TriggerObject(period) EXCEPT !.m_next = After(period), !.started = TRUE]
    ELSE TriggerObject(period)

TriggerSetPeriod(t, c) ==
    /\ c.op = "stk_periodic_trigger_set_period"
    /\ Set(c.o, [obj[c.o] EXCEPT !.m_next = (@ - obj[c.o].m_period + c.x) % 2^TimeoutBits,
                                 !.m_period = c.x])
    /\ Return(t, c, OK) /\ UNCHANGED <<wait, now>>

TriggerRestart(t, c) ==
    /\ c.op = "stk_periodic_trigger_restart"
    /\ Set(c.o, [obj[c.o] EXCEPT !.m_next = After(obj[c.o].m_period), !.started = TRUE])
    /\ Return(t, c, OK) /\ UNCHANGED <<wait, now>>

(* That the trigger was started is asserted *)
TriggerPoll(t, c) ==
    /\ c.op = "stk_periodic_trigger_poll" /\ obj[c.o].started /\ UNCHANGED <<wait, now>>
    /\ IF Since(obj[c.o].m_next) >= 0
       THEN /\ Set(c.o, [obj[c.o] EXCEPT !.m_next = (@ + obj[c.o].m_period) % 2^TimeoutBits])
            /\ Return(t, c, OK)
       ELSE Return(t, c, FAIL) /\ UNCHANGED obj

stk_periodic_trigger(t, c) ==
    \/ Creates(t, c, "stk_periodic_trigger_create", PeriodicTrigger(c.x.period, c.x.started))
    \/ Destroys(t, c, "stk_periodic_trigger_destroy")

TriggerFamily(t, c) ==
    \/ stk_periodic_trigger(t, c) \/ TriggerSetPeriod(t, c) \/ TriggerRestart(t, c)
    \/ TriggerPoll(t, c)

CApiStep(t, c) ==
    SyncFamilies(t, c) \/ PoolFamily(t, c) \/ TaskFamily(t, c) \/ TimerFamily(t, c) \/ TriggerFamily(t, c)
=============================================================================
