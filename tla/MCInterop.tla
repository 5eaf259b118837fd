----------------------------- MODULE MCInterop -----------------------------
(* Scenarios of the synchronization objects, the timer host and the interfaces, for
   TLC.  The objects are "a", "b", "c" and those the interfaces name *)
EXTENDS Interop

CONSTANTS t1, t2, t3, v1, v2, v3

Three == {t1, t2, t3}

(* The lists of waiters the scenarios use *)
Lists ==
    {<<"a", "list">>, <<"a", "cv">>, <<"a", "not_empty">>, <<"a", "not_full">>, <<"a", "sleep">>,
     <<"a", "join">>, <<"b", "list">>, <<"b", "cv">>, <<"b", "sleep">>,
     <<"b", "not_empty">>, <<"b", "not_full">>, <<"c", "not_empty">>, <<"c", "not_full">>,
     <<"commands", "not_empty">>, <<"commands", "not_full">>, <<"ready", "not_empty">>,
     <<"ready", "not_full">>, <<"pend", "not_empty">>, <<"pend", "not_full">>}

INF == WAIT_INFINITE
DELAY == portMAX_DELAY

(* Calls of op on "a", on o, and without an argument that matters *)
Calls(op, xs, ticks) == {Frame(op, "a", x, k) : x \in xs, k \in ticks}
CallsOn(o, op, xs, ticks) == {Frame(op, o, x, k) : x \in xs, k \in ticks}
Do(ops) == {Frame(op, "a", 0, NO_WAIT) : op \in ops}
DoOn(o, ops) == {Frame(op, o, 0, NO_WAIT) : op \in ops}

Same3(S) == [t \in Three |-> S]
Roles(S1, S2, S3) == [t \in Three |-> CASE t = t1 -> S1 [] t = t2 -> S2 [] t = t3 -> S3]

(* Without a clock, with one that wraps around, and with one that stops *)
Scenario(objects, calls) == [objects |-> objects, calls |-> calls, horizon |-> 0]
Timed(objects, calls) == [objects |-> objects, calls |-> calls, horizon |-> 2^TimeoutBits]
Until(horizon, objects, calls) == [objects |-> objects, calls |-> calls, horizon |-> horizon]
One(object) == [a |-> object]

Mask(f, o) == [flags |-> f, options |-> o]

(* Functions whose result nobody looks at *)
NotLookedAt == {"EventFlagsWait", "EventFlagsWaitLoop", "EventFlagsSet", "EventFlagsClear",
    "EventFlagsGet", "EventWait", "EventSet", "EventReset", "MessageQueuePut",
    "MessageQueuePutFront", "PipeWrite", "PipeWriteBulk", "PipeWriteLoop", "PoolFree",
    "PipeTWrite", "PipeTWriteBulk", "PipeTReset",
    "QueueSetNotify", "OverwriteNotify", "MutexLock", "MutexUnlock", "MakeLocked", "SpinLockLock",
    "SpinTry", "SpinLockUnlock", "SpinRelease", "MessageQueuePeek", "MessageQueueReset", "PipeReset",
    "uxQueueMessagesWaiting", "uxQueueSpacesAvailable", "uxSemaphoreGetCount",
    "xSemaphoreGetMutexHolder", "xSemaphoreGetMutexHolderFromISR", "SuspendState", "vTaskResume",
    "xTaskResumeFromISR", "xTaskAbortDelay", "xTaskDelayUntil", "Awake", "vTaskPrioritySet",
    "uxTaskPriorityGet", "eTaskGetState", "vTaskSetThreadLocalStoragePointer",
    "pvTaskGetThreadLocalStoragePointer", "NotifyTaken", "NotifyWaited", "SemaphoreSignal",
    "xTaskNotifyIndexed", "xTaskNotifyAndQueryIndexed", "xTaskNotifyStateClearIndexed",
    "ulTaskNotifyValueClearIndexed", "WaitBitsSnapshot", "SyncWait", "xEventGroupSync",
    "xEventGroupWaitBits", "MessagePut", "MessageSent", "MessageGot", "MessageGotFromISR",
    "xMessageBufferSend", "xMessageBufferSendFromISR", "xStreamBufferSetTriggerLevel",
    "FlagsResult", "osThreadGetState", "osThreadSetPriority", "osThreadGetPriority",
    "osThreadResume", "osThreadTerminate", "osThreadDetach", "osThreadJoin", "JoinWait",
    "osThreadFlagsSet", "osEventFlagsSet", "osMutexGetOwner", "osSemaphoreGetCount",
    "osMemoryPoolGetCount", "osMemoryPoolGetSpace", "osMessageQueueGetCount",
    "osMessageQueueGetSpace", "osKernelLock", "osKernelUnlock", "osKernelRestoreLock",
    "stk_sem_get_count", "stk_pipe_get", "stk_msgq_get_count", "stk_blockpool_create",
    "stk_blockpool_create_static", "stk_blockpool_destroy", "stk_blockpool_get", "stk_task_create",
    "stk_task_destroy", "stk_task_set_weight", "stk_kernel_resume_task", "stk_sleep_until",
    "stk_timer_create", "stk_timer_destroy", "stk_timer_is_active", "CvWait", "CvResult",
    "CvNotifyOne", "stk_periodic_trigger_set_period", "stk_periodic_trigger_restart",
    "stk_periodic_trigger_poll", "TimerStart", "TimerStop", "TimerReset", "TimerSetPeriod",
    "PushRearm", "PushDone", "xTimerStop", "xTimerStopFromISR", "xTimerChangePeriod",
    "xTimerChangePeriodFromISR", "xTimerGetExpiryTime", "xTimerDelete", "TimerDeleted",
    "TimerDestroy", "EnsurePendDrainer", "KickPendDrainerFromISR", "Pended", "osTimerStop",
    "osTimerIsRunning", "osTimerDelete", "xQueueIsQueueEmptyFromISR", "xQueueIsQueueFullFromISR",
    "xQueueGetMutexHolder", "xQueueGetMutexHolderFromISR", "xStreamBufferBytesAvailable",
    "xStreamBufferSpacesAvailable", "xStreamBufferIsEmpty", "xStreamBufferIsFull",
    "xStreamBufferGetTriggerLevel", "xStreamBufferNextMessageLengthBytes", "xMessageBufferIsEmpty",
    "xMessageBufferIsFull", "xMessageBufferSpacesAvailable", "xTimerIsTimerActive",
    "xTimerGetPeriod", "pvTimerGetTimerID", "vTimerSetTimerID",
    "SwrrAddTask", "SwrrRemoveTask", "OnTaskSleep", "OnTaskWake", "GetNext", "SwrrGetFirst",
    "MonoAddTask", "MonoRemoveTask", "MonoGetNext", "MonoGetFirst", "IsSchedulableWCRT",
    "xPortGetFreeHeapSize", "xPortGetMinimumEverFreeHeapSize", "vPortGetHeapStats"} \cup CreateOps \cup DeleteOps

-----------------------------------------------------------------------------
(* The native objects *)
EventCalls ==
    Roles(Calls("EventWait", {0}, {0, 1, INF}), Calls("EventWait", {0}, {1, INF}),
          Do({"EventSet", "EventReset", "EventPulse"}))

(* Hard real-time tasks with periods up to 4 *)
Timings ==
    {[id |-> k[1], period |-> k[2], deadline |-> d] :
        k \in {<<t1, 2>>, <<t1, 3>>, <<t2, 3>>, <<t2, 4>>, <<t3, 2>>, <<t3, 3>>, <<t3, 4>>}, d \in 1..3}
HrtCalls ==
    Roles(Calls("MonoAddTask", Timings, {0}) \cup Calls("MonoRemoveTask", Timings, {0})
            \cup Calls("MonoGetNext", {{}, {1}, 1..3}, {0}) \cup Do({"MonoGetFirst", "IsSchedulableWCRT"}), {}, {})

StrategyScenarios == [
  rate_monotonic |-> Scenario(One(MonotonicObject("MSS_TYPE_RATE")), HrtCalls),
  deadline_monotonic |-> Scenario(One(MonotonicObject("MSS_TYPE_DEADLINE")), HrtCalls),
  weights |-> Scenario(One(SwrrObject(t1 :> 1 @@ t2 :> 1 @@ t3 :> 2)),
    Roles(Calls("SwrrAddTask", Three, {0}) \cup Calls("SwrrRemoveTask", Three, {0})
            \cup Calls("OnTaskSleep", Three, {0}) \cup Calls("OnTaskWake", Three, {0})
            \cup Do({"GetNext", "SwrrGetFirst"}), {}, {})) ]

NativeScenarios == [
  tokens |-> Scenario(One(SemaphoreObject(1, 3)),
    Same3(Calls("SemaphoreWait", {"own"}, {0, 1, INF}) \cup Calls("SemaphoreSignal", {"own"}, {0}))),
  signals |-> Scenario(One(SemaphoreObject(0, 2)),
    Roles(Calls("SemaphoreWait", {"any"}, {0, 1, INF}), Calls("SemaphoreWait", {"any"}, {1, INF}),
          Calls("SemaphoreSignal", {"any"}, {0}))),
  auto |-> Scenario(One(EventObject(FALSE, FALSE)), EventCalls),
  manual |-> Scenario(One(EventObject(TRUE, FALSE)), EventCalls),
  mutex |-> Scenario(One(MutexObject),
    Same3(Calls("MutexLock", {0}, {0, 1, INF}) \cup Do({"MutexUnlock"}))),
  flags |-> Until(5, One(EventFlagsObject({})),
    Roles(Calls("EventFlagsWait", {Mask({1, 2}, {"all"}), Mask({}, {})}, {2}),
          Calls("EventFlagsWait", {Mask({1, 2}, {})}, {2})
            \cup Calls("EventFlagsWait", {Mask({2}, {"no clear"})}, {0}),
          Calls("EventFlagsSet", {{1}, {2}, {1, ERROR_BIT}}, {0})
            \cup Calls("EventFlagsClear", {{2}, {}}, {0}) \cup Do({"EventFlagsGet"}))),
  queue |-> Scenario(One(RingObject("queue", 2)),
    Roles(Calls("MessageQueuePut", {v1}, {1, INF}) \cup Do({"MessageQueueReset"}),
          Calls("MessageQueuePutFront", {v2}, {0, INF}) \cup Calls("MessageQueueGet", {0}, {INF}),
          Calls("MessageQueueGet", {0}, {1, INF}) \cup Do({"MessageQueuePeek"}))),
  peek |-> Scenario(One(RingObject("queue", 1)),
    Roles(Calls("MessageQueuePut", {v1, v2}, {0, 1, INF}),
          Calls("MessageQueuePeek", {0}, {1, INF}), Do({"MessageQueueGet"}))),
  bulk |-> Until(5, One(PipeObject(1)),
    Roles(Calls("PipeWriteBulk", {<<v1, v2>>}, {2}), Calls("PipeReadBulk", {2}, {2}), {})),
  readers |-> Scenario(One(PipeObject(2)),
    Roles(Calls("PipeWriteBulk", {<<v1, v2>>}, {INF}),
          Calls("PipeRead", {0}, {1, INF}),
          Calls("PipeReadBulk", {2}, {INF}) \cup Do({"PipeReset"}))),
  typed |-> Scenario(One(PipeObject(1)),
    Roles(Calls("PipeTWriteBulk", {<<v1, v2>>, <<>>}, {0, INF}),
          Calls("PipeTReadBulk", {0, 2}, {0, INF}) \cup Calls("PipeTRead", {0}, {1}),
          Do({"PipeTReset"}) \cup Calls("PipeTWrite", {v2}, {0}))),
  trigger |-> Scenario(One(PipeObject(2)),
    Roles(Calls("PipeWrite", {v1}, {0, INF}),
          Calls("PipeReadTriggered", {[trigger |-> 2, max_count |-> 2],
                 [trigger |-> 0, max_count |-> 1], [trigger |-> 1, max_count |-> 0]}, {2}),
          Calls("PipeWriteBulk", {<<v2, v2>>}, {0}))),
  spin |-> Scenario(One(SpinObject), Same3(Do({"SpinLockLock", "SpinLockTryLock", "SpinLockUnlock"}))),
  pool |-> Scenario(One(PoolObject(3, 2)),
    Same3(Calls("PoolAlloc", {0}, {0, 1, INF}) \cup Calls("PoolFree", 0..2, {0}))) ]

-----------------------------------------------------------------------------
(* FreeRTOS.  Create(op, o, xs) makes o, Delete(op, o, kinds) deletes it *)
Create(op, o, xs) == CallsOn(o, op, xs, {NO_WAIT})
Delete(op, o, kinds) == CallsOn(o, op, kinds, {NO_WAIT})
Creates1(ops, o, xs) == UNION {Create(op, o, xs) : op \in ops}

Lengths == {[length |-> 1, size |-> 1], [length |-> 0, size |-> 1]}
Sizes == {[size |-> 1, trigger |-> 1], [size |-> 0, trigger |-> 1]}
Counts == {[max |-> 1, initial |-> 1], [max |-> 0, initial |-> 0]}
Message == {[max |-> 1, count |-> 1, pool |-> "b", eq |-> "c"],
            [max |-> 0, count |-> 1, pool |-> "b", eq |-> "c"]}
Periods == {[period |-> 1, reload |-> TRUE], [period |-> 0, reload |-> TRUE]}
Runs3 == {[task |-> t3, priority |-> 5]}

Nothing == NoObject
InUse(n) == Allocated(HeapObject(n), n)
Owns(object) == object @@ [owned |-> 0]

FrtosHeapScenarios == [
  frtos_heap |-> Scenario([heap |-> HeapObject(3), a |-> Nothing, b |-> Nothing],
    Roles(Creates1({"xQueueCreate", "xQueueCreateStatic", "xQueueCreateSet"}, "a", Lengths)
            \cup Delete("vQueueDelete", "a", {"queue", "set"})
            \cup Creates1({"xTaskCreate", "xTaskCreateStatic", "xTaskCreateRestricted",
                           "xTaskCreateRestrictedStatic"}, "a", Runs3)
            \cup Delete("vTaskDelete", "a", {"task"})
            \cup Creates1({"xEventGroupCreate", "xEventGroupCreateStatic"}, "a", {0})
            \cup Delete("vEventGroupDelete", "a", {"flags"}),
          Creates1({"xSemaphoreCreateBinary", "xSemaphoreCreateBinaryStatic",
                    "xSemaphoreCreateMutex", "xSemaphoreCreateMutexStatic",
                    "xSemaphoreCreateRecursiveMutex", "xSemaphoreCreateRecursiveMutexStatic"},
                   "b", {0})
            \cup Creates1({"xSemaphoreCreateCounting", "xSemaphoreCreateCountingStatic"}, "b", Counts)
            \cup Delete("vSemaphoreDelete", "b", {"semaphore", "mutex"})
            \cup Creates1({"xStreamBufferCreate", "xStreamBufferCreateStatic",
                           "xStreamBufferCreateWithCallback",
                           "xStreamBufferCreateStaticWithCallback"}, "b", Sizes)
            \cup Delete("vStreamBufferDelete", "b", {"pipe"})
            \cup Create("pvPortMalloc", "b", {0, 1}) \cup Delete("vPortFree", "b", {"memory"}),
          DoOn("heap", {"xPortGetFreeHeapSize", "xPortGetMinimumEverFreeHeapSize",
                        "vPortGetHeapStats"}))),
  frtos_heap_buffers |-> Scenario([heap |-> HeapObject(3), commands |-> PipeObject(1),
      a |-> Nothing, b |-> Nothing, c |-> Nothing, tmr |-> Nothing],
    Roles(Creates1({"xMessageBufferCreate", "xMessageBufferCreateWithCallback",
                    "xMessageBufferCreateStatic", "xMessageBufferCreateStaticWithCallback"},
                   "a", Message)
            \cup Delete("vMessageBufferDelete", "a", {"messages"}),
          Creates1({"xTimerCreate", "xTimerCreateStatic"}, "tmr", Periods)
            \cup Delete("xTimerDelete", "tmr", {"timer"}),
          CallsOn("tmr", "vTimerSetTimerID", {v1}, {0}) \cup DoOn("tmr", {"pvTimerGetTimerID"}))) ]

FrtosQueueScenarios == [
  frtos_queue |-> Scenario(One(FrtosQueue(1)),
    Roles(Calls("xQueueSend", {v1}, {1, DELAY}) \cup Calls("xQueueSendToFront", {v1}, {1})
            \cup Calls("xQueueSendFromISR", {v1}, {0}) \cup Calls("xQueueSendToFrontFromISR", {v1}, {0}),
          Calls("xQueueReceive", {0}, {1, DELAY}) \cup Calls("xQueuePeek", {0}, {1})
            \cup Do({"xQueuePeekFromISR"}),
          Calls("xQueueOverwrite", {v2}, {0}) \cup Calls("xQueueOverwriteFromISR", {v2}, {0})
            \cup Do({"xQueueReset", "uxQueueMessagesWaiting", "uxQueueSpacesAvailable",
                     "xQueueReceiveFromISR", "xQueueIsQueueEmptyFromISR", "xQueueIsQueueFullFromISR"}))),
  frtos_set |-> Scenario([a |-> [FrtosQueue(1) EXCEPT !.m_set = "c"],
      b |-> [FrtosSemaphore(0, 2) EXCEPT !.m_set = "c"], c |-> FrtosQueueSet(3)],
    Roles(Calls("xQueueSend", {v1}, {0, 1}),
          CallsOn("b", "xSemaphoreGive", {"any"}, {0}),
          CallsOn("c", "xQueueSelectFromSet", {0}, {1, DELAY})
            \cup DoOn("c", {"xQueueSelectFromSetFromISR"}) \cup Do({"xQueueReceiveFromISR"})
            \cup CallsOn("b", "xSemaphoreTakeFromISR", {"any"}, {0})
            \cup Calls("xQueueAddToSet", {"c"}, {0}) \cup Calls("xQueueRemoveFromSet", {"c"}, {0}))),
  frtos_semaphore |-> Scenario(One(FrtosSemaphore(1, 2)),
    Roles(Calls("xSemaphoreTake", {"own"}, {0, 1, DELAY}) \cup Calls("xSemaphoreGive", {"own"}, {0}),
          Calls("xSemaphoreTake", {"own"}, {DELAY}) \cup Calls("xSemaphoreTakeFromISR", {"own"}, {0})
            \cup Calls("xSemaphoreGiveFromISR", {"own"}, {0}),
          Do({"uxSemaphoreGetCount", "xSemaphoreGetMutexHolder", "xSemaphoreGetMutexHolderFromISR",
              "xQueueGetMutexHolder", "xQueueGetMutexHolderFromISR"}))),
  frtos_mutex |-> Scenario(One(MutexObject),
    Roles(Calls("xSemaphoreTake", {"any"}, {0, 1, DELAY}) \cup Calls("xSemaphoreGive", {"any"}, {0}),
          Calls("xSemaphoreTake", {"any"}, {1, DELAY}) \cup Calls("xSemaphoreGive", {"any"}, {0}),
          Calls("xSemaphoreTakeFromISR", {"any"}, {0}) \cup Calls("xSemaphoreGiveFromISR", {"any"}, {0})
            \cup Do({"uxSemaphoreGetCount", "xSemaphoreGetMutexHolder",
                     "xSemaphoreGetMutexHolderFromISR", "xQueueGetMutexHolder",
                     "xQueueGetMutexHolderFromISR"}))) ]

Action(a) == [value |-> 1, action |-> a]
Actions == {"eNoAction", "eSetBits", "eIncrement", "eSetValueWithOverwrite",
            "eSetValueWithoutOverwrite"}
Wanted(bits, all) == [bits |-> bits, clear |-> TRUE, all |-> all]
Rendezvous(set, bits) == [set |-> set, bits |-> bits]

FrtosTaskScenarios == [
  notify_wait |-> Scenario(One(NotifySlot),
    Roles(Calls("xTaskNotifyWaitIndexed", {[entry |-> 0, exit |-> 3]}, {1, DELAY})
            \cup Calls("xTaskNotifyWait", {[entry |-> 0, exit |-> 3]}, {0}),
          Calls("xTaskNotifyIndexed", {Action(a) : a \in Actions}, {0}),
          Calls("xTaskNotifyAndQueryIndexed",
                {Action("eSetBits"), Action("eSetValueWithoutOverwrite")}, {0}))),
  notify_zero |-> Scenario(One(NotifySlot),
    Roles(Calls("xTaskNotifyWait", {[entry |-> 0, exit |-> 3]}, {1, DELAY}),
          UNION {Calls(op, {Action("eSetBits")}, {0}) :
                   op \in {"xTaskNotify", "xTaskNotifyFromISR", "xTaskNotifyFromISRIndexed"}},
          UNION {Calls(op, {Action("eSetValueWithoutOverwrite")}, {0}) :
                   op \in {"xTaskNotifyAndQuery", "xTaskNotifyAndQueryFromISR",
                           "xTaskNotifyAndQueryFromISRIndexed"}})),
  notify_take |-> Scenario(One(NotifySlot),
    Roles(Calls("ulTaskNotifyTakeIndexed", {[clear |-> TRUE], [clear |-> FALSE]}, {0, 1, DELAY})
            \cup Calls("ulTaskNotifyTake", {[clear |-> TRUE]}, {DELAY}),
          Do({"xTaskNotifyGiveIndexed", "xTaskNotifyGive"})
            \cup Calls("xTaskNotifyIndexed", {Action("eIncrement")}, {0}),
          Do({"xTaskNotifyStateClearIndexed", "xTaskNotifyStateClear"})
            \cup Calls("ulTaskNotifyValueClearIndexed", {1}, {0})
            \cup Calls("ulTaskNotifyValueClear", {1}, {0}))),
  frtos_events |-> Scenario(One(EventFlagsObject({})),
    Roles(Calls("xEventGroupWaitBits", {Wanted({1, 2}, FALSE), Wanted({1, 2}, TRUE), Wanted({}, TRUE)},
                {1, DELAY}),
          Calls("xEventGroupSync", {Rendezvous({1}, {1, 2}), Rendezvous({}, {1}), Rendezvous({1}, {}),
                Rendezvous({ERROR_BIT}, {1})}, {1, DELAY}),
          Calls("xEventGroupSetBits", {{1}}, {0}) \cup Calls("xEventGroupSetBitsFromISR", {{2}}, {0})
            \cup Calls("xEventGroupClearBits", {{1}}, {0})
            \cup Calls("xEventGroupClearBitsFromISR", {{2}}, {0}) \cup Do({"xEventGroupGetBits"}))),
  frtos_tasks |-> Scenario(One(FrtosTask([task |-> t1, priority |-> 1])),
    Roles(Do({"vTaskSuspend"}) \cup Calls("vTaskDelay", {0}, {0, 1, DELAY})
            \cup Calls("xTaskDelayUntil", {0}, {0, 2}),
          Do({"vTaskSuspend", "vTaskResume", "xTaskAbortDelay"}),
          Do({"xTaskResumeFromISR", "uxTaskPriorityGet", "eTaskGetState",
              "pvTaskGetThreadLocalStoragePointer"})
            \cup Calls("vTaskPrioritySet", {0, 5}, {0})
            \cup Calls("vTaskSetThreadLocalStoragePointer", {v1}, {0}))) ]

FrtosBufferScenarios == [
  frtos_stream |-> Scenario(One(FrtosStreamBuffer([size |-> 2, trigger |-> 2])),
    Roles(Calls("xStreamBufferSend", {<<v1, v1>>}, {DELAY}),
          Calls("xStreamBufferReceive", {0, 2}, {DELAY}),
          Calls("xStreamBufferSendFromISR", {<<v1>>}, {0}) \cup Calls("xStreamBufferReceiveFromISR", {1}, {0})
            \cup Do({"xStreamBufferReset", "xStreamBufferBytesAvailable",
                     "xStreamBufferSpacesAvailable", "xStreamBufferIsEmpty", "xStreamBufferIsFull",
                     "xStreamBufferGetTriggerLevel", "xStreamBufferNextMessageLengthBytes"})
            \cup Calls("xStreamBufferSetTriggerLevel", {1, 3}, {0}))),
  frtos_stream_reset |-> Scenario(One(FrtosStreamBuffer([size |-> 1, trigger |-> 1])),
    Roles(Calls("xStreamBufferSend", {<<v1, v1>>}, {1}), Calls("xStreamBufferReceive", {1}, {1}),
          Do({"xStreamBufferResetFromISR"}))),
  frtos_messages |-> Scenario([a |-> [kind |-> "messages", m_pool |-> "b", m_eq |-> "c",
                                      m_max_msg_size |-> 2],
      b |-> PoolObject(2, 2), c |-> RingObject("envelopes", 2)],
    Roles(Calls("xMessageBufferSend", {2}, {1}) \cup Calls("xMessageBufferSend", {3}, {DELAY}),
          Calls("xMessageBufferReceive", {1, 2}, {1}) \cup Do({"xMessageBufferReset"}),
          Calls("xMessageBufferSendFromISR", {1}, {0}) \cup Calls("xMessageBufferReceiveFromISR", {1}, {0})
            \cup Do({"xMessageBufferResetFromISR", "xMessageBufferNextLengthBytes",
                     "xMessageBufferIsEmpty", "xMessageBufferIsFull",
                     "xMessageBufferSpacesAvailable"}))) ]

-----------------------------------------------------------------------------
(* The timer host: t2 is the tick task, t3 a handler *)
Host == [host |-> HostObject(1), commands |-> PipeObject(1), ready |-> PipeObject(1)]
HostRuns(S) == Roles(S, DoOn("host", {"UpdateTime"}), DoOn("host", {"ProcessTimers"}))

Times(d, p) == [delay |-> d, period |-> p]

TimerScenarios == [
  timer_start |-> Until(2, Host @@ One(TimerObject(NULL)),
    HostRuns(Calls("TimerStart", {Times(1, 1)}, {0})
               \cup Calls("TimerStop", {Times(0, 0)}, {0}))),
  timer_period |-> Until(1, Host @@ One(TimerObject(NULL)),
    HostRuns(Calls("TimerStart", {Times(0, 1)}, {0})
               \cup Calls("TimerReset", {Times(0, 0)}, {0})
               \cup Calls("TimerSetPeriod", {Times(0, 2)}, {0}))),
  timer_restart |-> Until(1, Host @@ One(TimerObject(NULL)),
    HostRuns(Calls("TimerRestart", {Times(1, 1)}, {0})
               \cup Calls("Shutdown", {Times(0, 0)}, {0}))),
  timer_two |-> Until(1, Host @@ [a |-> TimerObject(NULL), b |-> TimerObject(NULL)],
    HostRuns(Calls("TimerStart", {Times(0, 0)}, {0})
               \cup CallsOn("b", "TimerStart", {Times(0, 1)}, {0}))),
  timer_rearm |-> Until(1, Host @@ One(TimerObject(NULL)),
    HostRuns(Calls("TimerStartOrReset", {Times(1, 0), Times(0, 1)}, {0}))) ]

FrtosTimerScenarios == [
  timer_frtos |-> Until(1, Host @@ [heap |-> InUse(1),
      a |-> FrtosTimer([period |-> 1, reload |-> FALSE]) @@ [owned |-> 1]],
    HostRuns(Do({"xTimerStart", "xTimerStop", "xTimerReset", "xTimerStartFromISR", "xTimerStopFromISR",
                "xTimerResetFromISR", "xTimerGetExpiryTime", "xTimerIsTimerActive", "xTimerGetPeriod"})
               \cup Delete("xTimerDelete", "a", {"timer"})
               \cup Calls("xTimerChangePeriod", {0, 1}, {0})
               \cup Calls("xTimerChangePeriodFromISR", {0, 1}, {0}))),
  timer_pend |-> Until(1, Host @@ [drainer |-> Nothing, pend |-> PipeObject(1)],
    HostRuns(CallsOn("pend", "xTimerPendFunctionCall", {v1}, {0})
               \cup CallsOn("pend", "xTimerPendFunctionCallFromISR", {v2}, {0}))) ]

-----------------------------------------------------------------------------
(* CMSIS-RTOS2: t3 runs the thread that osThreadNew makes, t1 the thread "a" *)
Thread(p) == [task |-> t3, priority |-> p, joinable |-> TRUE, regions |-> 2]
Storage(n) == [count |-> n, size |-> 1, regions |-> 2]

CmsisMakes(o) ==
    Create("osThreadNew", o, {Thread(24), Thread(0)})
      \cup Create("osEventFlagsNew", o, {[regions |-> 1]})
      \cup Create("osTimerNew", o, {[periodic |-> TRUE, regions |-> 1]})
      \cup Create("osMutexNew", o, {[robust |-> FALSE, regions |-> 0], [robust |-> TRUE, regions |-> 0]})
      \cup Create("osSemaphoreNew", o, {[max |-> 1, initial |-> 1, regions |-> 1],
                                        [max |-> 0, initial |-> 0, regions |-> 1]})
      \cup Creates1({"osMemoryPoolNew", "osMessageQueueNew"}, o, {Storage(1), Storage(0)})
      \cup Delete("osEventFlagsDelete", o, {"flags"}) \cup Delete("osTimerDelete", o, {"timer"})
      \cup Delete("osMutexDelete", o, {"mutex"}) \cup Delete("osSemaphoreDelete", o, {"semaphore"})
      \cup Delete("osMemoryPoolDelete", o, {"pool"}) \cup Delete("osMessageQueueDelete", o, {"queue"})

ThreadA == StkThread([task |-> t1, priority |-> 24, joinable |-> TRUE]) @@ [owned |-> 2]

CmsisScenarios == [
  timer_cmsis |-> Until(1, Host @@ [heap |-> InUse(1),
      a |-> StkTimer([periodic |-> TRUE]) @@ [owned |-> 1]],
    HostRuns(Calls("osTimerStart", {1}, {0}) \cup Do({"osTimerStop", "osTimerIsRunning"})
               \cup Delete("osTimerDelete", "a", {"timer"}))),
  cmsis_heap |-> Scenario([heap |-> HeapObject(3), commands |-> PipeObject(1),
                           a |-> Nothing, b |-> Nothing],
    Roles(CmsisMakes("a"), CmsisMakes("b"), {})),
  cmsis_join |-> Scenario([heap |-> InUse(2), a |-> ThreadA],
    Roles(Do({"osThreadExit", "osThreadJoin"}), Do({"osThreadJoin"}),
          Do({"osThreadJoin", "osThreadDetach"}))),
  cmsis_threads |-> Scenario(One(ThreadA),
    Roles(Calls("osThreadFlagsWait", {Mask({1}, {})}, {1, DELAY})
            \cup Calls("osDelay", {0}, {0, 1, DELAY}) \cup Calls("osDelayUntil", {0}, {0, 2})
            \cup Do({"osThreadSuspend"}),
          Calls("osThreadFlagsSet", {{1}, {ERROR_BIT}}, {0}) \cup Calls("osThreadFlagsClear", {{1}}, {0})
            \cup Do({"osThreadFlagsGet", "osThreadSuspend", "osThreadResume"}),
          Calls("osThreadSetPriority", {0, 40}, {0})
            \cup Do({"osThreadGetPriority", "osThreadGetState", "osThreadTerminate"}))),
  cmsis_lock |-> Scenario([a |-> KernelLock, b |-> SemaphoreObject(0, 1)],
    Roles(Do({"osKernelLock", "osKernelUnlock"}) \cup CallsOn("b", "osSemaphoreRelease", {"any"}, {0}),
          CallsOn("b", "osSemaphoreAcquire", {"any"}, {1, DELAY}),
          Calls("osKernelRestoreLock", {0, 1}, {0}))),
  cmsis_flags |-> Scenario(One(EventFlagsObject({})),
    Roles(Calls("osEventFlagsWait", {Mask({1, 2}, {"osFlagsWaitAll"})}, {1, DELAY}),
          Calls("osEventFlagsWait", {Mask({2}, {})}, {0, DELAY})
            \cup Calls("osEventFlagsWait", {Mask({2}, {"osFlagsNoClear"})}, {0}),
          Calls("osEventFlagsSet", {{1}, {2}, {ERROR_BIT}}, {0})
            \cup Calls("osEventFlagsClear", {{1}}, {0}) \cup Do({"osEventFlagsGet"}))),
  cmsis_mutex |-> Scenario(One(MutexObject),
    Roles(Calls("osMutexAcquire", {0}, {0, 1}) \cup Do({"osMutexRelease"}),
          Calls("osMutexAcquire", {0}, {DELAY}) \cup Do({"osMutexRelease"}), Do({"osMutexGetOwner"}))),
  cmsis_semaphore |-> Scenario(One(SemaphoreObject(1, 1)),
    Roles(Calls("osSemaphoreAcquire", {"own"}, {0, 1}) \cup Calls("osSemaphoreRelease", {"own"}, {0}),
          Calls("osSemaphoreAcquire", {"own"}, {DELAY}) \cup Calls("osSemaphoreRelease", {"own"}, {0}),
          Do({"osSemaphoreGetCount"}))),
  cmsis_pool |-> Scenario(One(PoolObject(1, 1)),
    Roles(Calls("osMemoryPoolAlloc", {0}, {0, 1}) \cup Calls("osMemoryPoolFree", {0}, {0}),
          Calls("osMemoryPoolAlloc", {0}, {DELAY}) \cup Calls("osMemoryPoolFree", {0}, {0}),
          Do({"osMemoryPoolGetCount", "osMemoryPoolGetSpace"}))),
  cmsis_queue |-> Scenario(One(RingObject("queue", 1)),
    Roles(Calls("osMessageQueuePut", {v1, v2}, {0, 1}), Calls("osMessageQueueGet", {0}, {0, DELAY}),
          Do({"osMessageQueueGetCount", "osMessageQueueGetSpace", "osMessageQueueReset"}))) ]

-----------------------------------------------------------------------------
(* The C interface.  "table" is the table of slots *)
Making(fits) == [fits |-> fits, manual_reset |-> TRUE, initial |-> 0, max |-> 0,
                 initial_flags |-> {}, capacity |-> 1, period |-> 1, started |-> TRUE]

CObjects ==
    UNION {Creates1({f[1]}, "a", {Making(TRUE), Making(FALSE)}) \cup Delete(f[2], "a", {f[3]}) :
        f \in {<<"stk_mutex_create", "stk_mutex_destroy", "mutex">>,
               <<"stk_spinlock_create", "stk_spinlock_destroy", "spin">>,
               <<"stk_cv_create", "stk_cv_destroy", "cv">>,
               <<"stk_event_create", "stk_event_destroy", "event">>,
               <<"stk_sem_create", "stk_sem_destroy", "semaphore">>,
               <<"stk_ef_create", "stk_ef_destroy", "flags">>,
               <<"stk_pipe_create", "stk_pipe_destroy", "pipe">>,
               <<"stk_msgq_create", "stk_msgq_destroy", "queue">>,
               <<"stk_periodic_trigger_create", "stk_periodic_trigger_destroy", "trigger">>}}

Table == [kind |-> "table"]
Trigger == TriggerObject(1)

LocksB == CallsOn("b", "stk_mutex_lock", {0}, {0}) \cup CallsOn("b", "stk_mutex_unlock", {0}, {0})

CScenarios == [
  timer_c |-> Until(1, Host @@ [a |-> CTimerWrapper(FALSE)],
    HostRuns(CallsOn("host", "stk_timer_create", {[slots |-> <<"a">>]}, {0})
               \cup Do({"stk_timer_destroy", "stk_timer_is_active"})
               \cup Calls("stk_timer_start", {Times(1, 0)}, {0})
               \cup Calls("stk_timer_stop", {Times(0, 0)}, {0}))),
  c_objects |-> Scenario([a |-> Nothing], Roles(CObjects, {}, {})),
  c_mutex |-> Scenario(One(MutexObject),
    Roles(Do({"stk_mutex_lock", "stk_mutex_unlock"}),
          Calls("stk_mutex_timed_lock", {0}, {1}) \cup Do({"stk_mutex_unlock"}),
          Do({"stk_mutex_trylock", "stk_mutex_unlock"}))),
  c_spin |-> Scenario(One(SpinObject),
    Same3(Do({"stk_spinlock_lock", "stk_spinlock_trylock", "stk_spinlock_unlock"}))),
  c_cv |-> Scenario([a |-> CvObject, b |-> MutexObject],
    Roles(LocksB \cup Calls("stk_cv_wait", {"b"}, {0, 1}), LocksB \cup Calls("stk_cv_wait", {"b"}, {INF}),
          Do({"stk_cv_notify_one", "stk_cv_notify_all"}))),
  c_event |-> Scenario(One(EventObject(FALSE, FALSE)),
    Roles(Calls("stk_event_wait", {0}, {1, INF}), Do({"stk_event_trywait"}),
          Do({"stk_event_set", "stk_event_reset", "stk_event_pulse"}))),
  c_semaphore |-> Scenario(One(SemaphoreObject(1, 1)),
    Roles(Calls("stk_sem_wait", {"own"}, {1, INF}) \cup Calls("stk_sem_signal", {"own"}, {0}),
          Calls("stk_sem_trywait", {"own"}, {0}) \cup Calls("stk_sem_signal", {"own"}, {0}),
          Do({"stk_sem_get_count"}))),
  c_flags |-> Scenario(One(EventFlagsObject({})),
    Roles(Calls("stk_ef_wait", {Mask({1, 2}, {"all"})}, {1, INF}),
          Calls("stk_ef_trywait", {Mask({2}, {})}, {0}),
          Calls("stk_ef_set", {{1}, {2}}, {0}) \cup Calls("stk_ef_clear", {{1}}, {0}) \cup Do({"stk_ef_get"}))),
  c_pipe |-> Scenario(One(PipeObject(1)),
    Roles(Calls("stk_pipe_write", {v1}, {INF}) \cup Calls("stk_pipe_trywrite_bulk", {<<v1, v2>>, <<>>}, {0}),
          Calls("stk_pipe_read", {0}, {1}) \cup Calls("stk_pipe_tryread_bulk", {0, 2}, {0}),
          Do({"stk_pipe_get", "stk_pipe_reset"}))),
  c_queue |-> Scenario(One(RingObject("queue", 1)),
    Roles(Calls("stk_msgq_put", {v1}, {INF}) \cup Calls("stk_msgq_tryputfront", {v2}, {0}),
          Calls("stk_msgq_get", {0}, {1, INF}),
          Do({"stk_msgq_trypeek", "stk_msgq_get_count", "stk_msgq_reset"}))),
  c_pool |-> Scenario([table |-> Table, a |-> Nothing, b |-> Nothing],
    Roles(Do({"stk_blockpool_alloc"}) \cup Calls("stk_blockpool_free", {0}, {0}),
          Calls("stk_blockpool_timed_alloc", {0}, {1}) \cup Do({"stk_blockpool_try_alloc"})
            \cup Calls("stk_blockpool_free", {0}, {0}),
          UNION {CallsOn("table", op, {[slots |-> <<"a", "b">>, capacity |-> 1]}, {0}) :
                   op \in {"stk_blockpool_create", "stk_blockpool_create_static"}}
            \cup CallsOn("table", "stk_blockpool_destroy", {"a", "b"}, {0}) \cup Do({"stk_blockpool_get"}))),
  c_tasks |-> Scenario([table |-> Table, a |-> Nothing],
    Roles(CallsOn("table", "stk_task_create", {[slots |-> <<"a">>, task |-> t2]}, {0})
            \cup CallsOn("table", "stk_task_destroy", {"a"}, {0}) \cup Calls("stk_task_set_weight", {2}, {0})
            \cup Do({"stk_kernel_suspend_task", "stk_kernel_resume_task"}),
          Calls("stk_sleep", {0}, {0, 1}) \cup Calls("stk_sleep_until", {0}, {0, 2}), {})),
  c_trigger |-> Timed([a |-> Trigger, b |-> TaskWrapper([task |-> t2])],
    Roles(Do({"stk_periodic_trigger_restart", "stk_periodic_trigger_poll"})
            \cup Calls("stk_periodic_trigger_set_period", {1, 2}, {0}),
          CallsOn("b", "stk_sleep", {0}, {1}), {})) ]

(* The programs linked with components *)
Linked(uses, scenarios) == [name \in DOMAIN scenarios |-> scenarios[name] @@ [uses |-> uses]]

Sync == {"Semaphore", "EventFlags", "MessageQueue", "Pipe", "BlockMemoryPool",
         "ConditionVariable", "SpinLock"}
Timers == {"Pipe", "TimerHost"}
FreeRTOS == {"Heap", "FreeRTOSQueue", "FreeRTOSTask", "FreeRTOSBuffer", "FreeRTOSTimer"}

AllScenarios ==
    Linked({"SmoothWeighted", "Monotonic"}, StrategyScenarios) @@ Linked(Sync, NativeScenarios)
      @@ Linked(Timers, TimerScenarios)
      @@ Linked(Sync \cup Timers \cup FreeRTOS, FrtosHeapScenarios)
      @@ Linked({"Semaphore", "MessageQueue", "FreeRTOSQueue"}, FrtosQueueScenarios)
      @@ Linked({"Semaphore", "EventFlags", "FreeRTOSTask"}, FrtosTaskScenarios)
      @@ Linked({"Pipe", "BlockMemoryPool", "MessageQueue", "FreeRTOSBuffer"}, FrtosBufferScenarios)
      @@ Linked(Timers \cup {"FreeRTOSTimer"}, FrtosTimerScenarios)
      @@ Linked(Sync \cup Timers \cup {"Cmsis"}, CmsisScenarios)
      @@ Linked(Sync \cup Timers \cup {"CApi"}, CScenarios)

-----------------------------------------------------------------------------
(* A periodic timer that is left alone, and two commands for one that is active *)
PeriodicScenario == Linked(Timers, [
  timer_periodic |-> Until(2^TimeoutBits, Host @@ One(TimerObject(NULL)),
    HostRuns(Calls("TimerStart", {Times(1, 1)}, {0}))) ])

RearmScenario == Linked(Timers, [
  rearm |-> Until(1, Host @@ One(TimerObject(NULL)),
    HostRuns(Calls("TimerStartOrReset", {Times(1, 1)}, {0}))) ])

-----------------------------------------------------------------------------
(* The values of the constants.  TLC evaluates a definition that replaces a constant
   at every use, and a definition it names once *)
MCTasks == Three
MCSyncObjects == Lists
MCUnread == NotLookedAt
MCScenarios == AllScenarios
MCPeriodicScenario == PeriodicScenario
MCRearmScenario == RearmScenario
=============================================================================
