---------------------------- MODULE FreeRTOSTask ----------------------------
(***************************************************************************)
(* The FreeRTOS interface, interop/freertos/src/freertos_stk.cpp: tasks,   *)
(* task notifications and event groups.                                    *)
(***************************************************************************)
EXTENDS FreeRTOSQueue, EventFlags, TaskHandle

CONSTANT configMAX_PRIORITIES

ASSUME PrioritiesAssumption == configMAX_PRIORITIES \in Nat \ {0}

FrtosPrioToStkWeight(p) == Min({p, configMAX_PRIORITIES - 1})

FrtosTask(x) ==
    [kind |-> "task", task |-> x.task, m_state |-> "Ready",
     m_weight |-> FrtosPrioToStkWeight(x.priority), m_tls |-> NULL]

(* x = [task, priority]; the control block and the stack *)
xTaskCreate(t, c) ==
    c.op = "xTaskCreate" /\ Construct(t, c, 2, FrtosTask(c.x))

xTaskCreateStatic(t, c) ==
    c.op = "xTaskCreateStatic" /\ Construct(t, c, 0, FrtosTask(c.x))

(* The regions of the memory protection unit are ignored *)
xTaskCreateRestrictedStatic(t, c) ==
    c.op = "xTaskCreateRestrictedStatic" /\ xTaskCreateStatic(t, Then(c, "xTaskCreateStatic"))

xTaskCreateRestricted(t, c) ==
    c.op = "xTaskCreateRestricted" /\ xTaskCreate(t, Then(c, "xTaskCreate"))

(* ScheduleTaskRemoval and, in the same critical section, ObjFree *)
vTaskDelete(t, c) == c.op = "vTaskDelete" /\ ObjFree(t, c)

-----------------------------------------------------------------------------
(* A task that suspends itself gets to the write of its state when it is awake *)
vTaskSuspend(t, c) ==
    /\ c.op = "vTaskSuspend"
    /\ wait' = Suspends(c.o)
    /\ Goto(t, Then(c, "SuspendState"))
    /\ UNCHANGED <<obj, ret, now>>

SuspendState(t, c) ==
    /\ c.op = "SuspendState"
    /\ Set(c.o, [obj[c.o] EXCEPT !.m_state = "Suspended"])
    /\ Return(t, c, OK) /\ UNCHANGED <<wait, now>>

Resumes(t, c) ==
    IF obj[c.o].m_state = "Suspended"
    THEN /\ wait' = Wakes(c.o)
         /\ Set(c.o, [obj[c.o] EXCEPT !.m_state = "Ready"])
         /\ Return(t, c, OK) /\ UNCHANGED now
    ELSE Refuse(t, c)

vTaskResume(t, c) == c.op = "vTaskResume" /\ Resumes(t, c)

xTaskResumeFromISR(t, c) == c.op = "xTaskResumeFromISR" /\ Resumes(t, c)

xTaskAbortDelay(t, c) ==
    /\ c.op = "xTaskAbortDelay"
    /\ IF obj[c.o].m_state = "Ready"
       THEN wait' = Wakes(c.o) /\ Return(t, c, OK) /\ UNCHANGED <<obj, now>>
       ELSE Refuse(t, c)

vTaskDelay(t, c) ==
    c.op = "vTaskDelay" /\ SleepsFor(t, c, FrtosTimeoutToStk(c.ticks))

(* x is *pxPreviousWakeTime *)
xTaskDelayUntil(t, c) ==
    c.op = "xTaskDelayUntil" /\ SleepsUntil(t, c, c.x + c.ticks)

vTaskPrioritySet(t, c) ==
    /\ c.op = "vTaskPrioritySet"
    /\ Set(c.o, [obj[c.o] EXCEPT !.m_weight = FrtosPrioToStkWeight(c.x)])
    /\ Return(t, c, OK) /\ UNCHANGED <<wait, now>>

uxTaskPriorityGet(t, c) ==
    /\ c.op = "uxTaskPriorityGet"
    /\ Return(t, c, obj[c.o].m_weight) /\ UNCHANGED <<obj, wait, now>>

eTaskGetState(t, c) ==
    /\ c.op = "eTaskGetState"
    /\ Return(t, c, IF obj[c.o].m_state # "Ready" THEN obj[c.o].m_state
                    ELSE IF obj[c.o].task = t THEN "Running" ELSE "Ready")
    /\ UNCHANGED <<obj, wait, now>>

vTaskSetThreadLocalStoragePointer(t, c) ==
    /\ c.op = "vTaskSetThreadLocalStoragePointer"
    /\ Set(c.o, [obj[c.o] EXCEPT !.m_tls = c.x])
    /\ Return(t, c, OK) /\ UNCHANGED <<wait, now>>

pvTaskGetThreadLocalStoragePointer(t, c) ==
    /\ c.op = "pvTaskGetThreadLocalStoragePointer"
    /\ Return(t, c, obj[c.o].m_tls) /\ UNCHANGED <<obj, wait, now>>

TaskCalls(t, c) ==
    \/ xTaskCreateRestricted(t, c) \/ xTaskCreateRestrictedStatic(t, c)
    \/ xTaskCreate(t, c) \/ xTaskCreateStatic(t, c) \/ vTaskDelete(t, c)
    \/ vTaskSuspend(t, c) \/ SuspendState(t, c) \/ vTaskResume(t, c)
    \/ xTaskResumeFromISR(t, c) \/ xTaskAbortDelay(t, c) \/ vTaskDelay(t, c)
    \/ xTaskDelayUntil(t, c) \/ vTaskPrioritySet(t, c)
    \/ uxTaskPriorityGet(t, c) \/ eTaskGetState(t, c)
    \/ vTaskSetThreadLocalStoragePointer(t, c) \/ pvTaskGetThreadLocalStoragePointer(t, c)

-----------------------------------------------------------------------------
(* A notification slot of a task: its value, and the semaphore of maximum 1 its
   task waits on.  The bits of a value are those that are set *)
NotifySlot == [kind |-> "notify", m_count |-> 0, m_count_max |-> 1,
               value |-> 0, pending |-> FALSE]

BitsOf(v) == {i \in 0..v-1 : (v \div 2^i) % 2 = 1}
ValueOf(bits) == MapThenSumSet(LAMBDA i : 2^i, bits)

(* v &= ~b, and v |= b *)
ClearBits(v, b) == ValueOf(BitsOf(v) \ BitsOf(b))
SetBits(v, b) == ValueOf(BitsOf(v) \cup BitsOf(b))

NotifyApplyAction(slot, value, action) ==
    CASE action = "eNoAction" -> slot
      [] action = "eSetBits" -> [slot EXCEPT !.value = SetBits(@, value)]
      [] action = "eIncrement" -> [slot EXCEPT !.value = @ + 1]
      [] action = "eSetValueWithOverwrite" -> [slot EXCEPT !.value = value]
      [] action = "eSetValueWithoutOverwrite" ->
            IF slot.pending THEN slot ELSE [slot EXCEPT !.value = value, !.pending = TRUE]

xTaskNotifyGiveIndexed(t, c) ==
    /\ c.op = "xTaskNotifyGiveIndexed"
    /\ SemaphoreSignal(t, TryNative(c, "SemaphoreSignal"))

(* x = [clear]: pdTRUE clears the value, pdFALSE counts it down *)
ulTaskNotifyTakeIndexed(t, c) ==
    /\ c.op = "ulTaskNotifyTakeIndexed"
    /\ SemaphoreWait(t, Calling(Native(c, "SemaphoreWait"), Then(c, "NotifyTaken")))

NotifyTaken(t, c) ==
    LET v == obj[c.o].value
    IN  /\ c.op = "NotifyTaken"
        /\ IF ret[t] = FAIL
           THEN Return(t, c, 0) /\ UNCHANGED <<obj, wait, now>>
           ELSE /\ Set(c.o, [obj[c.o] EXCEPT !.value = IF c.x.clear THEN 0 ELSE Max({v - 1, 0})])
                /\ Return(t, c, v + 1) /\ UNCHANGED <<wait, now>>

(* x = [value, action]: the action in one critical section, the signal in another *)
xTaskNotifyIndexed(t, c) ==
    /\ c.op = "xTaskNotifyIndexed"
    /\ IF c.x.action = "eSetValueWithoutOverwrite" /\ obj[c.o].pending
       THEN Refuse(t, c)
       ELSE /\ Set(c.o, NotifyApplyAction(obj[c.o], c.x.value, c.x.action))
            /\ Goto(t, TryNative(c, "SemaphoreSignal"))
            /\ UNCHANGED <<wait, ret, now>>

(* x = [entry, exit], the bits to clear *)
xTaskNotifyWaitIndexed(t, c) ==
    /\ c.op = "xTaskNotifyWaitIndexed"
    /\ Set(c.o, [obj[c.o] EXCEPT !.value = ClearBits(@, c.x.entry)])
    /\ Goto(t, Calling(Native(c, "SemaphoreWait"), Then(c, "NotifyWaited")))
    /\ UNCHANGED <<wait, ret, now>>

(* mutant: the value stays after it was delivered *)
NotifyWaitedKeep(t, c) ==
    /\ c.op = "NotifyWaited"
    /\ IF ret[t] = FAIL THEN Refuse(t, c)
       ELSE Return(t, c, obj[c.o].value) /\ UNCHANGED <<obj, wait, now>>

NotifyWaited(t, c) ==
    /\ c.op = "NotifyWaited"
    /\ IF ret[t] = FAIL THEN Refuse(t, c)
       ELSE /\ Set(c.o, [obj[c.o] EXCEPT !.value = ClearBits(@, c.x.exit), !.pending = FALSE])
            /\ Return(t, c, obj[c.o].value) /\ UNCHANGED <<wait, now>>

(* xTaskNotifyIndexed that also tells the value before the action *)
xTaskNotifyAndQueryIndexed(t, c) ==
    /\ c.op = "xTaskNotifyAndQueryIndexed"
    /\ IF c.x.action = "eSetValueWithoutOverwrite" /\ obj[c.o].pending
       THEN Refuse(t, c)
       ELSE /\ Set(c.o, NotifyApplyAction(obj[c.o], c.x.value, c.x.action))
            /\ Goto(t, TryNative(c, "SemaphoreSignal"))
            /\ UNCHANGED <<wait, ret, now>>

xTaskNotifyStateClearIndexed(t, c) ==
    /\ c.op = "xTaskNotifyStateClearIndexed"
    /\ IF obj[c.o].m_count # 0 \/ obj[c.o].pending
       THEN /\ Set(c.o, [obj[c.o] EXCEPT !.m_count = Max({@ - 1, 0}), !.pending = FALSE])
            /\ Return(t, c, OK) /\ UNCHANGED <<wait, now>>
       ELSE Refuse(t, c)

ulTaskNotifyValueClearIndexed(t, c) ==
    /\ c.op = "ulTaskNotifyValueClearIndexed"
    /\ Set(c.o, [obj[c.o] EXCEPT !.value = ClearBits(@, c.x)])
    /\ Return(t, c, obj[c.o].value) /\ UNCHANGED <<wait, now>>

NotifyCalls(t, c) ==
    \/ xTaskNotifyGiveIndexed(t, c) \/ ulTaskNotifyTakeIndexed(t, c) \/ NotifyTaken(t, c)
    \/ xTaskNotifyIndexed(t, c) \/ xTaskNotifyWaitIndexed(t, c) \/ NotifyWaited(t, c)
    \/ xTaskNotifyAndQueryIndexed(t, c) \/ xTaskNotifyStateClearIndexed(t, c)
    \/ ulTaskNotifyValueClearIndexed(t, c)

(* The functions for interrupts, and those without an index, which are for slot 0 *)
xTaskNotifyFromISRIndexed(t, c) ==
    c.op = "xTaskNotifyFromISRIndexed" /\ xTaskNotifyIndexed(t, Then(c, "xTaskNotifyIndexed"))

xTaskNotifyGive(t, c) ==
    c.op = "xTaskNotifyGive" /\ xTaskNotifyGiveIndexed(t, Then(c, "xTaskNotifyGiveIndexed"))

ulTaskNotifyTake(t, c) ==
    c.op = "ulTaskNotifyTake" /\ ulTaskNotifyTakeIndexed(t, Then(c, "ulTaskNotifyTakeIndexed"))

xTaskNotify(t, c) ==
    c.op = "xTaskNotify" /\ xTaskNotifyIndexed(t, Then(c, "xTaskNotifyIndexed"))

xTaskNotifyWait(t, c) ==
    c.op = "xTaskNotifyWait" /\ xTaskNotifyWaitIndexed(t, Then(c, "xTaskNotifyWaitIndexed"))

xTaskNotifyFromISR(t, c) ==
    c.op = "xTaskNotifyFromISR" /\ xTaskNotifyFromISRIndexed(t, Then(c, "xTaskNotifyFromISRIndexed"))

xTaskNotifyAndQuery(t, c) ==
    c.op = "xTaskNotifyAndQuery" /\ xTaskNotifyAndQueryIndexed(t, Then(c, "xTaskNotifyAndQueryIndexed"))

xTaskNotifyAndQueryFromISRIndexed(t, c) ==
    c.op = "xTaskNotifyAndQueryFromISRIndexed" /\ xTaskNotifyAndQueryIndexed(t, Then(c, "xTaskNotifyAndQueryIndexed"))

xTaskNotifyAndQueryFromISR(t, c) ==
    c.op = "xTaskNotifyAndQueryFromISR" /\ xTaskNotifyAndQueryFromISRIndexed(t, Then(c, "xTaskNotifyAndQueryFromISRIndexed"))

xTaskNotifyStateClear(t, c) ==
    c.op = "xTaskNotifyStateClear" /\ xTaskNotifyStateClearIndexed(t, Then(c, "xTaskNotifyStateClearIndexed"))

ulTaskNotifyValueClear(t, c) ==
    c.op = "ulTaskNotifyValueClear" /\ ulTaskNotifyValueClearIndexed(t, Then(c, "ulTaskNotifyValueClearIndexed"))

SlotZeroCalls(t, c) ==
    \/ xTaskNotifyFromISRIndexed(t, c) \/ xTaskNotifyGive(t, c) \/ ulTaskNotifyTake(t, c)
    \/ xTaskNotify(t, c) \/ xTaskNotifyWait(t, c) \/ xTaskNotifyFromISR(t, c)
    \/ xTaskNotifyAndQuery(t, c) \/ xTaskNotifyAndQueryFromISRIndexed(t, c) \/ xTaskNotifyAndQueryFromISR(t, c)
    \/ xTaskNotifyStateClear(t, c) \/ ulTaskNotifyValueClear(t, c)

-----------------------------------------------------------------------------
(* Event groups *)
FrtosEventGroup == EventFlagsObject({})

xEventGroupCreate(t, c) ==
    c.op = "xEventGroupCreate" /\ Construct(t, c, 1, FrtosEventGroup)

xEventGroupCreateStatic(t, c) ==
    c.op = "xEventGroupCreateStatic" /\ Construct(t, c, 0, FrtosEventGroup)

vEventGroupDelete(t, c) == c.op = "vEventGroupDelete" /\ ObjFree(t, c)

xEventGroupSetBits(t, c) ==
    c.op = "xEventGroupSetBits" /\ EventFlagsSet(t, TryNative(c, "EventFlagsSet"))

xEventGroupClearBits(t, c) ==
    c.op = "xEventGroupClearBits" /\ EventFlagsClear(t, TryNative(c, "EventFlagsClear"))

xEventGroupGetBits(t, c) ==
    c.op = "xEventGroupGetBits" /\ EventFlagsGet(t, TryNative(c, "EventFlagsGet"))

(* OPT_WAIT_ALL and OPT_NO_CLEAR; x = [bits, clear, all] *)
BuildStkFlagsOpts(clear, all) ==
    {o \in {"all", "no clear"} : (o = "all" => all) /\ (o = "no clear" => ~clear)}

Bits(x) == [flags |-> x.bits, options |-> BuildStkFlagsOpts(x.clear, x.all)]

xEventGroupWaitBits(t, c) ==
    /\ c.op = "xEventGroupWaitBits"
    /\ IF c.x.bits = {} THEN Refuse(t, c)
       ELSE EventFlagsWait(t, Calling([Native(c, "EventFlagsWait") EXCEPT !.x = Bits(c.x)],
                                      Then(c, "WaitBitsSnapshot")))

(* After a time-out the result is what the bits are by then *)
WaitBitsSnapshot(t, c) ==
    /\ c.op = "WaitBitsSnapshot"
    /\ Return(t, c, IF ERROR_BIT \in ret[t] THEN obj[c.o].m_flags ELSE ret[t])
    /\ UNCHANGED <<obj, wait, now>>

xEventGroupSetBitsFromISR(t, c) ==
    c.op = "xEventGroupSetBitsFromISR" /\ EventFlagsSet(t, TryNative(c, "EventFlagsSet"))

xEventGroupClearBitsFromISR(t, c) ==
    c.op = "xEventGroupClearBitsFromISR" /\ EventFlagsClear(t, TryNative(c, "EventFlagsClear"))

(* x = [set, bits]: Set and, in another critical section, a Wait for all the bits
   that clears them *)
SyncWaitFor(t, c) ==
    EventFlagsWait(t, [Native(c, "EventFlagsWait") EXCEPT
                         !.x = [flags |-> c.x.bits, options |-> {"all"}]])

xEventGroupSync(t, c) ==
    /\ c.op = "xEventGroupSync"
    /\ CASE c.x.bits = {} -> Refuse(t, c)
         [] c.x.bits # {} /\ c.x.set = {} -> SyncWaitFor(t, c)
         [] OTHER -> EventFlagsSet(t, Calling([TryNative(c, "EventFlagsSet") EXCEPT !.x = c.x.set],
                                              Then(c, "SyncWait")))

SyncWait(t, c) ==
    /\ c.op = "SyncWait"
    /\ IF ERROR_BIT \in ret[t] THEN Refuse(t, c) ELSE SyncWaitFor(t, c)

EventGroupCalls(t, c) ==
    \/ xEventGroupCreate(t, c) \/ xEventGroupCreateStatic(t, c) \/ vEventGroupDelete(t, c)
    \/ xEventGroupSetBits(t, c) \/ xEventGroupClearBits(t, c) \/ xEventGroupGetBits(t, c)
    \/ xEventGroupWaitBits(t, c) \/ WaitBitsSnapshot(t, c)
    \/ xEventGroupSetBitsFromISR(t, c) \/ xEventGroupClearBitsFromISR(t, c)
    \/ xEventGroupSync(t, c) \/ SyncWait(t, c)

FreeRTOSTaskStep(t, c) ==
    TaskCalls(t, c) \/ NotifyCalls(t, c) \/ SlotZeroCalls(t, c) \/ EventGroupCalls(t, c)
=============================================================================
