--------------------------- MODULE FreeRTOSQueue ---------------------------
(***************************************************************************)
(* The FreeRTOS interface, interop/freertos/src/freertos_stk.cpp: queues,  *)
(* queue sets and semaphores.  A function that calls a native method takes *)
(* the first step of that method; what it does after the method returned   *)
(* is a frame of its own.                                                  *)
(***************************************************************************)
EXTENDS Semaphore, Pipe, MemoryAllocator

portMAX_DELAY == 2^TimeoutBits - 1

FrtosTimeoutToStk(ticks) ==
    IF ticks = portMAX_DELAY THEN WAIT_INFINITE ELSE AsTimeout(ticks)

(* The native call a function makes on its own object, with its time-out *)
Native(c, op) == [c EXCEPT !.op = op, !.ticks = FrtosTimeoutToStk(@)]
TryNative(c, op) == [c EXCEPT !.op = op, !.ticks = NO_WAIT]

(* The function goes on as op once the native call returned *)
Then(c, op) == [c EXCEPT !.op = op, !.blocked = FALSE]

-----------------------------------------------------------------------------
(* x = [length, size] *)
FrtosQueue(length) == Extended(RingObject("queue", length), [m_set |-> NULL])

xQueueCreate(t, c) ==
    /\ c.op = "xQueueCreate"
    /\ IF c.x.length \in 1..CAPACITY_MAX /\ c.x.size # 0
       THEN Construct(t, c, 2, FrtosQueue(c.x.length))
       ELSE Refuse(t, c)

xQueueCreateStatic(t, c) ==
    /\ c.op = "xQueueCreateStatic"
    /\ IF c.x.length \in 1..CAPACITY_MAX /\ c.x.size # 0
       THEN Construct(t, c, 0, FrtosQueue(c.x.length))
       ELSE Refuse(t, c)

vQueueDelete(t, c) == c.op = "vQueueDelete" /\ ObjFree(t, c)

(* The handle goes into the set of the member o, unless the set is full *)
Notified(o) ==
    IF obj[o].m_set # NULL /\ ~Full(obj[obj[o].m_set])
    THEN /\ Set(obj[o].m_set, Add(obj[obj[o].m_set], o))
         /\ wait' = WakeOne(wait, NotEmpty(obj[o].m_set))
    ELSE UNCHANGED <<obj, wait>>

(* mutant: the set hears of an element that did not go in *)
NotifyAlways(t, c) ==
    c.op = "QueueSetNotify" /\ Notified(c.o) /\ Return(t, c, OK) /\ UNCHANGED now

QueueSetNotify(t, c) ==
    /\ c.op = "QueueSetNotify"
    /\ IF ret[t] = FAIL THEN Refuse(t, c)
       ELSE Notified(c.o) /\ Return(t, c, OK) /\ UNCHANGED now

xQueueSend(t, c) ==
    /\ c.op = "xQueueSend"
    /\ MessageQueuePut(t, Calling(Native(c, "MessageQueuePut"), Then(c, "QueueSetNotify")))

xQueueSendToFront(t, c) ==
    /\ c.op = "xQueueSendToFront"
    /\ MessageQueuePutFront(t, Calling(Native(c, "MessageQueuePutFront"),
                                       Then(c, "QueueSetNotify")))

xQueueReceive(t, c) ==
    c.op = "xQueueReceive" /\ MessageQueueGet(t, Native(c, "MessageQueueGet"))

xQueuePeek(t, c) ==
    c.op = "xQueuePeek" /\ MessageQueuePeek(t, Native(c, "MessageQueuePeek"))

xQueuePeekFromISR(t, c) ==
    c.op = "xQueuePeekFromISR" /\ MessageQueuePeek(t, TryNative(c, "MessageQueuePeek"))

uxQueueMessagesWaiting(t, c) ==
    /\ c.op = "uxQueueMessagesWaiting"
    /\ Return(t, c, obj[c.o].m_count) /\ UNCHANGED <<obj, wait, now>>

uxQueueSpacesAvailable(t, c) ==
    /\ c.op = "uxQueueSpacesAvailable"
    /\ Return(t, c, obj[c.o].m_capacity - obj[c.o].m_count) /\ UNCHANGED <<obj, wait, now>>

xQueueReset(t, c) ==
    c.op = "xQueueReset" /\ MessageQueueReset(t, TryNative(c, "MessageQueueReset"))

(* Overwrite: a reset, a put whose result is not looked at, and the notification *)
xQueueOverwrite(t, c) ==
    /\ c.op = "xQueueOverwrite"
    /\ MessageQueueReset(t, Calling(TryNative(c, "MessageQueueReset"), Then(c, "OverwritePut")))

OverwritePut(t, c) ==
    /\ c.op = "OverwritePut"
    /\ MessageQueuePut(t, Calling(TryNative(c, "MessageQueuePut"), Then(c, "OverwriteNotify")))

OverwriteNotify(t, c) ==
    c.op = "OverwriteNotify" /\ Notified(c.o) /\ Return(t, c, OK) /\ UNCHANGED now

xQueueOverwriteFromISR(t, c) ==
    /\ c.op = "xQueueOverwriteFromISR"
    /\ MessageQueueReset(t, Calling(TryNative(c, "MessageQueueReset"), Then(c, "OverwritePut")))

xQueueSendFromISR(t, c) ==
    /\ c.op = "xQueueSendFromISR"
    /\ MessageQueuePut(t, Calling(TryNative(c, "MessageQueuePut"), Then(c, "QueueSetNotify")))

xQueueReceiveFromISR(t, c) ==
    c.op = "xQueueReceiveFromISR" /\ MessageQueueGet(t, TryNative(c, "MessageQueueGet"))

xQueueSendToFrontFromISR(t, c) ==
    /\ c.op = "xQueueSendToFrontFromISR"
    /\ MessageQueuePutFront(t, Calling(TryNative(c, "MessageQueuePutFront"),
                                       Then(c, "QueueSetNotify")))

xQueueIsQueueEmptyFromISR(t, c) ==
    c.op = "xQueueIsQueueEmptyFromISR" /\ Answers(t, c, Status(Empty(obj[c.o])))

xQueueIsQueueFullFromISR(t, c) ==
    c.op = "xQueueIsQueueFullFromISR" /\ Answers(t, c, Status(Full(obj[c.o])))

QueueCalls(t, c) ==
    \/ xQueueCreate(t, c) \/ xQueueCreateStatic(t, c) \/ vQueueDelete(t, c)
    \/ QueueSetNotify(t, c) \/ xQueueSend(t, c) \/ xQueueSendToFront(t, c)
    \/ xQueueReceive(t, c) \/ xQueuePeek(t, c) \/ xQueuePeekFromISR(t, c)
    \/ uxQueueMessagesWaiting(t, c) \/ uxQueueSpacesAvailable(t, c) \/ xQueueReset(t, c)
    \/ xQueueOverwrite(t, c) \/ OverwritePut(t, c) \/ OverwriteNotify(t, c)
    \/ xQueueOverwriteFromISR(t, c) \/ xQueueSendFromISR(t, c)
    \/ xQueueReceiveFromISR(t, c) \/ xQueueSendToFrontFromISR(t, c)
    \/ xQueueIsQueueEmptyFromISR(t, c) \/ xQueueIsQueueFullFromISR(t, c)

-----------------------------------------------------------------------------
(* A queue set: the queue of the handles of members that have something *)
FrtosQueueSet(length) == RingObject("set", length)

xQueueCreateSet(t, c) ==
    /\ c.op = "xQueueCreateSet"
    /\ IF c.x.length \in 1..CAPACITY_MAX
       THEN Construct(t, c, 3, FrtosQueueSet(c.x.length))
       ELSE Refuse(t, c)

(* x is the set.  A mutex cannot be a member, and a member is empty *)
xQueueAddToSet(t, c) ==
    /\ c.op = "xQueueAddToSet"
    /\ IF obj[c.o].kind # "mutex" /\ obj[c.o].m_set = NULL /\ obj[c.o].m_count = 0
       THEN Set(c.o, [obj[c.o] EXCEPT !.m_set = c.x]) /\ Return(t, c, OK) /\ UNCHANGED <<wait, now>>
       ELSE Refuse(t, c)

xQueueRemoveFromSet(t, c) ==
    /\ c.op = "xQueueRemoveFromSet"
    /\ IF obj[c.o].m_set = c.x /\ obj[c.o].m_count = 0
       THEN Set(c.o, [obj[c.o] EXCEPT !.m_set = NULL]) /\ Return(t, c, OK) /\ UNCHANGED <<wait, now>>
       ELSE Refuse(t, c)

xQueueSelectFromSet(t, c) ==
    c.op = "xQueueSelectFromSet" /\ MessageQueueGet(t, Native(c, "MessageQueueGet"))

xQueueSelectFromSetFromISR(t, c) ==
    c.op = "xQueueSelectFromSetFromISR" /\ MessageQueueGet(t, TryNative(c, "MessageQueueGet"))

QueueSetCalls(t, c) ==
    \/ xQueueCreateSet(t, c) \/ xQueueAddToSet(t, c) \/ xQueueRemoveFromSet(t, c)
    \/ xQueueSelectFromSet(t, c) \/ xQueueSelectFromSetFromISR(t, c)

-----------------------------------------------------------------------------
(* Semaphores and mutexes: a control block and, in the heap also for the static
   ones, the native object.  x = [max, initial] *)
FrtosSemaphore(initial, max) == Extended(SemaphoreObject(initial, max), [m_set |-> NULL])

xSemaphoreCreateBinary(t, c) ==
    c.op = "xSemaphoreCreateBinary" /\ Construct(t, c, 2, FrtosSemaphore(0, 1))

xSemaphoreCreateBinaryStatic(t, c) ==
    c.op = "xSemaphoreCreateBinaryStatic" /\ Construct(t, c, 1, FrtosSemaphore(0, 1))

xSemaphoreCreateCounting(t, c) ==
    /\ c.op = "xSemaphoreCreateCounting"
    /\ IF c.x.max # 0 /\ c.x.initial <= c.x.max
       THEN Construct(t, c, 2, FrtosSemaphore(c.x.initial, Min({c.x.max, COUNT_MAX})))
       ELSE Refuse(t, c)

xSemaphoreCreateCountingStatic(t, c) ==
    /\ c.op = "xSemaphoreCreateCountingStatic"
    /\ IF c.x.max # 0 /\ c.x.initial <= c.x.max
       THEN Construct(t, c, 1, FrtosSemaphore(c.x.initial, Min({c.x.max, COUNT_MAX})))
       ELSE Refuse(t, c)

xSemaphoreCreateMutex(t, c) ==
    c.op = "xSemaphoreCreateMutex" /\ Construct(t, c, 2, MutexObject)

xSemaphoreCreateMutexStatic(t, c) ==
    c.op = "xSemaphoreCreateMutexStatic" /\ Construct(t, c, 1, MutexObject)

(* The native mutex is always recursive *)
xSemaphoreCreateRecursiveMutex(t, c) ==
    /\ c.op = "xSemaphoreCreateRecursiveMutex"
    /\ xSemaphoreCreateMutex(t, Then(c, "xSemaphoreCreateMutex"))

xSemaphoreCreateRecursiveMutexStatic(t, c) ==
    /\ c.op = "xSemaphoreCreateRecursiveMutexStatic"
    /\ xSemaphoreCreateMutexStatic(t, Then(c, "xSemaphoreCreateMutexStatic"))

vSemaphoreDelete(t, c) == c.op = "vSemaphoreDelete" /\ ObjFree(t, c)

xSemaphoreTake(t, c) ==
    /\ c.op = "xSemaphoreTake"
    /\ IF obj[c.o].kind = "mutex" THEN MutexLock(t, Native(c, "MutexLock"))
                                  ELSE SemaphoreWait(t, Native(c, "SemaphoreWait"))

xSemaphoreTakeFromISR(t, c) ==
    /\ c.op = "xSemaphoreTakeFromISR"
    /\ IF obj[c.o].kind = "mutex" THEN Refuse(t, c)
                                  ELSE SemaphoreWait(t, TryNative(c, "SemaphoreWait"))

(* The count is compared with COUNT_MAX before Signal enters its critical section *)
Given(t, c) ==
    IF obj[c.o].m_count >= COUNT_MAX THEN Refuse(t, c)
    ELSE SemaphoreSignal(t, Calling(TryNative(c, "SemaphoreSignal"), Then(c, "QueueSetNotify")))

xSemaphoreGive(t, c) ==
    /\ c.op = "xSemaphoreGive"
    /\ IF obj[c.o].kind = "mutex" THEN MutexUnlock(t, TryNative(c, "MutexUnlock"))
                                  ELSE Given(t, c)

xSemaphoreGiveFromISR(t, c) ==
    /\ c.op = "xSemaphoreGiveFromISR"
    /\ IF obj[c.o].kind = "mutex" THEN Refuse(t, c) ELSE Given(t, c)

uxSemaphoreGetCount(t, c) ==
    /\ c.op = "uxSemaphoreGetCount"
    /\ Return(t, c, IF obj[c.o].kind = "semaphore" THEN obj[c.o].m_count
                    ELSE IF obj[c.o].m_owner_tid = NULL THEN 1 ELSE 0)
    /\ UNCHANGED <<obj, wait, now>>

xSemaphoreGetMutexHolder(t, c) ==
    /\ c.op = "xSemaphoreGetMutexHolder"
    /\ Return(t, c, IF obj[c.o].kind = "mutex" THEN obj[c.o].m_owner_tid ELSE NULL)
    /\ UNCHANGED <<obj, wait, now>>

xSemaphoreGetMutexHolderFromISR(t, c) ==
    /\ c.op = "xSemaphoreGetMutexHolderFromISR"
    /\ Return(t, c, IF obj[c.o].kind = "mutex" THEN obj[c.o].m_owner_tid ELSE NULL)
    /\ UNCHANGED <<obj, wait, now>>

(* What the first byte behind a handle tells *)
GetSemKindFromHandle(o) == IF obj[o].kind \in {"semaphore", "mutex"} THEN obj[o].kind ELSE "none"

QueueHandleAsMutex(o) == GetSemKindFromHandle(o) = "mutex"

xQueueGetMutexHolder(t, c) ==
    /\ c.op = "xQueueGetMutexHolder"
    /\ IF QueueHandleAsMutex(c.o)
       THEN xSemaphoreGetMutexHolder(t, Then(c, "xSemaphoreGetMutexHolder"))
       ELSE Answers(t, c, NULL)

xQueueGetMutexHolderFromISR(t, c) ==
    /\ c.op = "xQueueGetMutexHolderFromISR"
    /\ IF QueueHandleAsMutex(c.o)
       THEN xSemaphoreGetMutexHolderFromISR(t, Then(c, "xSemaphoreGetMutexHolderFromISR"))
       ELSE Answers(t, c, NULL)

SemaphoreCalls(t, c) ==
    \/ xSemaphoreCreateBinary(t, c) \/ xSemaphoreCreateBinaryStatic(t, c)
    \/ xSemaphoreCreateCounting(t, c) \/ xSemaphoreCreateCountingStatic(t, c)
    \/ xSemaphoreCreateMutex(t, c) \/ xSemaphoreCreateMutexStatic(t, c)
    \/ vSemaphoreDelete(t, c) \/ xSemaphoreTake(t, c) \/ xSemaphoreTakeFromISR(t, c)
    \/ xSemaphoreGive(t, c) \/ xSemaphoreGiveFromISR(t, c) \/ uxSemaphoreGetCount(t, c)
    \/ xSemaphoreGetMutexHolder(t, c) \/ xSemaphoreGetMutexHolderFromISR(t, c)
    \/ xSemaphoreCreateRecursiveMutex(t, c) \/ xSemaphoreCreateRecursiveMutexStatic(t, c)
    \/ xQueueGetMutexHolder(t, c) \/ xQueueGetMutexHolderFromISR(t, c)

FreeRTOSQueueStep(t, c) == QueueCalls(t, c) \/ QueueSetCalls(t, c) \/ SemaphoreCalls(t, c)
=============================================================================
