--------------------------- MODULE FreeRTOSBuffer ---------------------------
(***************************************************************************)
(* The FreeRTOS interface, interop/freertos/src/freertos_stk.cpp: stream   *)
(* buffers and message buffers.  A message buffer has a pool for its       *)
(* messages and a queue of envelopes [len, blk].  The user's callbacks     *)
(* after a transfer are left out.                                          *)
(***************************************************************************)
EXTENDS FreeRTOSQueue, BlockMemoryPool

(* x = [size, trigger]: the buffer, then the object *)
FrtosStreamBuffer(x) == Extended(PipeObject(x.size), [m_trigger |-> Max({x.trigger, 1})])

xStreamBufferCreate(t, c) ==
    /\ c.op = "xStreamBufferCreate"
    /\ IF c.x.size = 0 THEN Refuse(t, c) ELSE Construct(t, c, 2, FrtosStreamBuffer(c.x))

xStreamBufferCreateStatic(t, c) ==
    /\ c.op = "xStreamBufferCreateStatic"
    /\ IF c.x.size = 0 THEN Refuse(t, c) ELSE Construct(t, c, 0, FrtosStreamBuffer(c.x))

xStreamBufferCreateWithCallback(t, c) ==
    /\ c.op = "xStreamBufferCreateWithCallback"
    /\ IF c.x.size = 0 THEN Refuse(t, c) ELSE Construct(t, c, 2, FrtosStreamBuffer(c.x))

xStreamBufferCreateStaticWithCallback(t, c) ==
    /\ c.op = "xStreamBufferCreateStaticWithCallback"
    /\ IF c.x.size = 0 THEN Refuse(t, c) ELSE Construct(t, c, 0, FrtosStreamBuffer(c.x))

vStreamBufferDelete(t, c) == c.op = "vStreamBufferDelete" /\ ObjFree(t, c)

xStreamBufferSend(t, c) ==
    c.op = "xStreamBufferSend" /\ PipeWriteBulk(t, Native(c, "PipeWriteBulk"))

xStreamBufferSendFromISR(t, c) ==
    c.op = "xStreamBufferSendFromISR" /\ PipeWriteBulk(t, TryNative(c, "PipeWriteBulk"))

(* The trigger level is read before the pipe is entered *)
xStreamBufferReceive(t, c) ==
    /\ c.op = "xStreamBufferReceive"
    /\ PipeReadTriggered(t, [Native(c, "PipeReadTriggered") EXCEPT
                               !.x = [trigger |-> obj[c.o].m_trigger, max_count |-> c.x]])

xStreamBufferReceiveFromISR(t, c) ==
    c.op = "xStreamBufferReceiveFromISR" /\ PipeReadBulk(t, TryNative(c, "PipeReadBulk"))

xStreamBufferReset(t, c) ==
    c.op = "xStreamBufferReset" /\ PipeReset(t, TryNative(c, "PipeReset"))

xStreamBufferResetFromISR(t, c) ==
    c.op = "xStreamBufferResetFromISR" /\ PipeReset(t, TryNative(c, "PipeReset"))

xStreamBufferSetTriggerLevel(t, c) ==
    /\ c.op = "xStreamBufferSetTriggerLevel"
    /\ IF c.x > obj[c.o].m_capacity THEN Refuse(t, c)
       ELSE /\ Set(c.o, [obj[c.o] EXCEPT !.m_trigger = Max({c.x, 1})])
            /\ Return(t, c, OK) /\ UNCHANGED <<wait, now>>

xStreamBufferBytesAvailable(t, c) ==
    c.op = "xStreamBufferBytesAvailable" /\ Answers(t, c, obj[c.o].m_count)

xStreamBufferSpacesAvailable(t, c) ==
    /\ c.op = "xStreamBufferSpacesAvailable"
    /\ Answers(t, c, obj[c.o].m_capacity - obj[c.o].m_count)

xStreamBufferIsEmpty(t, c) == c.op = "xStreamBufferIsEmpty" /\ Answers(t, c, Status(Empty(obj[c.o])))

xStreamBufferIsFull(t, c) == c.op = "xStreamBufferIsFull" /\ Answers(t, c, Status(Full(obj[c.o])))

xStreamBufferGetTriggerLevel(t, c) ==
    c.op = "xStreamBufferGetTriggerLevel" /\ Answers(t, c, obj[c.o].m_trigger)

xStreamBufferNextMessageLengthBytes(t, c) ==
    c.op = "xStreamBufferNextMessageLengthBytes" /\ Answers(t, c, obj[c.o].m_count)

StreamBufferCalls(t, c) ==
    \/ xStreamBufferCreate(t, c) \/ xStreamBufferCreateStatic(t, c)
    \/ xStreamBufferCreateWithCallback(t, c) \/ xStreamBufferCreateStaticWithCallback(t, c)
    \/ vStreamBufferDelete(t, c) \/ xStreamBufferSend(t, c) \/ xStreamBufferSendFromISR(t, c)
    \/ xStreamBufferReceive(t, c) \/ xStreamBufferReceiveFromISR(t, c)
    \/ xStreamBufferReset(t, c) \/ xStreamBufferResetFromISR(t, c)
    \/ xStreamBufferSetTriggerLevel(t, c) \/ xStreamBufferBytesAvailable(t, c)
    \/ xStreamBufferSpacesAvailable(t, c) \/ xStreamBufferIsEmpty(t, c)
    \/ xStreamBufferIsFull(t, c) \/ xStreamBufferGetTriggerLevel(t, c)
    \/ xStreamBufferNextMessageLengthBytes(t, c)

-----------------------------------------------------------------------------
(* The regions of a message buffer: the object, the pool's storage and the queue's.
   The constructor goes on when the pool gets none; acc tells which were had *)
Got(acc) == Cardinality({i \in DOMAIN acc : acc[i] = 1})

Buffers(c, had) ==
    [obj EXCEPT ![c.o] = [kind |-> "messages", m_pool |-> c.x.pool, m_eq |-> c.x.eq,
                          m_max_msg_size |-> c.x.max, owned |-> Got(had)],
                ![c.x.pool] = HeapPoolObject(c.x.count, had # <<1, 0, 1>>),
                ![c.x.eq] = RingObject("envelopes", c.x.count)]

GiveUpBuffer(t, c) ==
    Set("heap", Freed(obj["heap"], Got(c.acc))) /\ Return(t, c, FAIL)

(* valid says which regions the function looks at.  x = [max, count, pool, eq] *)
ConstructMessageBuffer(t, c, valid) ==
    /\ UNCHANGED <<wait, now>>
    /\ CASE c.x.max = 0 \/ c.x.count = 0 -> Return(t, c, FAIL) /\ UNCHANGED obj
         [] c.acc = <<0>> \/ (Len(c.acc) = 3 /\ \E i \in valid : c.acc[i] = 0) -> GiveUpBuffer(t, c)
         [] Len(c.acc) = 3 /\ \A i \in valid : c.acc[i] = 1 ->
              obj' = Buffers(c, c.acc) /\ Return(t, c, OK)
         [] OTHER ->
              LET got == Min({GetAvailable(obj["heap"]), 1})
              IN  /\ Set("heap", Allocated(obj["heap"], got))
                  /\ Goto(t, [c EXCEPT !.acc = Append(@, got)])
                  /\ UNCHANGED ret

(* MsgBufSlotCount: the messages a budget has room for *)
xMessageBufferCreate(t, c) ==
    c.op = "xMessageBufferCreate" /\ ConstructMessageBuffer(t, c, {2, 3})

xMessageBufferCreateWithCallback(t, c) ==
    c.op = "xMessageBufferCreateWithCallback" /\ ConstructMessageBuffer(t, c, {3})

ConstructStatic(t, c) ==
    IF c.x.max = 0 \/ c.x.count = 0 THEN Refuse(t, c)
    ELSE obj' = Buffers(c, <<>>) /\ Return(t, c, OK) /\ UNCHANGED <<wait, now>>

xMessageBufferCreateStatic(t, c) ==
    c.op = "xMessageBufferCreateStatic" /\ ConstructStatic(t, c)

xMessageBufferCreateStaticWithCallback(t, c) ==
    c.op = "xMessageBufferCreateStaticWithCallback" /\ ConstructStatic(t, c)

vMessageBufferDelete(t, c) ==
    /\ c.op = "vMessageBufferDelete"
    /\ obj' = [obj EXCEPT ![c.o] = NoObject, ![obj[c.o].m_pool] = NoObject,
                          ![obj[c.o].m_eq] = NoObject, !["heap"] = Freed(@, obj[c.o].owned)]
    /\ Return(t, c, OK) /\ UNCHANGED <<wait, now>>

(* Send of a message of x bytes: a block from the pool, the copy, the envelope *)
SendFrom(t, c, native) ==
    IF c.x \notin 1..obj[c.o].m_max_msg_size THEN Refuse(t, c)
    ELSE PoolAlloc(t, Calling([native EXCEPT !.o = obj[c.o].m_pool], Then(c, "MessagePut")))

xMessageBufferSend(t, c) ==
    c.op = "xMessageBufferSend" /\ SendFrom(t, c, Native(c, "PoolAlloc"))

xMessageBufferSendFromISR(t, c) ==
    c.op = "xMessageBufferSendFromISR" /\ SendFrom(t, c, TryNative(c, "PoolAlloc"))

MessagePut(t, c) ==
    /\ c.op = "MessagePut"
    /\ IF ret[t] = NULL THEN Refuse(t, c)
       ELSE MessageQueuePut(t, Calling([TryNative(c, "MessageQueuePut") EXCEPT
                !.o = obj[c.o].m_eq, !.x = [len |-> c.x, blk |-> ret[t]]],
                [Then(c, "MessageSent") EXCEPT !.acc = <<ret[t]>>]))

(* An envelope that did not go in, which the code asserts cannot be *)
MessageSent(t, c) ==
    /\ c.op = "MessageSent"
    /\ IF ret[t] = OK THEN Return(t, c, OK) /\ UNCHANGED <<obj, wait, now>>
       ELSE PoolFree(t, [TryNative(c, "PoolFree") EXCEPT !.o = obj[c.o].m_pool, !.x = c.acc[1]])

(* Receive into a buffer of x bytes *)
xMessageBufferReceive(t, c) ==
    /\ c.op = "xMessageBufferReceive"
    /\ MessageQueueGet(t, Calling([Native(c, "MessageQueueGet") EXCEPT !.o = obj[c.o].m_eq],
                                  Then(c, "MessageGot")))

xMessageBufferReceiveFromISR(t, c) ==
    /\ c.op = "xMessageBufferReceiveFromISR"
    /\ MessageQueueGet(t, Calling([TryNative(c, "MessageQueueGet") EXCEPT !.o = obj[c.o].m_eq],
                                  Then(c, "MessageGotFromISR")))

(* A message that is too long goes back into the queue, at its end or, from an
   interrupt, at its front; else the copy is made and the block is free *)
Deliver(t, c, PutBack(_, _), op) ==
    CASE ret[t] = <<>> -> Refuse(t, c)
      [] ret[t] # <<>> /\ c.x < ret[t][1].len ->
           PutBack(t, [TryNative(c, op) EXCEPT !.o = obj[c.o].m_eq, !.x = ret[t][1]])
      [] OTHER ->
           PoolFree(t, [TryNative(c, "PoolFree") EXCEPT !.o = obj[c.o].m_pool,
                                                        !.x = ret[t][1].blk])

(* mutant: a message that is too long for the reader is dropped with its block *)
MessageGotDrop(t, c) ==
    /\ c.op = "MessageGot"
    /\ IF ret[t] = <<>> \/ c.x < ret[t][1].len THEN Refuse(t, c)
       ELSE Deliver(t, c, MessageQueuePut, "MessageQueuePut")

MessageGot(t, c) ==
    c.op = "MessageGot" /\ Deliver(t, c, MessageQueuePut, "MessageQueuePut")

MessageGotFromISR(t, c) ==
    c.op = "MessageGotFromISR" /\ Deliver(t, c, MessageQueuePutFront, "MessageQueuePutFront")

(* Reset: one message after the other is taken out and its block freed, until there
   is none; then the queue is reset *)
ResetNext(t, c) ==
    MessageQueueGet(t, Calling([TryNative(c, "MessageQueueGet") EXCEPT !.o = obj[c.o].m_eq],
                               Then(c, "ResetFree")))

xMessageBufferReset(t, c) == c.op = "xMessageBufferReset" /\ ResetNext(t, c)

xMessageBufferResetFromISR(t, c) == c.op = "xMessageBufferResetFromISR" /\ ResetNext(t, c)

ResetFree(t, c) ==
    /\ c.op = "ResetFree"
    /\ IF ret[t] = <<>>
       THEN MessageQueueReset(t, [TryNative(c, "MessageQueueReset") EXCEPT !.o = obj[c.o].m_eq])
       ELSE PoolFree(t, Calling([TryNative(c, "PoolFree") EXCEPT !.o = obj[c.o].m_pool,
                                   !.x = ret[t][1].blk], Then(c, "xMessageBufferReset")))

xMessageBufferNextLengthBytes(t, c) ==
    /\ c.op = "xMessageBufferNextLengthBytes"
    /\ MessageQueuePeek(t, [TryNative(c, "MessageQueuePeek") EXCEPT !.o = obj[c.o].m_eq])

xMessageBufferIsEmpty(t, c) ==
    c.op = "xMessageBufferIsEmpty" /\ Answers(t, c, Status(Empty(obj[obj[c.o].m_eq])))

xMessageBufferIsFull(t, c) ==
    /\ c.op = "xMessageBufferIsFull"
    /\ Answers(t, c, Status(GetFreeCount(obj[obj[c.o].m_pool]) = 0))

xMessageBufferSpacesAvailable(t, c) ==
    c.op = "xMessageBufferSpacesAvailable" /\ Answers(t, c, GetFreeCount(obj[obj[c.o].m_pool]))

MessageBufferCalls(t, c) ==
    \/ xMessageBufferCreate(t, c) \/ xMessageBufferCreateWithCallback(t, c)
    \/ xMessageBufferCreateStatic(t, c) \/ xMessageBufferCreateStaticWithCallback(t, c)
    \/ vMessageBufferDelete(t, c) \/ xMessageBufferSend(t, c) \/ xMessageBufferSendFromISR(t, c)
    \/ MessagePut(t, c) \/ MessageSent(t, c) \/ xMessageBufferReceive(t, c)
    \/ xMessageBufferReceiveFromISR(t, c) \/ MessageGot(t, c) \/ MessageGotFromISR(t, c)
    \/ xMessageBufferReset(t, c) \/ xMessageBufferResetFromISR(t, c) \/ ResetFree(t, c)
    \/ xMessageBufferNextLengthBytes(t, c) \/ xMessageBufferIsEmpty(t, c)
    \/ xMessageBufferIsFull(t, c) \/ xMessageBufferSpacesAvailable(t, c)

FreeRTOSBufferStep(t, c) == StreamBufferCalls(t, c) \/ MessageBufferCalls(t, c)
=============================================================================
