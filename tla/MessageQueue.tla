---------------------------- MODULE MessageQueue ----------------------------
(* sync::MessageQueue (sync/stk_sync_msgqueue.h).  A Get or Peek returns the
   sequence of the message it got, or <<>> after a time-out *)
EXTENDS Blocking

CONSTANT NoItem      \* what a slot holds that was never written

CAPACITY_MAX == 65534

RingObject(kind, capacity) ==
    [kind |-> kind, m_capacity |-> capacity, m_count |-> 0, m_head |-> 0, m_tail |-> 0,
     m_buffer |-> [i \in 0..capacity-1 |-> NoItem]]

Empty(q) == q.m_count = 0
Full(q) == q.m_count = q.m_capacity

(* mutant: the index runs on past the end of the buffer *)
NextSlotNoWrap(q, i) == i + 1

NextSlot(q, i) == (i + 1) % q.m_capacity
PrevSlot(q, i) == IF i = 0 THEN q.m_capacity - 1 ELSE i - 1

(* mutant: the read index is not moved back when the queue wraps *)
AddFrontAtZero(q, v) ==
    LET i == IF q.m_tail = 0 THEN 0 ELSE q.m_tail - 1
    IN  [q EXCEPT !.m_buffer[i] = v, !.m_tail = i, !.m_count = @ + 1]

Add(q, v) ==
    [q EXCEPT !.m_buffer[q.m_head] = v, !.m_head = NextSlot(q, @), !.m_count = @ + 1]

AddFront(q, v) ==
    [q EXCEPT !.m_buffer[PrevSlot(q, q.m_tail)] = v, !.m_tail = PrevSlot(q, @),
              !.m_count = @ + 1]

Oldest(q) == q.m_buffer[q.m_tail]

(* A slot that was read holds nothing the model has to remember *)
RemoveOldest(q) ==
    [q EXCEPT !.m_buffer[q.m_tail] = NoItem, !.m_tail = NextSlot(q, @), !.m_count = @ - 1]

Cleared(q) ==
    [q EXCEPT !.m_count = 0, !.m_head = 0, !.m_tail = 0,
              !.m_buffer = [i \in DOMAIN @ |-> NoItem]]

NotEmpty(o) == <<o, "not_empty">>
NotFull(o) == <<o, "not_full">>

-----------------------------------------------------------------------------
(* Put and PutFront: the loop on m_cv_not_full, then the message goes in *)
PutWith(t, c, q) ==
    \/ Blocks(t, c, Full(obj[c.o]), NotFull(c.o), c.ticks) /\ UNCHANGED <<obj, now>>
    \/ /\ GivesUp(t, c, Full(obj[c.o]), c.ticks)
       /\ Return(t, c, FAIL) /\ UNCHANGED <<obj, wait, now>>
    \/ /\ Proceeds(t, c, Full(obj[c.o]))
       /\ Set(c.o, q)
       /\ wait' = WakeOne(wait, NotEmpty(c.o))
       /\ Return(t, c, OK) /\ UNCHANGED now

MessageQueuePut(t, c) ==
    c.op = "MessageQueuePut" /\ PutWith(t, c, Add(obj[c.o], c.x))

MessageQueuePutFront(t, c) ==
    c.op = "MessageQueuePutFront" /\ PutWith(t, c, AddFront(obj[c.o], c.x))

(* mutant: the producers are not notified *)
GetSilently(t, c) ==
    LET q == obj[c.o]
    IN  /\ c.op = "MessageQueueGet" /\ UNCHANGED now
        /\ \/ Blocks(t, c, Empty(q), NotEmpty(c.o), c.ticks) /\ UNCHANGED obj
           \/ /\ GivesUp(t, c, Empty(q), c.ticks)
              /\ Return(t, c, <<>>) /\ UNCHANGED <<obj, wait>>
           \/ /\ Proceeds(t, c, Empty(q))
              /\ Set(c.o, RemoveOldest(q)) /\ UNCHANGED wait
              /\ Return(t, c, <<Oldest(q)>>)

MessageQueueGet(t, c) ==
    LET q == obj[c.o]
    IN  /\ c.op = "MessageQueueGet" /\ UNCHANGED now
        /\ \/ Blocks(t, c, Empty(q), NotEmpty(c.o), c.ticks) /\ UNCHANGED obj
           \/ /\ GivesUp(t, c, Empty(q), c.ticks)
              /\ Return(t, c, <<>>) /\ UNCHANGED <<obj, wait>>
           \/ /\ Proceeds(t, c, Empty(q))
              /\ Set(c.o, RemoveOldest(q))
              /\ wait' = WakeOne(wait, NotFull(c.o))
              /\ Return(t, c, <<Oldest(q)>>)

(* Peek and PeekFront both read the slot at m_tail *)
MessageQueuePeek(t, c) ==
    LET q == obj[c.o]
    IN  /\ c.op = "MessageQueuePeek" /\ UNCHANGED <<obj, now>>
        /\ \/ Blocks(t, c, Empty(q), NotEmpty(c.o), c.ticks)
           \/ /\ GivesUp(t, c, Empty(q), c.ticks)
              /\ Return(t, c, <<>>) /\ UNCHANGED wait
           \/ /\ Proceeds(t, c, Empty(q))
              /\ Return(t, c, <<Oldest(q)>>) /\ UNCHANGED wait

MessageQueueReset(t, c) ==
    /\ c.op = "MessageQueueReset"
    /\ Set(c.o, Cleared(obj[c.o]))
    /\ wait' = WakeAll(wait, NotFull(c.o))
    /\ Return(t, c, OK) /\ UNCHANGED now

MessageQueueStep(t, c) ==
    \/ MessageQueuePut(t, c) \/ MessageQueuePutFront(t, c) \/ MessageQueueGet(t, c)
    \/ MessageQueuePeek(t, c) \/ MessageQueueReset(t, c)
=============================================================================
