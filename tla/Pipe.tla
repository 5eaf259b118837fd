-------------------------------- MODULE Pipe --------------------------------
(* sync::Pipe and PipeT (sync/stk_sync_pipe.h): the ring buffer of MessageQueue
   with transfers of several elements.  The frame of a bulk transfer keeps in acc
   the elements moved so far; a read returns the elements it read *)
EXTENDS MessageQueue

PipeObject(capacity) == RingObject("pipe", capacity)

(* The elements from the oldest to the newest *)
Content(q) == [i \in 1..q.m_count |-> q.m_buffer[(q.m_tail + i - 1) % q.m_capacity]]

(* One chunk of WriteBulk: up to the end of the buffer and on from its start *)
AddAll(q, s) ==
    LET offset(i) == (i - q.m_head) % q.m_capacity
    IN  [q EXCEPT !.m_buffer = [i \in DOMAIN @ |-> IF offset(i) < Len(s)
                                                   THEN s[offset(i) + 1] ELSE @[i]],
                  !.m_head = (@ + Len(s)) % q.m_capacity, !.m_count = @ + Len(s)]

(* DrainLocked: the elements that go, and the pipe without them *)
ToRead(q, count) == SubSeq(Content(q), 1, Min({count, q.m_count}))

Drained(q, n) ==
    [q EXCEPT !.m_buffer = [i \in DOMAIN @ |-> IF (i - q.m_tail) % q.m_capacity < n
                                               THEN NoItem ELSE @[i]],
              !.m_tail = (@ + n) % q.m_capacity, !.m_count = @ - n]

-----------------------------------------------------------------------------
PipeWrite(t, c) ==
    c.op = "PipeWrite" /\ PutWith(t, c, Add(obj[c.o], c.x))

PipeReads(t, c) ==
    LET q == obj[c.o]
    IN  /\ UNCHANGED now
        /\ \/ Blocks(t, c, Empty(q), NotEmpty(c.o), c.ticks) /\ UNCHANGED obj
           \/ /\ GivesUp(t, c, Empty(q), c.ticks)
              /\ Return(t, c, <<>>) /\ UNCHANGED <<obj, wait>>
           \/ /\ Proceeds(t, c, Empty(q))
              /\ Set(c.o, RemoveOldest(q))
              /\ wait' = WakeOne(wait, NotFull(c.o))
              /\ Return(t, c, <<Oldest(q)>>)

PipeRead(t, c) == c.op = "PipeRead" /\ PipeReads(t, c)

(* WriteBulk of the sequence x *)
PipeWritesBulk(t, c) ==
    IF c.x = <<>> THEN Answers(t, c, 0) ELSE CaptureDeadline(t, c, "PipeWriteLoop")

PipeWriteBulk(t, c) == c.op = "PipeWriteBulk" /\ PipeWritesBulk(t, c)

(* Writes what fits; a rest means that the pipe is full, and waits *)
PipeWriteLoop(t, c) ==
    LET q == obj[c.o]
        chunk == SubSeq(c.x, 1, Min({Len(c.x), q.m_capacity - q.m_count}))
        rest == SubSeq(c.x, Len(chunk) + 1, Len(c.x))
        written == c.acc \o chunk
        w == IF chunk = <<>> THEN wait ELSE WakeAll(wait, NotEmpty(c.o))
    IN  /\ c.op = "PipeWriteLoop" /\ UNCHANGED now
        /\ \/ /\ TimedOut(t, c)
              /\ Return(t, c, Len(c.acc)) /\ UNCHANGED <<obj, wait>>
           \/ /\ ~TimedOut(t, c)
              /\ Set(c.o, AddAll(q, chunk))
              /\ IF rest # <<>> /\ Remaining(c) # NO_WAIT
                 THEN KernelWait(t, [c EXCEPT !.x = rest, !.acc = written], w,
                                 NotFull(c.o), Remaining(c))
                 ELSE wait' = w /\ Return(t, c, Len(written))

(* ReadBulk of x elements *)
PipeReadsBulk(t, c) ==
    IF c.x = 0 THEN Answers(t, c, <<>>) ELSE CaptureDeadline(t, c, "PipeReadLoop")

PipeReadBulk(t, c) == c.op = "PipeReadBulk" /\ PipeReadsBulk(t, c)

PipeReadLoop(t, c) ==
    LET q == obj[c.o]
        chunk == ToRead(q, c.x - Len(c.acc))
        got == c.acc \o chunk
        w == IF chunk = <<>> THEN wait ELSE WakeAll(wait, NotFull(c.o))
    IN  /\ c.op = "PipeReadLoop" /\ UNCHANGED now
        /\ \/ /\ TimedOut(t, c)
              /\ Return(t, c, c.acc) /\ UNCHANGED <<obj, wait>>
           \/ /\ ~TimedOut(t, c)
              /\ Set(c.o, Drained(q, Len(chunk)))
              /\ IF Len(got) < c.x /\ Remaining(c) # NO_WAIT
                 THEN KernelWait(t, [c EXCEPT !.acc = got], w, NotEmpty(c.o), Remaining(c))
                 ELSE wait' = w /\ Return(t, c, got)

(* ReadBulkTriggered: x = [trigger, max_count] *)
PipeReadTriggered(t, c) ==
    /\ c.op = "PipeReadTriggered"
    /\ IF c.x.max_count = 0
       THEN Return(t, c, <<>>) /\ UNCHANGED <<obj, wait, now>>
       ELSE CaptureDeadline(t, [c EXCEPT !.x.trigger = Min({Max({@, 1}), c.x.max_count})],
                            "PipeTriggerLoop")

(* A time-out drains what there is *)
PipeTriggerLoop(t, c) ==
    LET q == obj[c.o]
        below == q.m_count < c.x.trigger
        chunk == ToRead(q, c.x.max_count)
    IN  /\ c.op = "PipeTriggerLoop" /\ UNCHANGED now
        /\ \/ Blocks(t, c, below, NotEmpty(c.o), Remaining(c)) /\ UNCHANGED obj
           \/ /\ Proceeds(t, c, below) \/ GivesUp(t, c, below, Remaining(c))
              /\ Set(c.o, Drained(q, Len(chunk)))
              /\ wait' = WakeAll(wait, NotFull(c.o))
              /\ Return(t, c, chunk)

PipeClears(t, c) ==
    /\ Set(c.o, Cleared(obj[c.o]))
    /\ wait' = WakeAll(wait, NotFull(c.o))
    /\ Return(t, c, OK) /\ UNCHANGED now

PipeReset(t, c) == c.op = "PipeReset" /\ PipeClears(t, c)

-----------------------------------------------------------------------------
(* The methods of PipeT, which has its storage in the object; the chunks of its bulk
   transfers are those of Pipe *)
PipeTWrite(t, c) ==
    c.op = "PipeTWrite" /\ PutWith(t, c, Add(obj[c.o], c.x))

PipeTRead(t, c) == c.op = "PipeTRead" /\ PipeReads(t, c)

PipeTWriteBulk(t, c) == c.op = "PipeTWriteBulk" /\ PipeWritesBulk(t, c)

PipeTReadBulk(t, c) == c.op = "PipeTReadBulk" /\ PipeReadsBulk(t, c)

PipeTReset(t, c) == c.op = "PipeTReset" /\ PipeClears(t, c)

PipeStep(t, c) ==
    \/ PipeWrite(t, c) \/ PipeRead(t, c) \/ PipeReset(t, c)
    \/ PipeWriteBulk(t, c) \/ PipeWriteLoop(t, c)
    \/ PipeReadBulk(t, c) \/ PipeReadLoop(t, c)
    \/ PipeReadTriggered(t, c) \/ PipeTriggerLoop(t, c)
    \/ PipeTWrite(t, c) \/ PipeTRead(t, c) \/ PipeTReset(t, c)
    \/ PipeTWriteBulk(t, c) \/ PipeTReadBulk(t, c)
=============================================================================
