--------------------------- MODULE InteropProofs ---------------------------
(***************************************************************************)
(* The synchronization objects with any number of tasks, objects, tokens,  *)
(* blocks and messages: programs that call the native methods of           *)
(* semaphores, events, mutexes, event flags, block pools, spin locks and   *)
(* message queues, in any order and with any time-outs.  The last parts    *)
(* are about programs that notify tasks, and about message buffers.        *)
(***************************************************************************)
EXTENDS Interop, WaitQueueProofs, SequenceTheorems

(* The methods of an object of a kind, and the steps a method goes on with *)
Method(kind, op) ==
    \/ kind = "semaphore" /\ op \in {"SemaphoreWait", "SemaphoreSignal"}
    \/ kind = "event" /\ op \in {"EventSet", "EventReset", "EventPulse", "EventWait"}
    \/ kind = "mutex" /\ op \in {"MutexLock", "MutexUnlock"}
    \/ kind = "flags" /\ op \in {"EventFlagsSet", "EventFlagsClear", "EventFlagsGet",
                                 "EventFlagsWait"}
    \/ kind = "pool" /\ op \in {"PoolAlloc", "PoolFree"}
    \/ kind = "spin" /\ op \in {"SpinLockLock", "SpinLockTryLock", "SpinLockUnlock"}
    \/ kind = "queue" /\ op \in {"MessageQueuePut", "MessageQueuePutFront", "MessageQueueGet",
                                 "MessageQueuePeek", "MessageQueueReset"}

Inner(kind, op) ==
    \/ kind = "flags" /\ op = "EventFlagsWaitLoop"
    \/ kind = "spin" /\ op \in {"SpinAcquire", "SpinTry", "MakeLocked", "SpinRelease"}

Runs(kind, op) == Method(kind, op) \/ Inner(kind, op)

(* The list that a step waits on *)
ListOf(op) ==
    CASE op \in {"SemaphoreWait", "EventWait", "MutexLock"} -> "list"
      [] op \in {"EventFlagsWaitLoop", "PoolAlloc"} -> "cv"
      [] op \in {"MessageQueueGet", "MessageQueuePeek"} -> "not_empty"
      [] op \in {"MessageQueuePut", "MessageQueuePutFront"} -> "not_full"
      [] OTHER -> "none"

Waits(op) == ListOf(op) # "none"

(* An object as its constructor makes it *)
Constructed(r) ==
    \/ \E n, m \in Nat : n <= m /\ r = SemaphoreObject(n, m)
    \/ \E manual, signaled \in BOOLEAN : r = EventObject(manual, signaled)
    \/ r = MutexObject
    \/ \E flags : r = EventFlagsObject(flags)
    \/ \E capacity, fits \in Nat : r = PoolObject(capacity, fits)
    \/ r = SpinObject
    \/ \E capacity \in Nat \ {0} : r = RingObject("queue", capacity)

(* A program on such objects *)
NativeProgram(p) ==
    /\ p.uses \subseteq {"Semaphore", "EventFlags", "MessageQueue", "Pipe", "BlockMemoryPool",
                         "ConditionVariable", "SpinLock"}
    /\ \A o \in DOMAIN p.objects :
          /\ Constructed(p.objects[o])
          /\ \A op : Runs(p.objects[o].kind, op) /\ Waits(op) => <<o, ListOf(op)>> \in SyncObjects
    /\ \A t \in Tasks : \A c \in p.calls[t] :
          /\ c.o \in DOMAIN p.objects /\ c.ticks \in Times
          /\ Method(p.objects[c.o].kind, c.op)
          /\ c = Frame(c.op, c.o, c.x, c.ticks)

(* The behaviour is one of such a program *)
NativeOnly == NativeProgram(The)

-----------------------------------------------------------------------------
(* The shape of the state *)
Kind(o) == The.objects[o].kind

SemaphoreShape(r) ==
    r \in [kind: {"semaphore"}, m_count: Nat, m_count_max: Nat] /\ r.m_count <= r.m_count_max

EventShape(r) == r \in [kind: {"event"}, m_manual_reset: BOOLEAN, m_signaled: BOOLEAN]

MutexShape(r) ==
    /\ DOMAIN r = {"kind", "m_owner_tid", "m_recursion_count"}
    /\ r.kind = "mutex" /\ r.m_owner_tid \in Tasks \cup {NULL} /\ r.m_recursion_count \in Nat

FlagsShape(r) == DOMAIN r = {"kind", "m_flags"}

PoolShape(r) ==
    /\ DOMAIN r = {"kind", "m_capacity", "m_used_count", "m_storage", "m_free_list"}
    /\ r.kind = "pool" /\ r.m_capacity \in Nat /\ r.m_used_count \in Int
    /\ r.m_storage \in BOOLEAN /\ r.m_free_list \in Seq(Nat)

SpinShape(r) ==
    /\ DOMAIN r = {"kind", "m_owner_tid", "m_recursion_count", "m_lock"}
    /\ r.kind = "spin" /\ r.m_owner_tid \in Tasks \cup {NULL} /\ r.m_recursion_count \in Nat
    /\ r.m_lock \in BOOLEAN

RingShape(r) ==
    /\ DOMAIN r = {"kind", "m_capacity", "m_count", "m_head", "m_tail", "m_buffer"}
    /\ r.m_capacity \in Nat \ {0} /\ r.m_count \in 0..r.m_capacity
    /\ r.m_head \in 0..r.m_capacity-1 /\ r.m_tail \in 0..r.m_capacity-1
    /\ DOMAIN r.m_buffer = 0..r.m_capacity-1

Kinds == {"semaphore", "event", "mutex", "flags", "pool", "spin", "queue"}

ObjectShape(r) ==
    /\ r.kind \in Kinds
    /\ r.kind = "semaphore" => SemaphoreShape(r)
    /\ r.kind = "event" => EventShape(r)
    /\ r.kind = "mutex" => MutexShape(r)
    /\ r.kind = "flags" => FlagsShape(r)
    /\ r.kind = "pool" => PoolShape(r)
    /\ r.kind = "spin" => SpinShape(r)
    /\ r.kind = "queue" => RingShape(r)

(* The times of waits that compute with a deadline *)
Signed == -WAIT_INFINITE-1..WAIT_INFINITE

(* A frame of a native method *)
FrameFields == {"op", "o", "x", "ticks", "blocked", "deadline", "acc", "then"}

FrameShape(c) ==
    /\ DOMAIN c = FrameFields /\ c.then = NoCall
    /\ c.o \in DOMAIN The.objects /\ c.ticks \in Times /\ c.deadline \in Signed
    /\ c.blocked \in BOOLEAN

(* What a task does that is in a call: it waits or waited, or is between two steps *)
InCallShape(c) ==
    /\ FrameShape(c) /\ Runs(Kind(c.o), c.op)
    /\ c.blocked => Waits(c.op) /\ (c.ticks # NO_WAIT \/ c.op = "EventFlagsWaitLoop")
    /\ ~c.blocked => Inner(Kind(c.o), c.op)

Unlinked(t) == \A o \in SyncObjects : ~Linked(wait, o, t)

Shape ==
    /\ scenario \in DOMAIN Scenarios
    /\ DOMAIN obj = DOMAIN The.objects
    /\ \A o \in DOMAIN obj : obj[o].kind = Kind(o) /\ ObjectShape(obj[o])
    /\ DOMAIN call = Tasks /\ DOMAIN ret = Tasks
    /\ \A t \in Tasks : call[t] = NoCall \/ InCallShape(call[t])
    /\ now \in 0..2^TimeoutBits-1
    /\ wait \in WaitTypeIn(Signed) /\ ListsOnce(wait)
    /\ \A l \in SyncObjects, t \in Tasks : Linked(wait, l, t) =>
          /\ call[t] # NoCall /\ call[t].blocked
          /\ l = <<call[t].o, ListOf(call[t].op)>>

-----------------------------------------------------------------------------
(* The steps of the methods *)

(* Task t takes a step of the frame c, which is its call or a new one *)
Ready(t, c) ==
    /\ FrameShape(c) /\ Runs(Kind(c.o), c.op) /\ Unlinked(t)
    /\ \/ call[t] = NoCall /\ ~c.blocked /\ Method(Kind(c.o), c.op)
       \/ call[t] = c /\ InCallShape(c)

(* The object of the call changes, and no other one *)
ObjStep(c) ==
    /\ DOMAIN obj' = DOMAIN obj
    /\ \A o \in DOMAIN obj : o # c.o => obj'[o] = obj[o]
    /\ ObjectShape(obj'[c.o]) /\ obj'[c.o].kind = obj[c.o].kind

(* Waiters of the object are woken *)
WakeStep(c) ==
    \/ wait' = wait
    \/ \E list : /\ <<c.o, list>> \in SyncObjects
                /\ wait' \in {WakeOne(wait, <<c.o, list>>), WakeAll(wait, <<c.o, list>>)}

(* The frame that follows: none, or one of an inner step *)
Follows(c, d) == d = NoCall \/ (FrameShape(d) /\ d.o = c.o /\ ~d.blocked /\ Inner(Kind(d.o), d.op))

(* Nothing changes for the other tasks *)
Only(t) ==
    /\ DOMAIN call' = Tasks /\ DOMAIN ret' = Tasks
    /\ \A u \in Tasks : u # t => call'[u] = call[u] /\ ret'[u] = ret[u]

Leaving(t, c) == Only(t) /\ Follows(c, call'[t]) /\ WakeStep(c)

(* The frame d is c, and waits now *)
Blocked(d, c) ==
    /\ DOMAIN d = FrameFields /\ d.then = NoCall /\ d.blocked = TRUE
    /\ d.op = c.op /\ d.o = c.o /\ d.x = c.x /\ d.ticks = c.ticks /\ d.deadline = c.deadline

Parks(t, c) ==
    /\ Only(t) /\ obj' = obj /\ ret'[t] = ret[t]
    /\ Waits(c.op) /\ (c.ticks # NO_WAIT \/ c.op = "EventFlagsWaitLoop")
    /\ Blocked(call'[t], c)
    /\ \E ticks \in Signed : wait' = SetupWait(wait, <<c.o, ListOf(c.op)>>, t, ticks)

NativeEffect(t, c) == ObjStep(c) /\ now' = now /\ (Leaving(t, c) \/ Parks(t, c))

LEMMA SignedLemma ==
    /\ CountsDown(Signed) /\ Times \subseteq Signed
    /\ 0 \in Times /\ NO_WAIT \in Signed
BY WaitAssumption DEF CountsDown, Signed, Times, NO_WAIT

(* A method returns *)
LEMMA ReturnLemma ==
    ASSUME Shape, NEW t \in Tasks, NEW c, FrameShape(c), NEW v, Return(t, c, v)
    PROVE  Only(t) /\ call'[t] = NoCall
<1>1. c.then = NoCall /\ DOMAIN call = Tasks /\ DOMAIN ret = Tasks
  BY DEF FrameShape, Shape
<1> QED
  BY <1>1 DEF Return, Goto, Only

(* A method goes on to another step *)
LEMMA GotoLemma ==
    ASSUME Shape, NEW t \in Tasks, NEW d, Goto(t, d), ret' = ret
    PROVE  Only(t) /\ call'[t] = d /\ ret'[t] = ret[t]
BY DEF Goto, Only, Shape

(* A method waits *)
LEMMA ParkLemma ==
    ASSUME Shape, NEW t \in Tasks, NEW c, FrameShape(c), NEW ticks \in Signed,
           KernelWait(t, c, wait, <<c.o, ListOf(c.op)>>, ticks), obj' = obj,
           Waits(c.op), c.ticks # NO_WAIT \/ c.op = "EventFlagsWaitLoop"
    PROVE  Parks(t, c)
<1> DEFINE d == [c EXCEPT !.blocked = TRUE]
<1>1. Blocked(d, c)
  BY DEF Blocked, FrameShape, FrameFields
<1>2. Goto(t, d) /\ ret' = ret
  BY DEF KernelWait
<1> HIDE DEF d
<1>3. Only(t) /\ call'[t] = d /\ ret'[t] = ret[t]
  BY <1>2, GotoLemma
<1>4. \E k \in Signed : wait' = SetupWait(wait, <<c.o, ListOf(c.op)>>, t, k)
  BY DEF KernelWait
<1> QED
  BY <1>1, <1>3, <1>4 DEF Parks

(* The object of the call is set to r *)
LEMMA SetLemma ==
    ASSUME Shape, NEW c, FrameShape(c), NEW r, Set(c.o, r), ObjectShape(r), r.kind = Kind(c.o)
    PROVE  ObjStep(c) /\ obj'[c.o] = r
BY DEF Shape, FrameShape, Set, ObjStep

LEMMA SameLemma ==
    ASSUME Shape, NEW c, FrameShape(c), obj' = obj
    PROVE  ObjStep(c)
BY DEF Shape, FrameShape, ObjStep

(* The object of a call has the shape of its kind *)
LEMMA ReadyLemma ==
    ASSUME Shape, NEW t, NEW c, Ready(t, c)
    PROVE  /\ FrameShape(c) /\ c.o \in DOMAIN obj
           /\ obj[c.o].kind = Kind(c.o) /\ ObjectShape(obj[c.o])
           /\ Runs(Kind(c.o), c.op) /\ Unlinked(t)
BY DEF Shape, Ready, FrameShape

(* The list a method waits on is one of the wait lists *)
LEMMA ListLemma ==
    ASSUME NativeOnly, Shape, NEW o \in DOMAIN obj, NEW op, Runs(Kind(o), op), Waits(op)
    PROVE  <<o, ListOf(op)>> \in SyncObjects
<1>1. NativeProgram(The) /\ o \in DOMAIN The.objects
  BY DEF NativeOnly, Shape
<1> HIDE DEF The
<1> QED
  BY <1>1 DEF NativeProgram, Kind

(* The lists of an object of a kind *)
LEMMA ListsLemma ==
    ASSUME NativeOnly, Shape, NEW o \in DOMAIN obj
    PROVE  /\ Kind(o) \in {"semaphore", "event", "mutex"} => <<o, "list">> \in SyncObjects
           /\ Kind(o) \in {"flags", "pool"} => <<o, "cv">> \in SyncObjects
           /\ Kind(o) = "queue" => <<o, "not_empty">> \in SyncObjects /\ <<o, "not_full">> \in SyncObjects
<1>1. CASE Kind(o) = "semaphore"
  BY <1>1, ListLemma DEF Runs, Method, Waits, ListOf
<1>2. CASE Kind(o) = "event"
  BY <1>2, ListLemma DEF Runs, Method, Waits, ListOf
<1>3. CASE Kind(o) = "mutex"
  BY <1>3, ListLemma DEF Runs, Method, Waits, ListOf
<1>4. CASE Kind(o) = "flags"
  BY <1>4, ListLemma DEF Runs, Inner, Waits, ListOf
<1>5. CASE Kind(o) = "pool"
  BY <1>5, ListLemma DEF Runs, Method, Waits, ListOf
<1>6. CASE Kind(o) = "queue"
  <2>1. <<o, ListOf("MessageQueueGet")>> \in SyncObjects /\ <<o, ListOf("MessageQueuePut")>> \in SyncObjects
    BY <1>6, ListLemma DEF Runs, Method, Waits, ListOf
  <2> QED
    BY <1>6, <2>1 DEF ListOf
<1> QED
  BY <1>1, <1>2, <1>3, <1>4, <1>5, <1>6

(* The object of a step is of the kind that the step is a method of *)
LEMMA KindLemma ==
    ASSUME Shape, NEW t, NEW c, Ready(t, c), NEW kind, kind \in Kinds,
           \A k : Runs(k, c.op) => k = kind
    PROVE  Kind(c.o) = kind /\ obj[c.o].kind = kind /\ ObjectShape(obj[c.o]) /\ c.o \in DOMAIN obj
BY ReadyLemma

(* A step that returns, or goes on to another step *)
LEMMA LeaveLemma ==
    ASSUME Shape, NEW t \in Tasks, NEW c, FrameShape(c), NEW v, Return(t, c, v),
           ObjStep(c), WakeStep(c), now' = now
    PROVE  NativeEffect(t, c)
BY ReturnLemma DEF NativeEffect, Leaving, Follows

LEMMA GoLemma ==
    ASSUME Shape, NEW t \in Tasks, NEW c, FrameShape(c), NEW d, Goto(t, d), ret' = ret,
           FrameShape(d), d.o = c.o, ~d.blocked, Inner(Kind(d.o), d.op),
           ObjStep(c), wait' = wait, now' = now
    PROVE  NativeEffect(t, c)
BY GotoLemma DEF NativeEffect, Leaving, Follows, WakeStep

LEMMA WakeLemma ==
    ASSUME NEW c, NEW list, <<c.o, list>> \in SyncObjects,
           wait' \in {wait, WakeOne(wait, <<c.o, list>>), WakeAll(wait, <<c.o, list>>)}
    PROVE  WakeStep(c)
BY DEF WakeStep

LEMMA SemaphoreWaitEffect ==
    ASSUME NativeOnly, Shape, NEW t \in Tasks, NEW c, Ready(t, c), SemaphoreWait(t, c)
    PROVE  NativeEffect(t, c)
<1>1. /\ FrameShape(c) /\ c.o \in DOMAIN obj /\ c.ticks \in Signed
      /\ Kind(c.o) = "semaphore" /\ SemaphoreShape(obj[c.o])
      /\ Waits(c.op) /\ ListOf(c.op) = "list" /\ now' = now
  <2>1. Kind(c.o) = "semaphore" /\ now' = now /\ Waits(c.op) /\ ListOf(c.op) = "list"
    BY ReadyLemma DEF Runs, Method, Inner, SemaphoreWait, Waits, ListOf
  <2> QED
    BY <2>1, ReadyLemma, SignedLemma DEF ObjectShape, FrameShape
<1>2. CASE ~c.blocked /\ obj[c.o].m_count # 0
  <2> DEFINE r == [obj[c.o] EXCEPT !.m_count = @ - 1]
  <2>1. Set(c.o, r) /\ Return(t, c, OK) /\ wait' = wait
    BY <1>2 DEF SemaphoreWait
  <2>2. ObjectShape(r) /\ r.kind = "semaphore"
    BY <1>1, <1>2 DEF SemaphoreShape, ObjectShape, Kinds
  <2> HIDE DEF r
  <2> QED
    BY <1>1, <2>1, <2>2, SetLemma, ReturnLemma DEF NativeEffect, Leaving, Follows, WakeStep
<1>3. CASE ~c.blocked /\ obj[c.o].m_count = 0 /\ c.ticks # NO_WAIT
  <2>1. KernelWait(t, c, wait, <<c.o, "list">>, c.ticks) /\ obj' = obj
    BY <1>3 DEF SemaphoreWait
  <2> QED
    BY <1>1, <1>3, <2>1, SameLemma, ParkLemma DEF NativeEffect
<1>4. CASE c.blocked \/ (obj[c.o].m_count = 0 /\ c.ticks = NO_WAIT)
  <2>1. PICK v : Return(t, c, v) /\ obj' = obj /\ wait' = wait
    BY <1>1, <1>4 DEF SemaphoreWait, FrameShape
  <2> QED
    BY <1>1, <2>1, SameLemma, ReturnLemma DEF NativeEffect, Leaving, Follows, WakeStep
<1> QED
  BY <1>1, <1>2, <1>3, <1>4 DEF FrameShape

LEMMA SemaphoreSignalEffect ==
    ASSUME NativeOnly, Shape, NEW t \in Tasks, NEW c, Ready(t, c), SemaphoreSignal(t, c)
    PROVE  NativeEffect(t, c)
<1>1. /\ FrameShape(c) /\ c.o \in DOMAIN obj /\ Kind(c.o) = "semaphore" /\ SemaphoreShape(obj[c.o])
      /\ <<c.o, "list">> \in SyncObjects /\ now' = now
  <2>1. \A k : Runs(k, c.op) => k = "semaphore"
    BY DEF Runs, Method, Inner, SemaphoreSignal
  <2> QED
    BY <2>1, ReadyLemma, KindLemma, ListsLemma DEF ObjectShape, Kinds, SemaphoreSignal
<1>2. PICK v : Return(t, c, v)
  BY DEF SemaphoreSignal
<1>3. CASE wait.list[<<c.o, "list">>] = <<>>
  <2> DEFINE r == [obj[c.o] EXCEPT !.m_count = @ + 1]
  <2>1. Set(c.o, r) /\ wait' = wait /\ obj[c.o].m_count < obj[c.o].m_count_max
    BY <1>3 DEF SemaphoreSignal
  <2>2. ObjectShape(r) /\ r.kind = "semaphore"
    BY <1>1, <2>1 DEF SemaphoreShape, ObjectShape, Kinds
  <2> HIDE DEF r
  <2> QED
    BY <1>1, <1>2, <2>1, <2>2, SetLemma, LeaveLemma DEF WakeStep
<1>4. CASE wait.list[<<c.o, "list">>] # <<>>
  <2>1. wait' = WakeOne(wait, <<c.o, "list">>) /\ obj' = obj
    BY <1>4 DEF SemaphoreSignal
  <2>2. WakeStep(c) /\ ObjStep(c)
    BY <1>1, <2>1, WakeLemma, SameLemma
  <2> QED
    BY <1>1, <1>2, <2>2, LeaveLemma
<1> QED
  BY <1>3, <1>4

-----------------------------------------------------------------------------
(* Events *)
LEMMA EventLemma ==
    ASSUME NativeOnly, Shape, NEW t \in Tasks, NEW c, Ready(t, c),
           c.op \in {"EventSet", "EventReset", "EventPulse", "EventWait"}
    PROVE  /\ FrameShape(c) /\ c.o \in DOMAIN obj /\ Kind(c.o) = "event" /\ EventShape(obj[c.o])
           /\ <<c.o, "list">> \in SyncObjects /\ c.ticks \in Signed
<1>1. \A k : Runs(k, c.op) => k = "event"
  BY DEF Runs, Method, Inner
<1>2. c.ticks \in Signed
  BY ReadyLemma, SignedLemma DEF FrameShape
<1> QED
  BY <1>1, <1>2, ReadyLemma, KindLemma, ListsLemma DEF ObjectShape, Kinds

(* An event that is signaled or not *)
LEMMA EventSetLemma ==
    ASSUME Shape, NEW c, FrameShape(c), Kind(c.o) = "event", EventShape(obj[c.o]),
           NEW b \in BOOLEAN, Set(c.o, [obj[c.o] EXCEPT !.m_signaled = b])
    PROVE  ObjStep(c) /\ obj'[c.o].m_signaled = b /\ obj'[c.o].m_manual_reset = obj[c.o].m_manual_reset
<1> DEFINE r == [obj[c.o] EXCEPT !.m_signaled = b]
<1>1. ObjectShape(r) /\ r.kind = "event" /\ r.m_signaled = b
      /\ r.m_manual_reset = obj[c.o].m_manual_reset
  BY DEF ObjectShape, Kinds, EventShape
<1> HIDE DEF r
<1>2. Set(c.o, r)
  BY DEF r
<1> QED
  BY <1>1, <1>2, SetLemma

LEMMA ReleaseLemma ==
    ASSUME NEW c, <<c.o, "list">> \in SyncObjects, Release(c.o)
    PROVE  WakeStep(c)
<1>1. wait' \in {wait, WakeOne(wait, <<c.o, "list">>), WakeAll(wait, <<c.o, "list">>)}
  BY DEF Release
<1> QED
  BY <1>1, WakeLemma

LEMMA EventEffect ==
    ASSUME NativeOnly, Shape, NEW t \in Tasks, NEW c, Ready(t, c),
           EventSet(t, c) \/ EventReset(t, c) \/ EventPulse(t, c) \/ EventWait(t, c)
    PROVE  NativeEffect(t, c)
<1>1. c.op \in {"EventSet", "EventReset", "EventPulse", "EventWait"} /\ now' = now
  BY DEF EventSet, EventReset, EventPulse, EventWait
<1>2. /\ FrameShape(c) /\ c.o \in DOMAIN obj /\ Kind(c.o) = "event" /\ EventShape(obj[c.o])
      /\ <<c.o, "list">> \in SyncObjects /\ c.ticks \in Signed
  BY <1>1, EventLemma
<1>3. ASSUME NEW v, Return(t, c, v), ObjStep(c), WakeStep(c) PROVE NativeEffect(t, c)
  BY <1>1, <1>2, <1>3, LeaveLemma
<1>4. CASE EventSet(t, c)
  <2>1. CASE obj[c.o].m_signaled
    BY <1>2, <1>3, <1>4, <2>1, SameLemma DEF EventSet, WakeStep
  <2>2. CASE ~obj[c.o].m_signaled
    <3>1. Set(c.o, [obj[c.o] EXCEPT !.m_signaled = AfterWake(c.o)]) /\ Release(c.o) /\ Return(t, c, OK)
      BY <1>4, <2>2 DEF EventSet
    <3>2. AfterWake(c.o) \in BOOLEAN
      BY <1>2 DEF AfterWake, EventShape
    <3> QED
      BY <1>2, <1>3, <3>1, <3>2, EventSetLemma, ReleaseLemma
  <2> QED
    BY <2>1, <2>2
<1>5. CASE EventReset(t, c)
  BY <1>2, <1>3, <1>5, EventSetLemma DEF EventReset, WakeStep
<1>6. CASE EventPulse(t, c)
  BY <1>2, <1>3, <1>6, EventSetLemma, ReleaseLemma DEF EventPulse
<1>7. CASE EventWait(t, c)
  <2>0. c.op = "EventWait" /\ Waits(c.op) /\ ListOf(c.op) = "list"
    BY <1>7 DEF EventWait, Waits, ListOf
  <2>1. CASE ~c.blocked /\ obj[c.o].m_signaled
    <3>1. Set(c.o, [obj[c.o] EXCEPT !.m_signaled = obj[c.o].m_manual_reset]) /\ Return(t, c, OK) /\ wait' = wait
      BY <1>7, <2>1 DEF EventWait
    <3>2. obj[c.o].m_manual_reset \in BOOLEAN
      BY <1>2 DEF EventShape
    <3> QED
      BY <1>2, <1>3, <3>1, <3>2, EventSetLemma DEF WakeStep
  <2>2. CASE ~c.blocked /\ ~obj[c.o].m_signaled /\ c.ticks # NO_WAIT
    <3>1. KernelWait(t, c, wait, <<c.o, "list">>, c.ticks) /\ obj' = obj
      BY <1>7, <2>2 DEF EventWait
    <3> QED
      BY <1>1, <1>2, <2>0, <2>2, <3>1, SameLemma, ParkLemma DEF NativeEffect
  <2>3. CASE c.blocked \/ (~obj[c.o].m_signaled /\ c.ticks = NO_WAIT)
    <3>1. PICK v : Return(t, c, v) /\ obj' = obj /\ wait' = wait
      BY <1>7, <2>3 DEF EventWait
    <3> QED
      BY <1>2, <1>3, <3>1, SameLemma DEF WakeStep
  <2> QED
    BY <1>2, <2>1, <2>2, <2>3 DEF FrameShape
<1> QED
  BY <1>4, <1>5, <1>6, <1>7

-----------------------------------------------------------------------------
(* Mutexes *)
LEMMA MutexLemma ==
    ASSUME NativeOnly, Shape, NEW t \in Tasks, NEW c, Ready(t, c), c.op \in {"MutexLock", "MutexUnlock"}
    PROVE  /\ FrameShape(c) /\ c.o \in DOMAIN obj /\ Kind(c.o) = "mutex" /\ MutexShape(obj[c.o])
           /\ <<c.o, "list">> \in SyncObjects /\ c.ticks \in Signed
<1>1. \A k : Runs(k, c.op) => k = "mutex"
  BY DEF Runs, Method, Inner
<1>2. c.ticks \in Signed
  BY ReadyLemma, SignedLemma DEF FrameShape
<1> QED
  BY <1>1, <1>2, ReadyLemma, KindLemma, ListsLemma DEF ObjectShape, Kinds

(* The first waiter of a list is a task *)
LEMMA HeadLemma ==
    ASSUME Shape, NEW l \in SyncObjects, wait.list[l] # <<>>
    PROVE  Head(wait.list[l]) \in Tasks /\ Linked(wait, l, Head(wait.list[l]))
<1>1. wait \in WaitTypeIn(Signed) /\ ListsOnce(wait)
  BY DEF Shape
<1>2. AfterWakeOne(WakeOne(wait, l), wait, l, Head(wait.list[l]))
  BY <1>1, SignedLemma, WakeOneInLemma
<1> QED
  BY <1>2 DEF AfterWakeOne

LEMMA UnlockedLemma ==
    ASSUME NEW x, MutexShape(x), NEW l, l # <<>> => Head(l) \in Tasks
    PROVE  /\ MutexShape(Unlocked(x, l))
           /\ x.m_recursion_count > 1 => /\ Unlocked(x, l).m_owner_tid = x.m_owner_tid
                                         /\ Unlocked(x, l).m_recursion_count = x.m_recursion_count - 1
           /\ x.m_recursion_count = 1 /\ l # <<>> => /\ Unlocked(x, l).m_owner_tid = Head(l)
                                                     /\ Unlocked(x, l).m_recursion_count = 1
           /\ ~(x.m_recursion_count > 1) /\ (l = <<>> \/ x.m_recursion_count = 0) =>
                Unlocked(x, l).m_owner_tid = NULL /\ Unlocked(x, l).m_recursion_count = 0
<1>1. CASE x.m_recursion_count > 1
  BY <1>1 DEF Unlocked, MutexShape
<1>2. CASE x.m_recursion_count = 1 /\ l # <<>>
  BY <1>2 DEF Unlocked, MutexShape
<1>3. CASE ~(x.m_recursion_count > 1) /\ (l = <<>> \/ x.m_recursion_count = 0)
  BY <1>3 DEF Unlocked, MutexShape
<1> QED
  BY <1>1, <1>2, <1>3 DEF MutexShape

LEMMA MutexEffect ==
    ASSUME NativeOnly, Shape, NEW t \in Tasks, NEW c, Ready(t, c), MutexLock(t, c) \/ MutexUnlock(t, c)
    PROVE  NativeEffect(t, c)
<1>1. c.op \in {"MutexLock", "MutexUnlock"} /\ now' = now
  BY DEF MutexLock, MutexUnlock
<1>2. /\ FrameShape(c) /\ c.o \in DOMAIN obj /\ Kind(c.o) = "mutex" /\ MutexShape(obj[c.o])
      /\ <<c.o, "list">> \in SyncObjects /\ c.ticks \in Signed
  BY <1>1, MutexLemma
<1>3. ASSUME NEW v, Return(t, c, v), ObjStep(c), WakeStep(c) PROVE NativeEffect(t, c)
  BY <1>1, <1>2, <1>3, LeaveLemma
<1>4. ASSUME NEW r, MutexShape(r), Set(c.o, r) PROVE ObjStep(c)
  <2>1. ObjectShape(r) /\ r.kind = "mutex"
    BY <1>4 DEF ObjectShape, Kinds, MutexShape
  <2> QED
    BY <1>2, <1>4, <2>1, SetLemma
<1>5. CASE MutexLock(t, c)
  <2>0. c.op = "MutexLock" /\ Waits(c.op) /\ ListOf(c.op) = "list"
    BY <1>5 DEF MutexLock, Waits, ListOf
  <2>1. CASE ~c.blocked /\ (obj[c.o].m_recursion_count = 0 \/ obj[c.o].m_owner_tid = t)
    <3> DEFINE r == [obj[c.o] EXCEPT !.m_recursion_count = @ + 1, !.m_owner_tid = t]
    <3>1. Set(c.o, r) /\ Return(t, c, OK) /\ wait' = wait
      BY <1>5, <2>1 DEF MutexLock
    <3>2. MutexShape(r)
      BY <1>2 DEF MutexShape
    <3> HIDE DEF r
    <3> QED
      BY <1>3, <1>4, <3>1, <3>2 DEF WakeStep
  <2>2. CASE ~c.blocked /\ ~(obj[c.o].m_recursion_count = 0 \/ obj[c.o].m_owner_tid = t) /\ c.ticks # NO_WAIT
    <3>1. KernelWait(t, c, wait, <<c.o, "list">>, c.ticks) /\ obj' = obj
      BY <1>5, <2>2 DEF MutexLock
    <3> QED
      BY <1>1, <1>2, <2>0, <2>2, <3>1, SameLemma, ParkLemma DEF NativeEffect
  <2>3. CASE c.blocked \/ (~(obj[c.o].m_recursion_count = 0 \/ obj[c.o].m_owner_tid = t) /\ c.ticks = NO_WAIT)
    <3>1. PICK v : Return(t, c, v) /\ obj' = obj /\ wait' = wait
      BY <1>5, <2>3 DEF MutexLock
    <3> QED
      BY <1>2, <1>3, <3>1, SameLemma DEF WakeStep
  <2> QED
    BY <1>2, <2>1, <2>2, <2>3 DEF FrameShape
<1>6. CASE MutexUnlock(t, c)
  <2>1. /\ Set(c.o, Unlocked(obj[c.o], wait.list[<<c.o, "list">>])) /\ Return(t, c, OK)
        /\ wait' \in {wait, WakeOne(wait, <<c.o, "list">>)}
    BY <1>6 DEF MutexUnlock, Unlocks
  <2>2. MutexShape(Unlocked(obj[c.o], wait.list[<<c.o, "list">>]))
    BY <1>2, HeadLemma, UnlockedLemma
  <2> QED
    BY <1>2, <1>3, <1>4, <2>1, <2>2, WakeLemma
<1> QED
  BY <1>5, <1>6

-----------------------------------------------------------------------------
(* Event flags *)
LEMMA AsTimeoutLemma ==
    ASSUME NEW x \in Int
    PROVE  AsTimeout(x) \in Signed
<1> DEFINE n == 2^TimeoutBits
           y == x % n
<1>1. n \in Nat /\ n = 2 * (WAIT_INFINITE + 1) /\ n > 0 /\ WAIT_INFINITE \in Nat
  BY WaitAssumption, TimeoutAssumption
<1>2. AsTimeout(x) = IF y > WAIT_INFINITE THEN y - n ELSE y
  BY DEF AsTimeout
<1> HIDE DEF n
<1>3. y \in 0..n-1
  BY <1>1
<1> HIDE DEF y
<1> QED
  BY <1>1, <1>2, <1>3 DEF Signed

LEMMA ClockLemma ==
    ASSUME Shape, NEW c, FrameShape(c)
    PROVE  now \in Int /\ Deadline(c.ticks) \in Signed /\ Remaining(c) \in Signed
<1>1. now \in Int /\ c.ticks \in Int /\ c.ticks \in Signed /\ c.deadline \in Signed /\ c.deadline \in Int
  <2>1. 2^TimeoutBits \in Nat
    BY TimeoutAssumption, WaitAssumption
  <2> QED
    BY <2>1, SignedLemma, WaitAssumption DEF Shape, FrameShape, Times, Signed
<1>2. AsTimeout(now + c.ticks) \in Signed /\ AsTimeout(now) \in Signed
  BY <1>1, AsTimeoutLemma
<1>3. AsTimeout(now) \in Int
  BY <1>2, WaitAssumption DEF Signed
<1>4. AsTimeout(c.deadline - AsTimeout(now)) \in Signed
  BY <1>1, <1>3, AsTimeoutLemma
<1> QED
  BY <1>1, <1>2, <1>4, SignedLemma DEF Deadline, Remaining

LEMMA FlagsLemma ==
    ASSUME NativeOnly, Shape, NEW t \in Tasks, NEW c, Ready(t, c),
           c.op \in {"EventFlagsSet", "EventFlagsClear", "EventFlagsGet", "EventFlagsWait",
                     "EventFlagsWaitLoop"}
    PROVE  /\ FrameShape(c) /\ c.o \in DOMAIN obj /\ Kind(c.o) = "flags" /\ FlagsShape(obj[c.o])
           /\ obj[c.o].kind = "flags" /\ <<c.o, "cv">> \in SyncObjects
<1>1. \A k : Runs(k, c.op) => k = "flags"
  BY DEF Runs, Method, Inner
<1> QED
  BY <1>1, ReadyLemma, KindLemma, ListsLemma DEF ObjectShape, Kinds

LEMMA FlagsSetLemma ==
    ASSUME Shape, NEW c, FrameShape(c), Kind(c.o) = "flags", FlagsShape(obj[c.o]),
           obj[c.o].kind = "flags", NEW f, Set(c.o, [obj[c.o] EXCEPT !.m_flags = f])
    PROVE  ObjStep(c) /\ obj'[c.o].m_flags = f
<1> DEFINE r == [obj[c.o] EXCEPT !.m_flags = f]
<1>1. ObjectShape(r) /\ r.kind = "flags" /\ r.m_flags = f
  BY DEF ObjectShape, Kinds, FlagsShape
<1> HIDE DEF r
<1>2. Set(c.o, r)
  BY DEF r
<1> QED
  BY <1>1, <1>2, SetLemma

LEMMA EventFlagsEffect ==
    ASSUME NativeOnly, Shape, NEW t \in Tasks, NEW c, Ready(t, c), EventFlagsStep(t, c)
    PROVE  NativeEffect(t, c)
<1>1. c.op \in {"EventFlagsSet", "EventFlagsClear", "EventFlagsGet", "EventFlagsWait",
                "EventFlagsWaitLoop"} /\ now' = now
  BY DEF EventFlagsStep, EventFlagsSet, EventFlagsClear, EventFlagsGet, EventFlagsWait,
         EventFlagsWaitLoop, CaptureDeadline
<1>2. /\ FrameShape(c) /\ c.o \in DOMAIN obj /\ Kind(c.o) = "flags" /\ FlagsShape(obj[c.o])
      /\ obj[c.o].kind = "flags" /\ <<c.o, "cv">> \in SyncObjects
  BY <1>1, FlagsLemma
<1>3. ASSUME NEW v, Return(t, c, v), ObjStep(c), WakeStep(c) PROVE NativeEffect(t, c)
  BY <1>1, <1>2, <1>3, LeaveLemma
<1>4. CASE EventFlagsSet(t, c)
  <2>1. CASE ValidFlags(c.x)
    <3>1. PICK f, v : Set(c.o, [obj[c.o] EXCEPT !.m_flags = f]) /\ Return(t, c, v)
      BY <1>4, <2>1 DEF EventFlagsSet
    <3>2. wait' = WakeAll(wait, <<c.o, "cv">>)
      BY <1>4, <2>1 DEF EventFlagsSet
    <3> QED
      BY <1>2, <1>3, <3>1, <3>2, FlagsSetLemma, WakeLemma
  <2>2. CASE ~ValidFlags(c.x)
    BY <1>2, <1>3, <1>4, <2>2, SameLemma DEF EventFlagsSet, WakeStep
  <2> QED
    BY <2>1, <2>2
<1>5. CASE EventFlagsClear(t, c)
  <2>1. CASE ValidFlags(c.x)
    <3>1. PICK f, v : Set(c.o, [obj[c.o] EXCEPT !.m_flags = f]) /\ Return(t, c, v)
      BY <1>5, <2>1 DEF EventFlagsClear
    <3>2. wait' = wait
      BY <1>5 DEF EventFlagsClear
    <3> QED
      BY <1>2, <1>3, <3>1, <3>2, FlagsSetLemma DEF WakeStep
  <2>2. CASE ~ValidFlags(c.x)
    BY <1>2, <1>3, <1>5, <2>2, SameLemma DEF EventFlagsClear, WakeStep
  <2> QED
    BY <2>1, <2>2
<1>6. CASE EventFlagsGet(t, c)
  BY <1>2, <1>3, <1>6, SameLemma DEF EventFlagsGet, WakeStep
<1>7. CASE EventFlagsWait(t, c)
  <2>1. CASE ValidFlags(c.x.flags)
    <3> DEFINE d == [c EXCEPT !.op = "EventFlagsWaitLoop", !.deadline = Deadline(c.ticks)]
    <3>1. Goto(t, d) /\ ret' = ret /\ obj' = obj /\ wait' = wait
      BY <1>7, <2>1 DEF EventFlagsWait, CaptureDeadline
    <3>2. FrameShape(d) /\ d.o = c.o /\ d.op = "EventFlagsWaitLoop" /\ d.blocked = c.blocked
      <4>1. Deadline(c.ticks) \in Signed
        BY <1>2, ClockLemma
      <4> QED
        BY <1>2, <4>1 DEF FrameShape, FrameFields
    <3>3. ~c.blocked
      BY <1>7 DEF Ready, InCallShape, EventFlagsWait, Waits, ListOf
    <3> HIDE DEF d
    <3>4. Inner(Kind(d.o), d.op)
      BY <1>2, <3>2 DEF Inner
    <3> QED
      BY <1>1, <1>2, <3>1, <3>2, <3>3, <3>4, SameLemma, GoLemma
  <2>2. CASE ~ValidFlags(c.x.flags)
    BY <1>2, <1>3, <1>7, <2>2, SameLemma DEF EventFlagsWait, WakeStep
  <2> QED
    BY <2>1, <2>2
<1>8. CASE EventFlagsWaitLoop(t, c)
  <2>0. c.op = "EventFlagsWaitLoop" /\ Waits(c.op) /\ ListOf(c.op) = "cv"
    BY <1>8 DEF EventFlagsWaitLoop, Waits, ListOf
  <2> DEFINE unsatisfied == ~IsSatisfied(obj[c.o].m_flags, c.x.flags, c.x.options)
  <2>1. CASE Blocks(t, c, unsatisfied, <<c.o, "cv">>, Remaining(c)) /\ obj' = obj
    <3>1. KernelWait(t, c, wait, <<c.o, "cv">>, Remaining(c)) /\ Remaining(c) \in Signed
      BY <1>2, <2>1, ClockLemma DEF Blocks
    <3> QED
      BY <1>1, <1>2, <2>0, <2>1, <3>1, SameLemma, ParkLemma DEF NativeEffect
  <2>2. ASSUME NEW v, Return(t, c, v), obj' = obj, wait' = wait PROVE NativeEffect(t, c)
    BY <1>2, <1>3, <2>2, SameLemma DEF WakeStep
  <2>3. CASE \E f, v : Set(c.o, [obj[c.o] EXCEPT !.m_flags = f]) /\ Return(t, c, v) /\ wait' = wait
    BY <1>2, <1>3, <2>3, FlagsSetLemma DEF WakeStep
  <2>4. CASE \E v : Set(c.o, obj[c.o]) /\ Return(t, c, v) /\ wait' = wait
    <3>1. ObjStep(c)
      BY <1>2, <2>4, SetLemma, ReadyLemma
    <3> QED
      BY <1>3, <2>4, <3>1 DEF WakeStep
  <2> QED
    BY <1>8, <2>1, <2>2, <2>3, <2>4 DEF EventFlagsWaitLoop
<1> QED
  BY <1>4, <1>5, <1>6, <1>7, <1>8 DEF EventFlagsStep

-----------------------------------------------------------------------------
(* Block pools *)
LEMMA PoolLemma ==
    ASSUME NativeOnly, Shape, NEW t \in Tasks, NEW c, Ready(t, c), c.op \in {"PoolAlloc", "PoolFree"}
    PROVE  /\ FrameShape(c) /\ c.o \in DOMAIN obj /\ Kind(c.o) = "pool" /\ PoolShape(obj[c.o])
           /\ <<c.o, "cv">> \in SyncObjects /\ c.ticks \in Signed
<1>1. \A k : Runs(k, c.op) => k = "pool"
  BY DEF Runs, Method, Inner
<1>2. c.ticks \in Signed
  BY ReadyLemma, SignedLemma DEF FrameShape
<1> QED
  BY <1>1, <1>2, ReadyLemma, KindLemma, ListsLemma DEF ObjectShape, Kinds

LEMMA PopLemma ==
    ASSUME NEW p, PoolShape(p), p.m_free_list # <<>>
    PROVE  /\ PoolShape(PopFreeList(p)) /\ PopFreeList(p).m_free_list = Tail(p.m_free_list)
           /\ PopFreeList(p).m_used_count = p.m_used_count + 1
           /\ PopFreeList(p).m_capacity = p.m_capacity /\ PopFreeList(p).m_storage = p.m_storage
<1>1. Tail(p.m_free_list) \in Seq(Nat)
  BY DEF PoolShape
<1> QED
  BY <1>1 DEF PopFreeList, PoolShape

LEMMA PushLemma ==
    ASSUME NEW p, PoolShape(p), NEW block \in Nat
    PROVE  /\ PoolShape(PushFreeList(p, block))
           /\ PushFreeList(p, block).m_free_list = <<block>> \o p.m_free_list
           /\ PushFreeList(p, block).m_used_count = p.m_used_count - 1
           /\ PushFreeList(p, block).m_capacity = p.m_capacity
           /\ PushFreeList(p, block).m_storage = p.m_storage
<1>1. <<block>> \o p.m_free_list \in Seq(Nat)
  BY DEF PoolShape
<1> QED
  BY <1>1 DEF PushFreeList, PoolShape

LEMMA PoolEffect ==
    ASSUME NativeOnly, Shape, NEW t \in Tasks, NEW c, Ready(t, c), PoolStep(t, c)
    PROVE  NativeEffect(t, c)
<1>1. c.op \in {"PoolAlloc", "PoolFree"} /\ now' = now
  BY DEF PoolStep, PoolAlloc, PoolFree
<1>2. /\ FrameShape(c) /\ c.o \in DOMAIN obj /\ Kind(c.o) = "pool" /\ PoolShape(obj[c.o])
      /\ <<c.o, "cv">> \in SyncObjects /\ c.ticks \in Signed
  BY <1>1, PoolLemma
<1>3. ASSUME NEW v, Return(t, c, v), ObjStep(c), WakeStep(c) PROVE NativeEffect(t, c)
  BY <1>1, <1>2, <1>3, LeaveLemma
<1>4. ASSUME NEW r, PoolShape(r), Set(c.o, r) PROVE ObjStep(c)
  <2>1. ObjectShape(r) /\ r.kind = "pool"
    BY <1>4 DEF ObjectShape, Kinds, PoolShape
  <2> QED
    BY <1>2, <1>4, <2>1, SetLemma
<1>5. ASSUME NEW v, Return(t, c, v), obj' = obj, wait' = wait PROVE NativeEffect(t, c)
  BY <1>2, <1>3, <1>5, SameLemma DEF WakeStep
<1>6. CASE PoolAlloc(t, c)
  <2>0. c.op = "PoolAlloc" /\ Waits(c.op) /\ ListOf(c.op) = "cv"
    BY <1>6 DEF PoolAlloc, Waits, ListOf
  <2> DEFINE none == obj[c.o].m_free_list = <<>>
  <2>1. CASE Blocks(t, c, none, <<c.o, "cv">>, c.ticks) /\ obj' = obj
    <3>1. KernelWait(t, c, wait, <<c.o, "cv">>, c.ticks) /\ c.ticks # NO_WAIT
      BY <2>1 DEF Blocks
    <3> QED
      BY <1>1, <1>2, <2>0, <2>1, <3>1, SameLemma, ParkLemma DEF NativeEffect
  <2>2. CASE ~none /\ Set(c.o, PopFreeList(obj[c.o])) /\ wait' = wait /\ \E v : Return(t, c, v)
    <3>1. PoolShape(PopFreeList(obj[c.o]))
      BY <1>2, <2>2, PopLemma
    <3> QED
      BY <1>3, <1>4, <2>2, <3>1 DEF WakeStep
  <2> QED
    BY <1>5, <1>6, <2>1, <2>2 DEF PoolAlloc, Proceeds
<1>7. CASE PoolFree(t, c)
  <2>1. CASE c.x \in 0..obj[c.o].m_capacity-1 /\ obj[c.o].m_used_count # 0
    <3>1. Set(c.o, PushFreeList(obj[c.o], c.x)) /\ wait' = WakeOne(wait, <<c.o, "cv">>)
          /\ Return(t, c, OK)
      BY <1>7, <2>1 DEF PoolFree
    <3>2. c.x \in Nat
      BY <1>2, <2>1 DEF PoolShape
    <3>3. PoolShape(PushFreeList(obj[c.o], c.x))
      BY <1>2, <3>2, PushLemma
    <3>4. WakeStep(c)
      BY <1>2, <3>1, WakeLemma
    <3> QED
      BY <1>3, <1>4, <3>1, <3>3, <3>4
  <2>2. CASE ~(c.x \in 0..obj[c.o].m_capacity-1 /\ obj[c.o].m_used_count # 0)
    BY <1>5, <1>7, <2>2 DEF PoolFree
  <2> QED
    BY <2>1, <2>2
<1> QED
  BY <1>6, <1>7 DEF PoolStep

-----------------------------------------------------------------------------
(* Spin locks *)
LEMMA SpinLemma ==
    ASSUME NativeOnly, Shape, NEW t \in Tasks, NEW c, Ready(t, c),
           c.op \in {"SpinLockLock", "SpinLockTryLock", "SpinLockUnlock", "SpinAcquire", "SpinTry",
                     "MakeLocked", "SpinRelease"}
    PROVE  /\ FrameShape(c) /\ c.o \in DOMAIN obj /\ Kind(c.o) = "spin" /\ SpinShape(obj[c.o])
           /\ ~c.blocked
<1>1. \A k : Runs(k, c.op) => k = "spin"
  BY DEF Runs, Method, Inner
<1>2. ~c.blocked
  BY DEF Ready, InCallShape, Waits, ListOf
<1> QED
  BY <1>1, <1>2, ReadyLemma, KindLemma DEF ObjectShape, Kinds

LEMMA SpinLockEffect ==
    ASSUME NativeOnly, Shape, NEW t \in Tasks, NEW c, Ready(t, c), SpinLockStep(t, c)
    PROVE  NativeEffect(t, c)
<1>1. c.op \in {"SpinLockLock", "SpinLockTryLock", "SpinLockUnlock", "SpinAcquire", "SpinTry",
                "MakeLocked", "SpinRelease"} /\ now' = now /\ wait' = wait
  BY DEF SpinLockStep, SpinLockLock, SpinAcquire, SpinTry, MakeLocked, SpinLockUnlock, SpinRelease
<1>2. /\ FrameShape(c) /\ c.o \in DOMAIN obj /\ Kind(c.o) = "spin" /\ SpinShape(obj[c.o])
      /\ ~c.blocked
  BY <1>1, SpinLemma
<1>3. ASSUME NEW v, Return(t, c, v), ObjStep(c) PROVE NativeEffect(t, c)
  BY <1>1, <1>2, <1>3, LeaveLemma DEF WakeStep
<1>4. ASSUME NEW r, SpinShape(r), Set(c.o, r) PROVE ObjStep(c)
  <2>1. ObjectShape(r) /\ r.kind = "spin"
    BY <1>4 DEF ObjectShape, Kinds, SpinShape
  <2> QED
    BY <1>2, <1>4, <2>1, SetLemma
<1>5. ASSUME NEW op \in {"SpinAcquire", "SpinTry", "MakeLocked", "SpinRelease"},
             Goto(t, [c EXCEPT !.op = op]), ret' = ret, ObjStep(c)
      PROVE  NativeEffect(t, c)
  <2> DEFINE d == [c EXCEPT !.op = op]
  <2>1. FrameShape(d) /\ d.o = c.o /\ d.op = op /\ d.blocked = c.blocked
    BY <1>2 DEF FrameShape, FrameFields
  <2>2. Goto(t, d)
    BY <1>5
  <2> HIDE DEF d
  <2>3. Inner(Kind(d.o), d.op)
    BY <1>2, <1>5, <2>1 DEF Inner
  <2> QED
    BY <1>1, <1>2, <1>5, <2>1, <2>2, <2>3, GoLemma
<1>6. CASE SpinLockLock(t, c)
  <2>1. CASE LockedRecursively(t, c)
    <3>1. SpinShape([obj[c.o] EXCEPT !.m_recursion_count = @ + 1])
      BY <1>2 DEF SpinShape
    <3> QED
      BY <1>3, <1>4, <2>1, <3>1 DEF LockedRecursively
  <2>2. CASE /\ Goto(t, [c EXCEPT !.op = IF c.op = "SpinLockLock" THEN "SpinAcquire" ELSE "SpinTry"])
             /\ obj' = obj /\ ret' = ret
    BY <1>2, <1>5, <2>2, SameLemma
  <2> QED
    BY <1>6, <2>1, <2>2 DEF SpinLockLock
<1>7. ASSUME Takes(t, c) PROVE NativeEffect(t, c)
  <2>1. SpinShape([obj[c.o] EXCEPT !.m_lock = TRUE])
    BY <1>2 DEF SpinShape
  <2> QED
    BY <1>4, <1>5, <1>7, <2>1 DEF Takes
<1>8. CASE SpinAcquire(t, c) \/ SpinTry(t, c)
  BY <1>2, <1>3, <1>7, <1>8, SameLemma DEF SpinAcquire, SpinTry
<1>9. CASE MakeLocked(t, c)
  <2>1. SpinShape([obj[c.o] EXCEPT !.m_owner_tid = t, !.m_recursion_count = 1])
    BY <1>2 DEF SpinShape
  <2> QED
    BY <1>3, <1>4, <1>9, <2>1 DEF MakeLocked
<1>10. CASE SpinLockUnlock(t, c)
  <2>1. CASE obj[c.o].m_recursion_count > 1
    <3>1. SpinShape([obj[c.o] EXCEPT !.m_recursion_count = @ - 1])
      BY <1>2, <2>1 DEF SpinShape
    <3> QED
      BY <1>3, <1>4, <1>10, <2>1, <3>1 DEF SpinLockUnlock
  <2>2. CASE ~(obj[c.o].m_recursion_count > 1)
    <3>1. SpinShape([obj[c.o] EXCEPT !.m_recursion_count = 0, !.m_owner_tid = NULL])
      BY <1>2 DEF SpinShape
    <3> QED
      BY <1>4, <1>5, <1>10, <2>2, <3>1 DEF SpinLockUnlock
  <2> QED
    BY <2>1, <2>2
<1>11. CASE SpinRelease(t, c)
  <2>1. SpinShape([obj[c.o] EXCEPT !.m_lock = FALSE])
    BY <1>2 DEF SpinShape
  <2> QED
    BY <1>3, <1>4, <1>11, <2>1 DEF SpinRelease
<1> QED
  BY <1>6, <1>8, <1>9, <1>10, <1>11 DEF SpinLockStep

-----------------------------------------------------------------------------
(* Message queues *)
LEMMA QueueLemma ==
    ASSUME NativeOnly, Shape, NEW t \in Tasks, NEW c, Ready(t, c),
           c.op \in {"MessageQueuePut", "MessageQueuePutFront", "MessageQueueGet",
                     "MessageQueuePeek", "MessageQueueReset"}
    PROVE  /\ FrameShape(c) /\ c.o \in DOMAIN obj /\ Kind(c.o) = "queue" /\ RingShape(obj[c.o])
           /\ <<c.o, "not_empty">> \in SyncObjects /\ <<c.o, "not_full">> \in SyncObjects
           /\ c.ticks \in Signed
<1>1. \A k : Runs(k, c.op) => k = "queue"
  BY DEF Runs, Method, Inner
<1>2. c.ticks \in Signed
  BY ReadyLemma, SignedLemma DEF FrameShape
<1> QED
  BY <1>1, <1>2, ReadyLemma, KindLemma, ListsLemma DEF ObjectShape, Kinds

(* The indices stay in the buffer *)
LEMMA SlotLemma ==
    ASSUME NEW q, RingShape(q), NEW i \in 0..q.m_capacity-1
    PROVE  NextSlot(q, i) \in 0..q.m_capacity-1 /\ PrevSlot(q, i) \in 0..q.m_capacity-1
<1> DEFINE n == q.m_capacity
<1>1. n \in Nat /\ n > 0 /\ i \in Int /\ i >= 0 /\ i <= n - 1
  BY DEF RingShape
<1> HIDE DEF n
<1>2. (i + 1) % n \in 0..n-1
  BY <1>1
<1>3. PrevSlot(q, i) \in 0..n-1
  BY <1>1 DEF n, PrevSlot
<1> QED
  BY <1>2, <1>3 DEF n, NextSlot

LEMMA AddLemma ==
    ASSUME NEW q, RingShape(q), ~Full(q), NEW v
    PROVE  /\ RingShape(Add(q, v)) /\ Add(q, v).m_count = q.m_count + 1
           /\ Add(q, v).m_capacity = q.m_capacity /\ Add(q, v).kind = q.kind
           /\ RingShape(AddFront(q, v)) /\ AddFront(q, v).m_count = q.m_count + 1
           /\ AddFront(q, v).m_capacity = q.m_capacity /\ AddFront(q, v).kind = q.kind
<1>1. NextSlot(q, q.m_head) \in 0..q.m_capacity-1 /\ PrevSlot(q, q.m_tail) \in 0..q.m_capacity-1
  BY SlotLemma DEF RingShape
<1>2. q.m_count + 1 \in 0..q.m_capacity
  BY DEF RingShape, Full
<1> QED
  BY <1>1, <1>2 DEF RingShape, Add, AddFront

LEMMA RemoveLemma ==
    ASSUME NEW q, RingShape(q), ~Empty(q)
    PROVE  /\ RingShape(RemoveOldest(q)) /\ RemoveOldest(q).m_count = q.m_count - 1
           /\ RemoveOldest(q).m_capacity = q.m_capacity /\ RemoveOldest(q).kind = q.kind
<1>1. NextSlot(q, q.m_tail) \in 0..q.m_capacity-1
  BY SlotLemma DEF RingShape
<1>2. q.m_count - 1 \in 0..q.m_capacity
  BY DEF RingShape, Empty
<1> QED
  BY <1>1, <1>2 DEF RingShape, RemoveOldest

LEMMA ClearedLemma ==
    ASSUME NEW q, RingShape(q)
    PROVE  /\ RingShape(Cleared(q)) /\ Cleared(q).m_count = 0
           /\ Cleared(q).m_capacity = q.m_capacity /\ Cleared(q).kind = q.kind
BY DEF RingShape, Cleared

LEMMA MessageQueueEffect ==
    ASSUME NativeOnly, Shape, NEW t \in Tasks, NEW c, Ready(t, c), MessageQueueStep(t, c)
    PROVE  NativeEffect(t, c)
<1>1. c.op \in {"MessageQueuePut", "MessageQueuePutFront", "MessageQueueGet",
                "MessageQueuePeek", "MessageQueueReset"} /\ now' = now
  BY DEF MessageQueueStep, MessageQueuePut, MessageQueuePutFront, MessageQueueGet,
         MessageQueuePeek, MessageQueueReset, PutWith
<1>2. /\ FrameShape(c) /\ c.o \in DOMAIN obj /\ Kind(c.o) = "queue" /\ RingShape(obj[c.o])
      /\ <<c.o, "not_empty">> \in SyncObjects /\ <<c.o, "not_full">> \in SyncObjects
      /\ c.ticks \in Signed /\ obj[c.o].kind = "queue"
  BY <1>1, QueueLemma, ReadyLemma
<1>3. ASSUME NEW v, Return(t, c, v), ObjStep(c), WakeStep(c) PROVE NativeEffect(t, c)
  BY <1>1, <1>2, <1>3, LeaveLemma
<1>4. ASSUME NEW r, RingShape(r), r.kind = "queue", Set(c.o, r) PROVE ObjStep(c)
  <2>1. ObjectShape(r)
    BY <1>4 DEF ObjectShape, Kinds
  <2> QED
    BY <1>2, <1>4, <2>1, SetLemma
<1>5. ASSUME NEW v, Return(t, c, v), obj' = obj, wait' = wait PROVE NativeEffect(t, c)
  BY <1>2, <1>3, <1>5, SameLemma DEF WakeStep
<1>6. ASSUME NEW condition, NEW list, Blocks(t, c, condition, <<c.o, list>>, c.ticks),
             Waits(c.op), ListOf(c.op) = list, obj' = obj
      PROVE  NativeEffect(t, c)
  <2>1. KernelWait(t, c, wait, <<c.o, list>>, c.ticks) /\ c.ticks # NO_WAIT
    BY <1>6 DEF Blocks
  <2> QED
    BY <1>1, <1>2, <1>6, <2>1, SameLemma, ParkLemma DEF NativeEffect
<1>7. ASSUME NEW q, PutWith(t, c, q), ~Full(obj[c.o]) => RingShape(q) /\ q.kind = "queue",
             c.op \in {"MessageQueuePut", "MessageQueuePutFront"}
      PROVE  NativeEffect(t, c)
  <2>0. Waits(c.op) /\ ListOf(c.op) = "not_full"
    BY <1>7 DEF Waits, ListOf
  <2>1. CASE Blocks(t, c, Full(obj[c.o]), <<c.o, "not_full">>, c.ticks) /\ obj' = obj
    BY <1>6, <2>0, <2>1
  <2>2. CASE \E v : Return(t, c, v) /\ obj' = obj /\ wait' = wait
    BY <1>5, <2>2
  <2>3. CASE /\ Proceeds(t, c, Full(obj[c.o])) /\ Set(c.o, q)
             /\ wait' = WakeOne(wait, <<c.o, "not_empty">>) /\ \E v : Return(t, c, v)
    <3>1. ObjStep(c) /\ WakeStep(c)
      BY <1>2, <1>4, <1>7, <2>3, WakeLemma DEF Proceeds
    <3> QED
      BY <1>3, <2>3, <3>1
  <2> QED
    BY <1>7, <2>1, <2>2, <2>3 DEF PutWith, NotEmpty, NotFull
<1>8. CASE MessageQueuePut(t, c)
  BY <1>2, <1>7, <1>8, AddLemma DEF MessageQueuePut
<1>9. CASE MessageQueuePutFront(t, c)
  BY <1>2, <1>7, <1>9, AddLemma DEF MessageQueuePutFront
<1>10. CASE MessageQueueGet(t, c)
  <2>0. Waits(c.op) /\ ListOf(c.op) = "not_empty"
    BY <1>10 DEF Waits, ListOf, MessageQueueGet
  <2>1. CASE Blocks(t, c, Empty(obj[c.o]), <<c.o, "not_empty">>, c.ticks) /\ obj' = obj
    BY <1>6, <2>0, <2>1
  <2>2. CASE \E v : Return(t, c, v) /\ obj' = obj /\ wait' = wait
    BY <1>5, <2>2
  <2>3. CASE /\ Proceeds(t, c, Empty(obj[c.o])) /\ Set(c.o, RemoveOldest(obj[c.o]))
             /\ wait' = WakeOne(wait, <<c.o, "not_full">>) /\ \E v : Return(t, c, v)
    <3>1. RingShape(RemoveOldest(obj[c.o])) /\ RemoveOldest(obj[c.o]).kind = "queue"
      BY <1>2, <2>3, RemoveLemma DEF Proceeds
    <3>2. ObjStep(c) /\ WakeStep(c)
      BY <1>2, <1>4, <2>3, <3>1, WakeLemma
    <3> QED
      BY <1>3, <2>3, <3>2
  <2> QED
    BY <1>10, <2>1, <2>2, <2>3 DEF MessageQueueGet, NotEmpty, NotFull
<1>11. CASE MessageQueuePeek(t, c)
  <2>0. Waits(c.op) /\ ListOf(c.op) = "not_empty"
    BY <1>11 DEF Waits, ListOf, MessageQueuePeek
  <2>1. CASE Blocks(t, c, Empty(obj[c.o]), <<c.o, "not_empty">>, c.ticks) /\ obj' = obj
    BY <1>6, <2>0, <2>1
  <2>2. CASE \E v : Return(t, c, v) /\ obj' = obj /\ wait' = wait
    BY <1>5, <2>2
  <2> QED
    BY <1>11, <2>1, <2>2 DEF MessageQueuePeek, NotEmpty
<1>12. CASE MessageQueueReset(t, c)
  <2>1. /\ RingShape(Cleared(obj[c.o])) /\ Cleared(obj[c.o]).kind = "queue"
        /\ Set(c.o, Cleared(obj[c.o])) /\ Return(t, c, OK)
        /\ wait' = WakeAll(wait, <<c.o, "not_full">>)
    BY <1>2, <1>12, ClearedLemma DEF MessageQueueReset, NotFull
  <2>2. ObjStep(c) /\ WakeStep(c)
    BY <1>2, <1>4, <2>1, WakeLemma
  <2> QED
    BY <1>3, <2>1, <2>2
<1> QED
  BY <1>8, <1>9, <1>10, <1>11, <1>12 DEF MessageQueueStep

-----------------------------------------------------------------------------
(* Every step of a native program is a step of a native method, or a tick *)
NativeAction(t, c) ==
    \/ SemaphoreStep(t, c) \/ EventFlagsStep(t, c) \/ MessageQueueStep(t, c)
    \/ PoolStep(t, c) \/ SpinLockStep(t, c)

(* Task t takes a step of the frame c; a new one is a call that the caller may make *)
TaskStep(t, c) ==
    /\ Ready(t, c) /\ NativeAction(t, c) /\ NativeEffect(t, c)
    /\ call[t] = NoCall => c \in The.calls[t] /\ CallerMay(t, c)

LEMMA EffectLemma ==
    ASSUME NativeOnly, Shape, NEW t \in Tasks, NEW c, Ready(t, c), NativeAction(t, c)
    PROVE  NativeEffect(t, c)
<1>1. CASE SemaphoreStep(t, c)
  BY <1>1, SemaphoreWaitEffect, SemaphoreSignalEffect, EventEffect, MutexEffect DEF SemaphoreStep
<1> QED
  BY <1>1, EventFlagsEffect, MessageQueueEffect, PoolEffect, SpinLockEffect DEF NativeAction

LEMMA StepLemma ==
    ASSUME NativeOnly, Shape, NEW t \in Tasks, NEW c, Ready(t, c), Step(t, c)
    PROVE  NativeAction(t, c)
<1>1. /\ ~Uses("TimerHost") /\ ~Uses("SmoothWeighted") /\ ~Uses("Monotonic") /\ ~Uses("Heap")
      /\ ~Uses("FreeRTOSQueue") /\ ~Uses("FreeRTOSTask") /\ ~Uses("FreeRTOSBuffer")
      /\ ~Uses("FreeRTOSTimer") /\ ~Uses("Cmsis") /\ ~Uses("CApi")
  BY DEF NativeOnly, NativeProgram, Uses
<1>2. /\ c.op \notin {"PipeWrite", "PipeRead", "PipeReset", "PipeWriteBulk", "PipeWriteLoop",
                      "PipeReadBulk", "PipeReadLoop", "PipeReadTriggered", "PipeTriggerLoop",
                      "PipeTWrite", "PipeTRead", "PipeTReset", "PipeTWriteBulk", "PipeTReadBulk"}
      /\ c.op \notin {"CvWait", "CvSleep", "CvUnlock", "CvRelock", "CvResult", "CvNotifyOne",
                      "CvNotifyAll", "Awake"}
  BY ReadyLemma DEF Runs, Method, Inner
<1>3. ~PipeStep(t, c)
  BY <1>2 DEF PipeStep, PipeWrite, PipeRead, PipeReset, PipeWriteBulk, PipeWriteLoop,
       PipeReadBulk, PipeReadLoop, PipeReadTriggered, PipeTriggerLoop, PipeTWrite, PipeTRead,
       PipeTReset, PipeTWriteBulk, PipeTReadBulk
<1>4. ~CvStep(t, c) /\ ~Awake(t, c)
  BY <1>2 DEF CvStep, CvWait, CvSleep, CvUnlock, CvRelock, CvResult, CvNotifyOne, CvNotifyAll, Awake
<1> QED
  BY <1>1, <1>3, <1>4 DEF Step, NativeStep, NativeAction

(* A call that a program of this kind makes *)
LEMMA CallLemma ==
    ASSUME NativeOnly, Shape, NEW t \in Tasks, NEW c \in The.calls[t]
    PROVE  FrameShape(c) /\ Method(Kind(c.o), c.op) /\ ~c.blocked
<1> HIDE DEF The
<1>1. /\ c.o \in DOMAIN The.objects /\ c.ticks \in Times
      /\ Method(The.objects[c.o].kind, c.op) /\ c = Frame(c.op, c.o, c.x, c.ticks)
  BY DEF NativeOnly, NativeProgram
<1>2. DOMAIN c = FrameFields /\ c.then = NoCall /\ c.deadline = 0 /\ c.blocked = FALSE
  BY <1>1 DEF Frame, FrameFields
<1> QED
  BY <1>1, <1>2, SignedLemma DEF FrameShape, Kind

LEMMA NextLemma ==
    ASSUME NativeOnly, Shape, Next
    PROVE  (\E t \in Tasks : \E c : TaskStep(t, c)) \/ Tick
<1>1. ASSUME NEW t \in Tasks, Begin(t) PROVE \E c : TaskStep(t, c)
  <2>1. PICK c \in The.calls[t] : Idle(t) /\ ~IsWaiting(wait, t) /\ CallerMay(t, c) /\ Step(t, c)
    BY <1>1 DEF Begin
  <2>2. Ready(t, c)
    BY <2>1, CallLemma DEF Ready, Runs, Idle, Unlinked, Linked, IsWaiting
  <2> QED
    BY <2>1, <2>2, StepLemma, EffectLemma DEF TaskStep
<1>2. ASSUME NEW t \in Tasks, Continue(t) PROVE \E c : TaskStep(t, c)
  <2>1. call[t] # NoCall /\ Step(t, call[t]) /\ InCallShape(call[t])
        /\ (~IsWaiting(wait, t) \/ call[t].op = "CvSleep")
    BY <1>2 DEF Continue, Idle, Shape
  <2>2. ~IsWaiting(wait, t)
    BY <2>1 DEF InCallShape, Runs, Method, Inner
  <2>3. Ready(t, call[t])
    BY <2>1, <2>2 DEF Ready, InCallShape, Unlinked, Linked, IsWaiting
  <2> QED
    BY <2>1, <2>3, StepLemma, EffectLemma DEF TaskStep
<1> QED
  BY <1>1, <1>2 DEF Next

(* The methods of the kinds of objects *)
LEMMA ActionLemma ==
    ASSUME NativeOnly, Shape, NEW t \in Tasks, NEW c, Ready(t, c), NativeAction(t, c)
    PROVE  /\ Kind(c.o) = "semaphore" => SemaphoreWait(t, c) \/ SemaphoreSignal(t, c)
           /\ Kind(c.o) = "event" =>
                EventSet(t, c) \/ EventReset(t, c) \/ EventPulse(t, c) \/ EventWait(t, c)
           /\ Kind(c.o) = "mutex" => MutexLock(t, c) \/ MutexUnlock(t, c)
           /\ Kind(c.o) = "flags" => EventFlagsStep(t, c)
           /\ Kind(c.o) = "queue" => MessageQueueStep(t, c)
           /\ Kind(c.o) = "pool" => PoolStep(t, c)
           /\ Kind(c.o) = "spin" => SpinLockStep(t, c)
<1>1. SemaphoreWait(t, c) \/ SemaphoreSignal(t, c) => Kind(c.o) = "semaphore"
  BY ReadyLemma DEF Runs, Method, Inner, SemaphoreWait, SemaphoreSignal
<1>2. EventSet(t, c) \/ EventReset(t, c) \/ EventPulse(t, c) \/ EventWait(t, c) => Kind(c.o) = "event"
  BY EventLemma DEF EventSet, EventReset, EventPulse, EventWait
<1>3. MutexLock(t, c) \/ MutexUnlock(t, c) => Kind(c.o) = "mutex"
  BY MutexLemma DEF MutexLock, MutexUnlock
<1>4. EventFlagsStep(t, c) => Kind(c.o) = "flags"
  BY FlagsLemma DEF EventFlagsStep, EventFlagsSet, EventFlagsClear, EventFlagsGet, EventFlagsWait,
     EventFlagsWaitLoop
<1>5. MessageQueueStep(t, c) => Kind(c.o) = "queue"
  BY QueueLemma DEF MessageQueueStep, MessageQueuePut, MessageQueuePutFront, MessageQueueGet,
     MessageQueuePeek, MessageQueueReset
<1>6. PoolStep(t, c) => Kind(c.o) = "pool"
  BY PoolLemma DEF PoolStep, PoolAlloc, PoolFree
<1>7. SpinLockStep(t, c) => Kind(c.o) = "spin"
  BY SpinLemma DEF SpinLockStep, SpinLockLock, SpinAcquire, SpinTry, MakeLocked, SpinLockUnlock,
     SpinRelease
<1> QED
  BY <1>1, <1>2, <1>3, <1>4, <1>5, <1>6, <1>7 DEF NativeAction, SemaphoreStep

-----------------------------------------------------------------------------
(* What a step does to the waiters *)

(* The tasks S are taken off their lists and signalled *)
Woke(S) ==
    /\ wait' \in WaitTypeIn(Signed) /\ ListsOnce(wait')
    /\ \A l \in SyncObjects, j \in Tasks : Linked(wait', l, j) <=> Linked(wait, l, j) /\ j \notin S
    /\ \A j \in Tasks : j \in S => ~wait'.timeout[j]
    /\ \A j \in Tasks : j \notin S => wait'.timeout[j] = wait.timeout[j]

(* The waiters of the object o *)
WaitersOf(o) == {j \in Tasks : \E list : <<o, list>> \in SyncObjects /\ Linked(wait, <<o, list>>, j)}

(* A task is in one list *)
LEMMA OneListLemma ==
    ASSUME Shape, NEW l \in SyncObjects, NEW m \in SyncObjects, NEW j \in Tasks,
           Linked(wait, l, j), Linked(wait, m, j)
    PROVE  l = m
BY DEF Shape

LEMMA WokeNoneLemma ==
    ASSUME Shape, wait' = wait
    PROVE  Woke({})
BY DEF Shape, Woke

LEMMA WokeOneLemma ==
    ASSUME Shape, NEW l \in SyncObjects, wait' = WakeOne(wait, l)
    PROVE  /\ wait.list[l] = <<>> => Woke({})
           /\ wait.list[l] # <<>> => /\ Woke({Head(wait.list[l])}) /\ Head(wait.list[l]) \in Tasks
                                     /\ Linked(wait, l, Head(wait.list[l]))
<1>1. CASE wait.list[l] = <<>>
  BY <1>1, WokeNoneLemma DEF WakeOne
<1>2. CASE wait.list[l] # <<>>
  <2> DEFINE h == Head(wait.list[l])
  <2>1. wait' \in WaitTypeIn(Signed) /\ AfterWakeOne(wait', wait, l, h)
    BY <1>2, SignedLemma, WakeOneInLemma DEF Shape
  <2> HIDE DEF h
  <2>2. Linked(wait, l, h) /\ h \in Tasks /\ ListsOnce(wait')
    BY <2>1 DEF AfterWakeOne
  <2>3. \A m \in SyncObjects, j \in Tasks : Linked(wait', m, j) <=> Linked(wait, m, j) /\ j # h
    BY <2>1, <2>2, OneListLemma DEF AfterWakeOne
  <2>4. wait'.timeout[h] = FALSE /\ \A j \in Tasks : j # h => wait'.timeout[j] = wait.timeout[j]
    BY <2>1 DEF AfterWakeOne
  <2>5. Woke({h})
    BY <2>1, <2>2, <2>3, <2>4 DEF Woke
  <2> QED
    BY <1>2, <2>2, <2>5 DEF h
<1> QED
  BY <1>1, <1>2

LEMMA WokeAllLemma ==
    ASSUME Shape, NEW l \in SyncObjects, wait' = WakeAll(wait, l)
    PROVE  Woke({j \in Tasks : Linked(wait, l, j)})
<1> DEFINE S == {j \in Tasks : Linked(wait, l, j)}
<1>1. wait \in WaitTypeIn(Signed) /\ ListsOnce(wait)
  BY DEF Shape
<1>2. /\ wait' \in WaitTypeIn(Signed) /\ ListsOnce(wait')
      /\ \A o \in SyncObjects, j \in Tasks : Linked(wait', o, j) <=> Linked(wait, o, j) /\ o # l
      /\ \A j \in Tasks : wait'.timeout[j] = (wait.timeout[j] /\ ~Linked(wait, l, j))
  BY <1>1, SignedLemma, WakeAllInLemma
<1>3. \A j \in Tasks : j \in S <=> Linked(wait, l, j)
  OBVIOUS
<1> HIDE DEF S
<1>4. \A o \in SyncObjects, j \in Tasks : Linked(wait', o, j) <=> Linked(wait, o, j) /\ j \notin S
  BY <1>2, <1>3, OneListLemma
<1>5. \A j \in Tasks : j \in S => ~wait'.timeout[j]
  BY <1>2, <1>3
<1>6. \A j \in Tasks : j \notin S => wait'.timeout[j] = wait.timeout[j]
  <2>1. \A j \in Tasks : wait.timeout[j] \in BOOLEAN
    BY <1>1 DEF WaitTypeIn
  <2> QED
    BY <1>2, <1>3, <2>1
<1> QED
  BY <1>2, <1>4, <1>5, <1>6 DEF Woke, S

(* A step that does not wait wakes some of the waiters of its object *)
LEMMA WakeStepLemma ==
    ASSUME Shape, NEW c, WakeStep(c)
    PROVE  \E S \in SUBSET WaitersOf(c.o) : Woke(S)
<1>1. CASE wait' = wait
  BY <1>1, WokeNoneLemma
<1>2. ASSUME NEW list, <<c.o, list>> \in SyncObjects, wait' = WakeOne(wait, <<c.o, list>>)
      PROVE  \E S \in SUBSET WaitersOf(c.o) : Woke(S)
  <2>1. CASE wait.list[<<c.o, list>>] = <<>>
    BY <1>2, <2>1, WokeOneLemma
  <2>2. CASE wait.list[<<c.o, list>>] # <<>>
    <3>1. PICK h \in Tasks : Woke({h}) /\ Linked(wait, <<c.o, list>>, h)
      BY <1>2, <2>2, WokeOneLemma
    <3>2. {h} \in SUBSET WaitersOf(c.o)
      BY <1>2, <3>1 DEF WaitersOf
    <3> QED
      BY <3>1, <3>2
  <2> QED
    BY <2>1, <2>2
<1>3. ASSUME NEW list, <<c.o, list>> \in SyncObjects, wait' = WakeAll(wait, <<c.o, list>>)
      PROVE  \E S \in SUBSET WaitersOf(c.o) : Woke(S)
  <2> DEFINE S == {j \in Tasks : Linked(wait, <<c.o, list>>, j)}
  <2>1. Woke(S)
    BY <1>3, WokeAllLemma
  <2>2. S \in SUBSET WaitersOf(c.o)
    BY <1>3 DEF WaitersOf
  <2> QED
    BY <2>1, <2>2
<1> QED
  BY <1>1, <1>2, <1>3 DEF WakeStep

(* The task t is linked in the list l *)
Parked(t, l) ==
    /\ wait' \in WaitTypeIn(Signed) /\ ListsOnce(wait')
    /\ \A m \in SyncObjects, j \in Tasks :
          Linked(wait', m, j) <=> Linked(wait, m, j) \/ (m = l /\ j = t)
    /\ \A j \in Tasks : j # t => wait'.timeout[j] = wait.timeout[j]

LEMMA ParkedLemma ==
    ASSUME NativeOnly, Shape, NEW t \in Tasks, NEW c, Ready(t, c), Parks(t, c)
    PROVE  <<c.o, ListOf(c.op)>> \in SyncObjects /\ Parked(t, <<c.o, ListOf(c.op)>>)
<1>1. <<c.o, ListOf(c.op)>> \in SyncObjects
  BY ReadyLemma, ListLemma DEF Parks
<1> DEFINE l == <<c.o, ListOf(c.op)>>
<1>2. PICK ticks \in Signed : wait' = SetupWait(wait, l, t, ticks)
  BY DEF Parks
<1>3. wait \in WaitTypeIn(Signed) /\ ListsOnce(wait) /\ l \in SyncObjects
      /\ \A m \in SyncObjects : ~Linked(wait, m, t)
  BY <1>1 DEF Shape, Ready, Unlinked
<1> HIDE DEF l
<1>4. SetupWait(wait, l, t, ticks) \in WaitTypeIn(Signed)
      /\ AfterSetup(SetupWait(wait, l, t, ticks), wait, l, t)
  BY <1>3, SignedLemma, SetupWaitInLemma
<1>5. Parked(t, l)
  BY <1>2, <1>4 DEF AfterSetup, Parked
<1> QED
  BY <1>1, <1>5 DEF l

-----------------------------------------------------------------------------
(* Shape is an invariant *)
LEMMA SameProgramLemma ==
    ASSUME scenario' = scenario
    PROVE  /\ The' = The /\ (NativeOnly' <=> NativeOnly) /\ \A o : Kind(o)' = Kind(o)
           /\ \A d : FrameShape(d)' <=> FrameShape(d)
           /\ \A d : InCallShape(d)' <=> InCallShape(d)
<1>1. The' = The
  BY DEF The
<1>2. \A o : Kind(o)' = Kind(o)
  BY <1>1 DEF Kind
<1>3. \A d : FrameShape(d)' <=> FrameShape(d)
  BY <1>1 DEF FrameShape
<1>4. \A d : InCallShape(d)' <=> InCallShape(d)
  BY <1>2, <1>3 DEF InCallShape
<1> QED
  BY <1>1, <1>2, <1>3, <1>4 DEF NativeOnly

(* What Shape says of the waiters *)
WaitShape ==
    /\ wait \in WaitTypeIn(Signed) /\ ListsOnce(wait)
    /\ \A l \in SyncObjects, t \in Tasks : Linked(wait, l, t) =>
          /\ call[t] # NoCall /\ call[t].blocked
          /\ l = <<call[t].o, ListOf(call[t].op)>>

LEMMA ShapeStepLemma ==
    ASSUME NativeOnly, Shape, NEW t \in Tasks, NEW c, Ready(t, c), NativeEffect(t, c),
           scenario' = scenario
    PROVE  Shape'
<1>1. /\ The' = The /\ \A o : Kind(o)' = Kind(o)
      /\ \A d : InCallShape(d)' <=> InCallShape(d)
  BY SameProgramLemma
<1>2. scenario' \in DOMAIN Scenarios /\ DOMAIN obj' = DOMAIN The'.objects
      /\ \A o \in DOMAIN obj' : obj'[o].kind = Kind(o)' /\ ObjectShape(obj'[o])
  BY <1>1, ReadyLemma DEF Shape, NativeEffect, ObjStep
<1>3. now' \in 0..2^TimeoutBits-1
  BY DEF Shape, NativeEffect
<1>4. Only(t)
  BY DEF NativeEffect, Leaving, Parks
<1>5. FrameShape(c) /\ Runs(Kind(c.o), c.op)
  BY ReadyLemma
<1>6. (\A j \in Tasks : call'[j] = NoCall \/ InCallShape(call'[j])) /\ WaitShape'
  <2>1. CASE Leaving(t, c)
    <3>1. call'[t] = NoCall \/ InCallShape(call'[t])
      BY <2>1 DEF Leaving, Follows, InCallShape, Runs
    <3>2. \A j \in Tasks : call'[j] = NoCall \/ InCallShape(call'[j])
      BY <1>4, <3>1 DEF Only, Shape
    <3>3. PICK S \in SUBSET WaitersOf(c.o) : Woke(S)
      BY <2>1, WakeStepLemma DEF Leaving
    <3>4. \A l \in SyncObjects, j \in Tasks : Linked(wait', l, j) => Linked(wait, l, j) /\ j # t
      BY <3>3 DEF Woke, Ready, Unlinked
    <3>5. WaitShape'
      BY <1>4, <3>3, <3>4 DEF WaitShape, Shape, Woke, Only
    <3> QED
      BY <3>2, <3>5
  <2>2. CASE Parks(t, c)
    <3>1. InCallShape(call'[t])
      <4>1. Blocked(call'[t], c) /\ Waits(c.op) /\ (c.ticks # NO_WAIT \/ c.op = "EventFlagsWaitLoop")
        BY <2>2 DEF Parks
      <4>2. FrameShape(call'[t])
        BY <1>5, <4>1 DEF FrameShape, Blocked
      <4> QED
        BY <1>5, <4>1, <4>2 DEF InCallShape, Blocked
    <3>2. \A j \in Tasks : call'[j] = NoCall \/ InCallShape(call'[j])
      BY <1>4, <3>1 DEF Only, Shape
    <3>3. Parked(t, <<c.o, ListOf(c.op)>>)
      BY <2>2, ParkedLemma
    <3>4. call'[t] # NoCall /\ call'[t].blocked /\ call'[t].o = c.o /\ call'[t].op = c.op
      <4>1. Blocked(call'[t], c)
        BY <2>2 DEF Parks
      <4>2. DOMAIN call'[t] # DOMAIN NoCall
        BY <4>1 DEF Blocked, NoCall, FrameFields
      <4> QED
        BY <4>1, <4>2 DEF Blocked
    <3>5. \A l \in SyncObjects, j \in Tasks : Linked(wait', l, j) => Linked(wait, l, j) \/ (l = <<c.o, ListOf(c.op)>> /\ j = t)
      BY <3>3 DEF Parked
    <3>6. \A l \in SyncObjects : ~Linked(wait, l, t)
      BY DEF Ready, Unlinked
    <3>7. WaitShape'
      BY <1>4, <3>3, <3>4, <3>5, <3>6 DEF WaitShape, Shape, Parked, Only
    <3> QED
      BY <3>2, <3>7
  <2> QED
    BY <2>1, <2>2 DEF NativeEffect
<1>7. DOMAIN call' = Tasks /\ DOMAIN ret' = Tasks
  BY <1>4 DEF Only
<1> QED
  BY <1>1, <1>2, <1>3, <1>6, <1>7 DEF Shape, WaitShape

(* A tick takes waiters whose time is over off their lists, with a time-out *)
Ticked ==
    /\ wait' \in WaitTypeIn(Signed) /\ ListsOnce(wait')
    /\ \A l \in SyncObjects, j \in Tasks :
          Linked(wait', l, j) <=> Linked(wait, l, j) /\ j \notin Expired(wait)
    /\ \A j \in Tasks : j \in Expired(wait) => IsWaiting(wait, j) /\ wait'.timeout[j]
    /\ \A j \in Tasks : j \notin Expired(wait) => wait'.timeout[j] = wait.timeout[j]
    /\ obj' = obj /\ call' = call /\ ret' = ret

LEMMA TickedLemma ==
    ASSUME Shape, Tick
    PROVE  Ticked /\ now' \in 0..2^TimeoutBits-1
<1>1. wait \in WaitTypeIn(Signed) /\ ListsOnce(wait) /\ now \in 0..2^TimeoutBits-1
  BY DEF Shape
<1>2. /\ wait' = TickWaiters(wait) /\ obj' = obj /\ call' = call /\ ret' = ret
      /\ now' = now \/ now' = (now + 1) % 2^TimeoutBits
  BY DEF Tick, KernelTick
<1>3. /\ wait' \in WaitTypeIn(Signed) /\ ListsOnce(wait')
      /\ \A l \in SyncObjects, j \in Tasks :
            Linked(wait', l, j) <=> Linked(wait, l, j) /\ j \notin Expired(wait)
      /\ \A j \in Tasks : wait'.timeout[j] = (wait.timeout[j] \/ j \in Expired(wait))
  BY <1>1, <1>2, SignedLemma, TickWaitersInLemma
<1>4. \A j \in Tasks : wait.timeout[j] \in BOOLEAN
  BY <1>1 DEF WaitTypeIn
<1>5. \A j \in Tasks : j \in Expired(wait) => IsWaiting(wait, j)
  BY DEF Expired
<1>6. Ticked
  BY <1>2, <1>3, <1>4, <1>5 DEF Ticked
<1>7. now' \in 0..2^TimeoutBits-1
  <2> DEFINE n == 2^TimeoutBits
  <2>1. n \in Nat /\ n > 0
    BY TimeoutAssumption, WaitAssumption
  <2>2. now \in 0..n-1 /\ (now' = now \/ now' = (now + 1) % n)
    BY <1>1, <1>2
  <2> HIDE DEF n
  <2>3. now' \in 0..n-1
    BY <2>1, <2>2
  <2> QED
    BY <2>3 DEF n
<1> QED
  BY <1>6, <1>7

LEMMA ShapeTickLemma ==
    ASSUME Shape, Tick, scenario' = scenario
    PROVE  Shape'
<1>1. /\ The' = The /\ \A o : Kind(o)' = Kind(o)
      /\ \A d : InCallShape(d)' <=> InCallShape(d)
  BY SameProgramLemma
<1>2. Ticked /\ now' \in 0..2^TimeoutBits-1
  BY TickedLemma
<1>3. obj' = obj /\ call' = call /\ ret' = ret
  BY <1>2 DEF Ticked
<1>4. WaitShape'
  BY <1>2 DEF Ticked, WaitShape, Shape
<1>5. \A j \in Tasks : call'[j] = NoCall \/ InCallShape(call'[j])
  BY <1>3 DEF Shape
<1>6. DOMAIN obj' = DOMAIN The'.objects /\ \A o \in DOMAIN obj' : obj'[o].kind = Kind(o)' /\ ObjectShape(obj'[o])
  BY <1>1, <1>3 DEF Shape
<1> QED
  BY <1>1, <1>2, <1>3, <1>4, <1>5, <1>6 DEF Shape, WaitShape

LEMMA ShapeInitLemma ==
    ASSUME NativeOnly, Init
    PROVE  Shape
<1> HIDE DEF The
<1>1. scenario \in DOMAIN Scenarios /\ obj = The.objects
  BY DEF Init
<1>2. ASSUME NEW o \in DOMAIN The.objects PROVE ObjectShape(The.objects[o])
  <2> DEFINE r == The.objects[o]
  <2>1. Constructed(r)
    BY DEF NativeOnly, NativeProgram
  <2> SUFFICES ObjectShape(r)
    OBVIOUS
  <2> HIDE DEF r
  <2>2. CASE \E n, m \in Nat : n <= m /\ r = SemaphoreObject(n, m)
    BY <2>2 DEF SemaphoreObject, ObjectShape, Kinds, SemaphoreShape
  <2>3. CASE \E manual, signaled \in BOOLEAN : r = EventObject(manual, signaled)
    BY <2>3 DEF EventObject, ObjectShape, Kinds, EventShape
  <2>4. CASE r = MutexObject
    BY <2>4 DEF MutexObject, ObjectShape, Kinds, MutexShape
  <2>5. CASE \E flags : r = EventFlagsObject(flags)
    BY <2>5 DEF EventFlagsObject, ObjectShape, Kinds, FlagsShape
  <2>6. CASE \E capacity, fits \in Nat : r = PoolObject(capacity, fits)
    <3>1. PICK capacity, fits \in Nat : r = PoolObject(capacity, fits)
      BY <2>6
    <3> DEFINE n == Min({capacity, fits})
    <3>2. n \in Nat
      <4>1. \E x \in {capacity, fits} : \A y \in {capacity, fits} : x <= y
        <5>1. CASE capacity <= fits
          BY <5>1
        <5>2. CASE fits <= capacity
          BY <5>2
        <5> QED
          BY <5>1, <5>2
      <4> QED
        BY <4>1 DEF Min
    <3>3. r = [kind |-> "pool", m_capacity |-> n, m_used_count |-> 0,
               m_storage |-> TRUE, m_free_list |-> [i \in 1..n |-> i - 1]]
      BY <3>1 DEF PoolObject, BuildFreeList
    <3> HIDE DEF n
    <3>4. [i \in 1..n |-> i - 1] \in Seq(Nat)
      BY <3>2
    <3> QED
      BY <3>2, <3>3, <3>4 DEF ObjectShape, Kinds, PoolShape
  <2>7. CASE r = SpinObject
    BY <2>7 DEF SpinObject, ObjectShape, Kinds, SpinShape
  <2>8. CASE \E capacity \in Nat \ {0} : r = RingObject("queue", capacity)
    BY <2>8 DEF RingObject, ObjectShape, Kinds, RingShape
  <2> QED
    BY <2>1, <2>2, <2>3, <2>4, <2>5, <2>6, <2>7, <2>8 DEF Constructed, r
<1>3. wait \in WaitTypeIn(Signed) /\ ListsOnce(wait) /\ \A l \in SyncObjects, j \in Tasks : ~Linked(wait, l, j)
  BY SignedLemma, NoWaitersLemma DEF Init
<1>4. 0 \in 0..2^TimeoutBits-1
  BY TimeoutAssumption, WaitAssumption
<1> QED
  BY <1>1, <1>2, <1>3, <1>4 DEF Init, Shape, Kind

(* A step, and what it keeps *)
LEMMA ShapeNextLemma ==
    ASSUME NativeOnly, Shape, [Next]_vars
    PROVE  /\ Shape' /\ NativeOnly' /\ The' = The
           /\ DOMAIN obj' = DOMAIN obj /\ \A o : Kind(o)' = Kind(o)
           /\ \/ \E t \in Tasks : \E c : TaskStep(t, c)
              \/ Ticked
              \/ obj' = obj /\ wait' = wait /\ call' = call /\ ret' = ret /\ scenario' = scenario
<1>0. ASSUME Shape', The' = The PROVE DOMAIN obj' = DOMAIN obj /\ \A o : Kind(o)' = Kind(o)
  BY <1>0 DEF Shape, Kind
<1>1. CASE Next
  <2>1. scenario' = scenario
    BY <1>1 DEF Next
  <2>2. CASE \E t \in Tasks : \E c : TaskStep(t, c)
    BY <1>0, <2>1, <2>2, ShapeStepLemma, SameProgramLemma DEF TaskStep
  <2>3. CASE Tick
    BY <1>0, <2>1, <2>3, ShapeTickLemma, TickedLemma, SameProgramLemma
  <2> QED
    BY <1>1, <2>2, <2>3, NextLemma
<1>2. CASE UNCHANGED vars
  <2>1. obj' = obj /\ wait' = wait /\ call' = call /\ ret' = ret /\ now' = now /\ scenario' = scenario
    BY <1>2 DEF vars
  <2>2. The' = The /\ NativeOnly' /\ (\A o : Kind(o)' = Kind(o))
        /\ (\A d : InCallShape(d)' <=> InCallShape(d))
    BY <2>1, SameProgramLemma
  <2>3. Shape'
    BY <2>1, <2>2 DEF Shape
  <2> QED
    BY <1>0, <2>1, <2>2, <2>3
<1> QED
  BY <1>1, <1>2

(* Whatever native methods the tasks call, the variables, objects, frames and lists
   of waiters keep their shape: a task is in one list at most, and then in a call that
   waits on it *)
THEOREM ShapeInvariance == Spec => [](NativeOnly => Shape)
<1>1. Init => (NativeOnly => Shape)
  BY ShapeInitLemma
<1>2. (NativeOnly => Shape) /\ [Next]_vars => (NativeOnly => Shape)'
  <2> SUFFICES ASSUME NativeOnly => Shape, [Next]_vars, NativeOnly' PROVE Shape'
    OBVIOUS
  <2>1. scenario' = scenario
    BY DEF Next, vars
  <2>2. NativeOnly
    BY <2>1, SameProgramLemma
  <2> QED
    BY <2>2, ShapeNextLemma
<1> QED
  BY <1>1, <1>2, PTL DEF Spec

LEMMA TypeLemma ==
    ASSUME Shape
    PROVE  TypeOK
<1>1. scenario \in DOMAIN Scenarios /\ DOMAIN obj = DOMAIN The.objects /\ now \in 0..2^TimeoutBits-1
  BY DEF Shape
<1>2. wait \in [list: [SyncObjects -> Seq(Tasks)], time: [Tasks -> -WAIT_INFINITE-1..WAIT_INFINITE],
                timeout: [Tasks -> BOOLEAN]]
  BY DEF Shape, WaitTypeIn, Signed
<1>3. \A t \in Tasks : call[t] = NoCall \/ call[t].ticks \in -WAIT_INFINITE-1..portMAX_DELAY
  <2>1. \A t \in Tasks : call[t] = NoCall \/ call[t].ticks \in 0..WAIT_INFINITE
    BY DEF Shape, InCallShape, FrameShape, Times
  <2>2. portMAX_DELAY \in Int /\ WAIT_INFINITE <= portMAX_DELAY /\ WAIT_INFINITE \in Nat
    BY WaitAssumption, TimeoutAssumption DEF portMAX_DELAY
  <2> HIDE DEF portMAX_DELAY
  <2>3. \A x \in 0..WAIT_INFINITE : x \in -WAIT_INFINITE-1..portMAX_DELAY
    BY <2>2
  <2> QED
    BY <2>1, <2>3
<1>4. \A o \in Objects("semaphore") : obj[o].m_count \in 0..obj[o].m_count_max
  BY DEF Shape, Objects, ObjectShape, SemaphoreShape
<1>5. ASSUME NEW o \in UNION {Objects(k) : k \in {"queue", "pipe", "set", "envelopes"}}
      PROVE  /\ obj[o].m_count \in 0..obj[o].m_capacity
             /\ {obj[o].m_head, obj[o].m_tail} \subseteq 0..obj[o].m_capacity-1
  <2>1. o \in DOMAIN obj /\ obj[o].kind \in {"queue", "pipe", "set", "envelopes"}
    BY DEF Objects
  <2>2. ObjectShape(obj[o])
    BY <2>1 DEF Shape
  <2> QED
    BY <2>1, <2>2 DEF ObjectShape, Kinds, RingShape
<1> QED
  BY <1>1, <1>2, <1>3, <1>4, <1>5 DEF TypeOK

(* Counts stay within their limits, the indices of a ring within its buffer and the
   times of waits within Timeout *)
THEOREM TypeCorrect == Spec => [](NativeOnly => TypeOK)
<1>1. (NativeOnly => Shape) => (NativeOnly => TypeOK)
  BY TypeLemma
<1> QED
  BY <1>1, ShapeInvariance, PTL

-----------------------------------------------------------------------------
(* An object that a step is not on *)
IsOn(c, o) == c # NoCall /\ c.o = o

Elsewhere(o) ==
    /\ obj'[o] = obj[o]
    /\ \A list : <<o, list>> \in SyncObjects =>
          \A j \in Tasks : Linked(wait', <<o, list>>, j) <=> Linked(wait, <<o, list>>, j)
    /\ \A j \in Tasks : IsOn(call[j], o) \/ IsOn(call'[j], o) =>
          /\ call'[j] = call[j] /\ wait'.timeout[j] = wait.timeout[j]
          /\ IsWaiting(wait', j) <=> IsWaiting(wait, j)

LEMMA WaitersLemma ==
    ASSUME Shape, NEW o, NEW j \in WaitersOf(o)
    PROVE  /\ call[j] # NoCall /\ call[j].blocked /\ call[j].o = o
           /\ Linked(wait, <<o, ListOf(call[j].op)>>, j) /\ <<o, ListOf(call[j].op)>> \in SyncObjects
<1>1. PICK list : <<o, list>> \in SyncObjects /\ Linked(wait, <<o, list>>, j) /\ j \in Tasks
  BY DEF WaitersOf
<1>2. call[j] # NoCall /\ call[j].blocked /\ <<o, list>> = <<call[j].o, ListOf(call[j].op)>>
  BY <1>1 DEF Shape
<1> QED
  BY <1>1, <1>2

LEMMA ElsewhereLemma ==
    ASSUME NativeOnly, Shape, NEW t \in Tasks, NEW c, TaskStep(t, c), NEW o \in DOMAIN obj, o # c.o
    PROVE  Elsewhere(o)
<1>1. Ready(t, c) /\ NativeEffect(t, c) /\ FrameShape(c)
  BY ReadyLemma DEF TaskStep
<1>2. obj'[o] = obj[o] /\ Only(t)
  BY <1>1 DEF NativeEffect, ObjStep, Leaving, Parks
<1>3. ~IsOn(call[t], o)
  BY <1>1 DEF Ready, IsOn
<1>4. CASE Leaving(t, c)
  <2>1. PICK S \in SUBSET WaitersOf(c.o) : Woke(S)
    BY <1>4, WakeStepLemma DEF Leaving
  <2>2. ~IsOn(call'[t], o)
    BY <1>4 DEF Leaving, Follows, IsOn
  <2>3. \A j \in Tasks : IsOn(call[j], o) => j \notin S
    BY <2>1, WaitersLemma DEF IsOn
  <2>4. \A list : \A j \in Tasks : <<o, list>> \in SyncObjects /\ Linked(wait, <<o, list>>, j) => IsOn(call[j], o)
    BY DEF Shape, IsOn
  <2>5. \A list : <<o, list>> \in SyncObjects =>
          \A j \in Tasks : Linked(wait', <<o, list>>, j) <=> Linked(wait, <<o, list>>, j)
    <3> SUFFICES ASSUME NEW list, <<o, list>> \in SyncObjects, NEW j \in Tasks
                 PROVE  Linked(wait', <<o, list>>, j) <=> Linked(wait, <<o, list>>, j)
      OBVIOUS
    <3>1. Linked(wait, <<o, list>>, j) => j \notin S
      BY <2>3, <2>4
    <3> QED
      BY <2>1, <3>1 DEF Woke
  <2>6. ASSUME NEW j \in Tasks, IsOn(call[j], o) \/ IsOn(call'[j], o)
        PROVE  /\ call'[j] = call[j] /\ wait'.timeout[j] = wait.timeout[j]
               /\ IsWaiting(wait', j) <=> IsWaiting(wait, j)
    <3>1. j # t /\ call'[j] = call[j] /\ IsOn(call[j], o)
      BY <1>2, <1>3, <2>2, <2>6 DEF Only
    <3>2. j \notin S
      BY <2>3, <3>1
    <3> QED
      BY <2>1, <3>1, <3>2, IsWaitingLemma DEF Woke
  <2> QED
    BY <1>2, <2>5, <2>6 DEF Elsewhere
<1>5. CASE Parks(t, c)
  <2>1. Parked(t, <<c.o, ListOf(c.op)>>)
    BY <1>1, <1>5, ParkedLemma
  <2>2. ~IsOn(call'[t], o)
    BY <1>5 DEF Parks, Blocked, IsOn
  <2>3. \A list : <<o, list>> # <<c.o, ListOf(c.op)>>
    OBVIOUS
  <2>4. \A list : <<o, list>> \in SyncObjects =>
          \A j \in Tasks : Linked(wait', <<o, list>>, j) <=> Linked(wait, <<o, list>>, j)
    BY <2>1, <2>3 DEF Parked
  <2>5. ASSUME NEW j \in Tasks, IsOn(call[j], o) \/ IsOn(call'[j], o)
        PROVE  /\ call'[j] = call[j] /\ wait'.timeout[j] = wait.timeout[j]
               /\ IsWaiting(wait', j) <=> IsWaiting(wait, j)
    <3>1. j # t /\ call'[j] = call[j]
      BY <1>2, <1>3, <2>2, <2>5 DEF Only
    <3> QED
      BY <2>1, <3>1, IsWaitingLemma DEF Parked
  <2> QED
    BY <1>2, <2>4, <2>5 DEF Elsewhere
<1> QED
  BY <1>1, <1>4, <1>5 DEF NativeEffect

(* The tasks on their way from a wait on o, and those that a step adds *)
LEMMA OnTheWayElsewhere ==
    ASSUME NEW o, Elsewhere(o), NEW ops
    PROVE  OnTheWay(o, ops)' = OnTheWay(o, ops)
BY DEF Elsewhere, IsOn, OnTheWay, Signalled

LEMMA OnTheWayTicked ==
    ASSUME Shape, Ticked, NEW o, NEW ops
    PROVE  OnTheWay(o, ops)' = OnTheWay(o, ops)
<1>1. ASSUME NEW j \in Tasks
      PROVE  ~IsWaiting(wait', j) /\ Signalled(j, call[j])' <=> ~IsWaiting(wait, j) /\ Signalled(j, call[j])
  <2>1. CASE j \in Expired(wait)
    BY <2>1 DEF Ticked, Signalled
  <2>2. CASE j \notin Expired(wait)
    BY <2>2, IsWaitingLemma DEF Ticked, Signalled
  <2> QED
    BY <2>1, <2>2
<1> QED
  BY <1>1 DEF OnTheWay, Ticked

LEMMA OnTheWayLeaving ==
    ASSUME Shape, NEW t \in Tasks, NEW c, Ready(t, c), Leaving(t, c),
           NEW S \in SUBSET WaitersOf(c.o), Woke(S), NEW ops
    PROVE  OnTheWay(c.o, ops)' = (OnTheWay(c.o, ops) \ {t}) \cup {j \in S : call[j].op \in ops}
<1>1. t \notin OnTheWay(c.o, ops)'
  BY DEF Leaving, Follows, OnTheWay, Signalled
<1>2. t \notin S
  BY DEF Ready, Unlinked, WaitersOf
<1>3. ASSUME NEW j \in Tasks, j # t
      PROVE  j \in OnTheWay(c.o, ops)' <=> j \in OnTheWay(c.o, ops) \/ (j \in S /\ call[j].op \in ops)
  <2>1. call'[j] = call[j]
    BY <1>3 DEF Leaving, Only
  <2>2. CASE j \in S
    <3>1. call[j] # NoCall /\ call[j].blocked /\ call[j].o = c.o
      BY <2>2, WaitersLemma
    <3>2. ~IsWaiting(wait', j) /\ ~wait'.timeout[j]
      BY <2>2, IsWaitingLemma DEF Woke
    <3>3. IsWaiting(wait, j)
      BY <2>2, IsWaitingLemma DEF WaitersOf
    <3> QED
      BY <2>1, <2>2, <3>1, <3>2, <3>3 DEF OnTheWay, Signalled
  <2>3. CASE j \notin S
    <3>1. (IsWaiting(wait', j) <=> IsWaiting(wait, j)) /\ wait'.timeout[j] = wait.timeout[j]
      BY <2>3, IsWaitingLemma DEF Woke
    <3> QED
      BY <2>1, <2>3, <3>1 DEF OnTheWay, Signalled
  <2> QED
    BY <2>2, <2>3
<1>4. S \subseteq Tasks /\ OnTheWay(c.o, ops) \subseteq Tasks /\ OnTheWay(c.o, ops)' \subseteq Tasks
  BY DEF WaitersOf, OnTheWay
<1> QED
  BY <1>1, <1>2, <1>3, <1>4

LEMMA OnTheWayParks ==
    ASSUME NativeOnly, Shape, NEW t \in Tasks, NEW c, Ready(t, c), Parks(t, c), NEW ops
    PROVE  OnTheWay(c.o, ops)' = OnTheWay(c.o, ops) \ {t}
<1>1. Parked(t, <<c.o, ListOf(c.op)>>) /\ <<c.o, ListOf(c.op)>> \in SyncObjects
  BY ParkedLemma
<1>2. t \notin OnTheWay(c.o, ops)'
  BY <1>1, IsWaitingLemma DEF Parked, OnTheWay
<1>3. ASSUME NEW j \in Tasks, j # t PROVE j \in OnTheWay(c.o, ops)' <=> j \in OnTheWay(c.o, ops)
  <2>1. call'[j] = call[j]
    BY <1>3 DEF Parks, Only
  <2>2. (IsWaiting(wait', j) <=> IsWaiting(wait, j)) /\ wait'.timeout[j] = wait.timeout[j]
    BY <1>1, <1>3, IsWaitingLemma DEF Parked
  <2> QED
    BY <2>1, <2>2 DEF OnTheWay, Signalled
<1>4. OnTheWay(c.o, ops) \subseteq Tasks /\ OnTheWay(c.o, ops)' \subseteq Tasks
  BY DEF OnTheWay
<1> QED
  BY <1>2, <1>3, <1>4

-----------------------------------------------------------------------------
(* Semaphores and events: nobody waits for what is there *)
Caused(o) ==
    \A j \in Tasks :
        /\ Kind(o) = "semaphore" /\ Linked(wait, <<o, "list">>, j) => obj[o].m_count = 0
        /\ Kind(o) = "event" /\ Linked(wait, <<o, "list">>, j) => ~obj[o].m_signaled

LEMMA NonEmptyLemma ==
    ASSUME Shape, NEW l \in SyncObjects
    PROVE  wait.list[l] # <<>> <=> \E j \in Tasks : Linked(wait, l, j)
BY SignedLemma, LinkedInLemma DEF Shape

LEMMA CausedLemma ==
    ASSUME NativeOnly, Shape
    PROVE  WaitersHaveCause <=> \A o \in DOMAIN obj : Caused(o)
<1>1. ASSUME NEW o \in DOMAIN obj, Kind(o) \in {"semaphore", "event"}
      PROVE  wait.list[<<o, "list">>] # <<>> <=> \E j \in Tasks : Linked(wait, <<o, "list">>, j)
  BY <1>1, ListsLemma, NonEmptyLemma
<1>2. \A o \in DOMAIN obj : obj[o].kind = Kind(o) /\ obj[o].kind # "thread"
  BY DEF Shape, ObjectShape, Kinds
<1> QED
  BY <1>1, <1>2 DEF WaitersHaveCause, Objects, Caused

LEMMA SemaphoreCaused ==
    ASSUME NativeOnly, Shape, NEW t \in Tasks, NEW c, Ready(t, c),
           SemaphoreWait(t, c) \/ SemaphoreSignal(t, c), Caused(c.o), \A o : Kind(o)' = Kind(o)
    PROVE  Caused(c.o)'
<1>1. c.op \in {"SemaphoreWait", "SemaphoreSignal"}
  BY DEF SemaphoreWait, SemaphoreSignal
<1>2. /\ FrameShape(c) /\ c.o \in DOMAIN obj /\ Kind(c.o) = "semaphore" /\ SemaphoreShape(obj[c.o])
      /\ <<c.o, "list">> \in SyncObjects
  <2>1. \A k : Runs(k, c.op) => k = "semaphore"
    BY <1>1 DEF Runs, Method, Inner
  <2> QED
    BY <2>1, ReadyLemma, KindLemma, ListsLemma DEF ObjectShape, Kinds
<1>3. \A j \in Tasks : Linked(wait, <<c.o, "list">>, j) => obj[c.o].m_count = 0
  BY <1>2 DEF Caused
<1> SUFFICES ASSUME NEW j \in Tasks, Linked(wait', <<c.o, "list">>, j)
             PROVE  obj'[c.o].m_count = 0
  BY <1>2 DEF Caused
<1>4. CASE wait' = wait /\ obj' = obj
  BY <1>3, <1>4
<1>5. CASE SemaphoreWait(t, c)
  <2>1. CASE ~c.blocked /\ obj[c.o].m_count # 0
    BY <1>3, <1>5, <2>1 DEF SemaphoreWait
  <2>2. CASE obj[c.o].m_count = 0 /\ obj' = obj
    BY <2>2
  <2> QED
    BY <1>4, <1>5, <2>1, <2>2 DEF SemaphoreWait
<1>6. CASE SemaphoreSignal(t, c)
  <2>1. CASE wait.list[<<c.o, "list">>] = <<>>
    <3>1. wait' = wait
      BY <1>6, <2>1 DEF SemaphoreSignal
    <3> QED
      BY <1>2, <2>1, <3>1, NonEmptyLemma
  <2>2. CASE wait.list[<<c.o, "list">>] # <<>>
    <3>1. wait' = WakeOne(wait, <<c.o, "list">>) /\ obj' = obj
      BY <1>6, <2>2 DEF SemaphoreSignal
    <3>2. Linked(wait, <<c.o, "list">>, j)
      BY <1>2, <2>2, <3>1, WokeOneLemma DEF Woke
    <3> QED
      BY <1>3, <3>1, <3>2
  <2> QED
    BY <2>1, <2>2
<1> QED
  BY <1>5, <1>6

LEMMA EventCaused ==
    ASSUME NativeOnly, Shape, NEW t \in Tasks, NEW c, Ready(t, c),
           EventSet(t, c) \/ EventReset(t, c) \/ EventPulse(t, c) \/ EventWait(t, c),
           Caused(c.o), \A o : Kind(o)' = Kind(o)
    PROVE  Caused(c.o)'
<1>1. c.op \in {"EventSet", "EventReset", "EventPulse", "EventWait"}
  BY DEF EventSet, EventReset, EventPulse, EventWait
<1>2. /\ FrameShape(c) /\ c.o \in DOMAIN obj /\ Kind(c.o) = "event" /\ EventShape(obj[c.o])
      /\ <<c.o, "list">> \in SyncObjects
  BY <1>1, EventLemma
<1>3. \A j \in Tasks : Linked(wait, <<c.o, "list">>, j) => ~obj[c.o].m_signaled
  BY <1>2 DEF Caused
<1> SUFFICES ASSUME NEW j \in Tasks, Linked(wait', <<c.o, "list">>, j)
             PROVE  ~obj'[c.o].m_signaled
  BY <1>2 DEF Caused
<1>4. CASE wait' = wait /\ obj' = obj
  BY <1>3, <1>4
<1>5. ASSUME NEW b \in BOOLEAN, Set(c.o, [obj[c.o] EXCEPT !.m_signaled = b]), ~b
      PROVE  ~obj'[c.o].m_signaled
  BY <1>2, <1>5, EventSetLemma
<1>6. CASE EventSet(t, c)
  <2>1. CASE obj[c.o].m_signaled
    BY <1>4, <1>6, <2>1 DEF EventSet
  <2>2. CASE ~obj[c.o].m_signaled
    <3>1. Set(c.o, [obj[c.o] EXCEPT !.m_signaled = AfterWake(c.o)]) /\ Release(c.o)
      BY <1>6, <2>2 DEF EventSet
    <3>2. CASE obj[c.o].m_manual_reset
      <4>1. Woke({k \in Tasks : Linked(wait, <<c.o, "list">>, k)})
        BY <1>2, <3>1, <3>2, WokeAllLemma DEF Release
      <4> QED
        BY <1>2, <4>1 DEF Woke
    <3>3. CASE ~obj[c.o].m_manual_reset /\ wait.list[<<c.o, "list">>] = <<>>
      <4>1. wait' = wait
        BY <3>1, <3>3 DEF Release, WakeOne
      <4> QED
        BY <1>2, <3>3, <4>1, NonEmptyLemma
    <3>4. CASE ~obj[c.o].m_manual_reset /\ wait.list[<<c.o, "list">>] # <<>>
      <4>1. ~AfterWake(c.o) /\ AfterWake(c.o) \in BOOLEAN
        BY <1>2, <3>4 DEF AfterWake, EventShape
      <4> QED
        BY <1>5, <3>1, <4>1
    <3> QED
      BY <3>2, <3>3, <3>4
  <2> QED
    BY <2>1, <2>2
<1>7. CASE EventReset(t, c) \/ EventPulse(t, c)
  BY <1>5, <1>7 DEF EventReset, EventPulse
<1>8. CASE EventWait(t, c)
  <2>1. CASE obj[c.o].m_signaled /\ wait' = wait
    BY <1>3, <2>1
  <2>2. CASE ~obj[c.o].m_signaled /\ obj' = obj
    BY <2>2
  <2> QED
    BY <1>4, <1>8, <2>1, <2>2 DEF EventWait
<1> QED
  BY <1>6, <1>7, <1>8

-----------------------------------------------------------------------------
(* Mutexes: the one that a waiter is woken for is its own *)
HandOver(o) ==
    Kind(o) = "mutex" =>
        /\ \A j \in Tasks : Linked(wait, <<o, "list">>, j) => obj[o].m_owner_tid # NULL
        /\ obj[o].m_owner_tid = NULL <=> obj[o].m_recursion_count = 0
        /\ \A j \in OnTheWay(o, {"MutexLock"}) : obj[o].m_owner_tid = j

LEMMA HandOverLemma ==
    ASSUME NativeOnly, Shape, \A o \in DOMAIN obj : HandOver(o)
    PROVE  MutexHandOver
<1>1. ASSUME NEW o \in DOMAIN obj, Kind(o) = "mutex"
      PROVE  wait.list[<<o, "list">>] # <<>> <=> \E j \in Tasks : Linked(wait, <<o, "list">>, j)
  BY <1>1, ListsLemma, NonEmptyLemma
<1>2. \A o \in DOMAIN obj : obj[o].kind = Kind(o)
  BY DEF Shape
<1> QED
  BY <1>1, <1>2 DEF MutexHandOver, Objects, HandOver

LEMMA MutexLockHandOver ==
    ASSUME NativeOnly, Shape, NEW t \in Tasks, NEW c, TaskStep(t, c), MutexLock(t, c), HandOver(c.o),
           \A o : Kind(o)' = Kind(o)
    PROVE  HandOver(c.o)'
<1>1. Ready(t, c) /\ NativeEffect(t, c) /\ c.op = "MutexLock"
  BY DEF TaskStep, MutexLock
<1>2. /\ FrameShape(c) /\ c.o \in DOMAIN obj /\ Kind(c.o) = "mutex" /\ MutexShape(obj[c.o])
      /\ <<c.o, "list">> \in SyncObjects
  BY <1>1, MutexLemma
<1> DEFINE W == OnTheWay(c.o, {"MutexLock"})
<1>3. /\ \A j \in Tasks : Linked(wait, <<c.o, "list">>, j) => obj[c.o].m_owner_tid # NULL
      /\ obj[c.o].m_owner_tid = NULL <=> obj[c.o].m_recursion_count = 0
      /\ \A j \in W : obj[c.o].m_owner_tid = j
      /\ W \subseteq Tasks /\ NULL \notin Tasks
  BY <1>2, ResultsAssumption DEF HandOver, OnTheWay
<1>4. ASSUME wait' = wait, Leaving(t, c) PROVE W' = W \ {t}
  <2>1. Woke({})
    BY <1>4, WokeNoneLemma
  <2>2. OnTheWay(c.o, {"MutexLock"})' = (OnTheWay(c.o, {"MutexLock"}) \ {t}) \cup {j \in {} : call[j].op \in {"MutexLock"}}
    BY <1>1, <1>4, <2>1, OnTheWayLeaving
  <2> QED
    BY <2>2
<1>5. ASSUME NEW v, Return(t, c, v) PROVE Only(t) /\ call'[t] = NoCall
  BY <1>2, <1>5, ReturnLemma
<1>6. ASSUME NEW v, Return(t, c, v), wait' = wait PROVE W' = W \ {t}
  BY <1>4, <1>5, <1>6 DEF Leaving, Follows, WakeStep
<1> HIDE DEF W
<1>7. CASE ~c.blocked /\ (obj[c.o].m_recursion_count = 0 \/ obj[c.o].m_owner_tid = t)
  <2> DEFINE r == [obj[c.o] EXCEPT !.m_recursion_count = @ + 1, !.m_owner_tid = t]
  <2>1. Set(c.o, r) /\ Return(t, c, OK) /\ wait' = wait
    BY <1>7 DEF MutexLock
  <2>2. r.m_owner_tid = t /\ r.m_recursion_count = obj[c.o].m_recursion_count + 1
    BY <1>2 DEF MutexShape
  <2> HIDE DEF r
  <2>3. obj'[c.o] = r
    BY <1>2, <2>1 DEF Set
  <2>4. W' = {}
    BY <1>3, <1>6, <1>7, <2>1
  <2>5. r.m_recursion_count # 0
    BY <1>2, <2>2 DEF MutexShape
  <2> QED
    BY <1>2, <1>3, <2>2, <2>3, <2>4, <2>5 DEF HandOver, W
<1>8. CASE obj' = obj /\ wait' = wait /\ \E v : Return(t, c, v)
  <2>1. W' = W \ {t}
    BY <1>6, <1>8
  <2> QED
    BY <1>2, <1>3, <1>8, <2>1 DEF HandOver, W
<1>9. CASE /\ ~c.blocked /\ ~(obj[c.o].m_recursion_count = 0 \/ obj[c.o].m_owner_tid = t)
           /\ c.ticks # NO_WAIT
  <2>1. KernelWait(t, c, wait, <<c.o, "list">>, c.ticks) /\ obj' = obj
    BY <1>9 DEF MutexLock
  <2>2. Parks(t, c)
    <3>1. ListOf(c.op) = "list" /\ Waits(c.op) /\ c.ticks \in Signed
      BY <1>1, MutexLemma DEF ListOf, Waits
    <3> QED
      BY <1>2, <1>9, <2>1, <3>1, ParkLemma
  <2>3. W' = W \ {t}
    BY <1>1, <2>2, OnTheWayParks DEF W
  <2> QED
    BY <1>2, <1>3, <1>9, <2>1, <2>3 DEF HandOver, W
<1> QED
  BY <1>2, <1>7, <1>8, <1>9 DEF MutexLock, FrameShape

LEMMA MutexUnlockHandOver ==
    ASSUME NativeOnly, Shape, NEW t \in Tasks, NEW c, TaskStep(t, c), MutexUnlock(t, c), HandOver(c.o),
           \A o : Kind(o)' = Kind(o)
    PROVE  HandOver(c.o)'
<1>1. Ready(t, c) /\ c.op = "MutexUnlock"
  BY DEF TaskStep, MutexUnlock
<1>2. /\ FrameShape(c) /\ c.o \in DOMAIN obj /\ Kind(c.o) = "mutex" /\ MutexShape(obj[c.o])
      /\ <<c.o, "list">> \in SyncObjects
  BY <1>1, MutexLemma
<1> DEFINE W == OnTheWay(c.o, {"MutexLock"})
           l == <<c.o, "list">>
           x == obj[c.o]
           y == Unlocked(x, wait.list[l])
<1>3. /\ \A j \in Tasks : Linked(wait, l, j) => x.m_owner_tid # NULL
      /\ x.m_owner_tid = NULL <=> x.m_recursion_count = 0
      /\ W \subseteq {t} /\ x.m_owner_tid = t /\ t # NULL
  BY <1>2, ResultsAssumption DEF HandOver, MutexUnlock
<1>4. Set(c.o, y) /\ wait' = (IF x.m_recursion_count > 1 THEN wait ELSE WakeOne(wait, l)) /\ Return(t, c, OK)
  BY DEF MutexUnlock, Unlocks
<1>5. obj'[c.o] = y
  BY <1>2, <1>4 DEF Set
<1>6. x.m_recursion_count \in Nat /\ x.m_recursion_count # 0 /\ l \in SyncObjects
  BY <1>2, <1>3 DEF MutexShape
<1>7. ASSUME NEW S \in SUBSET WaitersOf(c.o), Woke(S) PROVE W' \subseteq S
  <2>1. Only(t) /\ call'[t] = NoCall
    BY <1>2, <1>4, ReturnLemma
  <2>2. WakeStep(c)
    BY <1>2, <1>4, WakeLemma
  <2>3. Leaving(t, c)
    BY <2>1, <2>2 DEF Leaving, Follows
  <2>4. W' = (W \ {t}) \cup {j \in S : call[j].op \in {"MutexLock"}}
    BY <1>1, <1>7, <2>3, OnTheWayLeaving
  <2> QED
    BY <1>3, <2>4
<1> HIDE DEF W, x, y
<1>8. SUFFICES /\ \A j \in Tasks : Linked(wait', l, j) => y.m_owner_tid # NULL
               /\ y.m_owner_tid = NULL <=> y.m_recursion_count = 0
               /\ \A j \in W' : y.m_owner_tid = j
  BY <1>2, <1>5 DEF HandOver, W
<1>9. CASE x.m_recursion_count > 1
  <2>1. wait' = wait /\ y.m_owner_tid = x.m_owner_tid /\ y.m_recursion_count = x.m_recursion_count - 1
    BY <1>2, <1>4, <1>9, UnlockedLemma, HeadLemma DEF x, y
  <2>2. W' = {}
    BY <1>7, <2>1, WokeNoneLemma
  <2> QED
    BY <1>3, <1>6, <1>9, <2>1, <2>2
<1>10. CASE x.m_recursion_count = 1 /\ wait.list[l] # <<>>
  <2> DEFINE h == Head(wait.list[l])
  <2>1. Woke({h}) /\ h \in Tasks /\ Linked(wait, l, h)
    BY <1>4, <1>6, <1>10, WokeOneLemma
  <2>2. y.m_owner_tid = h /\ y.m_recursion_count = 1
    BY <1>2, <1>10, UnlockedLemma, HeadLemma DEF x, y
  <2> HIDE DEF h
  <2>3. {h} \in SUBSET WaitersOf(c.o)
    BY <1>6, <2>1 DEF WaitersOf
  <2>4. W' \subseteq {h}
    BY <1>7, <2>1, <2>3
  <2>5. h # NULL
    BY <2>1, ResultsAssumption
  <2> QED
    BY <2>2, <2>4, <2>5
<1>11. CASE x.m_recursion_count = 1 /\ wait.list[l] = <<>>
  <2>0. wait' = WakeOne(wait, l)
    BY <1>4, <1>11
  <2>1. Woke({})
    BY <1>6, <1>11, <2>0, WokeOneLemma
  <2>2. y.m_owner_tid = NULL /\ y.m_recursion_count = 0
    BY <1>2, <1>11, UnlockedLemma DEF x, y
  <2>3. W' = {}
    BY <1>7, <2>1
  <2>4. \A j \in Tasks : ~Linked(wait', l, j)
    BY <1>6, <1>11, <2>1, NonEmptyLemma DEF Woke
  <2> QED
    BY <2>2, <2>3, <2>4
<1> QED
  BY <1>6, <1>9, <1>10, <1>11

-----------------------------------------------------------------------------
(* Spin locks: one task has the flag, as the owner or between the flag and the owner *)
HasFlag(j, o) == call[j] # NoCall /\ call[j].o = o /\ call[j].op \in {"MakeLocked", "SpinRelease"}

Guarded(o) ==
    Kind(o) = "spin" =>
        /\ obj[o].m_owner_tid # NULL => obj[o].m_lock
        /\ obj[o].m_owner_tid = NULL <=> obj[o].m_recursion_count = 0
        /\ \A j \in Tasks : HasFlag(j, o) => obj[o].m_lock /\ obj[o].m_owner_tid = NULL
        /\ \A j, k \in Tasks : HasFlag(j, o) /\ HasFlag(k, o) => j = k

LEMMA GuardedLemma ==
    ASSUME Shape, \A o \in DOMAIN obj : Guarded(o)
    PROVE  SpinOwnerHasFlag
<1>1. \A o \in DOMAIN obj : obj[o].kind = Kind(o)
  BY DEF Shape
<1> QED
  BY <1>1 DEF SpinOwnerHasFlag, Objects, Guarded, HasFlag

(* A frame is not the one of a task that is in no call *)
LEMMA FrameLemma ==
    ASSUME NEW c, FrameShape(c)
    PROVE  c # NoCall
<1>1. DOMAIN c # DOMAIN NoCall
  BY DEF FrameShape, FrameFields, NoCall
<1> QED
  BY <1>1

(* The frame with another step *)
LEMMA OpLemma ==
    ASSUME NEW c, FrameShape(c), NEW op
    PROVE  LET d == [c EXCEPT !.op = op] IN d # NoCall /\ d.o = c.o /\ d.op = op
<1> DEFINE d == [c EXCEPT !.op = op]
<1>1. DOMAIN d = FrameFields /\ d.o = c.o /\ d.op = op
  BY DEF FrameShape, FrameFields
<1>2. DOMAIN NoCall # FrameFields
  BY DEF NoCall, FrameFields
<1> QED
  BY <1>1, <1>2

LEMMA SpinGuarded ==
    ASSUME NativeOnly, Shape, NEW t \in Tasks, NEW c, Ready(t, c), SpinLockStep(t, c), Guarded(c.o),
           \A o : Kind(o)' = Kind(o)
    PROVE  Guarded(c.o)'
<1>1. c.op \in {"SpinLockLock", "SpinLockTryLock", "SpinLockUnlock", "SpinAcquire", "SpinTry",
                "MakeLocked", "SpinRelease"}
  BY DEF SpinLockStep, SpinLockLock, SpinAcquire, SpinTry, MakeLocked, SpinLockUnlock, SpinRelease
<1>2. /\ FrameShape(c) /\ c.o \in DOMAIN obj /\ Kind(c.o) = "spin" /\ SpinShape(obj[c.o])
  BY <1>1, SpinLemma
<1> DEFINE x == obj[c.o]
           y == obj'[c.o]
           F(j) == HasFlag(j, c.o)
<1>3. /\ x.m_owner_tid # NULL => x.m_lock
      /\ x.m_owner_tid = NULL <=> x.m_recursion_count = 0
      /\ \A j \in Tasks : F(j) => x.m_lock /\ x.m_owner_tid = NULL
      /\ \A j, k \in Tasks : F(j) /\ F(k) => j = k
      /\ x.m_recursion_count \in Nat /\ t # NULL
  BY <1>2, ResultsAssumption DEF Guarded, SpinShape
<1>4. F(t) <=> c.op \in {"MakeLocked", "SpinRelease"}
  <2>1. c # NoCall
    BY <1>2, FrameLemma
  <2> QED
    BY <2>1 DEF Ready, HasFlag, Method
<1>5. ASSUME NEW v, Return(t, c, v) PROVE ~HasFlag(t, c.o)' /\ \A j \in Tasks : j # t => (HasFlag(j, c.o)' <=> F(j))
  BY <1>2, <1>5, ReturnLemma DEF Only, HasFlag
<1>6. ASSUME NEW op, Goto(t, [c EXCEPT !.op = op]), ret' = ret
      PROVE  /\ HasFlag(t, c.o)' <=> op \in {"MakeLocked", "SpinRelease"}
             /\ \A j \in Tasks : j # t => (HasFlag(j, c.o)' <=> F(j))
  <2> DEFINE d == [c EXCEPT !.op = op]
  <2>1. d # NoCall /\ d.o = c.o /\ d.op = op
    BY <1>2, OpLemma
  <2>2. Goto(t, d)
    BY <1>6
  <2> HIDE DEF d
  <2>3. Only(t) /\ call'[t] = d
    BY <1>6, <2>2, GotoLemma
  <2> QED
    BY <2>1, <2>3 DEF Only, HasFlag
<1>7. ASSUME NEW r, Set(c.o, r) PROVE y = r
  BY <1>2, <1>7 DEF Set
<1> DEFINE Goal == /\ y.m_owner_tid # NULL => y.m_lock
                   /\ y.m_owner_tid = NULL <=> y.m_recursion_count = 0
                   /\ \A j \in Tasks : HasFlag(j, c.o)' => y.m_lock /\ y.m_owner_tid = NULL
                   /\ \A j, k \in Tasks : HasFlag(j, c.o)' /\ HasFlag(k, c.o)' => j = k
<1>8. SUFFICES Goal
  BY <1>2 DEF Guarded
<1> HIDE DEF F, y
<1>9. CASE SpinLockLock(t, c)
  <2>0. ~F(t)
    BY <1>4, <1>9 DEF SpinLockLock
  <2>1. CASE LockedRecursively(t, c)
    <3>1. y = [x EXCEPT !.m_recursion_count = @ + 1]
      BY <1>7, <2>1 DEF LockedRecursively
    <3>2. y.m_owner_tid = x.m_owner_tid /\ y.m_lock = x.m_lock /\ y.m_recursion_count = x.m_recursion_count + 1
      BY <1>2, <3>1 DEF SpinShape
    <3>3. x.m_owner_tid = t /\ x.m_recursion_count # 0
      BY <2>1 DEF LockedRecursively
    <3>4. \A j \in Tasks : HasFlag(j, c.o)' <=> F(j)
      BY <1>5, <2>0, <2>1 DEF LockedRecursively
    <3> HIDE DEF x
    <3> QED
      BY <1>3, <3>2, <3>3, <3>4
  <2>2. CASE obj' = obj /\ \E op \in {"SpinAcquire", "SpinTry"} : Goto(t, [c EXCEPT !.op = op]) /\ ret' = ret
    <3>1. y = x
      BY <2>2 DEF y
    <3>2. \A j \in Tasks : HasFlag(j, c.o)' <=> F(j)
      BY <1>6, <2>0, <2>2
    <3> QED
      BY <1>3, <3>1, <3>2
  <2> QED
    BY <1>9, <2>1, <2>2 DEF SpinLockLock
<1>10. ASSUME Takes(t, c) PROVE Goal
  <2>1. ~x.m_lock /\ y = [x EXCEPT !.m_lock = TRUE]
    BY <1>7, <1>10 DEF Takes
  <2>2. y.m_owner_tid = x.m_owner_tid /\ y.m_lock = TRUE /\ y.m_recursion_count = x.m_recursion_count
    BY <1>2, <2>1 DEF SpinShape
  <2>3. \A j \in Tasks : HasFlag(j, c.o)' <=> j = t
    BY <1>3, <1>6, <1>10, <2>1 DEF Takes
  <2> QED
    BY <1>3, <2>1, <2>2, <2>3
<1>11. CASE SpinAcquire(t, c)
  BY <1>10, <1>11 DEF SpinAcquire
<1>12. CASE SpinTry(t, c)
  <2>1. CASE obj' = obj /\ \E v : Return(t, c, v)
    <3>1. y = x
      BY <2>1 DEF y
    <3>2. \A j \in Tasks : HasFlag(j, c.o)' => F(j)
      BY <1>5, <2>1
    <3> QED
      BY <1>3, <3>1, <3>2
  <2> QED
    BY <1>10, <1>12, <2>1 DEF SpinTry
<1>13. CASE MakeLocked(t, c)
  <2>1. y = [x EXCEPT !.m_owner_tid = t, !.m_recursion_count = 1] /\ F(t)
    BY <1>4, <1>7, <1>13 DEF MakeLocked
  <2>2. y.m_owner_tid = t /\ y.m_lock = x.m_lock /\ y.m_recursion_count = 1
    BY <1>2, <2>1 DEF SpinShape
  <2>3. \A j \in Tasks : ~HasFlag(j, c.o)'
    BY <1>3, <1>5, <1>13, <2>1 DEF MakeLocked
  <2> QED
    BY <1>3, <2>1, <2>2, <2>3
<1>14. CASE SpinLockUnlock(t, c)
  <2>0. x.m_owner_tid = t /\ \A j \in Tasks : ~F(j)
    BY <1>3, <1>14 DEF SpinLockUnlock
  <2>1. CASE x.m_recursion_count > 1
    <3>1. y = [x EXCEPT !.m_recursion_count = @ - 1] /\ Return(t, c, OK)
      BY <1>7, <1>14, <2>1 DEF SpinLockUnlock
    <3>2. y.m_owner_tid = t /\ y.m_lock = x.m_lock /\ y.m_recursion_count = x.m_recursion_count - 1
      BY <1>2, <2>0, <3>1 DEF SpinShape
    <3>3. \A j \in Tasks : ~HasFlag(j, c.o)'
      BY <1>5, <2>0, <3>1
    <3> HIDE DEF x
    <3> QED
      BY <1>3, <2>0, <2>1, <3>2, <3>3
  <2>2. CASE ~(x.m_recursion_count > 1)
    <3>1. /\ y = [x EXCEPT !.m_recursion_count = 0, !.m_owner_tid = NULL]
          /\ Goto(t, [c EXCEPT !.op = "SpinRelease"]) /\ ret' = ret
      BY <1>7, <1>14, <2>2 DEF SpinLockUnlock
    <3>2. y.m_owner_tid = NULL /\ y.m_lock = x.m_lock /\ y.m_recursion_count = 0
      BY <1>2, <3>1 DEF SpinShape
    <3>3. \A j \in Tasks : HasFlag(j, c.o)' <=> j = t
      BY <1>6, <2>0, <3>1
    <3> QED
      BY <1>3, <2>0, <3>2, <3>3
  <2> QED
    BY <2>1, <2>2
<1>15. CASE SpinRelease(t, c)
  <2>1. y = [x EXCEPT !.m_lock = FALSE] /\ F(t)
    BY <1>4, <1>7, <1>15 DEF SpinRelease
  <2>2. y.m_owner_tid = NULL /\ y.m_recursion_count = x.m_recursion_count
    BY <1>2, <1>3, <2>1 DEF SpinShape
  <2>3. \A j \in Tasks : ~HasFlag(j, c.o)'
    BY <1>3, <1>5, <1>15, <2>1 DEF SpinRelease
  <2> QED
    BY <1>3, <2>1, <2>2, <2>3
<1> QED
  BY <1>9, <1>11, <1>12, <1>13, <1>14, <1>15 DEF SpinLockStep

-----------------------------------------------------------------------------
(* Event flags: a task waits for flags that are not set *)
Unsatisfied(o) ==
    Kind(o) = "flags" =>
        \A j \in Tasks : Linked(wait, <<o, "cv">>, j) =>
            ~IsSatisfied(obj[o].m_flags, call[j].x.flags, call[j].x.options)

LEMMA UnsatisfiedLemma ==
    ASSUME Shape, \A o \in DOMAIN obj : Unsatisfied(o)
    PROVE  FlagsWaitersUnsatisfied
<1>1. \A o \in DOMAIN obj : obj[o].kind = Kind(o) /\ obj[o].kind # "thread"
  BY DEF Shape, ObjectShape, Kinds
<1> QED
  BY <1>1 DEF FlagsWaitersUnsatisfied, Objects, Unsatisfied, Linked

(* Flags that are cleared satisfy nobody *)
LEMMA ClearLemma ==
    ASSUME NEW A, NEW B, NEW flags, NEW options, ~IsSatisfied(A, flags, options)
    PROVE  ~IsSatisfied(A \ B, flags, options)
BY DEF IsSatisfied

LEMMA FlagsUnsatisfied ==
    ASSUME NativeOnly, Shape, NEW t \in Tasks, NEW c, TaskStep(t, c), EventFlagsStep(t, c),
           Unsatisfied(c.o), \A o : Kind(o)' = Kind(o)
    PROVE  Unsatisfied(c.o)'
<1>1. Ready(t, c) /\ NativeEffect(t, c)
      /\ c.op \in {"EventFlagsSet", "EventFlagsClear", "EventFlagsGet", "EventFlagsWait",
                   "EventFlagsWaitLoop"}
  BY DEF TaskStep, EventFlagsStep, EventFlagsSet, EventFlagsClear, EventFlagsGet, EventFlagsWait,
         EventFlagsWaitLoop
<1>2. /\ FrameShape(c) /\ c.o \in DOMAIN obj /\ Kind(c.o) = "flags" /\ FlagsShape(obj[c.o])
      /\ obj[c.o].kind = "flags" /\ <<c.o, "cv">> \in SyncObjects
  BY <1>1, FlagsLemma
<1> DEFINE l == <<c.o, "cv">>
           f == obj[c.o].m_flags
<1>3. \A j \in Tasks : Linked(wait, l, j) => ~IsSatisfied(f, call[j].x.flags, call[j].x.options)
  BY <1>2 DEF Unsatisfied
<1>4. ~Linked(wait, l, t) /\ \A j \in Tasks : j # t => call'[j] = call[j]
  BY <1>1, <1>2 DEF Ready, Unlinked, NativeEffect, Leaving, Parks, Only
<1> SUFFICES ASSUME NEW j \in Tasks, Linked(wait', l, j)
             PROVE  ~IsSatisfied(obj'[c.o].m_flags, call'[j].x.flags, call'[j].x.options)
  BY <1>2 DEF Unsatisfied
<1> HIDE DEF l
<1>5. CASE wait' = wait /\ obj' = obj
  BY <1>3, <1>4, <1>5
<1>6. ASSUME wait' = wait, NEW B, Set(c.o, [obj[c.o] EXCEPT !.m_flags = @ \ B])
      PROVE  ~IsSatisfied(obj'[c.o].m_flags, call'[j].x.flags, call'[j].x.options)
  <2>1. obj'[c.o].m_flags = f \ B
    BY <1>2, <1>6, FlagsSetLemma
  <2>2. call'[j] = call[j] /\ ~IsSatisfied(f, call[j].x.flags, call[j].x.options)
    BY <1>3, <1>4, <1>6
  <2> HIDE DEF f
  <2> QED
    BY <2>1, <2>2, ClearLemma
<1>7. CASE EventFlagsSet(t, c)
  <2>1. CASE ValidFlags(c.x)
    <3>1. wait' = WakeAll(wait, l)
      BY <1>7, <2>1 DEF EventFlagsSet, l
    <3>2. l \in SyncObjects
      BY <1>2 DEF l
    <3>3. Woke({k \in Tasks : Linked(wait, l, k)})
      BY <3>1, <3>2, WokeAllLemma
    <3> QED
      BY <3>2, <3>3 DEF Woke
  <2>2. CASE ~ValidFlags(c.x)
    BY <1>5, <1>7, <2>2 DEF EventFlagsSet
  <2> QED
    BY <2>1, <2>2
<1>8. CASE EventFlagsClear(t, c)
  BY <1>5, <1>6, <1>8 DEF EventFlagsClear
<1>9. CASE EventFlagsGet(t, c) \/ EventFlagsWait(t, c)
  BY <1>5, <1>9 DEF EventFlagsGet, EventFlagsWait, CaptureDeadline
<1>10. CASE EventFlagsWaitLoop(t, c)
  <2> DEFINE unsatisfied == ~IsSatisfied(obj[c.o].m_flags, c.x.flags, c.x.options)
  <2>1. CASE Blocks(t, c, unsatisfied, <<c.o, "cv">>, Remaining(c)) /\ obj' = obj
    <3>1. /\ KernelWait(t, c, wait, <<c.o, ListOf(c.op)>>, Remaining(c)) /\ Remaining(c) \in Signed
          /\ unsatisfied /\ Waits(c.op) /\ c.op = "EventFlagsWaitLoop" /\ l = <<c.o, ListOf(c.op)>>
      BY <1>2, <1>10, <2>1, ClockLemma DEF Blocks, EventFlagsWaitLoop, ListOf, Waits, l
    <3>2. Parks(t, c)
      BY <1>2, <2>1, <3>1, ParkLemma
    <3>3. call'[t].x = c.x
      BY <3>2 DEF Parks, Blocked
    <3>4. Linked(wait, l, j) \/ j = t
      BY <1>1, <3>1, <3>2, ParkedLemma DEF Parked
    <3>5. CASE j = t
      BY <2>1, <3>1, <3>3, <3>5
    <3>6. CASE Linked(wait, l, j) /\ j # t
      BY <1>3, <1>4, <2>1, <3>6
    <3> QED
      BY <3>4, <3>5, <3>6
  <2>2. CASE obj' = obj /\ wait' = wait
    BY <1>5, <2>2
  <2>3. CASE wait' = wait /\ \E B : Set(c.o, [obj[c.o] EXCEPT !.m_flags = @ \ B])
    BY <1>6, <2>3
  <2>4. CASE wait' = wait /\ Set(c.o, obj[c.o])
    <3>1. obj'[c.o] = obj[c.o]
      BY <1>2, <2>4 DEF Set
    <3> QED
      BY <1>3, <1>4, <2>4, <3>1
  <2> QED
    BY <1>10, <2>1, <2>2, <2>3, <2>4 DEF EventFlagsWaitLoop
<1> QED
  BY <1>7, <1>8, <1>9, <1>10 DEF EventFlagsStep

-----------------------------------------------------------------------------
(* What holds of every object *)
Sound == \A o \in DOMAIN obj : Caused(o) /\ HandOver(o) /\ Guarded(o) /\ Unsatisfied(o)

LEMMA SoundElsewhere ==
    ASSUME NativeOnly, Shape, NEW o \in DOMAIN obj, Sound, Elsewhere(o), \A k : Kind(k)' = Kind(k)
    PROVE  (Caused(o) /\ HandOver(o) /\ Guarded(o) /\ Unsatisfied(o))'
<1>1. /\ Kind(o) \in {"semaphore", "event", "mutex"} => <<o, "list">> \in SyncObjects
      /\ Kind(o) = "flags" => <<o, "cv">> \in SyncObjects
  BY ListsLemma
<1>2. Caused(o) /\ HandOver(o) /\ Guarded(o) /\ Unsatisfied(o)
  BY DEF Sound
<1>3. Caused(o)'
  BY <1>1, <1>2 DEF Elsewhere, Caused
<1>4. HandOver(o)'
  <2>1. OnTheWay(o, {"MutexLock"})' = OnTheWay(o, {"MutexLock"})
    BY OnTheWayElsewhere
  <2> QED
    BY <1>1, <1>2, <2>1 DEF Elsewhere, HandOver
<1>5. Guarded(o)'
  <2>1. \A j \in Tasks : HasFlag(j, o)' <=> HasFlag(j, o)
    BY DEF Elsewhere, IsOn, HasFlag
  <2> QED
    BY <1>2, <2>1 DEF Elsewhere, Guarded
<1>6. Unsatisfied(o)'
  <2> SUFFICES ASSUME Kind(o) = "flags", NEW j \in Tasks, Linked(wait', <<o, "cv">>, j)
               PROVE  ~IsSatisfied(obj'[o].m_flags, call'[j].x.flags, call'[j].x.options)
    BY DEF Unsatisfied
  <2>1. Linked(wait, <<o, "cv">>, j)
    BY <1>1 DEF Elsewhere
  <2>2. IsOn(call[j], o)
    BY <1>1, <2>1 DEF Shape, IsOn
  <2>3. call'[j] = call[j] /\ obj'[o] = obj[o]
    BY <2>2 DEF Elsewhere
  <2> QED
    BY <1>2, <2>1, <2>3 DEF Unsatisfied
<1> QED
  BY <1>3, <1>4, <1>5, <1>6

LEMMA SoundTicked ==
    ASSUME NativeOnly, Shape, NEW o \in DOMAIN obj, Sound, Ticked, \A k : Kind(k)' = Kind(k)
    PROVE  (Caused(o) /\ HandOver(o) /\ Guarded(o) /\ Unsatisfied(o))'
<1>1. /\ Kind(o) \in {"semaphore", "event", "mutex"} => <<o, "list">> \in SyncObjects
      /\ Kind(o) = "flags" => <<o, "cv">> \in SyncObjects
  BY ListsLemma
<1>2. Caused(o) /\ HandOver(o) /\ Guarded(o) /\ Unsatisfied(o)
  BY DEF Sound
<1>3. Caused(o)'
  BY <1>1, <1>2 DEF Ticked, Caused
<1>4. HandOver(o)'
  <2>1. OnTheWay(o, {"MutexLock"})' = OnTheWay(o, {"MutexLock"})
    BY OnTheWayTicked
  <2> QED
    BY <1>1, <1>2, <2>1 DEF Ticked, HandOver
<1>5. Guarded(o)'
  BY <1>2 DEF Ticked, Guarded, HasFlag
<1>6. Unsatisfied(o)'
  BY <1>1, <1>2 DEF Ticked, Unsatisfied
<1> QED
  BY <1>3, <1>4, <1>5, <1>6

LEMMA SoundStep ==
    ASSUME NativeOnly, Shape, NEW t \in Tasks, NEW c, TaskStep(t, c), Sound, \A k : Kind(k)' = Kind(k)
    PROVE  (Caused(c.o) /\ HandOver(c.o) /\ Guarded(c.o) /\ Unsatisfied(c.o))'
<1>1. Ready(t, c) /\ NativeAction(t, c) /\ c.o \in DOMAIN obj
  BY ReadyLemma DEF TaskStep
<1>2. Caused(c.o) /\ HandOver(c.o) /\ Guarded(c.o) /\ Unsatisfied(c.o)
  BY <1>1 DEF Sound
<1>3. Caused(c.o)'
  <2>1. CASE Kind(c.o) = "semaphore"
    BY <1>1, <1>2, <2>1, ActionLemma, SemaphoreCaused
  <2>2. CASE Kind(c.o) = "event"
    BY <1>1, <1>2, <2>2, ActionLemma, EventCaused
  <2>3. CASE Kind(c.o) \notin {"semaphore", "event"}
    BY <2>3 DEF Caused
  <2> QED
    BY <2>1, <2>2, <2>3
<1>4. HandOver(c.o)'
  <2>1. CASE Kind(c.o) = "mutex"
    BY <1>1, <1>2, <2>1, ActionLemma, MutexLockHandOver, MutexUnlockHandOver
  <2>2. CASE Kind(c.o) # "mutex"
    BY <2>2 DEF HandOver
  <2> QED
    BY <2>1, <2>2
<1>5. Guarded(c.o)'
  <2>1. CASE Kind(c.o) = "spin"
    BY <1>1, <1>2, <2>1, ActionLemma, SpinGuarded
  <2>2. CASE Kind(c.o) # "spin"
    BY <2>2 DEF Guarded
  <2> QED
    BY <2>1, <2>2
<1>6. Unsatisfied(c.o)'
  <2>1. CASE Kind(c.o) = "flags"
    BY <1>1, <1>2, <2>1, ActionLemma, FlagsUnsatisfied
  <2>2. CASE Kind(c.o) # "flags"
    BY <2>2 DEF Unsatisfied
  <2> QED
    BY <2>1, <2>2
<1> QED
  BY <1>3, <1>4, <1>5, <1>6

LEMMA SoundNext ==
    ASSUME NativeOnly, Shape, Sound, [Next]_vars
    PROVE  Sound'
<1>1. DOMAIN obj' = DOMAIN obj /\ \A k : Kind(k)' = Kind(k)
  BY ShapeNextLemma
<1>2. SUFFICES ASSUME NEW o \in DOMAIN obj
               PROVE  (Caused(o) /\ HandOver(o) /\ Guarded(o) /\ Unsatisfied(o))'
  BY <1>1 DEF Sound
<1>3. ASSUME NEW t \in Tasks, NEW c, TaskStep(t, c)
      PROVE  (Caused(o) /\ HandOver(o) /\ Guarded(o) /\ Unsatisfied(o))'
  <2>1. CASE o = c.o
    BY <1>1, <1>3, <2>1, SoundStep
  <2>2. CASE o # c.o
    BY <1>1, <1>3, <2>2, ElsewhereLemma, SoundElsewhere
  <2> QED
    BY <2>1, <2>2
<1>4. CASE Ticked
  BY <1>1, <1>4, SoundTicked
<1>5. CASE obj' = obj /\ wait' = wait /\ call' = call
  <2>1. Elsewhere(o)
    BY <1>5 DEF Elsewhere
  <2> QED
    BY <1>1, <2>1, SoundElsewhere
<1> QED
  BY <1>3, <1>4, <1>5, ShapeNextLemma

LEMMA SoundInit ==
    ASSUME NativeOnly, Init
    PROVE  Sound
<1>1. Shape /\ obj = The.objects
  BY ShapeInitLemma DEF Init
<1> SUFFICES ASSUME NEW o \in DOMAIN obj
             PROVE  Caused(o) /\ HandOver(o) /\ Guarded(o) /\ Unsatisfied(o)
  BY DEF Sound
<1>2. /\ Kind(o) \in {"semaphore", "event", "mutex"} => <<o, "list">> \in SyncObjects
      /\ Kind(o) = "flags" => <<o, "cv">> \in SyncObjects
  BY <1>1, ListsLemma
<1>3. (\A l \in SyncObjects, j \in Tasks : ~Linked(wait, l, j)) /\ \A j \in Tasks : call[j] = NoCall
  BY NoWaitersLemma DEF Init
<1>4. Caused(o) /\ Unsatisfied(o)
  BY <1>2, <1>3 DEF Caused, Unsatisfied
<1>5. Constructed(obj[o]) /\ obj[o].kind = Kind(o)
  <2> HIDE DEF The
  <2> QED
    BY <1>1 DEF NativeOnly, NativeProgram, Kind
<1>6. (Kind(o) = "mutex" => obj[o] = MutexObject) /\ (Kind(o) = "spin" => obj[o] = SpinObject)
  <2> DEFINE r == obj[o]
  <2>1. Constructed(r)
    BY <1>5
  <2> SUFFICES (r.kind = "mutex" => r = MutexObject) /\ (r.kind = "spin" => r = SpinObject)
    BY <1>5
  <2> HIDE DEF r
  <2>2. CASE \E n, m \in Nat : n <= m /\ r = SemaphoreObject(n, m)
    BY <2>2 DEF SemaphoreObject
  <2>3. CASE \E manual, signaled \in BOOLEAN : r = EventObject(manual, signaled)
    BY <2>3 DEF EventObject
  <2>4. CASE r = MutexObject
    BY <2>4 DEF MutexObject
  <2>5. CASE \E flags : r = EventFlagsObject(flags)
    BY <2>5 DEF EventFlagsObject
  <2>6. CASE \E capacity, fits \in Nat : r = PoolObject(capacity, fits)
    BY <2>6 DEF PoolObject
  <2>7. CASE r = SpinObject
    BY <2>7 DEF SpinObject
  <2>8. CASE \E capacity \in Nat \ {0} : r = RingObject("queue", capacity)
    BY <2>8 DEF RingObject
  <2> QED
    BY <2>1, <2>2, <2>3, <2>4, <2>5, <2>6, <2>7, <2>8 DEF Constructed
<1>7. HandOver(o)
  BY <1>2, <1>3, <1>6 DEF HandOver, OnTheWay, MutexObject
<1>8. Guarded(o)
  BY <1>3, <1>6 DEF Guarded, HasFlag, SpinObject
<1> QED
  BY <1>4, <1>7, <1>8

(* The program of a behaviour stays the same *)
LEMMA NativeStaysLemma ==
    ASSUME [Next]_vars
    PROVE  NativeOnly' <=> NativeOnly
<1>1. scenario' = scenario
  BY DEF Next, vars
<1> QED
  BY <1>1, SameProgramLemma

LEMMA SoundInvariance == Spec => [](NativeOnly => Shape /\ Sound)
<1>1. Init => (NativeOnly => Sound)
  BY SoundInit
<1>2. (NativeOnly => Shape) /\ (NativeOnly => Sound) /\ [Next]_vars => (NativeOnly => Sound)'
  BY NativeStaysLemma, SoundNext
<1> QED
  BY <1>1, <1>2, ShapeInvariance, PTL DEF Spec

(* No lost wake-up: nobody waits on a semaphore that has a token, or on an event that is
   signaled, whatever tasks call Signal, Set, Pulse and Wait, time out or overtake *)
THEOREM NoLostWakeUp == Spec => [](NativeOnly => WaitersHaveCause)
<1>1. (NativeOnly => Shape /\ Sound) => (NativeOnly => WaitersHaveCause)
  BY CausedLemma DEF Sound
<1> QED
  BY <1>1, SoundInvariance, PTL

(* Mutex::Unlock hands over: who returns from its wait for the mutex without a time-out
   owns it, and nobody waits for a mutex that is free *)
THEOREM WaiterOwns == Spec => [](NativeOnly => MutexHandOver)
<1>1. (NativeOnly => Shape /\ Sound) => (NativeOnly => MutexHandOver)
  BY HandOverLemma DEF Sound
<1> QED
  BY <1>1, SoundInvariance, PTL

(* SpinLock::MakeLocked never panics: between the steps of Lock, TryLock and Unlock, one
   task has the flag, and who has got it finds no owner *)
THEOREM NoPanic == Spec => [](NativeOnly => SpinOwnerHasFlag)
<1>1. (NativeOnly => Shape /\ Sound) => (NativeOnly => SpinOwnerHasFlag)
  BY GuardedLemma DEF Sound
<1> QED
  BY <1>1, SoundInvariance, PTL

(* A task that is blocked in EventFlags::Wait waits for flags that are not set *)
THEOREM FlagsWakeEveryWaiter == Spec => [](NativeOnly => FlagsWaitersUnsatisfied)
<1>1. (NativeOnly => Shape /\ Sound) => (NativeOnly => FlagsWaitersUnsatisfied)
  BY UnsatisfiedLemma DEF Sound
<1> QED
  BY <1>1, SoundInvariance, PTL

-----------------------------------------------------------------------------
(* Message queues: who waits for a message, or for room, has no more of it than the tasks
   that were woken for it will take.  A Peek takes the wake-up of a message and leaves the
   message, so the Peeks of the program do not wait *)
PeeksAtOnce ==
    \A t \in Tasks : \A c \in The.calls[t] : c.op = "MessageQueuePeek" => c.ticks = NO_WAIT

NobodyPeeks == \A t \in Tasks : call[t] # NoCall => call[t].op # "MessageQueuePeek"

Backed(o) ==
    Kind(o) = "queue" =>
      /\ (\E j \in Tasks : Linked(wait, NotEmpty(o), j)) =>
            obj[o].m_count <= Cardinality(OnTheWay(o, ReadOps))
      /\ (\E j \in Tasks : Linked(wait, NotFull(o), j)) =>
            obj[o].m_capacity - obj[o].m_count <= Cardinality(OnTheWay(o, WriteOps))

(* The number of tasks in a set, and in one with a task more or less *)
LEMMA CardinalityLemma ==
    ASSUME NEW S \in SUBSET Tasks, NEW x \in Tasks
    PROVE  /\ Cardinality(S) \in Nat /\ Cardinality(S \ {x}) \in Nat
           /\ Cardinality(S \ {x}) >= Cardinality(S) - 1
           /\ x \notin S => Cardinality(S \cup {x}) = Cardinality(S) + 1
           /\ x \in S => Cardinality(S \ {x}) = Cardinality(S) - 1
<1>1. IsFiniteSet(S) /\ IsFiniteSet(S \ {x})
  BY TasksAssumption, FS_Subset
<1>2. Cardinality(S) \in Nat /\ Cardinality(S \ {x}) \in Nat
  BY <1>1, FS_CardinalityType
<1>3. x \in S => Cardinality(S \ {x}) = Cardinality(S) - 1
  BY <1>1, FS_RemoveElement
<1>4. x \notin S => Cardinality(S \cup {x}) = Cardinality(S) + 1
  BY <1>1, FS_AddElement
<1>5. x \notin S => S \ {x} = S
  OBVIOUS
<1> QED
  BY <1>2, <1>3, <1>4, <1>5

LEMMA BackedLemma ==
    ASSUME NativeOnly, Shape, \A o \in DOMAIN obj : Backed(o)
    PROVE  QueueWaitersHaveCause
<1>1. \A o \in DOMAIN obj : obj[o].kind = Kind(o) /\ obj[o].kind # "pipe"
  BY DEF Shape, ObjectShape, Kinds
<1> SUFFICES ASSUME NEW o \in DOMAIN obj, Kind(o) = "queue"
             PROVE  /\ (\E i \in DOMAIN wait.list[NotEmpty(o)] :
                          Need(call[wait.list[NotEmpty(o)][i]]) <= obj[o].m_count) =>
                          obj[o].m_count <= Cardinality(OnTheWay(o, ReadOps))
                    /\ wait.list[NotFull(o)] # <<>> =>
                          obj[o].m_capacity - obj[o].m_count <= Cardinality(OnTheWay(o, WriteOps))
  BY <1>1 DEF QueueWaitersHaveCause, Objects
<1>2. NotEmpty(o) \in SyncObjects /\ NotFull(o) \in SyncObjects
  BY ListsLemma DEF NotEmpty, NotFull
<1>3. \A l \in SyncObjects : wait.list[l] \in Seq(Tasks)
  BY DEF Shape, WaitTypeIn
<1>4. (\E i \in DOMAIN wait.list[NotEmpty(o)] : TRUE) => wait.list[NotEmpty(o)] # <<>>
  OBVIOUS
<1> QED
  BY <1>2, <1>4, NonEmptyLemma DEF Backed

(* A task that is not in a method of ops is not on its way from one *)
LEMMA NotOnTheWayLemma ==
    ASSUME NEW t \in Tasks, NEW c, Ready(t, c), NEW o, NEW ops,
           c.op \notin ops \/ ~Signalled(t, c)
    PROVE  t \notin OnTheWay(o, ops)
BY DEF Ready, OnTheWay

(* The first waiter of l was woken: one task of ops at most left, and the waiter is one
   more of the others that is on its way *)
Passed(o, l, ops, others) ==
    /\ Cardinality(OnTheWay(o, ops)') \in Nat /\ Cardinality(OnTheWay(o, ops)) \in Nat
    /\ Cardinality(OnTheWay(o, ops)') >= Cardinality(OnTheWay(o, ops)) - 1
    /\ Cardinality(OnTheWay(o, others)) \in Nat
    /\ (\E j \in Tasks : Linked(wait', l, j)) =>
          /\ Cardinality(OnTheWay(o, others)') = Cardinality(OnTheWay(o, others)) + 1
          /\ \E j \in Tasks : Linked(wait, l, j)
    /\ \A m \in SyncObjects, j \in Tasks : Linked(wait', m, j) => Linked(wait, m, j)

LEMMA PassLemma ==
    ASSUME Shape, NEW t \in Tasks, NEW c, Ready(t, c), Leaving(t, c),
           NEW l \in SyncObjects, NEW list, l = <<c.o, list>>, wait' = WakeOne(wait, l),
           NEW ops, NEW others, c.op \notin others, ops \cap others = {},
           \A j \in Tasks : Linked(wait, l, j) => call[j].op \in others
    PROVE  Passed(c.o, l, ops, others)
<1> DEFINE A == OnTheWay(c.o, ops)
           B == OnTheWay(c.o, others)
<1>1. A \in SUBSET Tasks /\ B \in SUBSET Tasks /\ A' \in SUBSET Tasks /\ B' \in SUBSET Tasks
  BY DEF OnTheWay
<1>2. t \notin B
  BY NotOnTheWayLemma
<1>3. CASE wait.list[l] = <<>>
  <2>1. Woke({}) /\ \A j \in Tasks : ~Linked(wait, l, j)
    BY <1>3, WokeOneLemma, NonEmptyLemma
  <2>2. A' = (A \ {t}) \cup {j \in {} : call[j].op \in ops}
    BY <2>1, OnTheWayLeaving
  <2>3. A' = A \ {t}
    BY <2>2
  <2>4. \A m \in SyncObjects, j \in Tasks : Linked(wait', m, j) => Linked(wait, m, j)
    BY <2>1 DEF Woke
  <2>5. Cardinality(A') >= Cardinality(A) - 1 /\ Cardinality(A) \in Nat /\ Cardinality(A') \in Nat
        /\ Cardinality(B) \in Nat
    BY <1>1, <2>3, CardinalityLemma
  <2> QED
    BY <2>1, <2>4, <2>5 DEF Passed
<1>4. CASE wait.list[l] # <<>>
  <2>1. PICK h \in Tasks : Woke({h}) /\ Linked(wait, l, h)
    BY <1>4, WokeOneLemma
  <2>2. {h} \in SUBSET WaitersOf(c.o) /\ call[h].op \in others /\ h \notin B
    BY <2>1, IsWaitingLemma DEF WaitersOf, OnTheWay
  <2>3. A' = A \ {t}
    <3>1. A' = (A \ {t}) \cup {j \in {h} : call[j].op \in ops}
      BY <2>1, <2>2, OnTheWayLeaving
    <3> QED
      BY <2>2, <3>1
  <2>4. B' = B \cup {h}
    <3>1. B' = (B \ {t}) \cup {j \in {h} : call[j].op \in others}
      BY <2>1, <2>2, OnTheWayLeaving
    <3>2. {j \in {h} : call[j].op \in others} = {h}
      BY <2>2
    <3> QED
      BY <1>2, <3>1, <3>2
  <2>5. /\ Cardinality(A') >= Cardinality(A) - 1 /\ Cardinality(A) \in Nat /\ Cardinality(A') \in Nat
        /\ Cardinality(B') = Cardinality(B) + 1 /\ Cardinality(B) \in Nat
    BY <1>1, <2>2, <2>3, <2>4, CardinalityLemma
  <2>6. \A m \in SyncObjects, j \in Tasks : Linked(wait', m, j) => Linked(wait, m, j)
    BY <2>1 DEF Woke
  <2> QED
    BY <2>1, <2>5, <2>6 DEF Passed
<1> QED
  BY <1>3, <1>4

(* Who waits for a message is in Get, who waits for room is in Put *)
LEMMA QueueWaiterLemma ==
    ASSUME Shape, NobodyPeeks, NEW o, NEW j \in Tasks
    PROVE  /\ NotEmpty(o) \in SyncObjects /\ Linked(wait, NotEmpty(o), j) => call[j].op \in ReadOps
           /\ NotFull(o) \in SyncObjects /\ Linked(wait, NotFull(o), j) => call[j].op \in WriteOps
<1>1. ASSUME NotEmpty(o) \in SyncObjects, Linked(wait, NotEmpty(o), j) PROVE call[j].op \in ReadOps
  <2>1. call[j] # NoCall /\ ListOf(call[j].op) = "not_empty"
    BY <1>1 DEF Shape, NotEmpty
  <2> QED
    BY <2>1 DEF NobodyPeeks, ListOf, ReadOps
<1>2. ASSUME NotFull(o) \in SyncObjects, Linked(wait, NotFull(o), j) PROVE call[j].op \in WriteOps
  <2>1. call[j] # NoCall /\ ListOf(call[j].op) = "not_full"
    BY <1>2 DEF Shape, NotFull
  <2> QED
    BY <2>1 DEF ListOf, WriteOps
<1> QED
  BY <1>1, <1>2

LEMMA PutBacked ==
    ASSUME NativeOnly, Shape, NobodyPeeks, NEW t \in Tasks, NEW c, Ready(t, c), Leaving(t, c),
           c.op \in {"MessageQueuePut", "MessageQueuePutFront"}, c.o \in DOMAIN obj,
           Kind(c.o) = "queue", RingShape(obj[c.o]),
           obj'[c.o].m_count = obj[c.o].m_count + 1, obj'[c.o].m_capacity = obj[c.o].m_capacity,
           wait' = WakeOne(wait, NotEmpty(c.o)), Backed(c.o), \A p : Kind(p)' = Kind(p)
    PROVE  Backed(c.o)'
<1>1. NotEmpty(c.o) \in SyncObjects /\ NotFull(c.o) \in SyncObjects /\ NotEmpty(c.o) = <<c.o, "not_empty">>
  BY ListsLemma DEF NotEmpty, NotFull
<1>2. c.op \notin ReadOps /\ WriteOps \cap ReadOps = {}
  BY DEF ReadOps, WriteOps
<1>3. Passed(c.o, NotEmpty(c.o), WriteOps, ReadOps)
  <2>1. \A j \in Tasks : Linked(wait, NotEmpty(c.o), j) => call[j].op \in ReadOps
    BY <1>1, QueueWaiterLemma
  <2> QED
    BY <1>1, <1>2, <2>1, PassLemma
<1>4. obj[c.o].m_count \in Nat /\ obj[c.o].m_capacity \in Nat
  BY DEF RingShape
<1> QED
  BY <1>1, <1>3, <1>4 DEF Backed, Passed

LEMMA GetBacked ==
    ASSUME NativeOnly, Shape, NobodyPeeks, NEW t \in Tasks, NEW c, Ready(t, c), Leaving(t, c),
           c.op = "MessageQueueGet", c.o \in DOMAIN obj, Kind(c.o) = "queue", RingShape(obj[c.o]),
           obj'[c.o].m_count = obj[c.o].m_count - 1, obj'[c.o].m_capacity = obj[c.o].m_capacity,
           wait' = WakeOne(wait, NotFull(c.o)), Backed(c.o), \A p : Kind(p)' = Kind(p)
    PROVE  Backed(c.o)'
<1>1. NotEmpty(c.o) \in SyncObjects /\ NotFull(c.o) \in SyncObjects /\ NotFull(c.o) = <<c.o, "not_full">>
  BY ListsLemma DEF NotEmpty, NotFull
<1>2. c.op \notin WriteOps /\ ReadOps \cap WriteOps = {}
  BY DEF ReadOps, WriteOps
<1>3. Passed(c.o, NotFull(c.o), ReadOps, WriteOps)
  <2>1. \A j \in Tasks : Linked(wait, NotFull(c.o), j) => call[j].op \in WriteOps
    BY <1>1, QueueWaiterLemma
  <2> QED
    BY <1>1, <1>2, <2>1, PassLemma
<1>4. obj[c.o].m_count \in Nat /\ obj[c.o].m_capacity \in Nat
  BY DEF RingShape
<1> QED
  BY <1>1, <1>3, <1>4 DEF Backed, Passed

(* A step that changes neither the queue nor its lists, of a task that was not woken *)
LEMMA IdleBacked ==
    ASSUME Shape, NEW t \in Tasks, NEW c, Ready(t, c), Leaving(t, c), wait' = wait, obj' = obj,
           c.op = "MessageQueuePeek" \/ ~Signalled(t, c), Backed(c.o), \A p : Kind(p)' = Kind(p)
    PROVE  Backed(c.o)'
<1>1. Woke({})
  BY WokeNoneLemma
<1>2. \A ops : t \notin OnTheWay(c.o, ops) => OnTheWay(c.o, ops)' = OnTheWay(c.o, ops)
  <2> SUFFICES ASSUME NEW ops, t \notin OnTheWay(c.o, ops)
               PROVE  OnTheWay(c.o, ops)' = OnTheWay(c.o, ops)
    OBVIOUS
  <2>1. OnTheWay(c.o, ops)' = (OnTheWay(c.o, ops) \ {t}) \cup {j \in {} : call[j].op \in ops}
    BY <1>1, OnTheWayLeaving
  <2> QED
    BY <2>1
<1>3. t \notin OnTheWay(c.o, ReadOps) /\ t \notin OnTheWay(c.o, WriteOps)
  BY NotOnTheWayLemma DEF ReadOps, WriteOps
<1>4. OnTheWay(c.o, ReadOps)' = OnTheWay(c.o, ReadOps) /\ OnTheWay(c.o, WriteOps)' = OnTheWay(c.o, WriteOps)
  BY <1>2, <1>3 DEF ReadOps, WriteOps
<1> QED
  BY <1>4 DEF Backed

(* A task starts to wait: the queue is empty, or full *)
LEMMA ParksBacked ==
    ASSUME NativeOnly, Shape, NEW t \in Tasks, NEW c, Ready(t, c), Parks(t, c), c.o \in DOMAIN obj,
           Kind(c.o) = "queue", RingShape(obj[c.o]),
           \/ c.op = "MessageQueueGet" /\ Empty(obj[c.o])
           \/ c.op \in {"MessageQueuePut", "MessageQueuePutFront"} /\ Full(obj[c.o]),
           Backed(c.o), \A p : Kind(p)' = Kind(p)
    PROVE  Backed(c.o)'
<1>1. NotEmpty(c.o) \in SyncObjects /\ NotFull(c.o) \in SyncObjects /\ NotEmpty(c.o) # NotFull(c.o)
      /\ NotEmpty(c.o) = <<c.o, "not_empty">> /\ NotFull(c.o) = <<c.o, "not_full">>
  BY ListsLemma DEF NotEmpty, NotFull
<1>2. obj' = obj /\ obj[c.o].m_count \in Nat /\ obj[c.o].m_capacity \in Nat
  BY DEF Parks, RingShape
<1>3. Parked(t, <<c.o, ListOf(c.op)>>)
  BY ParkedLemma
<1>4. /\ OnTheWay(c.o, ReadOps)' = OnTheWay(c.o, ReadOps) \ {t}
      /\ OnTheWay(c.o, WriteOps)' = OnTheWay(c.o, WriteOps) \ {t}
  BY OnTheWayParks DEF ReadOps, WriteOps
<1>5. OnTheWay(c.o, ReadOps) \in SUBSET Tasks /\ OnTheWay(c.o, WriteOps) \in SUBSET Tasks
  BY DEF OnTheWay
<1>6. Cardinality(OnTheWay(c.o, ReadOps)') \in Nat /\ Cardinality(OnTheWay(c.o, WriteOps)') \in Nat
  BY <1>4, <1>5, CardinalityLemma
<1>7. CASE c.op = "MessageQueueGet" /\ Empty(obj[c.o])
  <2>1. OnTheWay(c.o, WriteOps)' = OnTheWay(c.o, WriteOps)
    <3>1. t \notin OnTheWay(c.o, WriteOps)
      BY <1>7, NotOnTheWayLemma DEF WriteOps
    <3> QED
      BY <1>4, <3>1
  <2>2. \A j \in Tasks : Linked(wait', NotFull(c.o), j) => Linked(wait, NotFull(c.o), j)
    BY <1>1, <1>3, <1>7 DEF Parked, ListOf
  <2> QED
    BY <1>2, <1>6, <1>7, <2>1, <2>2 DEF Backed, Empty
<1>8. CASE c.op \in {"MessageQueuePut", "MessageQueuePutFront"} /\ Full(obj[c.o])
  <2>1. OnTheWay(c.o, ReadOps)' = OnTheWay(c.o, ReadOps)
    <3>1. t \notin OnTheWay(c.o, ReadOps)
      BY <1>8, NotOnTheWayLemma DEF ReadOps
    <3> QED
      BY <1>4, <3>1
  <2>2. \A j \in Tasks : Linked(wait', NotEmpty(c.o), j) => Linked(wait, NotEmpty(c.o), j)
    BY <1>1, <1>3, <1>8 DEF Parked, ListOf
  <2> QED
    BY <1>2, <1>6, <1>8, <2>1, <2>2 DEF Backed, Full
<1> QED
  BY <1>7, <1>8

LEMMA ResetBacked ==
    ASSUME NativeOnly, Shape, NEW t \in Tasks, NEW c, c.o \in DOMAIN obj, Kind(c.o) = "queue",
           obj'[c.o].m_count = 0, wait' = WakeAll(wait, NotFull(c.o)), \A p : Kind(p)' = Kind(p)
    PROVE  Backed(c.o)'
<1>1. NotFull(c.o) \in SyncObjects
  BY ListsLemma DEF NotFull
<1>2. \A j \in Tasks : ~Linked(wait', NotFull(c.o), j)
  BY <1>1, WokeAllLemma DEF Woke
<1>3. OnTheWay(c.o, ReadOps)' \in SUBSET Tasks
  BY DEF OnTheWay
<1>4. Cardinality(OnTheWay(c.o, ReadOps)') \in Nat
  BY <1>3, CardinalityLemma
<1> QED
  BY <1>2, <1>4 DEF Backed

(* A task that gives up was not signalled *)
LEMMA GivesUpLemma ==
    ASSUME NEW t \in Tasks, NEW c, Ready(t, c), NEW condition, GivesUp(t, c, condition, c.ticks),
           c.op # "EventFlagsWaitLoop"
    PROVE  ~Signalled(t, c)
BY DEF Ready, InCallShape, GivesUp, TimedOut, Signalled

LEMMA LeavingLemma ==
    ASSUME Shape, NEW t \in Tasks, NEW c, FrameShape(c), NEW v, Return(t, c, v), WakeStep(c)
    PROVE  Leaving(t, c) /\ call'[t] = NoCall
BY ReturnLemma DEF Leaving, Follows

(* The steps of a queue *)
LEMMA PutStepBacked ==
    ASSUME NativeOnly, Shape, NobodyPeeks, NEW t \in Tasks, NEW c, Ready(t, c), FrameShape(c),
           c.op \in {"MessageQueuePut", "MessageQueuePutFront"}, c.o \in DOMAIN obj,
           Kind(c.o) = "queue", RingShape(obj[c.o]), NEW q, PutWith(t, c, q),
           ~Full(obj[c.o]) => q.m_count = obj[c.o].m_count + 1 /\ q.m_capacity = obj[c.o].m_capacity,
           Backed(c.o), \A p : Kind(p)' = Kind(p)
    PROVE  Backed(c.o)'
<1>1. NotEmpty(c.o) \in SyncObjects /\ NotEmpty(c.o) = <<c.o, "not_empty">>
      /\ NotFull(c.o) = <<c.o, ListOf(c.op)>> /\ Waits(c.op) /\ c.ticks \in Signed
  BY ListsLemma, SignedLemma DEF NotEmpty, NotFull, ListOf, Waits, FrameShape
<1>2. CASE Blocks(t, c, Full(obj[c.o]), NotFull(c.o), c.ticks) /\ obj' = obj
  <2>1. KernelWait(t, c, wait, <<c.o, ListOf(c.op)>>, c.ticks) /\ c.ticks # NO_WAIT /\ Full(obj[c.o])
    BY <1>1, <1>2 DEF Blocks
  <2>2. Parks(t, c)
    BY <1>1, <1>2, <2>1, ParkLemma
  <2> QED
    BY <2>1, <2>2, ParksBacked
<1>3. CASE GivesUp(t, c, Full(obj[c.o]), c.ticks) /\ Return(t, c, FAIL) /\ obj' = obj /\ wait' = wait
  <2>1. ~Signalled(t, c)
    BY <1>3, GivesUpLemma
  <2>2. Leaving(t, c)
    BY <1>3, LeavingLemma DEF WakeStep
  <2> QED
    BY <1>3, <2>1, <2>2, IdleBacked
<1>4. CASE /\ Proceeds(t, c, Full(obj[c.o])) /\ Set(c.o, q)
           /\ wait' = WakeOne(wait, NotEmpty(c.o)) /\ Return(t, c, OK)
  <2>1. Leaving(t, c)
    BY <1>1, <1>4, LeavingLemma, WakeLemma
  <2>2. obj'[c.o] = q /\ ~Full(obj[c.o])
    BY <1>4 DEF Set, Proceeds
  <2> QED
    BY <1>4, <2>1, <2>2, PutBacked
<1> QED
  BY <1>2, <1>3, <1>4 DEF PutWith

LEMMA GetStepBacked ==
    ASSUME NativeOnly, Shape, NobodyPeeks, NEW t \in Tasks, NEW c, Ready(t, c), FrameShape(c),
           c.o \in DOMAIN obj, Kind(c.o) = "queue", RingShape(obj[c.o]), MessageQueueGet(t, c),
           Backed(c.o), \A p : Kind(p)' = Kind(p)
    PROVE  Backed(c.o)'
<1>0. c.op = "MessageQueueGet"
  BY DEF MessageQueueGet
<1>1. NotFull(c.o) \in SyncObjects /\ NotFull(c.o) = <<c.o, "not_full">>
      /\ NotEmpty(c.o) = <<c.o, ListOf(c.op)>> /\ Waits(c.op) /\ c.ticks \in Signed
  BY <1>0, ListsLemma, SignedLemma DEF NotEmpty, NotFull, ListOf, Waits, FrameShape
<1>2. CASE Blocks(t, c, Empty(obj[c.o]), NotEmpty(c.o), c.ticks) /\ obj' = obj
  <2>1. KernelWait(t, c, wait, <<c.o, ListOf(c.op)>>, c.ticks) /\ c.ticks # NO_WAIT /\ Empty(obj[c.o])
    BY <1>1, <1>2 DEF Blocks
  <2>2. Parks(t, c)
    BY <1>1, <1>2, <2>1, ParkLemma
  <2> QED
    BY <1>0, <2>1, <2>2, ParksBacked
<1>3. CASE GivesUp(t, c, Empty(obj[c.o]), c.ticks) /\ Return(t, c, <<>>) /\ obj' = obj /\ wait' = wait
  <2>1. ~Signalled(t, c)
    BY <1>0, <1>3, GivesUpLemma
  <2>2. Leaving(t, c)
    BY <1>3, LeavingLemma DEF WakeStep
  <2> QED
    BY <1>3, <2>1, <2>2, IdleBacked
<1>4. CASE /\ Proceeds(t, c, Empty(obj[c.o])) /\ Set(c.o, RemoveOldest(obj[c.o]))
           /\ wait' = WakeOne(wait, NotFull(c.o)) /\ Return(t, c, <<Oldest(obj[c.o])>>)
  <2>1. Leaving(t, c)
    BY <1>1, <1>4, LeavingLemma, WakeLemma
  <2>2. obj'[c.o] = RemoveOldest(obj[c.o]) /\ ~Empty(obj[c.o])
    BY <1>4 DEF Set, Proceeds
  <2>3. obj'[c.o].m_count = obj[c.o].m_count - 1 /\ obj'[c.o].m_capacity = obj[c.o].m_capacity
    BY <2>2, RemoveLemma
  <2> QED
    BY <1>0, <1>4, <2>1, <2>3, GetBacked
<1> QED
  BY <1>2, <1>3, <1>4 DEF MessageQueueGet

LEMMA QueueBacked ==
    ASSUME NativeOnly, Shape, NobodyPeeks, PeeksAtOnce, NEW t \in Tasks, NEW c, TaskStep(t, c),
           Kind(c.o) = "queue", Backed(c.o), \A p : Kind(p)' = Kind(p)
    PROVE  Backed(c.o)'
<1>1. Ready(t, c) /\ MessageQueueStep(t, c)
  BY ActionLemma DEF TaskStep
<1>2. c.op \in {"MessageQueuePut", "MessageQueuePutFront", "MessageQueueGet",
                "MessageQueuePeek", "MessageQueueReset"}
  BY <1>1 DEF MessageQueueStep, MessageQueuePut, MessageQueuePutFront, MessageQueueGet,
         MessageQueuePeek, MessageQueueReset
<1>3. c.o \in DOMAIN obj /\ RingShape(obj[c.o]) /\ FrameShape(c)
  BY <1>1, <1>2, QueueLemma
<1>4. CASE MessageQueuePut(t, c)
  BY <1>1, <1>3, <1>4, PutStepBacked, AddLemma DEF MessageQueuePut
<1>5. CASE MessageQueuePutFront(t, c)
  BY <1>1, <1>3, <1>5, PutStepBacked, AddLemma DEF MessageQueuePutFront
<1>6. CASE MessageQueueGet(t, c)
  BY <1>1, <1>3, <1>6, GetStepBacked
<1>7. CASE MessageQueuePeek(t, c)
  <2>1. c.op = "MessageQueuePeek" /\ obj' = obj
    BY <1>7 DEF MessageQueuePeek
  <2>2. c.ticks = NO_WAIT
    <3>1. c # NoCall
      BY <2>1 DEF NoCall
    <3> QED
      BY <1>1, <2>1, <3>1 DEF TaskStep, Ready, NobodyPeeks, PeeksAtOnce
  <2>3. wait' = wait /\ \E v : Return(t, c, v)
    BY <1>7, <2>2 DEF MessageQueuePeek, Blocks
  <2>4. Leaving(t, c)
    BY <1>3, <2>3, LeavingLemma DEF WakeStep
  <2> QED
    BY <1>1, <2>1, <2>3, <2>4, IdleBacked
<1>8. CASE MessageQueueReset(t, c)
  <2>1. obj'[c.o] = Cleared(obj[c.o]) /\ wait' = WakeAll(wait, NotFull(c.o))
    BY <1>3, <1>8 DEF MessageQueueReset, Set
  <2> QED
    BY <1>3, <2>1, ClearedLemma, ResetBacked
<1> QED
  BY <1>1, <1>4, <1>5, <1>6, <1>7, <1>8 DEF MessageQueueStep

LEMMA NobodyPeeksStep ==
    ASSUME NativeOnly, Shape, NobodyPeeks, PeeksAtOnce, NEW t \in Tasks, NEW c, TaskStep(t, c)
    PROVE  NobodyPeeks'
<1>1. Ready(t, c) /\ NativeEffect(t, c)
  BY DEF TaskStep
<1>2. Only(t) /\ (Leaving(t, c) \/ Parks(t, c))
  BY <1>1 DEF NativeEffect, Leaving, Parks
<1>3. CASE Leaving(t, c)
  <2>1. call'[t] # NoCall => call'[t].op # "MessageQueuePeek"
    BY <1>3 DEF Leaving, Follows, Inner
  <2> QED
    BY <1>2, <2>1 DEF NobodyPeeks, Only
<1>4. CASE Parks(t, c)
  <2>1. call'[t].op = c.op /\ (c.ticks # NO_WAIT \/ c.op = "EventFlagsWaitLoop")
    BY <1>4 DEF Parks, Blocked
  <2>2. c.op # "MessageQueuePeek"
    <3> SUFFICES ASSUME c.op = "MessageQueuePeek" PROVE FALSE
      OBVIOUS
    <3>1. c # NoCall
      BY DEF NoCall
    <3> QED
      BY <1>1, <2>1, <3>1 DEF TaskStep, Ready, NobodyPeeks, PeeksAtOnce
  <2> QED
    BY <1>2, <2>1, <2>2 DEF NobodyPeeks, Only
<1> QED
  BY <1>2, <1>3, <1>4

(* The rest of the proof is that of Sound *)
AllBacked == NobodyPeeks /\ \A o \in DOMAIN obj : Backed(o)

LEMMA BackedElsewhere ==
    ASSUME NativeOnly, Shape, NEW o \in DOMAIN obj, Elsewhere(o), Backed(o), Kind(o)' = Kind(o)
    PROVE  Backed(o)'
<1> SUFFICES ASSUME Kind(o) = "queue" PROVE Backed(o)'
  BY DEF Backed
<1>1. OnTheWay(o, ReadOps)' = OnTheWay(o, ReadOps) /\ OnTheWay(o, WriteOps)' = OnTheWay(o, WriteOps)
  BY OnTheWayElsewhere DEF ReadOps, WriteOps
<1>2. <<o, "not_empty">> \in SyncObjects /\ <<o, "not_full">> \in SyncObjects
  BY ListsLemma
<1> QED
  BY <1>1, <1>2 DEF Elsewhere, Backed, NotEmpty, NotFull

LEMMA BackedTicked ==
    ASSUME NativeOnly, Shape, NEW o \in DOMAIN obj, Ticked, Backed(o), Kind(o)' = Kind(o)
    PROVE  Backed(o)'
<1> SUFFICES ASSUME Kind(o) = "queue" PROVE Backed(o)'
  BY DEF Backed
<1>1. OnTheWay(o, ReadOps)' = OnTheWay(o, ReadOps) /\ OnTheWay(o, WriteOps)' = OnTheWay(o, WriteOps)
  BY OnTheWayTicked DEF ReadOps, WriteOps
<1>2. <<o, "not_empty">> \in SyncObjects /\ <<o, "not_full">> \in SyncObjects
  BY ListsLemma
<1> QED
  BY <1>1, <1>2 DEF Ticked, Backed, NotEmpty, NotFull

LEMMA BackedNext ==
    ASSUME NativeOnly, Shape, PeeksAtOnce, AllBacked, [Next]_vars
    PROVE  AllBacked'
<1>1. \A p : Kind(p)' = Kind(p)
  BY ShapeNextLemma
<1>2. DOMAIN obj' = DOMAIN obj
  BY ShapeNextLemma
<1>3. ASSUME NEW t \in Tasks, NEW c, TaskStep(t, c) PROVE AllBacked'
  <2>1. NobodyPeeks'
    BY <1>3, NobodyPeeksStep DEF AllBacked
  <2>2. ASSUME NEW o \in DOMAIN obj PROVE Backed(o)'
    <3>1. CASE o = c.o /\ Kind(o) = "queue"
      BY <1>1, <1>3, <3>1, QueueBacked DEF AllBacked
    <3>2. CASE Kind(o) # "queue"
      BY <1>1, <3>2 DEF Backed
    <3>3. CASE o # c.o
      BY <1>1, <1>3, <3>3, ElsewhereLemma, BackedElsewhere DEF AllBacked
    <3> QED
      BY <3>1, <3>2, <3>3
  <2> QED
    BY <1>2, <2>1, <2>2 DEF AllBacked
<1>4. CASE Ticked
  <2>1. NobodyPeeks'
    BY <1>4 DEF Ticked, AllBacked, NobodyPeeks
  <2> QED
    BY <1>1, <1>2, <1>4, <2>1, BackedTicked DEF AllBacked
<1>5. CASE obj' = obj /\ wait' = wait /\ call' = call
  <2>1. NobodyPeeks' /\ \A o : Elsewhere(o)
    BY <1>5 DEF AllBacked, NobodyPeeks, Elsewhere
  <2> QED
    BY <1>1, <1>2, <2>1, BackedElsewhere DEF AllBacked
<1> QED
  BY <1>3, <1>4, <1>5, ShapeNextLemma

LEMMA BackedInit ==
    ASSUME NativeOnly, Init
    PROVE  AllBacked
<1>1. (\A l \in SyncObjects, j \in Tasks : ~Linked(wait, l, j)) /\ \A j \in Tasks : call[j] = NoCall
  BY NoWaitersLemma DEF Init
<1>2. ASSUME NEW o \in DOMAIN obj, Kind(o) = "queue"
      PROVE  NotEmpty(o) \in SyncObjects /\ NotFull(o) \in SyncObjects
  BY <1>2, ShapeInitLemma, ListsLemma DEF NotEmpty, NotFull
<1> QED
  BY <1>1, <1>2 DEF AllBacked, NobodyPeeks, Backed

(* No wake-up of a message queue is lost: while a task waits for a message, there are no more
   messages than tasks that were woken to take one, and the same of room, whatever
   tasks overtake, time out and reset the queue *)
THEOREM QueueNotForgotten == Spec => [](NativeOnly /\ PeeksAtOnce => QueueWaitersHaveCause)
<1> DEFINE P == NativeOnly /\ PeeksAtOnce => AllBacked
<1>1. Init => P
  BY BackedInit
<1>2. (NativeOnly => Shape) /\ P /\ [Next]_vars => P'
  <2> SUFFICES ASSUME NativeOnly => Shape, P, [Next]_vars, NativeOnly', PeeksAtOnce'
               PROVE  AllBacked'
    OBVIOUS
  <2>1. scenario' = scenario
    BY DEF Next, vars
  <2>2. PeeksAtOnce /\ NativeOnly
    BY <2>1, NativeStaysLemma, SameProgramLemma DEF PeeksAtOnce
  <2> QED
    BY <2>2, BackedNext
<1>3. (NativeOnly => Shape) /\ P => (NativeOnly /\ PeeksAtOnce => QueueWaitersHaveCause)
  BY BackedLemma DEF AllBacked
<1> HIDE DEF P
<1>4. Spec => []P
  BY <1>1, <1>2, ShapeInvariance, PTL DEF Spec
<1> QED
  BY <1>3, <1>4, ShapeInvariance, PTL

-----------------------------------------------------------------------------
(* Semaphores: the tasks that take tokens of o to give them back *)
Owns(t, o) == \E c \in The.calls[t] : c.o = o /\ c.op \in WaitOps /\ c.x = "own"

(* The program returns its tokens: who takes a token of a semaphore this way uses no
   other object, looks at the result, and all users of the semaphore do so *)
TokensReturned ==
    /\ "SemaphoreWait" \notin Unread
    /\ \A t \in Tasks, o \in DOMAIN The.objects : Owns(t, o) =>
          /\ \A c \in The.calls[t] : c.o = o /\ c.x = "own"
          /\ \A u \in Tasks : \A c \in The.calls[u] : c.o = o => Owns(u, o)

(* The call a task is in was made on an object of its program *)
Origin == \A t \in Tasks : call[t] # NoCall => \E d \in The.calls[t] : d.o = call[t].o

(* Who has a token is not in a call for another *)
TokenCallers ==
    \A t \in Tasks : \A o \in DOMAIN obj :
        Kind(o) = "semaphore" /\ Owns(t, o) /\ call[t] # NoCall =>
            call[t].op = "SemaphoreWait" /\ ret[t] # OK

Holders(o) == {t \in Tasks : Owns(t, o) /\ ret[t] = OK /\ call[t] = NoCall}

Conserved(o) ==
    Kind(o) = "semaphore" /\ (\E t \in Tasks : Owns(t, o)) =>
        obj[o].m_count + Cardinality(OnTheWay(o, {"SemaphoreWait"})) + Cardinality(Holders(o))
          = The.objects[o].m_count

LEMMA ReturnedLemma ==
    ASSUME Shape, NEW t \in Tasks, NEW c, FrameShape(c), NEW v, Return(t, c, v)
    PROVE  ret'[t] = IF c.op \in Unread THEN NULL ELSE v
<1>1. c.then = NoCall /\ DOMAIN ret = Tasks
  BY DEF FrameShape, Shape
<1> QED
  BY <1>1 DEF Return

LEMMA HoldersLemma ==
    ASSUME NEW t \in Tasks, Only(t), The' = The, NEW o
    PROVE  Holders(o)' = IF Owns(t, o) /\ ret'[t] = OK /\ call'[t] = NoCall
                         THEN Holders(o) \cup {t} ELSE Holders(o) \ {t}
<1> HIDE DEF The
<1>1. \A u : Owns(u, o)' <=> Owns(u, o)
  BY DEF Owns
<1> HIDE DEF Owns
<1> QED
  BY <1>1 DEF Only, Holders

LEMMA ConservedLemma ==
    ASSUME NativeOnly, Shape, TokensReturned, TokenCallers, \A o \in DOMAIN obj : Conserved(o)
    PROVE  TokensConserved
<1> SUFFICES ASSUME NEW o \in DOMAIN obj, obj[o].kind = "semaphore", \E t \in Tasks : Owns(t, o)
             PROVE  obj[o].m_count + Cardinality(OnTheWay(o, {"SemaphoreWait"}))
                      + Cardinality({t \in Tasks : Owns(t, o) /\ ret[t] = OK
                                       /\ (Idle(t) \/ call[t].op = "SemaphoreSignal")})
                      = The.objects[o].m_count
  <2> HIDE DEF The
  <2> QED
    BY DEF TokensConserved, Objects, Owns
<1>1. Kind(o) = "semaphore"
  BY DEF Shape
<1>2. {t \in Tasks : Owns(t, o) /\ ret[t] = OK /\ (Idle(t) \/ call[t].op = "SemaphoreSignal")} = Holders(o)
  <2> HIDE DEF The
  <2> HIDE DEF Owns
  <2>1. \A t \in Tasks : Owns(t, o) /\ call[t].op = "SemaphoreSignal" => call[t] = NoCall
    BY <1>1 DEF TokenCallers
  <2> QED
    BY <2>1 DEF Holders, Idle
<1> QED
  BY <1>1, <1>2 DEF Conserved

(* The callers of a semaphore whose tokens are returned *)
LEMMA TokenCallLemma ==
    ASSUME NativeOnly, Shape, TokensReturned, TokenCallers, NEW t \in Tasks, NEW c, TaskStep(t, c),
           Kind(c.o) = "semaphore", Owns(t, c.o)
    PROVE  /\ (call[t] = NoCall /\ ~c.blocked) \/ (call[t] = c /\ c.blocked /\ c.op = "SemaphoreWait")
           /\ c.op = "SemaphoreWait" => ret[t] # OK
           /\ c.op = "SemaphoreSignal" => ret[t] = OK /\ call[t] = NoCall
<1>1. Ready(t, c) /\ c.o \in DOMAIN obj /\ c.o \in DOMAIN The.objects
  BY ReadyLemma DEF TaskStep, Shape
<1>2. CASE call[t] = NoCall
  <2>1. c \in The.calls[t] /\ CallerOwns(t, c) /\ ~c.blocked
    BY <1>2, CallLemma DEF TaskStep, CallerMay
  <2>2. c.x = "own"
    <3> HIDE DEF The
    <3> QED
      BY <1>1, <2>1 DEF TokensReturned
  <2> QED
    BY <1>2, <2>1, <2>2 DEF CallerOwns, SignalOps, WaitOps
<1>3. CASE call[t] # NoCall
  <2>1. call[t] = c /\ InCallShape(c)
    BY <1>1, <1>3 DEF Ready
  <2>2. c.op = "SemaphoreWait" /\ ret[t] # OK
    BY <1>1, <1>3, <2>1 DEF TokenCallers
  <2>3. c.blocked
    BY <2>1, <2>2 DEF InCallShape, Inner
  <2> QED
    BY <2>1, <2>2, <2>3
<1> QED
  BY <1>2, <1>3

LEMMA TokenStep ==
    ASSUME NativeOnly, Shape, TokensReturned, TokenCallers, NEW t \in Tasks, NEW c, TaskStep(t, c),
           Kind(c.o) = "semaphore", Owns(t, c.o), Conserved(c.o), The' = The, \A p : Kind(p)' = Kind(p)
    PROVE  Conserved(c.o)'
<1> HIDE DEF The
<1> HIDE DEF Owns
<1> DEFINE o == c.o
           S == OnTheWay(c.o, {"SemaphoreWait"})
           H == Holders(c.o)
           l == <<c.o, "list">>
<1>1. /\ Ready(t, c) /\ NativeEffect(t, c) /\ FrameShape(c) /\ o \in DOMAIN obj
      /\ SemaphoreShape(obj[o]) /\ l \in SyncObjects
      /\ (SemaphoreWait(t, c) \/ SemaphoreSignal(t, c))
  BY ReadyLemma, KindLemma, ListsLemma, ActionLemma DEF TaskStep, ObjectShape, Kinds
<1>2. S \in SUBSET Tasks /\ H \in SUBSET Tasks /\ obj[o].m_count \in Nat /\ OK # FAIL /\ OK # NULL
  BY <1>1, ResultsAssumption DEF OnTheWay, Holders, SemaphoreShape
<1>3. Cardinality(S) \in Nat /\ Cardinality(H) \in Nat
  BY <1>2, CardinalityLemma
<1>4. obj[o].m_count + Cardinality(S) + Cardinality(H) = The.objects[o].m_count
  BY DEF Conserved
<1>5. SUFFICES obj'[o].m_count + Cardinality(S') + Cardinality(H') = The.objects[o].m_count
  BY DEF Conserved
<1>6. /\ (call[t] = NoCall /\ ~c.blocked) \/ (call[t] = c /\ c.blocked /\ c.op = "SemaphoreWait")
      /\ c.op = "SemaphoreWait" => ret[t] # OK
      /\ c.op = "SemaphoreSignal" => ret[t] = OK /\ call[t] = NoCall
  BY TokenCallLemma
<1>7. Only(t)
  BY <1>1 DEF NativeEffect, Leaving, Parks
<1>8. H' = IF ret'[t] = OK /\ call'[t] = NoCall THEN H \cup {t} ELSE H \ {t}
  BY <1>7, HoldersLemma
<1>9. c.op = "SemaphoreWait" => t \notin H
  BY <1>6 DEF Holders
<1>10. ASSUME NEW v, Return(t, c, v), WakeStep(c), NEW X \in SUBSET WaitersOf(c.o), Woke(X)
       PROVE  S' = (S \ {t}) \cup {j \in X : call[j].op = "SemaphoreWait"} /\ call'[t] = NoCall
  <2>1. Leaving(t, c) /\ call'[t] = NoCall
    BY <1>1, <1>10, LeavingLemma
  <2>2. S' = (S \ {t}) \cup {j \in X : call[j].op \in {"SemaphoreWait"}}
    BY <1>1, <1>10, <2>1, OnTheWayLeaving
  <2> QED
    BY <2>1, <2>2
<1>11. ASSUME NEW v, Return(t, c, v), wait' = wait PROVE S' = S \ {t} /\ call'[t] = NoCall
  <2>1. Woke({}) /\ WakeStep(c) /\ {} \in SUBSET WaitersOf(c.o)
    BY <1>11, WokeNoneLemma DEF WakeStep
  <2>2. S' = (S \ {t}) \cup {j \in {} : call[j].op = "SemaphoreWait"} /\ call'[t] = NoCall
    BY <1>10, <1>11, <2>1
  <2> QED
    BY <2>2
<1>12. ~Signalled(t, c) => t \notin S
  BY <1>1, NotOnTheWayLemma
<1>13. CASE SemaphoreWait(t, c)
  <2>0. c.op = "SemaphoreWait" /\ ret[t] # OK /\ t \notin H
    BY <1>6, <1>9, <1>13 DEF SemaphoreWait
  <2>1. CASE /\ ~c.blocked /\ obj[o].m_count # 0 /\ Return(t, c, OK) /\ wait' = wait
             /\ Set(c.o, [obj[o] EXCEPT !.m_count = @ - 1])
    <3>1. ret'[t] = OK
      BY <1>1, <2>0, <2>1, ReturnedLemma DEF TokensReturned
    <3>2. H' = H \cup {t} /\ S' = S
      BY <1>8, <1>11, <1>12, <2>1, <3>1 DEF Signalled
    <3>3. obj'[o].m_count = obj[o].m_count - 1
      BY <1>1, <2>1 DEF Set, SemaphoreShape
    <3>4. Cardinality(H') = Cardinality(H) + 1
      BY <1>2, <2>0, <3>2, CardinalityLemma
    <3> QED
      BY <1>2, <1>3, <1>4, <3>2, <3>3, <3>4
  <2>2. CASE /\ ~c.blocked /\ c.ticks # NO_WAIT /\ obj' = obj
             /\ KernelWait(t, c, wait, <<c.o, "list">>, c.ticks)
    <3>1. Parks(t, c)
      BY <1>1, <2>0, <2>2, ParkLemma, SignedLemma DEF ListOf, Waits, FrameShape
    <3>2. S' = S \ {t} /\ t \notin S
      BY <1>1, <1>12, <2>2, <3>1, OnTheWayParks DEF Signalled
    <3>3. ret'[t] # OK
      BY <2>0, <3>1 DEF Parks
    <3>4. H' = H /\ S' = S
      BY <1>8, <2>0, <3>2, <3>3
    <3> QED
      BY <1>4, <2>2, <3>4
  <2>3. CASE \E v : Return(t, c, v) /\ v # OK /\ obj' = obj /\ wait' = wait /\ ~Signalled(t, c)
    <3>1. ret'[t] # OK
      BY <1>1, <1>2, <2>3, ReturnedLemma
    <3>2. H' = H /\ S' = S
      BY <1>8, <1>11, <1>12, <2>0, <2>3, <3>1
    <3> QED
      BY <1>4, <2>3, <3>2
  <2>4. CASE Return(t, c, OK) /\ obj' = obj /\ wait' = wait /\ Signalled(t, c) /\ c.blocked
    <3>1. ret'[t] = OK
      BY <1>1, <2>0, <2>4, ReturnedLemma DEF TokensReturned
    <3>2. t \in S
      <4>1. c # NoCall /\ call[t] = c
        BY <1>6, <2>0, <2>4 DEF NoCall
      <4>2. ~IsWaiting(wait, t)
        BY <1>1, IsWaitingLemma DEF Ready, Unlinked
      <4> QED
        BY <2>0, <2>4, <4>1, <4>2 DEF OnTheWay
    <3>3. H' = H \cup {t} /\ S' = S \ {t}
      BY <1>8, <1>11, <2>4, <3>1
    <3>4. Cardinality(H') = Cardinality(H) + 1 /\ Cardinality(S') = Cardinality(S) - 1
      BY <1>2, <2>0, <3>2, <3>3, CardinalityLemma
    <3> QED
      BY <1>2, <1>3, <1>4, <2>4, <3>4
  <2> QED
    BY <1>2, <1>13, <2>1, <2>2, <2>3, <2>4 DEF SemaphoreWait, Signalled, Status
<1>14. CASE SemaphoreSignal(t, c)
  <2>0. c.op = "SemaphoreSignal" /\ Return(t, c, NULL) /\ ret[t] = OK /\ call[t] = NoCall
    BY <1>6, <1>14 DEF SemaphoreSignal
  <2>1. ret'[t] # OK /\ t \in H
    BY <1>1, <1>2, <2>0, ReturnedLemma DEF Holders
  <2>2. H' = H \ {t} /\ Cardinality(H') = Cardinality(H) - 1
    BY <1>2, <1>8, <2>1, CardinalityLemma
  <2>3. t \notin S
    BY <2>0 DEF OnTheWay
  <2>4. CASE wait.list[l] = <<>>
    <3>1. wait' = wait /\ obj'[o].m_count = obj[o].m_count + 1
      BY <1>1, <1>14, <2>4 DEF SemaphoreSignal, Set, SemaphoreShape
    <3>2. S' = S
      BY <1>11, <2>0, <2>3, <3>1
    <3> QED
      BY <1>2, <1>3, <1>4, <2>2, <3>1, <3>2
  <2>5. CASE wait.list[l] # <<>>
    <3>1. wait' = WakeOne(wait, l) /\ obj' = obj
      BY <1>14, <2>5 DEF SemaphoreSignal
    <3>2. PICK h \in Tasks : Woke({h}) /\ Linked(wait, l, h)
      BY <1>1, <2>5, <3>1, WokeOneLemma
    <3>3. WakeStep(c) /\ {h} \in SUBSET WaitersOf(c.o)
      BY <1>1, <3>1, <3>2, WakeLemma DEF WaitersOf
    <3>4. call[h].op = "SemaphoreWait" /\ h \notin S
      <4>1. call[h] # NoCall /\ InCallShape(call[h]) /\ call[h].o = c.o /\ ListOf(call[h].op) = "list"
        BY <1>1, <3>2 DEF Shape
      <4>2. Runs("semaphore", call[h].op)
        BY <4>1 DEF InCallShape
      <4>3. IsWaiting(wait, h)
        BY <1>1, <3>2, IsWaitingLemma
      <4> QED
        BY <4>1, <4>2, <4>3 DEF Runs, Method, Inner, ListOf, OnTheWay
    <3>5. S' = (S \ {t}) \cup {j \in {h} : call[j].op = "SemaphoreWait"}
      BY <1>10, <2>0, <3>2, <3>3
    <3>6. {j \in {h} : call[j].op = "SemaphoreWait"} = {h}
      BY <3>4
    <3>7. S' = S \cup {h}
      BY <2>3, <3>5, <3>6
    <3>8. Cardinality(S') = Cardinality(S) + 1
      BY <1>2, <3>4, <3>7, CardinalityLemma
    <3> QED
      BY <1>2, <1>3, <1>4, <2>2, <3>1, <3>8
  <2> QED
    BY <2>4, <2>5
<1> QED
  BY <1>1, <1>13, <1>14

(* Every call comes from the program *)
LEMMA OriginLemma ==
    ASSUME Origin, NEW t \in Tasks, NEW c, TaskStep(t, c)
    PROVE  \E d \in The.calls[t] : d.o = c.o
<1> HIDE DEF The
<1> QED
  BY DEF Origin, TaskStep, Ready

LEMMA OriginNext ==
    ASSUME NativeOnly, Shape, Origin, [Next]_vars
    PROVE  Origin'
<1>1. The' = The
  BY ShapeNextLemma
<1>2. ASSUME NEW t \in Tasks, NEW c, TaskStep(t, c) PROVE Origin'
  <2>1. NativeEffect(t, c) /\ Ready(t, c)
    BY <1>2 DEF TaskStep
  <2>2. Only(t) /\ (call'[t] # NoCall => call'[t].o = c.o)
    BY <2>1 DEF NativeEffect, Leaving, Follows, Parks, Blocked
  <2>3. PICK d \in The.calls[t] : d.o = c.o
    BY <1>2, OriginLemma
  <2> HIDE DEF The
  <2> QED
    BY <1>1, <2>2, <2>3 DEF Origin, Only
<1>3. CASE call' = call
  <2> HIDE DEF The
  <2> QED
    BY <1>1, <1>3 DEF Origin
<1> QED
  BY <1>2, <1>3, ShapeNextLemma DEF Ticked

LEMMA TokenCallersStep ==
    ASSUME NativeOnly, Shape, Origin, TokensReturned, TokenCallers,
           NEW t \in Tasks, NEW c, TaskStep(t, c), The' = The, DOMAIN obj' = DOMAIN obj,
           \A p : Kind(p)' = Kind(p)
    PROVE  TokenCallers'
<1>0. \A u, o : Owns(u, o)' <=> Owns(u, o)
  <2> HIDE DEF The
  <2> QED
    BY DEF Owns
<1>1. Ready(t, c) /\ NativeEffect(t, c) /\ Runs(Kind(c.o), c.op)
  BY ReadyLemma DEF TaskStep
<1>2. Only(t)
  BY <1>1 DEF NativeEffect, Leaving, Parks
<1>3. ASSUME NEW o \in DOMAIN obj, Kind(o) = "semaphore", Owns(t, o), call'[t] # NoCall
      PROVE  call'[t].op = "SemaphoreWait" /\ ret'[t] # OK
  <2>1. c.o = o
    <3>1. PICK d \in The.calls[t] : d.o = c.o
      BY OriginLemma
    <3>2. o \in DOMAIN The.objects
      BY DEF Shape
    <3> HIDE DEF The
    <3> QED
      BY <1>3, <3>1, <3>2 DEF TokensReturned
  <2>2. ~Leaving(t, c)
    BY <1>3, <2>1 DEF Leaving, Follows, Inner
  <2>3. Parks(t, c)
    BY <1>1, <2>2 DEF NativeEffect
  <2>4. call'[t].op = c.op /\ ret'[t] = ret[t] /\ Waits(c.op)
    BY <2>3 DEF Parks, Blocked
  <2>5. c.op = "SemaphoreWait"
    BY <1>1, <1>3, <2>1, <2>4 DEF Runs, Method, Inner, Waits, ListOf
  <2> QED
    BY <1>3, <2>1, <2>4, <2>5, TokenCallLemma
<1> HIDE DEF The
<1> HIDE DEF Owns
<1> QED
  BY <1>0, <1>2, <1>3 DEF TokenCallers, Only

LEMMA ConservedElsewhere ==
    ASSUME NEW o \in DOMAIN obj, Conserved(o), The' = The, Kind(o)' = Kind(o),
           obj'[o] = obj[o], Holders(o)' = Holders(o),
           OnTheWay(o, {"SemaphoreWait"})' = OnTheWay(o, {"SemaphoreWait"})
    PROVE  Conserved(o)'
<1> HIDE DEF The
<1>1. \A u : Owns(u, o)' <=> Owns(u, o)
  BY DEF Owns
<1> HIDE DEF Owns
<1> QED
  BY <1>1 DEF Conserved

TokensOK == Origin /\ TokenCallers /\ \A o \in DOMAIN obj : Conserved(o)

LEMMA TokensNext ==
    ASSUME NativeOnly, Shape, TokensReturned, TokensOK, [Next]_vars
    PROVE  TokensOK'
<1>0. The' = The /\ \A u, o : Owns(u, o)' <=> Owns(u, o)
  <2>1. The' = The
    BY ShapeNextLemma
  <2> HIDE DEF The
  <2> QED
    BY <2>1 DEF Owns
<1>1. (\A p : Kind(p)' = Kind(p)) /\ DOMAIN obj' = DOMAIN obj
  BY ShapeNextLemma
<1>2. Origin' /\ Origin /\ TokenCallers /\ \A o \in DOMAIN obj : Conserved(o)
  BY OriginNext DEF TokensOK
<1>3. ASSUME NEW t \in Tasks, NEW c, TaskStep(t, c) PROVE TokensOK'
  <2>1. TokenCallers'
    BY <1>0, <1>1, <1>2, <1>3, TokenCallersStep
  <2>2. PICK d \in The.calls[t] : d.o = c.o
    BY <1>2, <1>3, OriginLemma
  <2>3. ASSUME NEW o \in DOMAIN obj, Kind(o) = "semaphore", NEW u \in Tasks, Owns(u, o)
        PROVE  Conserved(o)'
    <3>0. o \in DOMAIN The.objects
      BY DEF Shape
    <3>1. CASE o = c.o
      <4>1. Owns(t, c.o)
        <5> HIDE DEF The
        <5> HIDE DEF Owns
        <5> QED
          BY <2>2, <2>3, <3>0, <3>1 DEF TokensReturned
      <4> QED
        BY <1>0, <1>1, <1>2, <1>3, <2>3, <3>1, <4>1, TokenStep
    <3>2. CASE o # c.o
      <4>1. ~Owns(t, o)
        <5> HIDE DEF The
        <5> HIDE DEF Owns
        <5> QED
          BY <2>2, <3>0, <3>2 DEF TokensReturned
      <4>2. Elsewhere(o)
        BY <1>3, <3>2, ElsewhereLemma
      <4>3. Only(t)
        BY <1>3 DEF TaskStep, NativeEffect, Leaving, Parks
      <4>4. Holders(o)' = Holders(o) \ {t}
        BY <1>0, <4>1, <4>3, HoldersLemma
      <4>5. t \notin Holders(o)
        BY <4>1 DEF Holders
      <4>6. Holders(o)' = Holders(o)
        BY <4>4, <4>5
      <4>7. OnTheWay(o, {"SemaphoreWait"})' = OnTheWay(o, {"SemaphoreWait"}) /\ obj'[o] = obj[o]
        BY <4>2, OnTheWayElsewhere DEF Elsewhere
      <4> QED
        BY <1>0, <1>1, <1>2, <4>6, <4>7, ConservedElsewhere
    <3> QED
      BY <3>1, <3>2
  <2>4. \A o \in DOMAIN obj : Conserved(o)'
    <3> HIDE DEF The
    <3> HIDE DEF Owns
    <3> QED
      BY <1>0, <1>1, <2>3 DEF Conserved
  <2> QED
    BY <1>1, <1>2, <2>1, <2>4 DEF TokensOK
<1>4. ASSUME obj' = obj, call' = call, ret' = ret,
             \A o : OnTheWay(o, {"SemaphoreWait"})' = OnTheWay(o, {"SemaphoreWait"})
      PROVE  TokensOK'
  <2> HIDE DEF The
  <2> HIDE DEF Owns
  <2>1. TokenCallers' /\ \A o : Holders(o)' = Holders(o)
    BY <1>0, <1>1, <1>2, <1>4 DEF TokenCallers, Holders
  <2> QED
    BY <1>0, <1>1, <1>2, <1>4, <2>1, ConservedElsewhere DEF TokensOK
<1>5. CASE Ticked
  BY <1>4, <1>5, OnTheWayTicked DEF Ticked
<1>6. CASE obj' = obj /\ wait' = wait /\ call' = call /\ ret' = ret
  BY <1>4, <1>6 DEF OnTheWay, Signalled
<1> QED
  BY <1>3, <1>5, <1>6, ShapeNextLemma

LEMMA TokensInit ==
    ASSUME NativeOnly, Init
    PROVE  TokensOK
<1> HIDE DEF The
<1> HIDE DEF Owns
<1>1. (\A t \in Tasks : call[t] = NoCall /\ ret[t] = NULL) /\ obj = The.objects /\ Shape
  BY ShapeInitLemma DEF Init
<1>2. \A o : Holders(o) = {} /\ OnTheWay(o, {"SemaphoreWait"}) = {}
  BY <1>1, ResultsAssumption DEF Holders, OnTheWay
<1>3. ASSUME NEW o \in DOMAIN obj, Kind(o) = "semaphore" PROVE obj[o].m_count \in Nat
  BY <1>1, <1>3 DEF Shape, ObjectShape, SemaphoreShape, Kinds
<1>4. Cardinality({}) = 0
  BY FS_EmptySet
<1> QED
  BY <1>1, <1>2, <1>3, <1>4 DEF TokensOK, Origin, TokenCallers, Conserved

(* A semaphore neither loses nor makes a token, whatever tasks are signalled, time out or
   overtake a waiter: the count, the tokens of the waiters that were signalled and
   the tokens that tasks have add up to the initial count *)
THEOREM TokensKept == Spec => [](NativeOnly /\ TokensReturned => TokensConserved)
<1> DEFINE P == NativeOnly /\ TokensReturned => TokensOK
<1>1. Init => P
  BY TokensInit
<1>2. (NativeOnly => Shape) /\ P /\ [Next]_vars => P'
  <2> SUFFICES ASSUME NativeOnly => Shape, P, [Next]_vars, NativeOnly', TokensReturned'
               PROVE  TokensOK'
    OBVIOUS
  <2>1. scenario' = scenario
    BY DEF Next, vars
  <2>2. The' = The /\ NativeOnly
    BY <2>1, NativeStaysLemma, SameProgramLemma
  <2>3. TokensReturned
    <3> HIDE DEF The
    <3>1. \A u, o : Owns(u, o)' <=> Owns(u, o)
      BY <2>2 DEF Owns
    <3> HIDE DEF Owns
    <3> QED
      BY <2>2, <3>1 DEF TokensReturned
  <2> QED
    BY <2>2, <2>3, TokensNext
<1>3. (NativeOnly => Shape) /\ P => (NativeOnly /\ TokensReturned => TokensConserved)
  BY ConservedLemma DEF TokensOK
<1> HIDE DEF P
<1>4. Spec => []P
  BY <1>1, <1>2, ShapeInvariance, PTL DEF Spec
<1> QED
  BY <1>3, <1>4, ShapeInvariance, PTL

-----------------------------------------------------------------------------
(* Block pools: the tasks that allocate blocks of o *)
Allocates(t, o) == \E c \in The.calls[t] : c.o = o /\ c.op \in AllocOps

(* The program returns its blocks: who uses a pool allocates from it, looks at the result and
   uses no other object *)
BlocksReturned ==
    /\ "PoolAlloc" \notin Unread
    /\ \A t \in Tasks, o \in DOMAIN The.objects :
          Kind(o) = "pool" /\ (\E c \in The.calls[t] : c.o = o) =>
              Allocates(t, o) /\ \A c \in The.calls[t] : c.o = o

(* Who has a block is not in a call for another *)
NoBlock == {OK, FAIL, NULL}

AllocCallers ==
    \A t \in Tasks : \A o \in DOMAIN obj :
        Kind(o) = "pool" /\ Allocates(t, o) /\ call[t] # NoCall =>
            call[t].op = "PoolAlloc" /\ ret[t] \in NoBlock

BlockOwners(o) == {t \in Tasks : Allocates(t, o) /\ ret[t] \notin NoBlock}

Whole(o) ==
    Kind(o) = "pool" =>
      /\ obj[o].m_used_count = Cardinality(BlockOwners(o))
      /\ ToSet(obj[o].m_free_list) \cup {ret[t] : t \in BlockOwners(o)} = 0..obj[o].m_capacity-1
      /\ Len(obj[o].m_free_list) = obj[o].m_capacity - obj[o].m_used_count
      /\ (\E j \in Tasks : Linked(wait, <<o, "cv">>, j)) =>
            Len(obj[o].m_free_list) <= Cardinality(OnTheWay(o, {"PoolAlloc"}))

LEMMA BlockOwnersLemma ==
    ASSUME NEW t \in Tasks, Only(t), The' = The, NEW o
    PROVE  BlockOwners(o)' = IF Allocates(t, o) /\ ret'[t] \notin NoBlock
                             THEN BlockOwners(o) \cup {t} ELSE BlockOwners(o) \ {t}
<1> HIDE DEF The
<1>1. \A u : Allocates(u, o)' <=> Allocates(u, o)
  BY DEF Allocates
<1>2. NoBlock' = NoBlock
  BY DEF NoBlock
<1> HIDE DEF Allocates
<1> QED
  BY <1>1, <1>2 DEF Only, BlockOwners

LEMMA WholeLemma ==
    ASSUME NativeOnly, Shape, \A o \in DOMAIN obj : Whole(o)
    PROVE  BlocksConserved
<1> HIDE DEF The
<1> SUFFICES ASSUME NEW o \in DOMAIN obj, obj[o].kind = "pool"
             PROVE  /\ obj[o].m_used_count = Cardinality(BlockOwners(o))
                    /\ obj[o].m_storage =>
                         /\ ToSet(obj[o].m_free_list) \cup {ret[t] : t \in BlockOwners(o)}
                              = 0..obj[o].m_capacity-1
                         /\ Len(obj[o].m_free_list) = GetFreeCount(obj[o])
                    /\ wait.list[<<o, "cv">>] # <<>> =>
                         Len(obj[o].m_free_list) <= Cardinality(OnTheWay(o, {"PoolAlloc"}))
  BY DEF BlocksConserved, FreePools, Objects, BlockOwners, Allocates, NoBlock
<1>1. Kind(o) = "pool"
  BY DEF Shape
<1>2. <<o, "cv">> \in SyncObjects
  BY <1>1, ListsLemma
<1> QED
  BY <1>1, <1>2, NonEmptyLemma DEF Whole, GetFreeCount

(* The elements of a list whose first one is taken away, and of one with a new first one *)
LEMMA ListSetLemma ==
    ASSUME NEW s \in Seq(Nat)
    PROVE  /\ Len(s) \in Nat
           /\ s # <<>> => /\ Head(s) \in Nat /\ Len(Tail(s)) = Len(s) - 1
                          /\ ToSet(s) = {Head(s)} \cup ToSet(Tail(s))
           /\ \A x \in Nat : /\ Len(<<x>> \o s) = Len(s) + 1
                             /\ ToSet(<<x>> \o s) = {x} \cup ToSet(s)
<1>1. Len(s) \in Nat
  OBVIOUS
<1>2. ASSUME s # <<>>
      PROVE  Head(s) \in Nat /\ Len(Tail(s)) = Len(s) - 1 /\ ToSet(s) = {Head(s)} \cup ToSet(Tail(s))
  <2>1. Tail(s) \in Seq(Nat) /\ Len(Tail(s)) = Len(s) - 1 /\ Head(s) = s[1] /\ Head(s) \in Nat /\ Len(s) > 0
    BY <1>2
  <2>2. \A i \in 1..Len(s)-1 : Tail(s)[i] = s[i + 1]
    BY <1>2
  <2>3. ToSet(s) \subseteq {Head(s)} \cup ToSet(Tail(s))
    <3> SUFFICES ASSUME NEW i \in 1..Len(s), i # 1 PROVE s[i] \in ToSet(Tail(s))
      BY <2>1 DEF ToSet
    <3>1. i - 1 \in 1..Len(Tail(s)) /\ Tail(s)[i - 1] = s[i]
      BY <2>1, <2>2
    <3>2. DOMAIN Tail(s) = 1..Len(Tail(s))
      BY <2>1
    <3>3. Tail(s)[i - 1] \in ToSet(Tail(s))
      BY <3>1, <3>2 DEF ToSet
    <3> QED
      BY <3>1, <3>3
  <2>4. {Head(s)} \cup ToSet(Tail(s)) \subseteq ToSet(s)
    <3>1. Head(s) \in ToSet(s)
      BY <2>1 DEF ToSet
    <3>2. ASSUME NEW i \in 1..Len(Tail(s)) PROVE Tail(s)[i] \in ToSet(s)
      <4>1. i + 1 \in 1..Len(s) /\ Tail(s)[i] = s[i + 1]
        BY <2>1, <2>2
      <4> QED
        BY <4>1 DEF ToSet
    <3>3. DOMAIN Tail(s) = 1..Len(Tail(s))
      BY <2>1
    <3> QED
      BY <3>1, <3>2, <3>3 DEF ToSet
  <2> QED
    BY <2>1, <2>3, <2>4
<1>3. ASSUME NEW x \in Nat
      PROVE  Len(<<x>> \o s) = Len(s) + 1 /\ ToSet(<<x>> \o s) = {x} \cup ToSet(s)
  <2> DEFINE r == <<x>> \o s
  <2>1. r \in Seq(Nat) /\ Len(r) = Len(s) + 1 /\ r[1] = x
    OBVIOUS
  <2>2. \A i \in 1..Len(s) : r[i + 1] = s[i]
    OBVIOUS
  <2> HIDE DEF r
  <2>3. DOMAIN r = 1..Len(r) /\ DOMAIN s = 1..Len(s)
    BY <2>1
  <2>4. ToSet(r) \subseteq {x} \cup ToSet(s)
    <3> SUFFICES ASSUME NEW i \in 1..Len(r), i # 1 PROVE r[i] \in ToSet(s)
      BY <2>1, <2>3 DEF ToSet
    <3>0. i - 1 \in 1..Len(s) /\ i - 1 + 1 = i
      BY <1>1, <2>1
    <3>1. i - 1 \in 1..Len(s) /\ r[i] = s[i - 1]
      BY <2>2, <3>0
    <3> QED
      BY <2>3, <3>1 DEF ToSet
  <2>5. {x} \cup ToSet(s) \subseteq ToSet(r)
    <3>1. 1 \in 1..Len(r) /\ \A i \in 1..Len(s) : i + 1 \in 1..Len(r)
      BY <1>1, <2>1
    <3> QED
      BY <2>1, <2>2, <2>3, <3>1 DEF ToSet
  <2> QED
    BY <2>1, <2>4, <2>5 DEF r
<1> QED
  BY <1>1, <1>2, <1>3

(* The callers of a pool whose blocks are returned *)
LEMMA AllocCallLemma ==
    ASSUME NativeOnly, Shape, AllocCallers, NEW t \in Tasks, NEW c, TaskStep(t, c),
           Kind(c.o) = "pool", Allocates(t, c.o)
    PROVE  /\ c.op = "PoolAlloc" => ret[t] \in NoBlock
           /\ c.op = "PoolFree" => c.x = ret[t] /\ call[t] = NoCall
<1>1. Ready(t, c) /\ c.o \in DOMAIN obj
  BY ReadyLemma DEF TaskStep
<1>2. CASE call[t] = NoCall
  <2>1. CallerOwns(t, c)
    BY <1>2 DEF TaskStep, CallerMay
  <2> QED
    BY <1>2, <2>1 DEF CallerOwns, AllocOps, FreeOps, NoBlock
<1>3. CASE call[t] # NoCall
  <2>1. call[t] = c
    BY <1>1, <1>3 DEF Ready
  <2> QED
    BY <1>1, <1>3, <2>1 DEF AllocCallers
<1> QED
  BY <1>2, <1>3

(* The parts of Whole, for the step of a pool *)
LEMMA AllocWhole ==
    ASSUME NativeOnly, Shape, BlocksReturned, AllocCallers, NEW t \in Tasks, NEW c, TaskStep(t, c),
           PoolAlloc(t, c), Kind(c.o) = "pool", Allocates(t, c.o), Whole(c.o), The' = The,
           \A p : Kind(p)' = Kind(p)
    PROVE  Whole(c.o)'
<1> HIDE DEF The
<1> HIDE DEF Allocates
<1> DEFINE p == obj[c.o]
           W == OnTheWay(c.o, {"PoolAlloc"})
           O == BlockOwners(c.o)
           l == <<c.o, "cv">>
<1>0. c.op = "PoolAlloc"
  BY DEF PoolAlloc
<1>1. /\ Ready(t, c) /\ FrameShape(c) /\ c.o \in DOMAIN obj /\ PoolShape(p) /\ l \in SyncObjects
      /\ c.ticks \in Signed /\ Waits(c.op) /\ ListOf(c.op) = "cv"
  BY <1>0, PoolLemma DEF TaskStep, Waits, ListOf
<1>2. Only(t)
  BY DEF TaskStep, NativeEffect, Leaving, Parks
<1>3. W \in SUBSET Tasks /\ W' \in SUBSET Tasks /\ O \in SUBSET Tasks /\ p.m_free_list \in Seq(Nat)
      /\ p.m_capacity \in Nat /\ p.m_used_count \in Int
  BY <1>1 DEF OnTheWay, BlockOwners, PoolShape
<1>4. Cardinality(W) \in Nat /\ Cardinality(W') \in Nat /\ Cardinality(O) \in Nat
  BY <1>3, CardinalityLemma
<1>5. O' = IF ret'[t] \notin NoBlock THEN O \cup {t} ELSE O \ {t}
  BY <1>2, BlockOwnersLemma
<1>6. ret[t] \in NoBlock /\ t \notin O
  BY <1>0, AllocCallLemma DEF BlockOwners
<1>7. /\ p.m_used_count = Cardinality(O)
      /\ ToSet(p.m_free_list) \cup {ret[u] : u \in O} = 0..p.m_capacity-1
      /\ Len(p.m_free_list) = p.m_capacity - p.m_used_count
      /\ (\E j \in Tasks : Linked(wait, l, j)) => Len(p.m_free_list) <= Cardinality(W)
  BY DEF Whole
<1>8. \A u \in O : ret'[u] = ret[u]
  BY <1>2, <1>6 DEF Only, BlockOwners
<1> HIDE DEF p, W, O, l
<1>9. CASE Blocks(t, c, p.m_free_list = <<>>, l, c.ticks) /\ obj' = obj
  <2>1. KernelWait(t, c, wait, <<c.o, ListOf(c.op)>>, c.ticks) /\ c.ticks # NO_WAIT
        /\ p.m_free_list = <<>> /\ ret' = ret
    BY <1>1, <1>9 DEF Blocks, KernelWait, l
  <2>2. O' = O
    BY <1>5, <1>6, <2>1
  <2>3. p' = p /\ {ret'[u] : u \in O'} = {ret[u] : u \in O}
    BY <1>8, <1>9, <2>2 DEF p
  <2>4. Len(p'.m_free_list) = 0
    BY <2>1, <2>3
  <2>5. /\ p'.m_used_count = Cardinality(O')
        /\ ToSet(p'.m_free_list) \cup {ret'[u] : u \in O'} = 0..p'.m_capacity-1
        /\ Len(p'.m_free_list) = p'.m_capacity - p'.m_used_count
    BY <1>7, <2>2, <2>3
  <2>6. Len(p'.m_free_list) <= Cardinality(W')
    BY <1>4, <2>4
  <2> QED
    BY <2>5, <2>6 DEF Whole, p, W, O
<1>10. CASE GivesUp(t, c, p.m_free_list = <<>>, c.ticks) /\ Return(t, c, NULL) /\ obj' = obj /\ wait' = wait
  <2>1. ~Signalled(t, c)
    BY <1>0, <1>1, <1>10, GivesUpLemma
  <2>2. Leaving(t, c) /\ Woke({}) /\ {} \in SUBSET WaitersOf(c.o)
    BY <1>1, <1>10, LeavingLemma, WokeNoneLemma DEF WakeStep
  <2>3. W' = (W \ {t}) \cup {j \in {} : call[j].op \in {"PoolAlloc"}} /\ t \notin W
    BY <1>1, <2>1, <2>2, OnTheWayLeaving, NotOnTheWayLemma DEF W
  <2>4. ret'[t] = NULL
    BY <1>1, <1>10, ReturnedLemma
  <2>5. O' = O /\ W' = W
    BY <1>5, <1>6, <2>3, <2>4 DEF NoBlock
  <2>6. p' = p /\ {ret'[u] : u \in O'} = {ret[u] : u \in O}
    BY <1>8, <1>10, <2>5 DEF p
  <2>7. /\ p'.m_used_count = Cardinality(O')
        /\ ToSet(p'.m_free_list) \cup {ret'[u] : u \in O'} = 0..p'.m_capacity-1
        /\ Len(p'.m_free_list) = p'.m_capacity - p'.m_used_count
        /\ (\E j \in Tasks : Linked(wait', l, j)) => Len(p'.m_free_list) <= Cardinality(W')
    BY <1>7, <1>10, <2>5, <2>6
  <2> QED
    BY <2>7 DEF Whole, p, W, O, l
<1>11. CASE /\ p.m_free_list # <<>> /\ Set(c.o, PopFreeList(p)) /\ wait' = wait
            /\ Return(t, c, Head(p.m_free_list))
  <2>1. p' = PopFreeList(p)
    BY <1>1, <1>11 DEF Set, p
  <2>2. /\ p'.m_free_list = Tail(p.m_free_list) /\ p'.m_used_count = p.m_used_count + 1
        /\ p'.m_capacity = p.m_capacity
    BY <1>1, <1>11, <2>1, PopLemma
  <2>3. /\ Head(p.m_free_list) \in Nat /\ Len(p'.m_free_list) = Len(p.m_free_list) - 1
        /\ ToSet(p.m_free_list) = {Head(p.m_free_list)} \cup ToSet(p'.m_free_list)
        /\ Len(p.m_free_list) \in Nat
    BY <1>3, <1>11, <2>2, ListSetLemma
  <2>4. ret'[t] = Head(p.m_free_list)
    BY <1>0, <1>1, <1>11, ReturnedLemma DEF BlocksReturned
  <2>5. O' = O \cup {t}
    BY <1>5, <2>3, <2>4, ResultsAssumption DEF NoBlock
  <2>6. Cardinality(O') = Cardinality(O) + 1
    BY <1>3, <1>6, <2>5, CardinalityLemma
  <2>7. {ret'[u] : u \in O'} = {ret[u] : u \in O} \cup {Head(p.m_free_list)}
    BY <1>8, <2>4, <2>5
  <2>8. ToSet(p'.m_free_list) \cup {ret'[u] : u \in O'} = 0..p'.m_capacity-1
    BY <1>7, <2>2, <2>3, <2>7
  <2>9. Leaving(t, c) /\ Woke({}) /\ {} \in SUBSET WaitersOf(c.o)
    BY <1>1, <1>11, LeavingLemma, WokeNoneLemma DEF WakeStep
  <2>10. W' = (W \ {t}) \cup {j \in {} : call[j].op \in {"PoolAlloc"}}
    BY <1>1, <2>9, OnTheWayLeaving DEF W
  <2>11. W' = W \ {t}
    BY <2>10
  <2>12. Cardinality(W') >= Cardinality(W) - 1
    BY <1>3, <2>11, CardinalityLemma
  <2>13. (\E j \in Tasks : Linked(wait', l, j)) => Len(p'.m_free_list) <= Cardinality(W')
    BY <1>4, <1>7, <1>11, <2>3, <2>12
  <2>14. p'.m_used_count = Cardinality(O')
    BY <1>7, <2>2, <2>6
  <2>15. Len(p.m_free_list) = p.m_capacity - p.m_used_count
    BY <1>7
  <2>16. Len(p'.m_free_list) = p'.m_capacity - p'.m_used_count
    BY <1>3, <2>2, <2>3, <2>15
  <2> QED
    BY <2>8, <2>13, <2>14, <2>16 DEF Whole, p, W, O, l
<1> QED
  BY <1>9, <1>10, <1>11 DEF PoolAlloc, Proceeds, p, l

LEMMA FreeWhole ==
    ASSUME NativeOnly, Shape, AllocCallers, NEW t \in Tasks, NEW c, TaskStep(t, c),
           PoolFree(t, c), Kind(c.o) = "pool", Allocates(t, c.o), Whole(c.o), The' = The,
           \A p : Kind(p)' = Kind(p)
    PROVE  Whole(c.o)'
<1> HIDE DEF The
<1> HIDE DEF Allocates
<1> DEFINE p == obj[c.o]
           W == OnTheWay(c.o, {"PoolAlloc"})
           O == BlockOwners(c.o)
           l == <<c.o, "cv">>
<1>0. c.op = "PoolFree"
  BY DEF PoolFree
<1>1. Ready(t, c) /\ FrameShape(c) /\ c.o \in DOMAIN obj /\ PoolShape(p) /\ l \in SyncObjects
  BY <1>0, PoolLemma DEF TaskStep
<1>2. Only(t)
  BY DEF TaskStep, NativeEffect, Leaving, Parks
<1>3. W \in SUBSET Tasks /\ O \in SUBSET Tasks /\ p.m_free_list \in Seq(Nat)
      /\ p.m_capacity \in Nat /\ p.m_used_count \in Int
  BY <1>1 DEF OnTheWay, BlockOwners, PoolShape
<1>4. Cardinality(W) \in Nat /\ Cardinality(O) \in Nat
  BY <1>3, CardinalityLemma
<1>5. O' = IF ret'[t] \notin NoBlock THEN O \cup {t} ELSE O \ {t}
  BY <1>2, BlockOwnersLemma
<1>6. c.x = ret[t] /\ call[t] = NoCall /\ (t \in O <=> c.x \notin NoBlock)
  BY <1>0, AllocCallLemma DEF BlockOwners
<1>7. /\ p.m_used_count = Cardinality(O)
      /\ ToSet(p.m_free_list) \cup {ret[u] : u \in O} = 0..p.m_capacity-1
      /\ Len(p.m_free_list) = p.m_capacity - p.m_used_count
      /\ (\E j \in Tasks : Linked(wait, l, j)) => Len(p.m_free_list) <= Cardinality(W)
  BY DEF Whole
<1>8. \A u \in O \ {t} : ret'[u] = ret[u]
  BY <1>2 DEF Only, BlockOwners
<1> HIDE DEF p, W, O, l
<1>9. CASE c.x \in 0..p.m_capacity-1 /\ p.m_used_count # 0
  <2>1. Set(c.o, PushFreeList(p, c.x)) /\ wait' = WakeOne(wait, l) /\ Return(t, c, OK) /\ c.x \in Nat
    BY <1>3, <1>9 DEF PoolFree, p, l
  <2>2. p' = PushFreeList(p, c.x)
    BY <1>1, <2>1 DEF Set, p
  <2>3. /\ p'.m_free_list = <<c.x>> \o p.m_free_list /\ p'.m_used_count = p.m_used_count - 1
        /\ p'.m_capacity = p.m_capacity
    BY <1>1, <2>1, <2>2, PushLemma
  <2>4. /\ Len(p'.m_free_list) = Len(p.m_free_list) + 1 /\ Len(p.m_free_list) \in Nat
        /\ ToSet(p'.m_free_list) = {c.x} \cup ToSet(p.m_free_list)
    BY <1>3, <2>1, <2>3, ListSetLemma
  <2>5. t \in O /\ O' = O \ {t}
    BY <1>1, <1>5, <1>6, <2>1, ReturnedLemma, ResultsAssumption DEF NoBlock
  <2>6. Cardinality(O') = Cardinality(O) - 1
    BY <1>3, <2>5, CardinalityLemma
  <2>7. {ret'[u] : u \in O'} \cup {c.x} = {ret[u] : u \in O}
    BY <1>6, <1>8, <2>5
  <2>8. ToSet(p'.m_free_list) \cup {ret'[u] : u \in O'} = 0..p'.m_capacity-1
    BY <1>7, <2>3, <2>4, <2>7
  <2>9. Passed(c.o, l, {}, {"PoolAlloc"})
    <3>1. Leaving(t, c)
      BY <1>1, <2>1, LeavingLemma, WakeLemma DEF l
    <3>2. \A j \in Tasks : Linked(wait, l, j) => call[j].op \in {"PoolAlloc"}
      <4> SUFFICES ASSUME NEW j \in Tasks, Linked(wait, l, j) PROVE call[j].op = "PoolAlloc"
        OBVIOUS
      <4>1. call[j] # NoCall /\ InCallShape(call[j]) /\ call[j].o = c.o /\ ListOf(call[j].op) = "cv"
        BY <1>1 DEF Shape, l
      <4>2. Runs("pool", call[j].op)
        BY <4>1 DEF InCallShape
      <4> QED
        BY <4>1, <4>2 DEF Runs, Method, Inner, ListOf
    <3> QED
      BY <1>0, <1>1, <2>1, <3>1, <3>2, PassLemma DEF l
  <2>10. (\E j \in Tasks : Linked(wait', l, j)) => Len(p'.m_free_list) <= Cardinality(W')
    BY <1>4, <1>7, <2>4, <2>9 DEF Passed, W
  <2>11. p'.m_used_count = Cardinality(O')
    BY <1>7, <2>3, <2>6
  <2>12. Len(p.m_free_list) = p.m_capacity - p.m_used_count
    BY <1>7
  <2>13. Len(p'.m_free_list) = p'.m_capacity - p'.m_used_count
    BY <1>3, <2>3, <2>4, <2>12
  <2> QED
    BY <2>8, <2>10, <2>11, <2>13 DEF Whole, p, W, O, l
<1>10. CASE ~(c.x \in 0..p.m_capacity-1 /\ p.m_used_count # 0)
  <2>1. Return(t, c, FAIL) /\ obj' = obj /\ wait' = wait
    BY <1>10 DEF PoolFree, p
  <2>2. t \notin O
    <3> SUFFICES ASSUME t \in O PROVE FALSE
      OBVIOUS
    <3>1. c.x \in 0..p.m_capacity-1
      BY <1>6, <1>7
    <3>2. Cardinality(O \ {t}) \in Nat /\ Cardinality(O \ {t}) = Cardinality(O) - 1
      BY <1>3, CardinalityLemma
    <3> QED
      BY <1>4, <1>7, <1>10, <3>1, <3>2
  <2>3. ret'[t] \in NoBlock
    BY <1>1, <2>1, ReturnedLemma DEF NoBlock
  <2>4. O' = O
    BY <1>5, <2>2, <2>3
  <2>5. Leaving(t, c) /\ Woke({}) /\ {} \in SUBSET WaitersOf(c.o)
    BY <1>1, <2>1, LeavingLemma, WokeNoneLemma DEF WakeStep
  <2>6. W' = (W \ {t}) \cup {j \in {} : call[j].op \in {"PoolAlloc"}} /\ t \notin W
    BY <1>0, <1>1, <2>5, OnTheWayLeaving, NotOnTheWayLemma DEF W
  <2>7. W' = W
    BY <2>6
  <2>8. p' = p /\ {ret'[u] : u \in O} = {ret[u] : u \in O}
    BY <1>8, <2>1, <2>2 DEF p
  <2> QED
    BY <1>7, <2>1, <2>4, <2>7, <2>8 DEF Whole, p, W, O, l
<1> QED
  BY <1>9, <1>10

LEMMA AllocCallersStep ==
    ASSUME NativeOnly, Shape, Origin, BlocksReturned, AllocCallers,
           NEW t \in Tasks, NEW c, TaskStep(t, c), The' = The, DOMAIN obj' = DOMAIN obj,
           \A p : Kind(p)' = Kind(p)
    PROVE  AllocCallers'
<1>0. NoBlock' = NoBlock /\ \A u, o : Allocates(u, o)' <=> Allocates(u, o)
  <2> HIDE DEF The
  <2> QED
    BY DEF Allocates, NoBlock
<1>1. Ready(t, c) /\ NativeEffect(t, c) /\ Runs(Kind(c.o), c.op)
  BY ReadyLemma DEF TaskStep
<1>2. Only(t)
  BY <1>1 DEF NativeEffect, Leaving, Parks
<1>3. ASSUME NEW o \in DOMAIN obj, Kind(o) = "pool", Allocates(t, o), call'[t] # NoCall
      PROVE  call'[t].op = "PoolAlloc" /\ ret'[t] \in NoBlock
  <2>1. c.o = o
    <3>1. PICK d \in The.calls[t] : d.o = c.o
      BY OriginLemma
    <3>2. o \in DOMAIN The.objects
      BY DEF Shape
    <3>3. PICK e \in The.calls[t] : e.o = o
      BY <1>3 DEF Allocates
    <3> HIDE DEF The
    <3> QED
      BY <1>3, <3>1, <3>2, <3>3 DEF BlocksReturned
  <2>2. ~Leaving(t, c)
    BY <1>3, <2>1 DEF Leaving, Follows, Inner
  <2>3. Parks(t, c)
    BY <1>1, <2>2 DEF NativeEffect
  <2>4. call'[t].op = c.op /\ ret'[t] = ret[t] /\ Waits(c.op)
    BY <2>3 DEF Parks, Blocked
  <2>5. c.op = "PoolAlloc"
    BY <1>1, <1>3, <2>1, <2>4 DEF Runs, Method, Inner, Waits, ListOf
  <2> QED
    BY <1>3, <2>1, <2>4, <2>5, AllocCallLemma
<1> HIDE DEF The
<1> HIDE DEF Allocates
<1> HIDE DEF NoBlock
<1> QED
  BY <1>0, <1>2, <1>3 DEF AllocCallers, Only

LEMMA WholeElsewhere ==
    ASSUME NativeOnly, Shape, NEW o \in DOMAIN obj, Whole(o), The' = The, Kind(o)' = Kind(o),
           obj'[o] = obj[o], BlockOwners(o)' = BlockOwners(o),
           \A u \in BlockOwners(o) : ret'[u] = ret[u],
           OnTheWay(o, {"PoolAlloc"})' = OnTheWay(o, {"PoolAlloc"}),
           \A list : <<o, list>> \in SyncObjects =>
               \A j \in Tasks : Linked(wait', <<o, list>>, j) => Linked(wait, <<o, list>>, j)
    PROVE  Whole(o)'
<1> SUFFICES ASSUME Kind(o) = "pool" PROVE Whole(o)'
  BY DEF Whole
<1> DEFINE O == BlockOwners(o)
           W == OnTheWay(o, {"PoolAlloc"})
<1>1. <<o, "cv">> \in SyncObjects
  BY ListsLemma
<1>2. {ret'[u] : u \in O'} = {ret[u] : u \in O}
  <2> HIDE DEF BlockOwners
  <2> QED
    OBVIOUS
<1>3. O' = O /\ W' = W
  OBVIOUS
<1> HIDE DEF O, W
<1>4. /\ obj'[o].m_used_count = Cardinality(O')
      /\ ToSet(obj'[o].m_free_list) \cup {ret'[u] : u \in O'} = 0..obj'[o].m_capacity-1
      /\ Len(obj'[o].m_free_list) = obj'[o].m_capacity - obj'[o].m_used_count
      /\ (\E j \in Tasks : Linked(wait', <<o, "cv">>, j)) =>
            Len(obj'[o].m_free_list) <= Cardinality(W')
  <2>1. /\ obj[o].m_used_count = Cardinality(O)
        /\ ToSet(obj[o].m_free_list) \cup {ret[u] : u \in O} = 0..obj[o].m_capacity-1
        /\ Len(obj[o].m_free_list) = obj[o].m_capacity - obj[o].m_used_count
        /\ (\E j \in Tasks : Linked(wait, <<o, "cv">>, j)) =>
              Len(obj[o].m_free_list) <= Cardinality(W)
    BY DEF Whole, O, W
  <2> QED
    BY <1>1, <1>2, <1>3, <2>1
<1> QED
  BY <1>4 DEF Whole, O, W

BlocksOK == Origin /\ AllocCallers /\ \A o \in DOMAIN obj : Whole(o)

LEMMA BlocksNext ==
    ASSUME NativeOnly, Shape, BlocksReturned, BlocksOK, [Next]_vars
    PROVE  BlocksOK'
<1>0. The' = The /\ NoBlock' = NoBlock /\ \A u, o : Allocates(u, o)' <=> Allocates(u, o)
  <2>1. The' = The
    BY ShapeNextLemma
  <2> HIDE DEF The
  <2> QED
    BY <2>1 DEF Allocates, NoBlock
<1>1. (\A p : Kind(p)' = Kind(p)) /\ DOMAIN obj' = DOMAIN obj
  BY ShapeNextLemma
<1>2. Origin' /\ Origin /\ AllocCallers /\ \A o \in DOMAIN obj : Whole(o)
  BY OriginNext DEF BlocksOK
<1>3. ASSUME NEW t \in Tasks, NEW c, TaskStep(t, c) PROVE BlocksOK'
  <2>1. AllocCallers'
    BY <1>0, <1>1, <1>2, <1>3, AllocCallersStep
  <2>2. PICK d \in The.calls[t] : d.o = c.o
    BY <1>2, <1>3, OriginLemma
  <2>3. ASSUME NEW o \in DOMAIN obj, Kind(o) = "pool" PROVE Whole(o)'
    <3>0. o \in DOMAIN The.objects
      BY DEF Shape
    <3>1. CASE o = c.o
      <4>1. Allocates(t, c.o)
        <5> HIDE DEF The
        <5> HIDE DEF Allocates
        <5> QED
          BY <2>2, <2>3, <3>0, <3>1 DEF BlocksReturned
      <4>2. PoolAlloc(t, c) \/ PoolFree(t, c)
        BY <1>3, <2>3, <3>1, ActionLemma DEF TaskStep, PoolStep
      <4> QED
        BY <1>0, <1>1, <1>2, <1>3, <2>3, <3>1, <4>1, <4>2, AllocWhole, FreeWhole
    <3>2. CASE o # c.o
      <4>1. ~Allocates(t, o)
        <5>1. (\E e \in The.calls[t] : e.o = o) => \A e \in The.calls[t] : e.o = o
          <6> HIDE DEF The
          <6> QED
            BY <2>3, <3>0 DEF BlocksReturned
        <5> HIDE DEF The
        <5> QED
          BY <2>2, <3>2, <5>1 DEF Allocates
      <4>2. Elsewhere(o)
        BY <1>3, <3>2, ElsewhereLemma
      <4>3. Only(t)
        BY <1>3 DEF TaskStep, NativeEffect, Leaving, Parks
      <4>4. BlockOwners(o)' = BlockOwners(o) \ {t}
        BY <1>0, <4>1, <4>3, BlockOwnersLemma
      <4>5. t \notin BlockOwners(o)
        BY <4>1 DEF BlockOwners
      <4>6. BlockOwners(o)' = BlockOwners(o)
        BY <4>4, <4>5
      <4>7. \A u \in BlockOwners(o) : ret'[u] = ret[u]
        BY <4>3, <4>5 DEF BlockOwners, Only
      <4>8. OnTheWay(o, {"PoolAlloc"})' = OnTheWay(o, {"PoolAlloc"}) /\ obj'[o] = obj[o]
        BY <4>2, OnTheWayElsewhere DEF Elsewhere
      <4> QED
        BY <1>0, <1>1, <1>2, <4>2, <4>6, <4>7, <4>8, WholeElsewhere DEF Elsewhere
    <3> QED
      BY <3>1, <3>2
  <2>4. \A o \in DOMAIN obj : Whole(o)'
    <3>1. \A o \in DOMAIN obj : Kind(o) # "pool" => Whole(o)'
      BY <1>1 DEF Whole
    <3> QED
      BY <2>3, <3>1
  <2> QED
    BY <1>1, <1>2, <2>1, <2>4 DEF BlocksOK
<1>4. ASSUME obj' = obj, call' = call, ret' = ret,
             \A o : OnTheWay(o, {"PoolAlloc"})' = OnTheWay(o, {"PoolAlloc"}),
             \A l \in SyncObjects, j \in Tasks : Linked(wait', l, j) => Linked(wait, l, j)
      PROVE  BlocksOK'
  <2> HIDE DEF The
  <2> HIDE DEF Allocates
  <2> HIDE DEF NoBlock
  <2>1. AllocCallers' /\ \A o : BlockOwners(o)' = BlockOwners(o)
    BY <1>0, <1>1, <1>2, <1>4 DEF AllocCallers, BlockOwners
  <2>2. \A o \in DOMAIN obj : Whole(o)'
    BY <1>0, <1>1, <1>2, <1>4, <2>1, WholeElsewhere
  <2> QED
    BY <1>1, <1>2, <2>1, <2>2 DEF BlocksOK
<1>5. CASE Ticked
  BY <1>4, <1>5, OnTheWayTicked DEF Ticked
<1>6. CASE obj' = obj /\ wait' = wait /\ call' = call /\ ret' = ret
  BY <1>4, <1>6 DEF OnTheWay, Signalled
<1> QED
  BY <1>3, <1>5, <1>6, ShapeNextLemma

LEMMA NewPoolLemma ==
    ASSUME NEW r, Constructed(r), r.kind = "pool"
    PROVE  /\ r.m_used_count = 0 /\ r.m_capacity \in Nat
           /\ ToSet(r.m_free_list) = 0..r.m_capacity-1 /\ Len(r.m_free_list) = r.m_capacity
<1>1. PICK capacity, fits \in Nat : r = PoolObject(capacity, fits)
  BY DEF Constructed, SemaphoreObject, EventObject, MutexObject, EventFlagsObject, SpinObject, RingObject
<1> DEFINE n == Min({capacity, fits})
           s == [i \in 1..n |-> i - 1]
<1>2. n \in Nat
  <2>1. \E x \in {capacity, fits} : \A y \in {capacity, fits} : x <= y
    <3>1. CASE capacity <= fits
      BY <3>1
    <3>2. CASE fits <= capacity
      BY <3>2
    <3> QED
      BY <3>1, <3>2
  <2> QED
    BY <2>1 DEF Min
<1>3. r.m_used_count = 0 /\ r.m_capacity = n /\ r.m_free_list = s
  BY <1>1 DEF PoolObject, BuildFreeList
<1> HIDE DEF n
<1>4. Len(s) = n
  BY <1>2
<1>5. ToSet(s) = 0..n-1
  <2>1. ASSUME NEW k \in 0..n-1 PROVE k \in ToSet(s)
    <3>1. k + 1 \in 1..n /\ s[k + 1] = k
      BY <1>2
    <3> QED
      BY <3>1 DEF ToSet
  <2>2. ASSUME NEW i \in 1..n PROVE s[i] \in 0..n-1
    BY <1>2
  <2> QED
    BY <2>1, <2>2 DEF ToSet
<1> QED
  BY <1>2, <1>3, <1>4, <1>5

LEMMA BlocksInit ==
    ASSUME NativeOnly, Init
    PROVE  BlocksOK
<1> HIDE DEF The
<1> HIDE DEF Allocates
<1>1. (\A t \in Tasks : call[t] = NoCall /\ ret[t] = NULL) /\ obj = The.objects /\ Shape
      /\ \A l \in SyncObjects, j \in Tasks : ~Linked(wait, l, j)
  BY ShapeInitLemma, NoWaitersLemma DEF Init
<1>2. \A o : BlockOwners(o) = {}
  BY <1>1 DEF BlockOwners, NoBlock
<1>3. Cardinality({}) = 0
  BY FS_EmptySet
<1>4. ASSUME NEW o \in DOMAIN obj, Kind(o) = "pool" PROVE Whole(o)
  <2>1. Constructed(obj[o]) /\ obj[o].kind = "pool"
    BY <1>1, <1>4 DEF NativeOnly, NativeProgram, Kind
  <2>2. <<o, "cv">> \in SyncObjects
    BY <1>1, <1>4, ListsLemma
  <2>3. {ret[u] : u \in BlockOwners(o)} = {} /\ Cardinality(BlockOwners(o)) = 0
    BY <1>2, <1>3
  <2>4. /\ obj[o].m_used_count = 0 /\ obj[o].m_capacity \in Nat
        /\ ToSet(obj[o].m_free_list) = 0..obj[o].m_capacity-1
        /\ Len(obj[o].m_free_list) = obj[o].m_capacity
    BY <2>1, NewPoolLemma
  <2>5. ToSet(obj[o].m_free_list) \cup {ret[u] : u \in BlockOwners(o)} = 0..obj[o].m_capacity-1
    BY <2>3, <2>4
  <2> QED
    BY <1>1, <2>2, <2>3, <2>4, <2>5 DEF Whole
<1> QED
  BY <1>1, <1>4 DEF BlocksOK, Origin, AllocCallers, Whole

(* A pool neither loses nor hands out twice a block, whatever tasks are woken, time out or
   overtake a waiter: every block is free once or belongs to one task, and while a task
   waits for a block there are no more free ones than tasks that were woken to take one *)
THEOREM BlocksKept == Spec => [](NativeOnly /\ BlocksReturned => BlocksConserved)
<1> DEFINE P == NativeOnly /\ BlocksReturned => BlocksOK
<1>1. Init => P
  BY BlocksInit
<1>2. (NativeOnly => Shape) /\ P /\ [Next]_vars => P'
  <2> SUFFICES ASSUME NativeOnly => Shape, P, [Next]_vars, NativeOnly', BlocksReturned'
               PROVE  BlocksOK'
    OBVIOUS
  <2>1. scenario' = scenario
    BY DEF Next, vars
  <2>2. The' = The /\ NativeOnly /\ \A o : Kind(o)' = Kind(o)
    BY <2>1, NativeStaysLemma, SameProgramLemma
  <2>3. BlocksReturned
    <3> HIDE DEF The
    <3>1. \A u, o : Allocates(u, o)' <=> Allocates(u, o)
      BY <2>2 DEF Allocates
    <3> HIDE DEF Allocates
    <3> QED
      BY <2>2, <3>1 DEF BlocksReturned
  <2> QED
    BY <2>2, <2>3, BlocksNext
<1>3. (NativeOnly => Shape) /\ P => (NativeOnly /\ BlocksReturned => BlocksConserved)
  BY WholeLemma DEF BlocksOK
<1> HIDE DEF P
<1>4. Spec => []P
  BY <1>1, <1>2, ShapeInvariance, PTL DEF Spec
<1> QED
  BY <1>3, <1>4, ShapeInvariance, PTL

-----------------------------------------------------------------------------
(* Message queues are first-in first-out.  The write index follows the messages *)
InOrder(q) == q.m_head = (q.m_tail + q.m_count) % q.m_capacity

(* An index that went past the end of the buffer once *)
Wrap(a, n) == IF a < n THEN a ELSE a - n

LEMMA WrapLemma ==
    ASSUME NEW n \in Nat \ {0}, NEW a \in 0..2*n-1
    PROVE  a % n = Wrap(a, n) /\ Wrap(a, n) \in 0..n-1
<1>1. CASE a < n
  BY <1>1 DEF Wrap
<1>2. CASE a >= n
  <2>1. a \in Int /\ n > 0 /\ a < n + n
    OBVIOUS
  <2>2. a % n = a - n
    BY <1>2, <2>1
  <2> QED
    BY <1>2, <2>1, <2>2 DEF Wrap
<1> QED
  BY <1>1, <1>2

(* The slots of a ring of n slots whose oldest message, of k, is in slot t: a message more at
   the end, one more at the front, and the oldest one less *)
Adds(n, t, k) ==
    /\ t + (k + 1) \in 0..2*n-1 /\ Wrap(Wrap(t + k, n) + 1, n) = Wrap(t + (k + 1), n)
    /\ \A i \in 1..k : Wrap(t + i - 1, n) # Wrap(t + k, n) /\ Wrap(t + i - 1, n) \in 0..n-1

AddsFront(n, t, k, p) ==
    /\ p + (k + 1) \in 0..2*n-1 /\ Wrap(p + (k + 1), n) = Wrap(t + k, n)
    /\ \A i \in 1..k : /\ Wrap(p + (i + 1) - 1, n) = Wrap(t + i - 1, n)
                       /\ Wrap(t + i - 1, n) # p /\ Wrap(t + i - 1, n) \in 0..n-1

Removes(n, t, k) ==
    /\ Wrap(t + 1, n) + (k - 1) \in 0..2*n-1
    /\ Wrap(Wrap(t + 1, n) + (k - 1), n) = Wrap(t + k, n)
    /\ \A i \in 1..k-1 : /\ Wrap(Wrap(t + 1, n) + i - 1, n) = Wrap(t + (i + 1) - 1, n)
                         /\ Wrap(t + (i + 1) - 1, n) # t /\ Wrap(t + (i + 1) - 1, n) \in 0..n-1

LEMMA AddWrap ==
    ASSUME NEW n \in Nat \ {0}, NEW t \in 0..n-1, NEW k \in 0..n-1
    PROVE  Adds(n, t, k)
<1>1. t + (k + 1) \in 0..2*n-1
  OBVIOUS
<1>2. Wrap(Wrap(t + k, n) + 1, n) = Wrap(t + (k + 1), n)
  BY DEF Wrap
<1>3. ASSUME NEW i \in 1..k PROVE Wrap(t + i - 1, n) # Wrap(t + k, n) /\ Wrap(t + i - 1, n) \in 0..n-1
  BY DEF Wrap
<1> QED
  BY <1>1, <1>2, <1>3 DEF Adds

LEMMA FrontWrap ==
    ASSUME NEW n \in Nat \ {0}, NEW t \in 0..n-1, NEW k \in 0..n-1, NEW p,
           p = IF t = 0 THEN n - 1 ELSE t - 1
    PROVE  AddsFront(n, t, k, p)
<1>0. p \in 0..n-1
  OBVIOUS
<1>1. p + (k + 1) \in 0..2*n-1
  BY <1>0
<1>2. Wrap(p + (k + 1), n) = Wrap(t + k, n)
  BY <1>0 DEF Wrap
<1>3. ASSUME NEW i \in 1..k
      PROVE  /\ Wrap(p + (i + 1) - 1, n) = Wrap(t + i - 1, n)
             /\ Wrap(t + i - 1, n) # p /\ Wrap(t + i - 1, n) \in 0..n-1
  <2>1. Wrap(p + (i + 1) - 1, n) = Wrap(t + i - 1, n)
    BY <1>0 DEF Wrap
  <2>2. Wrap(t + i - 1, n) # p /\ Wrap(t + i - 1, n) \in 0..n-1
    BY <1>0 DEF Wrap
  <2> QED
    BY <2>1, <2>2
<1> QED
  BY <1>1, <1>2, <1>3 DEF AddsFront

LEMMA TakeWrap ==
    ASSUME NEW n \in Nat \ {0}, NEW t \in 0..n-1, NEW k \in 1..n
    PROVE  Removes(n, t, k)
<1>1. Wrap(t + 1, n) + (k - 1) \in 0..2*n-1
  BY DEF Wrap
<1>2. Wrap(Wrap(t + 1, n) + (k - 1), n) = Wrap(t + k, n)
  BY DEF Wrap
<1>3. ASSUME NEW i \in 1..k-1
      PROVE  /\ Wrap(Wrap(t + 1, n) + i - 1, n) = Wrap(t + (i + 1) - 1, n)
             /\ Wrap(t + (i + 1) - 1, n) # t /\ Wrap(t + (i + 1) - 1, n) \in 0..n-1
  <2>1. Wrap(Wrap(t + 1, n) + i - 1, n) = Wrap(t + (i + 1) - 1, n)
    BY DEF Wrap
  <2>2. Wrap(t + (i + 1) - 1, n) # t /\ Wrap(t + (i + 1) - 1, n) \in 0..n-1
    BY DEF Wrap
  <2> QED
    BY <2>1, <2>2
<1> QED
  BY <1>1, <1>2, <1>3 DEF Removes

(* The content of a ring, slot by slot *)
LEMMA ContentLemma ==
    ASSUME NEW q, RingShape(q), InOrder(q)
    PROVE  /\ DOMAIN Content(q) = 1..q.m_count /\ Len(Content(q)) = q.m_count
           /\ \A i \in 1..q.m_count :
                 /\ Content(q)[i] = q.m_buffer[Wrap(q.m_tail + i - 1, q.m_capacity)]
                 /\ Wrap(q.m_tail + i - 1, q.m_capacity) \in 0..q.m_capacity-1
           /\ q.m_head = Wrap(q.m_tail + q.m_count, q.m_capacity)
           /\ \E S : Content(q) \in Seq(S)
<1>1. /\ q.m_capacity \in Nat \ {0} /\ q.m_count \in Nat /\ q.m_count <= q.m_capacity
      /\ q.m_tail \in 0..q.m_capacity-1 /\ DOMAIN q.m_buffer = 0..q.m_capacity-1
  BY DEF RingShape
<1>2. ASSUME NEW i \in 1..q.m_count
      PROVE  /\ (q.m_tail + i - 1) % q.m_capacity = Wrap(q.m_tail + i - 1, q.m_capacity)
             /\ Wrap(q.m_tail + i - 1, q.m_capacity) \in 0..q.m_capacity-1
  <2>1. q.m_tail + i - 1 \in 0..2*q.m_capacity-1
    BY <1>1
  <2> QED
    BY <1>1, <2>1, WrapLemma
<1>3. q.m_tail + q.m_count \in 0..2*q.m_capacity-1
  BY <1>1
<1>4. q.m_head = Wrap(q.m_tail + q.m_count, q.m_capacity)
  BY <1>1, <1>3, WrapLemma DEF InOrder
<1> DEFINE S == {q.m_buffer[k] : k \in 0..q.m_capacity-1}
<1>5. Content(q) \in [1..q.m_count -> S]
  BY <1>2 DEF Content
<1>6. Content(q) \in Seq(S) /\ Len(Content(q)) = q.m_count
  BY <1>1, <1>5
<1>7. \A i \in 1..q.m_count : Content(q)[i] = q.m_buffer[Wrap(q.m_tail + i - 1, q.m_capacity)]
  BY <1>2 DEF Content
<1> QED
  BY <1>2, <1>4, <1>5, <1>6, <1>7

LEMMA AddContent ==
    ASSUME NEW q, RingShape(q), InOrder(q), ~Full(q), NEW v
    PROVE  /\ InOrder(Add(q, v))
           /\ \A i \in 1..q.m_count : Content(Add(q, v))[i] = Content(q)[i]
<1> DEFINE r == Add(q, v)
           n == q.m_capacity
<1>1. /\ RingShape(r) /\ r.m_count = q.m_count + 1 /\ r.m_capacity = n /\ r.m_tail = q.m_tail
      /\ r.m_head = (q.m_head + 1) % n /\ r.m_buffer = [q.m_buffer EXCEPT ![q.m_head] = v]
  BY AddLemma DEF RingShape, Add, NextSlot
<1>2. /\ n \in Nat \ {0} /\ q.m_count \in Nat /\ q.m_count < n /\ q.m_tail \in 0..n-1
      /\ q.m_head \in 0..n-1 /\ DOMAIN q.m_buffer = 0..n-1
  BY DEF RingShape, Full
<1>3. /\ q.m_head = Wrap(q.m_tail + q.m_count, n)
      /\ \A i \in 1..q.m_count : Content(q)[i] = q.m_buffer[Wrap(q.m_tail + i - 1, n)]
  BY ContentLemma
<1> HIDE DEF r, n
<1>4. r.m_head = Wrap(q.m_head + 1, n)
  <2>1. q.m_head + 1 \in 0..2*n-1
    BY <1>2
  <2> QED
    BY <1>1, <1>2, <2>1, WrapLemma
<1>5. Adds(n, q.m_tail, q.m_count)
  <2>1. q.m_count \in 0..n-1
    BY <1>2
  <2> QED
    BY <1>2, <2>1, AddWrap
<1>6. InOrder(r)
  <2>1. r.m_tail + r.m_count \in 0..2*n-1
    BY <1>1, <1>5 DEF Adds
  <2>2. (r.m_tail + r.m_count) % n = Wrap(r.m_tail + r.m_count, n)
    BY <1>2, <2>1, WrapLemma
  <2>3. Wrap(Wrap(q.m_tail + q.m_count, n) + 1, n) = Wrap(q.m_tail + (q.m_count + 1), n)
    BY <1>5 DEF Adds
  <2> QED
    BY <1>1, <1>3, <1>4, <2>2, <2>3 DEF InOrder
<1>7. \A i \in 1..q.m_count : Content(r)[i] = r.m_buffer[Wrap(q.m_tail + i - 1, n)]
  <2>1. \A i \in 1..q.m_count : i \in 1..r.m_count
    BY <1>1, <1>2
  <2> QED
    BY <1>1, <1>6, <2>1, ContentLemma
<1>8. \A i \in 1..q.m_count : Wrap(q.m_tail + i - 1, n) # q.m_head /\ Wrap(q.m_tail + i - 1, n) \in 0..n-1
  BY <1>3, <1>5 DEF Adds
<1> QED
  BY <1>1, <1>2, <1>3, <1>6, <1>7, <1>8 DEF r

LEMMA AddFrontContent ==
    ASSUME NEW q, RingShape(q), InOrder(q), ~Full(q), NEW v
    PROVE  /\ InOrder(AddFront(q, v))
           /\ \A i \in 1..q.m_count : Content(AddFront(q, v))[i + 1] = Content(q)[i]
<1> DEFINE r == AddFront(q, v)
           n == q.m_capacity
           p == PrevSlot(q, q.m_tail)
<1>1. /\ RingShape(r) /\ r.m_count = q.m_count + 1 /\ r.m_capacity = n /\ r.m_tail = p
      /\ r.m_head = q.m_head /\ r.m_buffer = [q.m_buffer EXCEPT ![p] = v]
  BY AddLemma DEF RingShape, AddFront
<1>2. /\ n \in Nat \ {0} /\ q.m_count \in Nat /\ q.m_count < n /\ q.m_tail \in 0..n-1
      /\ q.m_head \in 0..n-1 /\ DOMAIN q.m_buffer = 0..n-1
      /\ p = IF q.m_tail = 0 THEN n - 1 ELSE q.m_tail - 1
  BY DEF RingShape, Full, PrevSlot
<1>3. /\ q.m_head = Wrap(q.m_tail + q.m_count, n)
      /\ \A i \in 1..q.m_count : Content(q)[i] = q.m_buffer[Wrap(q.m_tail + i - 1, n)]
  BY ContentLemma
<1> HIDE DEF r, n, p
<1>4. AddsFront(n, q.m_tail, q.m_count, p)
  <2>1. q.m_count \in 0..n-1
    BY <1>2
  <2> QED
    BY <1>2, <2>1, FrontWrap
<1>5. InOrder(r)
  <2>1. r.m_tail + r.m_count \in 0..2*n-1
    BY <1>1, <1>4 DEF AddsFront
  <2>2. (r.m_tail + r.m_count) % n = Wrap(r.m_tail + r.m_count, n)
    BY <1>2, <2>1, WrapLemma
  <2>3. Wrap(p + (q.m_count + 1), n) = Wrap(q.m_tail + q.m_count, n)
    BY <1>4 DEF AddsFront
  <2> QED
    BY <1>1, <1>3, <2>2, <2>3 DEF InOrder
<1>6. \A i \in 1..q.m_count : Content(r)[i + 1] = r.m_buffer[Wrap(p + (i + 1) - 1, n)]
  <2>1. \A i \in 1..q.m_count : i + 1 \in 1..r.m_count
    BY <1>1, <1>2
  <2> QED
    BY <1>1, <1>5, <2>1, ContentLemma
<1>7. \A i \in 1..q.m_count : /\ Wrap(p + (i + 1) - 1, n) = Wrap(q.m_tail + i - 1, n)
                              /\ Wrap(q.m_tail + i - 1, n) # p /\ Wrap(q.m_tail + i - 1, n) \in 0..n-1
  BY <1>4 DEF AddsFront
<1>8. ASSUME NEW i \in 1..q.m_count PROVE Content(r)[i + 1] = Content(q)[i]
  <2> DEFINE w == Wrap(q.m_tail + i - 1, n)
  <2>1. Content(r)[i + 1] = r.m_buffer[w] /\ w # p /\ w \in 0..n-1 /\ Content(q)[i] = q.m_buffer[w]
    BY <1>3, <1>6, <1>7
  <2> HIDE DEF w
  <2> QED
    BY <1>1, <1>2, <2>1
<1> QED
  BY <1>5, <1>8 DEF r

LEMMA RemoveContent ==
    ASSUME NEW q, RingShape(q), InOrder(q), ~Empty(q)
    PROVE  /\ InOrder(RemoveOldest(q)) /\ Oldest(q) = Content(q)[1]
           /\ \A i \in 1..q.m_count-1 : Content(RemoveOldest(q))[i] = Content(q)[i + 1]
<1> DEFINE r == RemoveOldest(q)
           n == q.m_capacity
<1>1. /\ RingShape(r) /\ r.m_count = q.m_count - 1 /\ r.m_capacity = n
      /\ r.m_tail = (q.m_tail + 1) % n
      /\ r.m_head = q.m_head /\ r.m_buffer = [q.m_buffer EXCEPT ![q.m_tail] = NoItem]
  BY RemoveLemma DEF RingShape, RemoveOldest, NextSlot
<1>2. /\ n \in Nat \ {0} /\ q.m_count \in Nat /\ q.m_count > 0 /\ q.m_count <= n /\ q.m_tail \in 0..n-1
      /\ q.m_head \in 0..n-1 /\ DOMAIN q.m_buffer = 0..n-1
  BY DEF RingShape, Empty
<1>3. /\ q.m_head = Wrap(q.m_tail + q.m_count, n)
      /\ \A i \in 1..q.m_count : Content(q)[i] = q.m_buffer[Wrap(q.m_tail + i - 1, n)]
  BY ContentLemma
<1> HIDE DEF r, n
<1>4. r.m_tail = Wrap(q.m_tail + 1, n)
  <2>1. q.m_tail + 1 \in 0..2*n-1
    BY <1>2
  <2> QED
    BY <1>1, <1>2, <2>1, WrapLemma
<1>5. Removes(n, q.m_tail, q.m_count)
  <2>1. q.m_count \in 1..n
    BY <1>2
  <2> QED
    BY <1>2, <2>1, TakeWrap
<1>6. InOrder(r)
  <2>1. r.m_tail + r.m_count \in 0..2*n-1
    BY <1>1, <1>4, <1>5 DEF Removes
  <2>2. (r.m_tail + r.m_count) % n = Wrap(r.m_tail + r.m_count, n)
    BY <1>2, <2>1, WrapLemma
  <2>3. Wrap(Wrap(q.m_tail + 1, n) + (q.m_count - 1), n) = Wrap(q.m_tail + q.m_count, n)
    BY <1>5 DEF Removes
  <2> QED
    BY <1>1, <1>3, <1>4, <2>2, <2>3 DEF InOrder
<1>7. \A i \in 1..q.m_count-1 : Content(r)[i] = r.m_buffer[Wrap(r.m_tail + i - 1, n)]
  BY <1>1, <1>6, ContentLemma
<1>8. \A i \in 1..q.m_count-1 :
          /\ Wrap(Wrap(q.m_tail + 1, n) + i - 1, n) = Wrap(q.m_tail + (i + 1) - 1, n)
          /\ Wrap(q.m_tail + (i + 1) - 1, n) # q.m_tail
          /\ Wrap(q.m_tail + (i + 1) - 1, n) \in 0..n-1
  BY <1>5 DEF Removes
<1>9. \A i \in 1..q.m_count-1 : i + 1 \in 1..q.m_count
  BY <1>2
<1>10. Oldest(q) = Content(q)[1]
  <2>1. 1 \in 1..q.m_count /\ Wrap(q.m_tail + 1 - 1, n) = q.m_tail
    BY <1>2 DEF Wrap
  <2> QED
    BY <1>3, <2>1 DEF Oldest
<1>11. ASSUME NEW i \in 1..q.m_count-1 PROVE Content(r)[i] = Content(q)[i + 1]
  <2> DEFINE w == Wrap(q.m_tail + (i + 1) - 1, n)
  <2>1. Content(r)[i] = r.m_buffer[w] /\ w # q.m_tail /\ w \in 0..n-1
    BY <1>4, <1>7, <1>8
  <2>2. Content(q)[i + 1] = q.m_buffer[w]
    BY <1>3, <1>9
  <2> HIDE DEF w
  <2> QED
    BY <1>1, <1>2, <2>1, <2>2
<1> QED
  BY <1>6, <1>10, <1>11 DEF r

(* What the steps do to a sequence *)
LEMMA AppendedLemma ==
    ASSUME NEW S, NEW s \in Seq(S), NEW R, NEW r \in Seq(R), Len(r) = Len(s) + 1,
           \A i \in 1..Len(s) : r[i] = s[i]
    PROVE  SubSeq(r, 1, Len(s)) = s
<1> DEFINE u == SubSeq(r, 1, Len(s))
<1>1. Len(s) \in Nat /\ Len(r) \in Nat
  OBVIOUS
<1>2. u \in Seq(R) /\ Len(u) = Len(s) /\ \A i \in 1..Len(s) : u[i] = r[i]
  <2>1. 1 \in 1..Len(r) + 1 /\ Len(s) \in 1-1..Len(r)
    BY <1>1
  <2>2. /\ u \in Seq(R) /\ Len(u) = IF 1 <= Len(s) THEN Len(s) - 1 + 1 ELSE 0
        /\ \A i \in 1..Len(s)-1+1 : u[i] = r[1+i-1]
    BY <2>1, SubSeqProperties
  <2> QED
    BY <1>1, <2>2
<1> HIDE DEF u
<1>3. DOMAIN u = 1..Len(u) /\ DOMAIN s = 1..Len(s)
  BY <1>2
<1>4. \A i \in 1..Len(s) : u[i] = s[i]
  BY <1>2
<1>5. u = s
  BY <1>2, <1>3, <1>4
<1> QED
  BY <1>5 DEF u

LEMMA PrependedLemma ==
    ASSUME NEW S, NEW s \in Seq(S), NEW R, NEW r \in Seq(R), Len(r) = Len(s) + 1,
           \A i \in 1..Len(s) : r[i + 1] = s[i]
    PROVE  Tail(r) = s
<1>1. Len(s) \in Nat /\ Len(r) \in Nat /\ r # <<>>
  OBVIOUS
<1>2. Tail(r) \in Seq(R) /\ Len(Tail(r)) = Len(s) /\ \A i \in 1..Len(s) : Tail(r)[i] = r[i + 1]
  BY <1>1
<1> DEFINE u == Tail(r)
<1> HIDE DEF u
<1>3. DOMAIN u = 1..Len(u) /\ DOMAIN s = 1..Len(s) /\ \A i \in 1..Len(s) : u[i] = s[i]
  BY <1>2 DEF u
<1>4. u = s
  BY <1>2, <1>3 DEF u
<1> QED
  BY <1>4 DEF u

LEMMA TakenLemma ==
    ASSUME NEW S, NEW s \in Seq(S), NEW R, NEW r \in Seq(R), Len(s) > 0, Len(r) = Len(s) - 1,
           \A i \in 1..Len(s)-1 : r[i] = s[i + 1]
    PROVE  /\ r = SubSeq(s, Len(s) - (Len(s) - 1) + 1, Len(s))
           /\ SubSeq(s, 1, 1) = <<s[1]>>
           /\ SubSeq(<<s[1]>>, 1, 1) = <<s[1]>>
<1>1. Len(s) \in Nat /\ Len(r) \in Nat /\ Len(s) - (Len(s) - 1) + 1 = 2
  OBVIOUS
<1>2. r = SubSeq(s, 2, Len(s))
  <2> DEFINE u == SubSeq(s, 2, Len(s))
  <2>1. 2 \in 1..Len(s) + 1 /\ Len(s) \in 2-1..Len(s)
    BY <1>1
  <2>2. /\ u \in Seq(S) /\ Len(u) = IF 2 <= Len(s) THEN Len(s) - 2 + 1 ELSE 0
        /\ \A i \in 1..Len(s)-2+1 : u[i] = s[2+i-1]
    BY <2>1, SubSeqProperties
  <2>3. u \in Seq(S) /\ Len(u) = Len(r) /\ \A i \in 1..Len(r) : u[i] = r[i]
    BY <1>1, <2>2
  <2> HIDE DEF u
  <2>4. DOMAIN u = 1..Len(u) /\ DOMAIN r = 1..Len(r)
    BY <2>3
  <2>5. u = r
    BY <2>3, <2>4
  <2> QED
    BY <2>5 DEF u
<1>3. SubSeq(s, 1, 1) = <<s[1]>>
  <2> DEFINE u == SubSeq(s, 1, 1)
  <2>1. 1 \in 1..Len(s) + 1 /\ 1 \in 1-1..Len(s)
    BY <1>1
  <2>2. u \in Seq(S) /\ Len(u) = 1 /\ u[1] = s[1]
    <3>1. /\ u \in Seq(S) /\ Len(u) = IF 1 <= 1 THEN 1 - 1 + 1 ELSE 0
          /\ \A i \in 1..1-1+1 : u[i] = s[1+i-1]
      BY <2>1, SubSeqProperties
    <3> QED
      BY <1>1, <3>1
  <2> HIDE DEF u
  <2>3. u = <<s[1]>>
    BY <2>2
  <2> QED
    BY <2>3 DEF u
<1>4. SubSeq(<<s[1]>>, 1, 1) = <<s[1]>>
  <2> DEFINE x == <<s[1]>>
  <2>1. x \in Seq({s[1]}) /\ Len(x) = 1
    OBVIOUS
  <2> HIDE DEF x
  <2>2. SubSeq(x, 1, Len(x)) = x
    BY <2>1, SubSeqFull
  <2> QED
    BY <2>1, <2>2 DEF x
<1> QED
  BY <1>1, <1>2, <1>3, <1>4

(* The state of Fifo: what the queues hold, how much they may, and what the tasks got *)
Items == [o \in DOMAIN obj |-> IF o \in Rings THEN Content(obj[o]) ELSE <<>>]
Capacities == [o \in DOMAIN obj |-> IF o \in Rings THEN obj[o].m_capacity ELSE 0]
Inbox == [t \in Tasks |->
            IF call[t] # NoCall /\ call[t].op = "PipeReadLoop" THEN call[t].acc
            ELSE IF Reads(t) /\ ret[t] \notin {OK, FAIL, NULL} THEN ret[t] ELSE <<>>]

(* The program looks at the messages it gets, and a message is told from a result *)
GetsRead == "MessageQueueGet" \notin Unread /\ \A v : <<v>> \notin {OK, FAIL, NULL}

(* The rings are in order, and who gets a message is a task that reads *)
Ordered == \A o \in DOMAIN obj : Kind(o) = "queue" => InOrder(obj[o])
GetsOfReaders == \A t \in Tasks : call[t] # NoCall /\ call[t].op = "MessageQueueGet" => Reads(t)

(* The call of t returns without a message *)
ReturnsNothing(t) == call'[t] = NoCall /\ ret'[t] \in {OK, FAIL, NULL}

(* What a step of t may do to the ring o *)
RingStep(t, o, q, r) ==
    \/ r = q
    \/ ~Full(q) /\ (\E v : r = Add(q, v) \/ r = AddFront(q, v)) /\ ReturnsNothing(t)
    \/ ~Empty(q) /\ r = RemoveOldest(q) /\ ret'[t] = <<Oldest(q)>> /\ call'[t] = NoCall /\ Reads(t)
    \/ r = Cleared(q) /\ ReturnsNothing(t) /\ o \in Resettable

LEMMA RingStepLemma ==
    ASSUME NativeOnly, Shape, GetsOfReaders, GetsRead, NEW t \in Tasks, NEW c, TaskStep(t, c),
           Kind(c.o) = "queue"
    PROVE  RingStep(t, c.o, obj[c.o], obj'[c.o])
<1>1. Ready(t, c) /\ MessageQueueStep(t, c)
  BY ActionLemma DEF TaskStep
<1>2. c.op \in {"MessageQueuePut", "MessageQueuePutFront", "MessageQueueGet",
                "MessageQueuePeek", "MessageQueueReset"}
  BY <1>1 DEF MessageQueueStep, MessageQueuePut, MessageQueuePutFront, MessageQueueGet,
         MessageQueuePeek, MessageQueueReset
<1>3. c.o \in DOMAIN obj /\ FrameShape(c)
  BY <1>1, <1>2, QueueLemma
<1>4. ASSUME NEW r, Set(c.o, r) PROVE obj'[c.o] = r
  BY <1>3, <1>4 DEF Set
<1>0. ASSUME Return(t, c, OK) PROVE ReturnsNothing(t)
  BY <1>0, <1>3, ReturnedLemma, ReturnLemma DEF ReturnsNothing
<1>5. ASSUME NEW q, PutWith(t, c, q)
      PROVE  obj'[c.o] = obj[c.o] \/ (~Full(obj[c.o]) /\ obj'[c.o] = q /\ ReturnsNothing(t))
  BY <1>0, <1>4, <1>5 DEF PutWith, Proceeds
<1>6. CASE MessageQueuePut(t, c)
  BY <1>5, <1>6 DEF MessageQueuePut, RingStep
<1>7. CASE MessageQueuePutFront(t, c)
  BY <1>5, <1>7 DEF MessageQueuePutFront, RingStep
<1>8. CASE MessageQueueGet(t, c)
  <2>1. CASE obj' = obj
    BY <2>1 DEF RingStep
  <2>2. CASE /\ Proceeds(t, c, Empty(obj[c.o])) /\ Set(c.o, RemoveOldest(obj[c.o]))
             /\ Return(t, c, <<Oldest(obj[c.o])>>)
    <3>1. ret'[t] = <<Oldest(obj[c.o])>>
      BY <1>3, <1>8, <2>2, ReturnedLemma DEF GetsRead, MessageQueueGet
    <3>2. call'[t] = NoCall
      BY <1>3, <2>2, ReturnLemma
    <3>3. Reads(t)
      <4>0. c.op = "MessageQueueGet"
        BY <1>8 DEF MessageQueueGet
      <4>1. CASE call[t] = NoCall
        <5>1. c \in The.calls[t]
          BY <4>1 DEF TaskStep
        <5> QED
          BY <4>0, <5>1 DEF Reads, QueueReaders
      <4>2. CASE call[t] # NoCall
        BY <1>1, <4>0, <4>2 DEF Ready, GetsOfReaders
      <4> QED
        BY <4>1, <4>2
    <3> QED
      BY <1>4, <2>2, <3>1, <3>2, <3>3 DEF RingStep, Proceeds
  <2> QED
    BY <1>8, <2>1, <2>2 DEF MessageQueueGet
<1>9. CASE MessageQueuePeek(t, c)
  BY <1>9 DEF MessageQueuePeek, RingStep
<1>10. CASE MessageQueueReset(t, c)
  <2>1. call[t] = NoCall
    BY <1>1, <1>10 DEF Ready, InCallShape, Waits, ListOf, Inner, MessageQueueReset
  <2>2. c \in The.calls[t] /\ c.o \in DOMAIN The.objects
    BY <1>3, <2>1 DEF TaskStep, FrameShape
  <2>3. c.o \in Resettable
    <3> HIDE DEF The
    <3> QED
      BY <1>10, <2>2 DEF Resettable, ResetOps, MessageQueueReset
  <2> QED
    BY <1>0, <1>4, <1>10, <2>3 DEF MessageQueueReset, RingStep
<1> QED
  BY <1>1, <1>6, <1>7, <1>8, <1>9, <1>10 DEF MessageQueueStep

LEMMA ClearedContent ==
    ASSUME NEW q, RingShape(q)
    PROVE  InOrder(Cleared(q)) /\ Content(Cleared(q)) = <<>>
<1>1. /\ Cleared(q).m_count = 0 /\ Cleared(q).m_tail = 0 /\ Cleared(q).m_head = 0
      /\ Cleared(q).m_capacity = q.m_capacity /\ q.m_capacity \in Nat /\ q.m_capacity > 0
  BY DEF RingShape, Cleared
<1>2. (0 + 0) % q.m_capacity = 0
  BY <1>1
<1> QED
  BY <1>1, <1>2 DEF InOrder, Content

LEMMA OrderedStep ==
    ASSUME NEW t, NEW o, NEW q, NEW r, RingShape(q), InOrder(q), RingStep(t, o, q, r)
    PROVE  InOrder(r)
BY AddContent, AddFrontContent, RemoveContent, ClearedContent DEF RingStep

(* The same step, of the content *)
Move(t, o, s, r, n) ==
    \/ r = s
    \/ r = <<>> /\ Inbox'[t] = <<>> /\ o \in Resettable
    \/ /\ Len(r) \in Len(s)+1..n /\ (SubSeq(r, 1, Len(s)) = s \/ Tail(r) = s)
       /\ Inbox'[t] = <<>>
    \/ /\ Len(s) \in Nat /\ Len(s) > 0
       /\ r = SubSeq(s, Len(s) - (Len(s) - 1) + 1, Len(s))
       /\ Inbox'[t] = <<s[1]>> /\ Len(Inbox'[t]) >= 1
       /\ SubSeq(Inbox'[t], Len(Inbox'[t]) - 1 + 1, Len(Inbox'[t])) = SubSeq(s, 1, 1)

LEMMA MoveLemma ==
    ASSUME GetsRead, NEW t \in Tasks, NEW o, NEW q, NEW r, RingShape(q), InOrder(q),
           RingStep(t, o, q, r), Reads(t)' <=> Reads(t)
    PROVE  Move(t, o, Content(q), Content(r), q.m_capacity)
<1> DEFINE s == Content(q)
           u == Content(r)
<1>1. /\ Len(s) = q.m_count /\ q.m_count \in Nat /\ q.m_capacity \in Nat /\ q.m_count <= q.m_capacity
  BY ContentLemma DEF RingShape
<1>2. PICK S : s \in Seq(S)
  BY ContentLemma
<1>0. ASSUME ReturnsNothing(t) PROVE Inbox'[t] = <<>>
  BY <1>0 DEF ReturnsNothing, Inbox
<1>3. CASE r = q
  BY <1>3 DEF Move
<1>4. CASE r = Cleared(q) /\ ReturnsNothing(t) /\ o \in Resettable
  BY <1>0, <1>4, ClearedContent DEF Move
<1>5. ASSUME NEW v, ~Full(q), r = Add(q, v), ReturnsNothing(t) PROVE Move(t, o, s, u, q.m_capacity)
  <2>1. RingShape(r) /\ InOrder(r) /\ r.m_count = q.m_count + 1
        /\ \A i \in 1..q.m_count : u[i] = s[i]
    BY <1>5, AddLemma, AddContent
  <2>2. PICK R : u \in Seq(R)
    BY <2>1, ContentLemma
  <2>3. Len(u) = Len(s) + 1
    BY <1>1, <2>1, ContentLemma
  <2> HIDE DEF s, u
  <2>4. SubSeq(u, 1, Len(s)) = s
    BY <1>1, <1>2, <2>1, <2>2, <2>3, AppendedLemma
  <2>5. Len(u) \in Len(s)+1..q.m_capacity
    BY <1>1, <1>5, <2>3 DEF Full
  <2> QED
    BY <1>0, <1>5, <2>4, <2>5 DEF Move
<1>6. ASSUME NEW v, ~Full(q), r = AddFront(q, v), ReturnsNothing(t) PROVE Move(t, o, s, u, q.m_capacity)
  <2>1. RingShape(r) /\ InOrder(r) /\ r.m_count = q.m_count + 1
        /\ \A i \in 1..q.m_count : u[i + 1] = s[i]
    BY <1>6, AddLemma, AddFrontContent
  <2>2. PICK R : u \in Seq(R)
    BY <2>1, ContentLemma
  <2>3. Len(u) = Len(s) + 1
    BY <1>1, <2>1, ContentLemma
  <2> HIDE DEF s, u
  <2>4. Tail(u) = s
    BY <1>1, <1>2, <2>1, <2>2, <2>3, PrependedLemma
  <2>5. Len(u) \in Len(s)+1..q.m_capacity
    BY <1>1, <1>6, <2>3 DEF Full
  <2> QED
    BY <1>0, <1>6, <2>4, <2>5 DEF Move
<1>7. CASE /\ ~Empty(q) /\ r = RemoveOldest(q) /\ ret'[t] = <<Oldest(q)>>
           /\ call'[t] = NoCall /\ Reads(t)
  <2>1. RingShape(r) /\ InOrder(r) /\ r.m_count = q.m_count - 1 /\ Oldest(q) = s[1]
        /\ \A i \in 1..q.m_count-1 : u[i] = s[i + 1]
    BY <1>7, RemoveLemma, RemoveContent
  <2>2. PICK R : u \in Seq(R)
    BY <2>1, ContentLemma
  <2>3. Len(u) = Len(s) - 1 /\ Len(s) > 0
    BY <1>1, <1>7, <2>1, ContentLemma DEF Empty
  <2> HIDE DEF s, u
  <2>4. /\ u = SubSeq(s, Len(s) - (Len(s) - 1) + 1, Len(s))
        /\ SubSeq(s, 1, 1) = <<s[1]>> /\ SubSeq(<<s[1]>>, 1, 1) = <<s[1]>>
    BY <1>1, <1>2, <2>1, <2>2, <2>3, TakenLemma
  <2>5. Inbox'[t] = <<s[1]>>
    BY <1>7, <2>1 DEF Inbox, GetsRead
  <2>6. Len(<<s[1]>>) = 1 /\ 1 - 1 + 1 = 1
    OBVIOUS
  <2>7. SubSeq(Inbox'[t], Len(Inbox'[t]) - 1 + 1, Len(Inbox'[t])) = SubSeq(s, 1, 1)
    BY <2>4, <2>5, <2>6
  <2>8. Len(s) \in Nat /\ Len(s) > 0 /\ Len(Inbox'[t]) >= 1
    BY <1>1, <2>3, <2>5, <2>6
  <2>9. Move(t, o, s, u, q.m_capacity)
    BY <2>4, <2>5, <2>7, <2>8 DEF Move
  <2> QED
    BY <2>9 DEF s, u
<1> QED
  BY <1>3, <1>4, <1>5, <1>6, <1>7 DEF RingStep

(* A step of the objects is one of Fifo *)
FifoStep == [Queues!Next]_Items

NoneRead == \A u \in Tasks : Inbox'[u] = Inbox[u] \/ Inbox'[u] = <<>>

PutItem(o) ==
    /\ Len(Items'[o]) \in Len(Items[o])+1..Capacities[o]
    /\ SubSeq(Items'[o], 1, Len(Items[o])) = Items[o] \/ Tail(Items'[o]) = Items[o]
    /\ NoneRead

TakeItem(o) ==
    \E m \in 1..Len(Items[o]), u \in Tasks :
        /\ Items'[o] = SubSeq(Items[o], Len(Items[o]) - (Len(Items[o]) - m) + 1, Len(Items[o]))
        /\ \A w \in Tasks \ {u} : Inbox'[w] = Inbox[w]
        /\ Len(Inbox'[u]) >= m
        /\ SubSeq(Inbox'[u], Len(Inbox'[u]) - m + 1, Len(Inbox'[u])) = SubSeq(Items[o], 1, m)

ClearItem(o) == o \in Resettable /\ Items'[o] = <<>> /\ NoneRead

LEMMA FifoMoveLemma ==
    ASSUME NEW t \in Tasks, NEW o \in DOMAIN obj, DOMAIN obj' = DOMAIN obj,
           \A p \in DOMAIN obj : p # o => obj'[p] = obj[p],
           Rings' = Rings, o \in Rings, obj'[o].m_capacity = obj[o].m_capacity,
           Move(t, o, Content(obj[o]), Content(obj'[o]), obj[o].m_capacity),
           Only(t), \A u : Reads(u)' <=> Reads(u), Resettable' = Resettable
    PROVE  FifoStep
<1> DEFINE s == Content(obj[o])
           r == Content(obj'[o])
           n == obj[o].m_capacity
<1>1. /\ DOMAIN Items = DOMAIN obj /\ DOMAIN Items' = DOMAIN obj /\ Items[o] = s /\ Items'[o] = r
      /\ \A p \in DOMAIN Items \ {o} : Items'[p] = Items[p]
  BY DEF Items
<1>2. Capacities' = Capacities /\ Capacities[o] = n
  BY DEF Capacities
<1>7. \A u \in Tasks \ {t} : Inbox'[u] = Inbox[u]
  <2> HIDE DEF Reads
  <2> QED
    BY DEF Inbox, Only
<1>8. ASSUME Inbox'[t] = <<>> PROVE NoneRead
  BY <1>7, <1>8 DEF NoneRead
<1> HIDE DEF s, r, n
<1>3. CASE r = s
  <2>1. \A p \in DOMAIN obj : Items'[p] = Items[p]
    BY <1>1, <1>3
  <2>2. Items' = Items
    BY <2>1 DEF Items
  <2> QED
    BY <2>2 DEF FifoStep
<1>4. ASSUME ClearItem(o) \/ PutItem(o) \/ TakeItem(o) PROVE FifoStep
  <2>1. Queues!Clear(o) \/ (Capacities' = Capacities /\ (Queues!Put(o) \/ Queues!Take(o)))
    <3>0. NoneRead => Queues!NobodyReads
      BY DEF Queues!NobodyReads, NoneRead, Inbox
    <3>1. CASE ClearItem(o)
      BY <1>2, <3>0, <3>1 DEF Queues!Clear, ClearItem, Items, Capacities
    <3>2. CASE PutItem(o)
      BY <1>2, <3>0, <3>2 DEF Queues!Put, PutItem, Items, Capacities
    <3>3. CASE TakeItem(o)
      BY <1>2, <3>3 DEF Queues!Take, Queues!Suffix, TakeItem, Items, Inbox
    <3> QED
      BY <1>4, <3>1, <3>2, <3>3
  <2>2. Queues!Next
    BY <1>1, <2>1 DEF Queues!Next, Items, Capacities
  <2> QED
    BY <2>2 DEF FifoStep
<1>5. CASE /\ Len(s) \in Nat /\ Len(s) > 0
           /\ r = SubSeq(s, Len(s) - (Len(s) - 1) + 1, Len(s))
           /\ Inbox'[t] = <<s[1]>> /\ Len(Inbox'[t]) >= 1
           /\ SubSeq(Inbox'[t], Len(Inbox'[t]) - 1 + 1, Len(Inbox'[t])) = SubSeq(s, 1, 1)
  <2>1. 1 \in 1..Len(s)
    BY <1>5
  <2>2. TakeItem(o)
    BY <1>1, <1>5, <1>7, <2>1 DEF TakeItem
  <2> QED
    BY <1>4, <2>2
<1>6. CASE \/ r = <<>> /\ Inbox'[t] = <<>> /\ o \in Resettable
           \/ /\ Len(r) \in Len(s)+1..n /\ (SubSeq(r, 1, Len(s)) = s \/ Tail(r) = s)
              /\ Inbox'[t] = <<>>
  BY <1>1, <1>2, <1>4, <1>6, <1>8 DEF PutItem, ClearItem
<1> QED
  BY <1>3, <1>5, <1>6 DEF Move, s, r, n

LEMMA RingsLemma ==
    ASSUME NativeOnly, Shape
    PROVE  Rings = {o \in DOMAIN obj : Kind(o) = "queue"}
BY DEF Shape, ObjectShape, Kinds, Rings, Objects

LEMMA GetsOfReadersStep ==
    ASSUME NativeOnly, Shape, GetsOfReaders, NEW t \in Tasks, NEW c, TaskStep(t, c), The' = The
    PROVE  GetsOfReaders'
<1>1. Ready(t, c) /\ NativeEffect(t, c) /\ (call[t] = NoCall => c \in The.calls[t])
  BY DEF TaskStep
<1>2. Only(t)
  BY <1>1 DEF NativeEffect, Leaving, Parks
<1>3. \A u : Reads(u)' <=> Reads(u)
  <2> HIDE DEF The
  <2> QED
    BY DEF Reads
<1>4. ASSUME call'[t] # NoCall, call'[t].op = "MessageQueueGet" PROVE Reads(t)
  <2>1. ~Leaving(t, c)
    BY <1>4 DEF Leaving, Follows, Inner
  <2>2. c.op = "MessageQueueGet"
    BY <1>1, <1>4, <2>1 DEF NativeEffect, Parks, Blocked
  <2>3. CASE call[t] = NoCall
    BY <1>1, <2>2, <2>3 DEF Reads, QueueReaders
  <2>4. CASE call[t] # NoCall
    BY <1>1, <2>2, <2>4 DEF Ready, GetsOfReaders
  <2> QED
    BY <2>3, <2>4
<1> HIDE DEF Reads
<1> QED
  BY <1>2, <1>3, <1>4 DEF GetsOfReaders, Only

LEMMA FifoNext ==
    ASSUME NativeOnly, Shape, GetsRead, Ordered, GetsOfReaders, [Next]_vars
    PROVE  Ordered' /\ GetsOfReaders' /\ FifoStep
<1>0. The' = The /\ (\A u : Reads(u)' <=> Reads(u)) /\ Resettable' = Resettable
  <2>1. The' = The
    BY ShapeNextLemma
  <2> HIDE DEF The
  <2> QED
    BY <2>1 DEF Reads, Resettable
<1>1. /\ \A p : Kind(p)' = Kind(p)
      /\ DOMAIN obj' = DOMAIN obj /\ Shape' /\ NativeOnly'
  BY ShapeNextLemma
<1>2. Rings' = Rings /\ Rings = {o \in DOMAIN obj : Kind(o) = "queue"}
  <2>1. \A o \in DOMAIN obj : obj'[o].kind = Kind(o) /\ obj[o].kind = Kind(o)
    BY <1>1 DEF Shape
  <2> QED
    BY <1>1, <2>1, RingsLemma DEF Rings, Objects
<1>3. ASSUME \A o \in Rings : obj'[o] = obj[o] PROVE Ordered' /\ FifoStep
  <2>1. Ordered'
    BY <1>1, <1>2, <1>3 DEF Ordered
  <2>2. Items' = Items
    BY <1>1, <1>2, <1>3 DEF Items
  <2> QED
    BY <2>1, <2>2 DEF FifoStep
<1>4. ASSUME NEW t \in Tasks, NEW c, TaskStep(t, c) PROVE Ordered' /\ GetsOfReaders' /\ FifoStep
  <2>1. GetsOfReaders'
    BY <1>0, <1>4, GetsOfReadersStep
  <2>2. c.o \in DOMAIN obj /\ \A p \in DOMAIN obj : p # c.o => obj'[p] = obj[p]
    BY <1>4, ReadyLemma DEF TaskStep, NativeEffect, ObjStep
  <2>3. CASE Kind(c.o) # "queue"
    BY <1>2, <1>3, <2>1, <2>2, <2>3
  <2>4. CASE Kind(c.o) = "queue"
    <3>1. RingStep(t, c.o, obj[c.o], obj'[c.o])
      BY <1>4, <2>4, RingStepLemma
    <3>2. RingShape(obj[c.o]) /\ InOrder(obj[c.o])
      BY <2>2, <2>4 DEF Ordered, Shape, ObjectShape, Kinds
    <3>3. Ordered'
      BY <1>1, <2>2, <3>1, <3>2, OrderedStep DEF Ordered
    <3>4. obj'[c.o].m_capacity = obj[c.o].m_capacity
      BY <3>1, <3>2, AddLemma, RemoveLemma, ClearedLemma DEF RingStep
    <3>5. Move(t, c.o, Content(obj[c.o]), Content(obj'[c.o]), obj[c.o].m_capacity)
      BY <1>0, <3>1, <3>2, MoveLemma
    <3>6. Only(t)
      BY <1>4 DEF TaskStep, NativeEffect, Leaving, Parks
    <3> QED
      BY <1>0, <1>1, <1>2, <2>1, <2>2, <2>4, <3>3, <3>4, <3>5, <3>6, FifoMoveLemma
  <2> QED
    BY <2>3, <2>4
<1>5. CASE obj' = obj /\ call' = call
  <2> HIDE DEF Reads
  <2>1. GetsOfReaders'
    BY <1>0, <1>5 DEF GetsOfReaders
  <2> QED
    BY <1>3, <1>5, <2>1
<1> QED
  BY <1>4, <1>5, ShapeNextLemma DEF Ticked

LEMMA NewRingLemma ==
    ASSUME NEW r, Constructed(r), r.kind = "queue"
    PROVE  InOrder(r) /\ Content(r) = <<>>
<1>0. /\ ~\E capacity, fits \in Nat : r = PoolObject(capacity, fits)
      /\ ~\E flags : r = EventFlagsObject(flags)
      /\ ~\E n, m \in Nat : n <= m /\ r = SemaphoreObject(n, m)
      /\ ~\E manual, signaled \in BOOLEAN : r = EventObject(manual, signaled)
  <2>1. ASSUME NEW capacity, NEW fits PROVE PoolObject(capacity, fits).kind = "pool"
    BY DEF PoolObject
  <2>2. ASSUME NEW flags PROVE EventFlagsObject(flags).kind = "flags"
    BY DEF EventFlagsObject
  <2>3. ASSUME NEW n, NEW m PROVE SemaphoreObject(n, m).kind = "semaphore"
    BY DEF SemaphoreObject
  <2>4. ASSUME NEW m, NEW n PROVE EventObject(m, n).kind = "event"
    BY DEF EventObject
  <2> QED
    BY <2>1, <2>2, <2>3, <2>4
<1>1. PICK capacity \in Nat \ {0} : r = RingObject("queue", capacity)
  BY <1>0 DEF Constructed, MutexObject, SpinObject
<1>2. r.m_count = 0 /\ r.m_tail = 0 /\ r.m_head = 0 /\ r.m_capacity = capacity
  BY <1>1 DEF RingObject
<1>3. (0 + 0) % capacity = 0
  OBVIOUS
<1> QED
  BY <1>2, <1>3 DEF InOrder, Content

LEMMA FifoInit ==
    ASSUME NativeOnly, Init
    PROVE  Ordered /\ GetsOfReaders /\ Queues!Init
<1> HIDE DEF The
<1>1. (\A t \in Tasks : call[t] = NoCall) /\ obj = The.objects /\ Shape
  BY ShapeInitLemma DEF Init
<1>2. Rings = {o \in DOMAIN obj : Kind(o) = "queue"}
  BY <1>1, RingsLemma
<1>3. ASSUME NEW o \in DOMAIN obj, Kind(o) = "queue" PROVE InOrder(obj[o]) /\ Content(obj[o]) = <<>>
  <2>1. Constructed(obj[o]) /\ obj[o].kind = "queue"
    BY <1>1, <1>3 DEF NativeOnly, NativeProgram, Kind
  <2> QED
    BY <2>1, NewRingLemma
<1>4. Ordered /\ GetsOfReaders
  BY <1>1, <1>3 DEF Ordered, GetsOfReaders
<1>5. \A o \in DOMAIN Items : Items[o] = <<>>
  BY <1>2, <1>3 DEF Items
<1>6. Queues!Init
  BY <1>5 DEF Queues!Init, Items
<1> QED
  BY <1>4, <1>6

(* A message queue, of any capacity and shared by any number of tasks that put at either end,
   get, peek, reset it, wait and time out, is a first-in first-out queue: its messages are
   got once and in their order, whatever the indices of the ring buffer wrap around *)
THEOREM QueuesAreFifo == Spec /\ NativeOnly /\ GetsRead => QueueSpec
<1>2. NativeOnly /\ GetsRead /\ [Next]_vars => NativeOnly' /\ GetsRead'
  <2> SUFFICES ASSUME NativeOnly, GetsRead, [Next]_vars PROVE NativeOnly' /\ GetsRead'
    OBVIOUS
  <2>1. scenario' = scenario
    BY DEF Next, vars
  <2>2. NativeOnly'
    BY <2>1, SameProgramLemma
  <2> QED
    BY <2>2 DEF GetsRead
<1>3. (NativeOnly => Shape) /\ NativeOnly /\ GetsRead /\ Ordered /\ GetsOfReaders /\ [Next]_vars
        => Ordered' /\ GetsOfReaders' /\ [Queues!Next]_Items
  BY FifoNext DEF FifoStep
<1>4. Init /\ NativeOnly => Ordered /\ GetsOfReaders /\ Queues!Init
  BY FifoInit
<1>5. Spec /\ NativeOnly /\ GetsRead => [](NativeOnly /\ GetsRead /\ Ordered /\ GetsOfReaders)
  BY <1>2, <1>3, <1>4, ShapeInvariance, PTL DEF Spec
<1>6. Spec /\ NativeOnly /\ GetsRead => Queues!Init /\ [][Queues!Next]_Items
  BY <1>3, <1>4, <1>5, ShapeInvariance, PTL DEF Spec
<1> QED
  BY <1>6, PTL DEF QueueSpec, Queues!Spec, Items

-----------------------------------------------------------------------------
(* Task notifications: the slots of any number of tasks, with any tasks that notify *)

NotifyWaits == {"xTaskNotifyWaitIndexed", "xTaskNotifyWait"}
GiveOps == {"xTaskNotifyGiveIndexed", "xTaskNotifyGive"}
ValueClears == {"ulTaskNotifyValueClearIndexed", "ulTaskNotifyValueClear"}

(* The task of slot o waits for a notification, with the masks x *)
WaitsWith(p, t, o, x) == \E c \in p.calls[t] : c.op \in NotifyWaits /\ c.o = o /\ c.x = x

(* The slot with value v once the notification c has been applied *)
Applied(v, c) == NotifyApplyAction([NotifySlot EXCEPT !.value = v], c.x.value, c.x.action).value

(* V has the values that a slot can get, and who waits clears all of such a value when
   it returns *)
Covered(p, V) ==
    /\ 0 \in V
    /\ \A t \in Tasks : \A c \in p.calls[t] : \A v \in V :
          /\ c.op \in NotifyOps \ GiveOps /\ v < MAX_VALUE => Applied(v, c) \in V
          /\ c.op \in NotifyWaits => /\ ClearBits(v, c.x.entry) \in V
                                     /\ BitsOf(v) \subseteq BitsOf(c.x.exit)
          /\ c.op \in ValueClears => ClearBits(v, c.x) \in V

(* A program on notification slots: each has one task that waits for notifications of it,
   and every task may notify it and clear bits of its value *)
NotifyProgram(p) ==
    /\ p.uses \subseteq {"Semaphore", "EventFlags", "FreeRTOSTask"}
    /\ \A o \in DOMAIN p.objects : p.objects[o] = NotifySlot /\ <<o, "list">> \in SyncObjects
    /\ \A t \in Tasks : \A c \in p.calls[t] :
          /\ c = Frame(c.op, c.o, c.x, c.ticks) /\ c.o \in DOMAIN p.objects
          /\ c.ticks \in 0..portMAX_DELAY
          /\ c.op \in NotifyOps \cup NotifyWaits \cup ValueClears
          /\ c.op \in NotifyOps \ GiveOps =>
                c.x.action \in {"eNoAction", "eSetBits", "eIncrement", "eSetValueWithOverwrite",
                                "eSetValueWithoutOverwrite"}
    /\ \A t, u \in Tasks : \A o, x, y : WaitsWith(p, t, o, x) /\ WaitsWith(p, u, o, y) => t = u
    /\ \E V \in SUBSET Nat : Covered(p, V)

(* The behaviour is one of such a program *)
NotifyOnly == NotifyProgram(The)

Values == CHOOSE V \in SUBSET Nat : Covered(The, V)

(* The steps a call goes on with: the signal that follows an action on the value, the
   wait for the signal, and the return from it *)
SignalFrame(c) == c.op = "SemaphoreSignal" /\ c.then = NoCall

WaitedFrame(t, c) ==
    /\ DOMAIN c = FrameFields /\ c.o \in DOMAIN The.objects
    /\ c.op = "NotifyWaited" /\ c.then = NoCall /\ WaitsWith(The, t, c.o, c.x)

WaitFrame(t, c) ==
    /\ c.op = "SemaphoreWait" /\ c.blocked \in BOOLEAN /\ c.ticks \in Signed
    /\ WaitedFrame(t, c.then) /\ c.then.o = c.o

NotifyFrame(t, c) ==
    /\ DOMAIN c = FrameFields /\ c.o \in DOMAIN The.objects
    /\ SignalFrame(c) \/ WaitFrame(t, c) \/ WaitedFrame(t, c)

SlotShape(r) ==
    /\ r \in [kind: {"notify"}, m_count: Nat, m_count_max: Nat, value: Nat, pending: BOOLEAN]
    /\ r.value \in Values

SlotWaits(l, t) ==
    call[t] # NoCall /\ call[t].op = "SemaphoreWait" /\ call[t].blocked /\ l = <<call[t].o, "list">>

NotifyShape ==
    /\ DOMAIN obj = DOMAIN The.objects /\ \A o \in DOMAIN obj : SlotShape(obj[o])
    /\ DOMAIN call = Tasks /\ DOMAIN ret = Tasks
    /\ \A t \in Tasks : call[t] = NoCall \/ NotifyFrame(t, call[t])
    /\ wait \in WaitTypeIn(Signed) /\ ListsOnce(wait)
    /\ \A l \in SyncObjects, t \in Tasks : Linked(wait, l, t) => SlotWaits(l, t)

(* Task t got the signal of slot o, and will return with the value *)
Arriving(t, o) ==
    /\ call[t] # NoCall /\ call[t].o = o
    /\ \/ call[t].op = "SemaphoreWait" /\ Unlinked(t) /\ Signalled(t, call[t])
       \/ call[t].op = "NotifyWaited" /\ ret[t] # FAIL

(* A slot with a waiter has no signal pending; one with a value has a signal, or its
   task is on its way to get it, or a notifier is about to signal *)
Noticed(o) ==
    /\ wait.list[<<o, "list">>] # <<>> => obj[o].m_count = 0
    /\ obj[o].value # 0 =>
          obj[o].m_count # 0 \/ Signals(o) # {} \/ \E t \in Tasks : Arriving(t, o)

NotifyInv == NotifyShape /\ \A o \in DOMAIN obj : Noticed(o)

-----------------------------------------------------------------------------
LEMMA ValuesLemma ==
    ASSUME NotifyOnly
    PROVE  Values \in SUBSET Nat /\ Covered(The, Values)
<1>1. \E V \in SUBSET Nat : Covered(The, V)
  BY DEF NotifyOnly, NotifyProgram
<1> HIDE DEF The
<1> QED
  BY <1>1 DEF Values

(* The sum over no bits, and what is left of a value whose bits are all cleared *)
LEMMA ClearLeavesNothing ==
    /\ ValueOf({}) = 0
    /\ \A b : ClearBits(0, b) = 0
    /\ \A v, b : BitsOf(v) \subseteq BitsOf(b) => ClearBits(v, b) = 0
<1>1. ValueOf({}) = 0
  <2> DEFINE P(g) == g = [s \in SUBSET {} |-> IF s = {} THEN 0
                             ELSE 2^(CHOOSE x \in s : TRUE) + g[s \ {CHOOSE x \in s : TRUE}]]
             zero == [s \in {{}} |-> 0]
  <2>1. SUBSET {} = {{}}
    OBVIOUS
  <2>2. P(zero)
    BY <2>1
  <2>3. P(CHOOSE g : P(g))
    BY <2>2
  <2>4. (CHOOSE g : P(g))[{}] = 0
    BY <2>1, <2>3
  <2>5. ValueOf({}) = (CHOOSE g : P(g))[{}]
    BY DEF ValueOf, MapThenSumSet, MapThenFoldSet
  <2> QED
    BY <2>4, <2>5
<1>2. BitsOf(0) = {}
  BY DEF BitsOf
<1>3. \A b : BitsOf(0) \ BitsOf(b) = {}
  BY <1>2
<1>4. \A v, b : BitsOf(v) \subseteq BitsOf(b) => BitsOf(v) \ BitsOf(b) = {}
  OBVIOUS
<1> QED
  BY <1>1, <1>3, <1>4 DEF ClearBits

(* An action on the value of a slot *)
LEMMA ApplyLemma ==
    ASSUME NEW r, SlotShape(r), NEW c, Applied(r.value, c) \in Values, Values \in SUBSET Nat,
           c.x.action \in {"eNoAction", "eSetBits", "eIncrement", "eSetValueWithOverwrite",
                           "eSetValueWithoutOverwrite"}
    PROVE  LET s == NotifyApplyAction(r, c.x.value, c.x.action)
           IN  SlotShape(s) /\ s.m_count = r.m_count
<1> DEFINE n == [NotifySlot EXCEPT !.value = r.value]
           a == c.x.action
           v == c.x.value
           s == NotifyApplyAction(r, v, a)
<1>1. n.value = r.value /\ n.pending = FALSE
      /\ DOMAIN n = {"kind", "m_count", "m_count_max", "value", "pending"}
  BY DEF NotifySlot
<1>2. NotifyApplyAction(n, v, a).value \in Values
  BY DEF Applied
<1> HIDE DEF n
<1>3. CASE a = "eNoAction"
  BY <1>3 DEF NotifyApplyAction
<1>4. CASE a = "eSetBits"
  <2>1. NotifyApplyAction(n, v, a).value = SetBits(r.value, v)
    BY <1>1, <1>4 DEF NotifyApplyAction
  <2>2. s = [r EXCEPT !.value = SetBits(@, v)]
    BY <1>4 DEF NotifyApplyAction
  <2> QED
    BY <1>2, <2>1, <2>2 DEF SlotShape
<1>5. CASE a = "eIncrement"
  <2>1. NotifyApplyAction(n, v, a).value = r.value + 1
    BY <1>1, <1>5 DEF NotifyApplyAction
  <2>2. s = [r EXCEPT !.value = @ + 1]
    BY <1>5 DEF NotifyApplyAction
  <2> QED
    BY <1>2, <2>1, <2>2 DEF SlotShape
<1>6. CASE a = "eSetValueWithOverwrite"
  <2>1. NotifyApplyAction(n, v, a).value = v
    BY <1>1, <1>6 DEF NotifyApplyAction
  <2>2. s = [r EXCEPT !.value = v]
    BY <1>6 DEF NotifyApplyAction
  <2> QED
    BY <1>2, <2>1, <2>2 DEF SlotShape
<1>7. CASE a = "eSetValueWithoutOverwrite"
  <2>1. NotifyApplyAction(n, v, a).value = v
    BY <1>1, <1>7 DEF NotifyApplyAction
  <2>2. s = r \/ s = [r EXCEPT !.value = v, !.pending = TRUE]
    BY <1>7 DEF NotifyApplyAction
  <2> QED
    BY <1>2, <2>1, <2>2 DEF SlotShape
<1> QED
  BY <1>3, <1>4, <1>5, <1>6, <1>7

-----------------------------------------------------------------------------
(* The steps, as what they do to the slot o *)

(* An action on the value, before the signal *)
Arms(t, o) ==
    /\ call[t] = NoCall /\ NotifyFrame(t, call'[t]) /\ SignalFrame(call'[t]) /\ call'[t].o = o
    /\ wait' = wait /\ obj'[o].m_count = obj[o].m_count

(* The signal, at once or after the action *)
Gives(t, o) ==
    /\ call[t] = NoCall \/ (SignalFrame(call[t]) /\ call[t].o = o)
    /\ call'[t] = NoCall
    /\ obj'[o].value = obj[o].value
    /\ IF wait.list[<<o, "list">>] = <<>>
       THEN wait' = wait /\ obj'[o].m_count = obj[o].m_count + 1
       ELSE wait' = WakeOne(wait, <<o, "list">>) /\ obj'[o].m_count = obj[o].m_count

(* Bits of the value are cleared, or nothing happens *)
Clears(t, o) ==
    /\ call[t] = NoCall
    /\ \/ call'[t] = NoCall
       \/ /\ NotifyFrame(t, call'[t]) /\ WaitFrame(t, call'[t])
          /\ ~call'[t].blocked /\ call'[t].o = o
    /\ wait' = wait /\ obj'[o].m_count = obj[o].m_count
    /\ obj[o].value = 0 => obj'[o].value = 0

(* The wait of the task: it takes a signal that is there, or links itself, or returns
   from the wait *)
TakesSignal(t, o) ==
    /\ obj'[o].value = obj[o].value /\ obj[o].m_count # 0
    /\ wait' = wait /\ call'[t] = call[t].then /\ ret'[t] = OK

LinksUp(t, o) ==
    /\ obj' = obj /\ obj[o].m_count = 0 /\ ret'[t] = ret[t]
    /\ NotifyFrame(t, call'[t]) /\ WaitFrame(t, call'[t])
    /\ call'[t].blocked /\ call'[t].o = o
    /\ \E ticks \in Signed : wait' = SetupWait(wait, <<o, "list">>, t, ticks)

ReturnsFromWait(t, o) ==
    /\ obj' = obj /\ wait' = wait /\ call'[t] = call[t].then
    /\ Signalled(t, call[t]) => ret'[t] = OK

(* The return, which clears the value unless it was a time-out *)
Ends(t, o) ==
    /\ call[t].op = "NotifyWaited" /\ call'[t] = NoCall
    /\ wait' = wait /\ obj'[o].m_count = obj[o].m_count
    /\ IF ret[t] = FAIL THEN obj'[o].value = obj[o].value ELSE obj'[o].value = 0

SlotMove(t, o) ==
    /\ Only(t) /\ Unlinked(t) /\ o \in DOMAIN obj
    /\ DOMAIN obj' = DOMAIN obj /\ \A k \in DOMAIN obj : k # o => obj'[k] = obj[k]
    /\ SlotShape(obj'[o])
    /\ \/ Arms(t, o) \/ Gives(t, o) \/ Clears(t, o)
       \/ /\ call[t] # NoCall /\ call[t].o = o
          /\ \/ WaitFrame(t, call[t]) /\ ~call[t].blocked /\ (TakesSignal(t, o) \/ LinksUp(t, o))
             \/ WaitFrame(t, call[t]) /\ ReturnsFromWait(t, o)
             \/ Ends(t, o)

(* A call c of task t begins as the frame d *)
Opens(t, c, d) ==
    /\ c \in The.calls[t] /\ call[t] = NoCall /\ Unlinked(t)
    /\ DOMAIN d = FrameFields /\ d.o = c.o /\ d.x = c.x /\ d.ticks = c.ticks
    /\ ~d.blocked /\ d.then = NoCall

LEMMA OpensLemma ==
    ASSUME NotifyOnly, NotifyShape, NEW t \in Tasks, NEW c, NEW d, Opens(t, c, d)
    PROVE  /\ d.o \in DOMAIN obj /\ SlotShape(obj[d.o]) /\ d.o \in DOMAIN The.objects
           /\ d.ticks \in 0..portMAX_DELAY
           /\ c.op \in NotifyOps \cup NotifyWaits \cup ValueClears
           /\ c.op \in NotifyWaits => WaitsWith(The, t, d.o, d.x)
           /\ <<d.o, "list">> \in SyncObjects
<1>1. NotifyProgram(The) /\ c \in The.calls[t] /\ DOMAIN obj = DOMAIN The.objects
  BY DEF NotifyOnly, Opens, NotifyShape
<1> HIDE DEF The
<1>2. /\ c.o \in DOMAIN The.objects /\ c.ticks \in 0..portMAX_DELAY
      /\ c.op \in NotifyOps \cup NotifyWaits \cup ValueClears
      /\ <<c.o, "list">> \in SyncObjects
  BY <1>1 DEF NotifyProgram
<1>3. c.op \in NotifyWaits => WaitsWith(The, t, c.o, c.x)
  BY <1>1 DEF WaitsWith
<1> QED
  BY <1>1, <1>2, <1>3 DEF Opens, NotifyShape

(* What a notification, and a mask, make of a value *)
LEMMA CoveredLemma ==
    ASSUME NotifyOnly, NotifyShape, NEW t \in Tasks, NEW c, NEW d, Opens(t, c, d)
    PROVE  /\ c.op \in NotifyOps \ GiveOps /\ obj[d.o].value < MAX_VALUE =>
                 LET s == NotifyApplyAction(obj[d.o], d.x.value, d.x.action)
                 IN  SlotShape(s) /\ s.m_count = obj[d.o].m_count
           /\ c.op \in NotifyWaits => ClearBits(obj[d.o].value, d.x.entry) \in Values
           /\ c.op \in ValueClears => ClearBits(obj[d.o].value, d.x) \in Values
<1>1. NotifyProgram(The) /\ c \in The.calls[t] /\ d.x = c.x
  BY DEF NotifyOnly, Opens
<1>2. SlotShape(obj[d.o]) /\ obj[d.o].value \in Values
  BY OpensLemma DEF SlotShape
<1>3. Values \in SUBSET Nat /\ Covered(The, Values)
  BY ValuesLemma
<1> HIDE DEF The
<1>4. c.op \in NotifyOps \ GiveOps /\ obj[d.o].value < MAX_VALUE => Applied(obj[d.o].value, c) \in Values
  BY <1>1, <1>2, <1>3 DEF Covered
<1>5. c.op \in NotifyWaits => ClearBits(obj[d.o].value, c.x.entry) \in Values
  BY <1>1, <1>2, <1>3 DEF Covered
<1>6. c.op \in ValueClears => ClearBits(obj[d.o].value, c.x) \in Values
  BY <1>1, <1>2, <1>3 DEF Covered
<1>7. c.op \in NotifyOps \ GiveOps =>
        c.x.action \in {"eNoAction", "eSetBits", "eIncrement", "eSetValueWithOverwrite",
                        "eSetValueWithoutOverwrite"}
  BY <1>1 DEF NotifyProgram
<1>8. ASSUME c.op \in NotifyOps \ GiveOps, obj[d.o].value < MAX_VALUE
      PROVE  LET s == NotifyApplyAction(obj[d.o], c.x.value, c.x.action)
             IN  SlotShape(s) /\ s.m_count = obj[d.o].m_count
  BY <1>2, <1>3, <1>4, <1>7, <1>8, ApplyLemma
<1> QED
  BY <1>1, <1>5, <1>6, <1>8

(* The signal and the clearing of bits *)
LEMMA SignalMove ==
    ASSUME NotifyOnly, NotifyShape, NEW t \in Tasks, NEW d, SemaphoreSignal(t, d),
           Unlinked(t), d.o \in DOMAIN obj, SlotShape(obj[d.o]), d.then = NoCall,
           call[t] = NoCall \/ (SignalFrame(call[t]) /\ call[t].o = d.o)
    PROVE  SlotMove(t, d.o)
<1>1. Only(t) /\ call'[t] = NoCall
  BY DEF SemaphoreSignal, Return, Goto, Only, NotifyShape
<1>2. CASE wait.list[<<d.o, "list">>] = <<>>
  <2>1. obj' = [obj EXCEPT ![d.o] = [obj[d.o] EXCEPT !.m_count = @ + 1]] /\ wait' = wait
    BY <1>2 DEF SemaphoreSignal, Set
  <2>2. obj'[d.o] = [obj[d.o] EXCEPT !.m_count = @ + 1]
    BY <2>1
  <2>3. SlotShape(obj'[d.o]) /\ obj'[d.o].m_count = obj[d.o].m_count + 1 /\ obj'[d.o].value = obj[d.o].value
    BY <2>2 DEF SlotShape
  <2>4. DOMAIN obj' = DOMAIN obj /\ \A k \in DOMAIN obj : k # d.o => obj'[k] = obj[k]
    BY <2>1
  <2>5. Gives(t, d.o)
    BY <1>1, <1>2, <2>1, <2>3 DEF Gives
  <2> QED
    BY <1>1, <2>3, <2>4, <2>5 DEF SlotMove
<1>3. CASE wait.list[<<d.o, "list">>] # <<>>
  <2>1. obj' = obj /\ wait' = WakeOne(wait, <<d.o, "list">>)
    BY <1>3 DEF SemaphoreSignal
  <2>2. Gives(t, d.o)
    BY <1>1, <1>3, <2>1 DEF Gives
  <2> QED
    BY <1>1, <2>1, <2>2 DEF SlotMove
<1> QED
  BY <1>2, <1>3

LEMMA RefuseMove ==
    ASSUME NotifyShape, NEW t \in Tasks, NEW d, Refuse(t, d), call[t] = NoCall,
           Unlinked(t), d.o \in DOMAIN obj, SlotShape(obj[d.o]), d.then = NoCall
    PROVE  SlotMove(t, d.o)
<1>1. Only(t) /\ call'[t] = NoCall /\ obj' = obj /\ wait' = wait
  BY DEF Refuse, Return, Goto, Only, NotifyShape
<1>2. Clears(t, d.o)
  BY <1>1 DEF Clears
<1> QED
  BY <1>1, <1>2 DEF SlotMove

(* xTaskNotifyIndexed and xTaskNotifyAndQueryIndexed *)
LEMMA NotifyMove ==
    ASSUME NotifyOnly, NotifyShape, NEW t \in Tasks, NEW c, NEW d, Opens(t, c, d),
           c.op \in NotifyOps \ GiveOps, obj[d.o].value < MAX_VALUE,
           xTaskNotifyIndexed(t, d) \/ xTaskNotifyAndQueryIndexed(t, d)
    PROVE  SlotMove(t, d.o)
<1> DEFINE s == NotifyApplyAction(obj[d.o], d.x.value, d.x.action)
           f == TryNative(d, "SemaphoreSignal")
<1>1. \/ Refuse(t, d)
      \/ Set(d.o, s) /\ Goto(t, f) /\ wait' = wait /\ ret' = ret
  BY DEF xTaskNotifyIndexed, xTaskNotifyAndQueryIndexed
<1>2. SlotShape(s) /\ s.m_count = obj[d.o].m_count
  BY CoveredLemma
<1>3. /\ d.o \in DOMAIN obj /\ SlotShape(obj[d.o]) /\ d.then = NoCall /\ Unlinked(t)
      /\ call[t] = NoCall /\ DOMAIN d = FrameFields /\ d.o \in DOMAIN The.objects
  BY OpensLemma DEF Opens
<1>4. DOMAIN f = FrameFields /\ f.op = "SemaphoreSignal" /\ f.then = NoCall /\ f.o = d.o
  BY <1>3 DEF TryNative, FrameFields
<1>5. SignalFrame(f) /\ NotifyFrame(t, f)
  BY <1>3, <1>4 DEF SignalFrame, NotifyFrame
<1> HIDE DEF s, f
<1>6. CASE Set(d.o, s) /\ Goto(t, f) /\ wait' = wait /\ ret' = ret
  <2>1. Only(t) /\ call'[t] = f
    BY <1>6 DEF Goto, Only, NotifyShape
  <2>2. obj'[d.o] = s /\ DOMAIN obj' = DOMAIN obj /\ \A k \in DOMAIN obj : k # d.o => obj'[k] = obj[k]
    BY <1>3, <1>6 DEF Set
  <2>3. Arms(t, d.o)
    BY <1>2, <1>3, <1>4, <1>5, <1>6, <2>1, <2>2 DEF Arms
  <2> QED
    BY <1>2, <1>3, <2>1, <2>2, <2>3 DEF SlotMove
<1>7. CASE Refuse(t, d)
  BY <1>3, <1>7, RefuseMove
<1> QED
  BY <1>1, <1>6, <1>7

(* The bits that a mask clears *)
LEMMA ClearMove ==
    ASSUME NotifyOnly, NotifyShape, NEW t \in Tasks, NEW c, NEW d, Opens(t, c, d), NEW b,
           ClearBits(obj[d.o].value, b) \in Values,
           Set(d.o, [obj[d.o] EXCEPT !.value = ClearBits(@, b)]), wait' = wait,
           Only(t),
           \/ call'[t] = NoCall
           \/ /\ NotifyFrame(t, call'[t]) /\ WaitFrame(t, call'[t])
              /\ ~call'[t].blocked /\ call'[t].o = d.o
    PROVE  SlotMove(t, d.o)
<1>1. /\ d.o \in DOMAIN obj /\ SlotShape(obj[d.o]) /\ Unlinked(t) /\ call[t] = NoCall
  BY OpensLemma DEF Opens
<1>2. Values \in SUBSET Nat
  BY ValuesLemma
<1>3. /\ obj'[d.o] = [obj[d.o] EXCEPT !.value = ClearBits(@, b)]
      /\ DOMAIN obj' = DOMAIN obj /\ \A k \in DOMAIN obj : k # d.o => obj'[k] = obj[k]
  BY <1>1 DEF Set
<1>4. /\ obj'[d.o].value = ClearBits(obj[d.o].value, b) /\ obj'[d.o].m_count = obj[d.o].m_count
      /\ SlotShape(obj'[d.o])
  BY <1>1, <1>2, <1>3 DEF SlotShape
<1>5. obj[d.o].value = 0 => obj'[d.o].value = 0
  BY <1>4, ClearLeavesNothing
<1>6. Clears(t, d.o)
  BY <1>1, <1>4, <1>5 DEF Clears
<1> QED
  BY <1>1, <1>3, <1>4, <1>6 DEF SlotMove

LEMMA FrtosTimeoutLemma ==
    ASSUME NEW ticks \in 0..portMAX_DELAY
    PROVE  FrtosTimeoutToStk(ticks) \in Signed
<1>1. portMAX_DELAY \in Nat
  BY WaitAssumption, TimeoutAssumption DEF portMAX_DELAY
<1>2. WAIT_INFINITE \in Signed
  BY WaitAssumption DEF Signed
<1> HIDE DEF portMAX_DELAY
<1>3. AsTimeout(ticks) \in Signed
  BY <1>1, AsTimeoutLemma
<1> QED
  BY <1>2, <1>3 DEF FrtosTimeoutToStk

(* xTaskNotifyWaitIndexed *)
LEMMA WaitMove ==
    ASSUME NotifyOnly, NotifyShape, NEW t \in Tasks, NEW c, NEW d, Opens(t, c, d),
           c.op \in NotifyWaits, xTaskNotifyWaitIndexed(t, d)
    PROVE  SlotMove(t, d.o)
<1> DEFINE n == Native(d, "SemaphoreWait")
           u == Then(d, "NotifyWaited")
           f == Calling(n, u)
<1>1. /\ d.o \in DOMAIN obj /\ SlotShape(obj[d.o]) /\ d.then = NoCall /\ Unlinked(t)
      /\ call[t] = NoCall /\ DOMAIN d = FrameFields /\ d.o \in DOMAIN The.objects /\ ~d.blocked
      /\ d.ticks \in 0..portMAX_DELAY /\ WaitsWith(The, t, d.o, d.x)
  BY OpensLemma DEF Opens
<1>2. /\ DOMAIN u = FrameFields /\ u.op = "NotifyWaited" /\ u.then = NoCall /\ u.o = d.o
      /\ u.x = d.x /\ u.blocked = FALSE
  BY <1>1 DEF Then, FrameFields
<1>3. FrtosTimeoutToStk(d.ticks) \in Signed
  BY <1>1, FrtosTimeoutLemma
<1>4. /\ DOMAIN n = FrameFields /\ n.op = "SemaphoreWait" /\ n.o = d.o /\ n.blocked = d.blocked
      /\ n.ticks \in Signed
  BY <1>1, <1>3 DEF Native, FrameFields
<1>5. /\ Set(d.o, [obj[d.o] EXCEPT !.value = ClearBits(@, d.x.entry)])
      /\ Goto(t, f) /\ wait' = wait /\ ret' = ret
  BY DEF xTaskNotifyWaitIndexed
<1> HIDE DEF n, u
<1> DEFINE e == [u EXCEPT !.blocked = FALSE]
<1>6. /\ DOMAIN e = FrameFields /\ e.op = "NotifyWaited" /\ e.then = NoCall /\ e.o = d.o /\ e.x = d.x
  BY <1>2 DEF FrameFields
<1>7. WaitedFrame(t, e)
  BY <1>1, <1>6 DEF WaitedFrame
<1>8. f = [n EXCEPT !.then = e]
  BY DEF Calling
<1> HIDE DEF e, f
<1>9. /\ DOMAIN f = FrameFields /\ f.op = "SemaphoreWait" /\ f.o = d.o /\ f.blocked = FALSE
      /\ f.ticks \in Signed /\ f.then = e
  <2>1. d.blocked = FALSE \/ d.blocked # FALSE
    OBVIOUS
  <2> QED
    BY <1>1, <1>4, <1>8 DEF FrameFields
<1>10. WaitFrame(t, f) /\ NotifyFrame(t, f)
  BY <1>1, <1>6, <1>7, <1>9 DEF WaitFrame, NotifyFrame
<1>11. Only(t) /\ call'[t] = f
  BY <1>5 DEF Goto, Only, NotifyShape
<1>12. ClearBits(obj[d.o].value, d.x.entry) \in Values
  BY CoveredLemma
<1> QED
  BY <1>5, <1>9, <1>10, <1>11, <1>12, ClearMove

(* ulTaskNotifyValueClearIndexed *)
LEMMA ValueClearMove ==
    ASSUME NotifyOnly, NotifyShape, NEW t \in Tasks, NEW c, NEW d, Opens(t, c, d),
           c.op \in ValueClears, ulTaskNotifyValueClearIndexed(t, d)
    PROVE  SlotMove(t, d.o)
<1>1. d.then = NoCall
  BY DEF Opens
<1>2. /\ Set(d.o, [obj[d.o] EXCEPT !.value = ClearBits(@, d.x)]) /\ wait' = wait
      /\ Return(t, d, obj[d.o].value)
  BY DEF ulTaskNotifyValueClearIndexed
<1>3. Only(t) /\ call'[t] = NoCall
  BY <1>1, <1>2 DEF Return, Goto, Only, NotifyShape
<1>4. ClearBits(obj[d.o].value, d.x) \in Values
  BY CoveredLemma
<1> QED
  BY <1>2, <1>3, <1>4, ClearMove

(* The task waits for the signal *)
LEMMA SemaphoreWaitMove ==
    ASSUME NotifyOnly, NotifyShape, NEW t \in Tasks, call[t] # NoCall, NotifyFrame(t, call[t]),
           WaitFrame(t, call[t]), Unlinked(t), SemaphoreWait(t, call[t])
    PROVE  SlotMove(t, call[t].o)
<1> DEFINE c == call[t]
           o == c.o
           s == obj[o]
<1>1. /\ DOMAIN c = FrameFields /\ o \in DOMAIN obj /\ SlotShape(s) /\ o \in DOMAIN The.objects
      /\ c.op = "SemaphoreWait" /\ c.blocked \in BOOLEAN /\ c.ticks \in Signed
      /\ WaitedFrame(t, c.then) /\ c.then.o = o
  BY DEF NotifyFrame, WaitFrame, NotifyShape
<1>2. c.then # NoCall
  BY <1>1 DEF WaitedFrame, NoCall
<1>3. \A v : Return(t, c, v) => Only(t) /\ call'[t] = c.then /\ ret'[t] = v
  BY <1>2 DEF Return, Goto, Only, NotifyShape
<1>4. \/ /\ ~c.blocked /\ s.m_count # 0 /\ Set(o, [s EXCEPT !.m_count = @ - 1])
         /\ Return(t, c, OK) /\ wait' = wait
      \/ /\ ~c.blocked /\ s.m_count = 0
         /\ KernelWait(t, c, wait, <<o, "list">>, c.ticks) /\ obj' = obj
      \/ /\ ~c.blocked /\ Return(t, c, FAIL) /\ obj' = obj /\ wait' = wait
      \/ /\ c.blocked /\ Return(t, c, Status(~wait.timeout[t])) /\ obj' = obj /\ wait' = wait
  BY DEF SemaphoreWait
<1> HIDE DEF c
<1>5. CASE /\ ~c.blocked /\ s.m_count # 0 /\ Set(o, [s EXCEPT !.m_count = @ - 1])
           /\ Return(t, c, OK) /\ wait' = wait
  <2>1. Only(t) /\ call'[t] = c.then /\ ret'[t] = OK
    BY <1>3, <1>5
  <2>2. /\ obj'[o] = [s EXCEPT !.m_count = @ - 1]
        /\ DOMAIN obj' = DOMAIN obj /\ \A k \in DOMAIN obj : k # o => obj'[k] = obj[k]
    BY <1>1, <1>5 DEF Set
  <2>3. SlotShape(obj'[o]) /\ obj'[o].value = s.value
    BY <1>1, <1>5, <2>2 DEF SlotShape
  <2>4. TakesSignal(t, o)
    BY <1>5, <2>1, <2>3 DEF TakesSignal, c
  <2> QED
    BY <1>1, <1>5, <2>1, <2>2, <2>3, <2>4 DEF SlotMove, c
<1>6. CASE /\ ~c.blocked /\ s.m_count = 0
           /\ KernelWait(t, c, wait, <<o, "list">>, c.ticks) /\ obj' = obj
  <2> DEFINE f == [c EXCEPT !.blocked = TRUE]
  <2>1. Goto(t, f) /\ ret' = ret /\ wait' = SetupWait(wait, <<o, "list">>, t, c.ticks)
    BY <1>6 DEF KernelWait
  <2>2. /\ DOMAIN f = FrameFields /\ f.op = "SemaphoreWait" /\ f.blocked = TRUE /\ f.o = o
        /\ f.ticks = c.ticks /\ f.then = c.then
    BY <1>1 DEF FrameFields
  <2> HIDE DEF f
  <2>3. Only(t) /\ call'[t] = f /\ ret'[t] = ret[t]
    BY <2>1 DEF Goto, Only, NotifyShape
  <2>4. WaitFrame(t, f) /\ NotifyFrame(t, f)
    BY <1>1, <2>2 DEF WaitFrame, NotifyFrame
  <2>5. LinksUp(t, o)
    BY <1>1, <1>6, <2>1, <2>2, <2>3, <2>4 DEF LinksUp
  <2> QED
    BY <1>1, <1>6, <2>3, <2>5 DEF SlotMove, c
<1>7. CASE /\ ~c.blocked /\ Return(t, c, FAIL) /\ obj' = obj /\ wait' = wait
  <2>1. Only(t) /\ call'[t] = c.then
    BY <1>3, <1>7
  <2>2. ReturnsFromWait(t, o)
    BY <1>7, <2>1 DEF ReturnsFromWait, Signalled, c
  <2> QED
    BY <1>1, <1>7, <2>1, <2>2 DEF SlotMove, c
<1>8. CASE /\ c.blocked /\ Return(t, c, Status(~wait.timeout[t])) /\ obj' = obj /\ wait' = wait
  <2>1. Only(t) /\ call'[t] = c.then /\ ret'[t] = Status(~wait.timeout[t])
    BY <1>3, <1>8
  <2>2. Signalled(t, c) => ret'[t] = OK
    BY <2>1 DEF Signalled, Status
  <2>3. ReturnsFromWait(t, o)
    BY <1>8, <2>1, <2>2 DEF ReturnsFromWait, c
  <2> QED
    BY <1>1, <1>8, <2>1, <2>3 DEF SlotMove, c
<1>9. c = call[t]
  BY DEF c
<1> QED
  BY <1>4, <1>5, <1>6, <1>7, <1>8, <1>9

(* The task returns with the value, or after a time-out *)
LEMMA WaitedMove ==
    ASSUME NotifyOnly, NotifyShape, NEW t \in Tasks, call[t] # NoCall,
           WaitedFrame(t, call[t]), Unlinked(t), NotifyWaited(t, call[t])
    PROVE  SlotMove(t, call[t].o)
<1> DEFINE c == call[t]
           o == c.o
           s == obj[o]
<1>1. /\ o \in DOMAIN obj /\ SlotShape(s) /\ c.op = "NotifyWaited" /\ c.then = NoCall
      /\ WaitsWith(The, t, o, c.x)
  BY DEF WaitedFrame, NotifyShape
<1>2. Values \in SUBSET Nat /\ Covered(The, Values)
  BY ValuesLemma
<1>3. s.value \in Values /\ 0 \in Values
  BY <1>1, <1>2 DEF SlotShape, Covered
<1>4. BitsOf(s.value) \subseteq BitsOf(c.x.exit)
  <2>1. PICK d \in The.calls[t] : d.op \in NotifyWaits /\ d.x = c.x
    BY <1>1 DEF WaitsWith
  <2> HIDE DEF The, c
  <2>2. \A v \in Values : BitsOf(v) \subseteq BitsOf(d.x.exit)
    BY <1>2, <2>1 DEF Covered
  <2> QED
    BY <1>3, <2>1, <2>2
<1>5. ClearBits(s.value, c.x.exit) = 0
  BY <1>4, ClearLeavesNothing
<1>6. CASE ret[t] = FAIL
  <2>1. Refuse(t, c)
    BY <1>6 DEF NotifyWaited
  <2>2. Only(t) /\ call'[t] = NoCall /\ obj' = obj /\ wait' = wait
    BY <1>1, <2>1 DEF Refuse, Return, Goto, Only, NotifyShape
  <2>3. Ends(t, o)
    BY <1>1, <1>6, <2>2 DEF Ends
  <2> QED
    BY <1>1, <2>2, <2>3 DEF SlotMove
<1>7. CASE ret[t] # FAIL
  <2>1. /\ Set(o, [s EXCEPT !.value = ClearBits(@, c.x.exit), !.pending = FALSE])
        /\ Return(t, c, s.value) /\ wait' = wait
    BY <1>7 DEF NotifyWaited
  <2>2. Only(t) /\ call'[t] = NoCall
    BY <1>1, <2>1 DEF Return, Goto, Only, NotifyShape
  <2>3. /\ obj'[o] = [s EXCEPT !.value = ClearBits(@, c.x.exit), !.pending = FALSE]
        /\ DOMAIN obj' = DOMAIN obj /\ \A k \in DOMAIN obj : k # o => obj'[k] = obj[k]
    BY <1>1, <2>1 DEF Set
  <2>4. SlotShape(obj'[o]) /\ obj'[o].value = 0 /\ obj'[o].m_count = s.m_count
    <3>1. obj'[o] = [s EXCEPT !.value = 0, !.pending = FALSE]
      BY <1>5, <2>3
    <3>2. ASSUME NEW r, SlotShape(r)
          PROVE  LET q == [r EXCEPT !.value = 0, !.pending = FALSE]
                 IN  SlotShape(q) /\ q.value = 0 /\ q.m_count = r.m_count
      BY <1>3, <3>2 DEF SlotShape
    <3> QED
      BY <1>1, <3>1, <3>2
  <2>5. Ends(t, o)
    BY <1>1, <1>7, <2>1, <2>2, <2>4 DEF Ends
  <2> QED
    BY <1>1, <2>2, <2>3, <2>4, <2>5 DEF SlotMove
<1> QED
  BY <1>6, <1>7

-----------------------------------------------------------------------------
(* Every step of a program on slots is one of these, or a tick *)
SlotOps == {"SemaphoreSignal", "SemaphoreWait", "NotifyWaited"} \cup NotifyOps \cup NotifyWaits
             \cup ValueClears

(* The other functions of the components *)
LEMMA OtherCalls ==
    ASSUME NotifyOnly, NEW t, NEW c, c.op \in SlotOps, Step(t, c)
    PROVE  \/ SemaphoreWait(t, c) \/ SemaphoreSignal(t, c)
           \/ NotifyWaited(t, c) \/ xTaskNotifyGiveIndexed(t, c) \/ xTaskNotifyIndexed(t, c)
           \/ xTaskNotifyWaitIndexed(t, c) \/ xTaskNotifyAndQueryIndexed(t, c)
           \/ ulTaskNotifyValueClearIndexed(t, c) \/ SlotZeroCalls(t, c)
<1>1. The.uses \subseteq {"Semaphore", "EventFlags", "FreeRTOSTask"}
  BY DEF NotifyOnly, NotifyProgram
<1>2. SemaphoreStep(t, c) \/ EventFlagsStep(t, c) \/ Awake(t, c) \/ FreeRTOSTaskStep(t, c)
  BY <1>1 DEF Step, NativeStep, Uses
<1>3. c.op \notin {"EventSet", "EventReset", "EventPulse", "EventWait", "MutexLock", "MutexUnlock",
                   "EventFlagsSet", "EventFlagsClear", "EventFlagsGet", "EventFlagsWait",
                   "EventFlagsWaitLoop", "Awake"}
  BY DEF SlotOps, NotifyOps, NotifyWaits, ValueClears
<1>4. ~Awake(t, c) /\ ~EventFlagsStep(t, c)
  BY <1>3 DEF Awake, EventFlagsStep, EventFlagsSet, EventFlagsClear, EventFlagsGet, EventFlagsWait,
     EventFlagsWaitLoop
<1>5. SemaphoreStep(t, c) => SemaphoreWait(t, c) \/ SemaphoreSignal(t, c)
  BY <1>3 DEF SemaphoreStep, EventSet, EventReset, EventPulse, EventWait, MutexLock, MutexUnlock
<1>6. c.op \notin {"xTaskCreateRestricted", "xTaskCreateRestrictedStatic", "xTaskCreate",
                   "xTaskCreateStatic", "vTaskDelete", "vTaskSuspend", "SuspendState", "vTaskResume",
                   "xTaskResumeFromISR", "xTaskAbortDelay", "vTaskDelay", "xTaskDelayUntil",
                   "vTaskPrioritySet", "uxTaskPriorityGet", "eTaskGetState",
                   "vTaskSetThreadLocalStoragePointer", "pvTaskGetThreadLocalStoragePointer"}
  BY DEF SlotOps, NotifyOps, NotifyWaits, ValueClears
<1>7. ~TaskCalls(t, c)
  BY <1>6 DEF TaskCalls, xTaskCreateRestricted, xTaskCreateRestrictedStatic, xTaskCreate,
     xTaskCreateStatic, vTaskDelete, vTaskSuspend, SuspendState, vTaskResume, xTaskResumeFromISR,
     xTaskAbortDelay, vTaskDelay, xTaskDelayUntil, vTaskPrioritySet, uxTaskPriorityGet,
     eTaskGetState, vTaskSetThreadLocalStoragePointer, pvTaskGetThreadLocalStoragePointer
<1>8. c.op \notin {"xEventGroupCreate", "xEventGroupCreateStatic", "vEventGroupDelete",
                   "xEventGroupSetBits", "xEventGroupClearBits", "xEventGroupGetBits",
                   "xEventGroupWaitBits", "WaitBitsSnapshot", "xEventGroupSetBitsFromISR",
                   "xEventGroupClearBitsFromISR", "xEventGroupSync", "SyncWait"}
  BY DEF SlotOps, NotifyOps, NotifyWaits, ValueClears
<1>9. ~EventGroupCalls(t, c)
  BY <1>8 DEF EventGroupCalls, xEventGroupCreate, xEventGroupCreateStatic, vEventGroupDelete,
     xEventGroupSetBits, xEventGroupClearBits, xEventGroupGetBits, xEventGroupWaitBits,
     WaitBitsSnapshot, xEventGroupSetBitsFromISR, xEventGroupClearBitsFromISR, xEventGroupSync,
     SyncWait
<1>10. c.op \notin {"ulTaskNotifyTakeIndexed", "NotifyTaken", "xTaskNotifyStateClearIndexed"}
  BY DEF SlotOps, NotifyOps, NotifyWaits, ValueClears
<1>11. NotifyCalls(t, c) =>
         \/ NotifyWaited(t, c) \/ xTaskNotifyGiveIndexed(t, c) \/ xTaskNotifyIndexed(t, c)
         \/ xTaskNotifyWaitIndexed(t, c) \/ xTaskNotifyAndQueryIndexed(t, c)
         \/ ulTaskNotifyValueClearIndexed(t, c)
  BY <1>10 DEF NotifyCalls, ulTaskNotifyTakeIndexed, NotifyTaken, xTaskNotifyStateClearIndexed
<1> QED
  BY <1>2, <1>4, <1>5, <1>7, <1>9, <1>11 DEF FreeRTOSTaskStep

(* The function for slot 0, or for an interrupt, opens the same call *)
LEMMA ThenLemma ==
    ASSUME NEW t, NEW c, NEW d, Opens(t, c, d), NEW op
    PROVE  Opens(t, c, Then(d, op)) /\ Then(d, op).o = d.o
BY DEF Opens, Then, FrameFields

LEMMA GiveMove ==
    ASSUME NotifyOnly, NotifyShape, NEW t \in Tasks, NEW c, NEW d, Opens(t, c, d),
           xTaskNotifyGiveIndexed(t, d)
    PROVE  SlotMove(t, d.o)
<1> DEFINE f == TryNative(d, "SemaphoreSignal")
<1>1. d.o \in DOMAIN obj /\ SlotShape(obj[d.o]) /\ Unlinked(t) /\ call[t] = NoCall
  BY OpensLemma DEF Opens
<1>2. f.o = d.o /\ f.then = NoCall
  BY DEF Opens, TryNative, FrameFields
<1>3. SemaphoreSignal(t, f)
  BY DEF xTaskNotifyGiveIndexed
<1> HIDE DEF f
<1> QED
  BY <1>1, <1>2, <1>3, SignalMove

LEMMA SlotZeroMove ==
    ASSUME NotifyOnly, NotifyShape, NEW t \in Tasks, NEW c, Opens(t, c, c), SlotZeroCalls(t, c),
           c.op \in NotifyOps => obj[c.o].value < MAX_VALUE
    PROVE  SlotMove(t, c.o)
<1> DEFINE d(op) == Then(c, op)
<1>1. c.op \in NotifyOps \cup NotifyWaits \cup ValueClears
  BY OpensLemma
<1>2. \A op : Opens(t, c, d(op)) /\ d(op).o = c.o
  BY ThenLemma
<1>3. ASSUME NEW e, Opens(t, c, e), e.o = c.o, xTaskNotifyFromISRIndexed(t, e), c.op \in NotifyOps \ GiveOps
      PROVE  SlotMove(t, c.o)
  <2> DEFINE f == Then(e, "xTaskNotifyIndexed")
  <2>1. xTaskNotifyIndexed(t, f)
    BY <1>3 DEF xTaskNotifyFromISRIndexed
  <2>2. Opens(t, c, f) /\ f.o = c.o
    BY <1>3, ThenLemma
  <2> HIDE DEF f
  <2> QED
    BY <1>3, <2>1, <2>2, NotifyMove
<1>4. ASSUME NEW e, Opens(t, c, e), e.o = c.o, xTaskNotifyAndQueryFromISRIndexed(t, e),
             c.op \in NotifyOps \ GiveOps
      PROVE  SlotMove(t, c.o)
  <2> DEFINE f == Then(e, "xTaskNotifyAndQueryIndexed")
  <2>1. xTaskNotifyAndQueryIndexed(t, f)
    BY <1>4 DEF xTaskNotifyAndQueryFromISRIndexed
  <2>2. Opens(t, c, f) /\ f.o = c.o
    BY <1>4, ThenLemma
  <2> HIDE DEF f
  <2> QED
    BY <1>4, <2>1, <2>2, NotifyMove
<1>5. CASE xTaskNotifyFromISRIndexed(t, c)
  <2>1. c.op \in NotifyOps \ GiveOps
    BY <1>5 DEF xTaskNotifyFromISRIndexed, NotifyOps, GiveOps
  <2> QED
    BY <1>3, <1>5, <2>1
<1>6. CASE xTaskNotifyAndQueryFromISRIndexed(t, c)
  <2>1. c.op \in NotifyOps \ GiveOps
    BY <1>6 DEF xTaskNotifyAndQueryFromISRIndexed, NotifyOps, GiveOps
  <2> QED
    BY <1>4, <1>6, <2>1
<1>7. CASE xTaskNotifyFromISR(t, c)
  <2>1. c.op \in NotifyOps \ GiveOps
    BY <1>7 DEF xTaskNotifyFromISR, NotifyOps, GiveOps
  <2>2. xTaskNotifyFromISRIndexed(t, d("xTaskNotifyFromISRIndexed"))
    BY <1>7 DEF xTaskNotifyFromISR
  <2> HIDE DEF d
  <2> QED
    BY <1>2, <1>3, <2>1, <2>2
<1>8. CASE xTaskNotifyAndQueryFromISR(t, c)
  <2>1. c.op \in NotifyOps \ GiveOps
    BY <1>8 DEF xTaskNotifyAndQueryFromISR, NotifyOps, GiveOps
  <2>2. xTaskNotifyAndQueryFromISRIndexed(t, d("xTaskNotifyAndQueryFromISRIndexed"))
    BY <1>8 DEF xTaskNotifyAndQueryFromISR
  <2> HIDE DEF d
  <2> QED
    BY <1>2, <1>4, <2>1, <2>2
<1>9. CASE xTaskNotify(t, c) \/ xTaskNotifyAndQuery(t, c)
  <2>1. c.op \in NotifyOps \ GiveOps
    BY <1>9 DEF xTaskNotify, xTaskNotifyAndQuery, NotifyOps, GiveOps
  <2>2. \/ xTaskNotifyIndexed(t, d("xTaskNotifyIndexed"))
        \/ xTaskNotifyAndQueryIndexed(t, d("xTaskNotifyAndQueryIndexed"))
    BY <1>9 DEF xTaskNotify, xTaskNotifyAndQuery
  <2> HIDE DEF d
  <2> QED
    BY <1>2, <2>1, <2>2, NotifyMove
<1>10. CASE xTaskNotifyGive(t, c)
  <2>1. xTaskNotifyGiveIndexed(t, d("xTaskNotifyGiveIndexed"))
    BY <1>10 DEF xTaskNotifyGive
  <2> HIDE DEF d
  <2> QED
    BY <1>2, <2>1, GiveMove
<1>11. CASE xTaskNotifyWait(t, c)
  <2>1. xTaskNotifyWaitIndexed(t, d("xTaskNotifyWaitIndexed")) /\ c.op \in NotifyWaits
    BY <1>11 DEF xTaskNotifyWait, NotifyWaits
  <2> HIDE DEF d
  <2> QED
    BY <1>2, <2>1, WaitMove
<1>12. CASE ulTaskNotifyValueClear(t, c)
  <2>1. ulTaskNotifyValueClearIndexed(t, d("ulTaskNotifyValueClearIndexed")) /\ c.op \in ValueClears
    BY <1>12 DEF ulTaskNotifyValueClear, ValueClears
  <2> HIDE DEF d
  <2> QED
    BY <1>2, <2>1, ValueClearMove
<1>13. ~ulTaskNotifyTake(t, c) /\ ~xTaskNotifyStateClear(t, c)
  BY <1>1 DEF ulTaskNotifyTake, xTaskNotifyStateClear, NotifyOps, NotifyWaits, ValueClears
<1> QED
  BY <1>5, <1>6, <1>7, <1>8, <1>9, <1>10, <1>11, <1>12, <1>13 DEF SlotZeroCalls

LEMMA BeginMove ==
    ASSUME NotifyOnly, NotifyShape, NEW t \in Tasks, Begin(t)
    PROVE  \E o \in DOMAIN obj : SlotMove(t, o)
<1>1. PICK c \in The.calls[t] : Idle(t) /\ ~IsWaiting(wait, t) /\ CallerMay(t, c) /\ Step(t, c)
  BY DEF Begin
<1>2. c = Frame(c.op, c.o, c.x, c.ticks)
  <2>1. NotifyProgram(The)
    BY DEF NotifyOnly
  <2> HIDE DEF The
  <2> QED
    BY <2>1 DEF NotifyProgram
<1>3. Opens(t, c, c)
  <2>1. DOMAIN c = FrameFields /\ c.then = NoCall /\ c.blocked = FALSE
    BY <1>2 DEF Frame, FrameFields
  <2>2. call[t] = NoCall /\ Unlinked(t)
    BY <1>1 DEF Idle, Unlinked, Linked, IsWaiting
  <2> QED
    BY <2>1, <2>2 DEF Opens
<1>4. c.op \in NotifyOps => obj[c.o].value < MAX_VALUE
  BY <1>1 DEF CallerMay, FreeRTOSMay
<1>5. c.o \in DOMAIN obj /\ c.op \in NotifyOps \cup NotifyWaits \cup ValueClears
  BY <1>3, OpensLemma
<1>6. \/ SemaphoreWait(t, c) \/ SemaphoreSignal(t, c)
      \/ NotifyWaited(t, c) \/ xTaskNotifyGiveIndexed(t, c) \/ xTaskNotifyIndexed(t, c)
      \/ xTaskNotifyWaitIndexed(t, c) \/ xTaskNotifyAndQueryIndexed(t, c)
      \/ ulTaskNotifyValueClearIndexed(t, c) \/ SlotZeroCalls(t, c)
  BY <1>1, <1>5, OtherCalls DEF SlotOps
<1>7. ~SemaphoreWait(t, c) /\ ~SemaphoreSignal(t, c) /\ ~NotifyWaited(t, c)
  BY <1>5 DEF SemaphoreWait, SemaphoreSignal, NotifyWaited, NotifyOps, NotifyWaits, ValueClears
<1>8. xTaskNotifyIndexed(t, c) \/ xTaskNotifyAndQueryIndexed(t, c) => c.op \in NotifyOps \ GiveOps
  BY DEF xTaskNotifyIndexed, xTaskNotifyAndQueryIndexed, NotifyOps, GiveOps
<1>9. /\ xTaskNotifyWaitIndexed(t, c) => c.op \in NotifyWaits
      /\ ulTaskNotifyValueClearIndexed(t, c) => c.op \in ValueClears
  BY DEF xTaskNotifyWaitIndexed, ulTaskNotifyValueClearIndexed, NotifyWaits, ValueClears
<1>10. SlotMove(t, c.o)
  BY <1>3, <1>4, <1>6, <1>7, <1>8, <1>9, GiveMove, NotifyMove, WaitMove, ValueClearMove, SlotZeroMove
<1> QED
  BY <1>5, <1>10

LEMMA ContinueMove ==
    ASSUME NotifyOnly, NotifyShape, NEW t \in Tasks, Continue(t)
    PROVE  \E o \in DOMAIN obj : SlotMove(t, o)
<1>1. /\ call[t] # NoCall /\ Step(t, call[t]) /\ NotifyFrame(t, call[t])
      /\ (~IsWaiting(wait, t) \/ call[t].op = "CvSleep")
  BY DEF Continue, Idle, NotifyShape
<1>2. call[t].op \in {"SemaphoreSignal", "SemaphoreWait", "NotifyWaited"}
  BY <1>1 DEF NotifyFrame, SignalFrame, WaitFrame, WaitedFrame
<1>3. Unlinked(t)
  BY <1>1, <1>2 DEF Unlinked, Linked, IsWaiting
<1>4. call[t].o \in DOMAIN obj /\ SlotShape(obj[call[t].o])
  BY <1>1 DEF NotifyFrame, NotifyShape
<1>5. \/ SemaphoreWait(t, call[t]) \/ SemaphoreSignal(t, call[t]) \/ NotifyWaited(t, call[t])
  <2> DEFINE c == call[t]
  <2>1. c.op \in SlotOps /\ Step(t, c)
    BY <1>1, <1>2 DEF SlotOps
  <2>2. c.op \in {"SemaphoreSignal", "SemaphoreWait", "NotifyWaited"}
    BY <1>2
  <2> HIDE DEF c
  <2>3. ~SlotZeroCalls(t, c)
    BY <2>2 DEF SlotZeroCalls, xTaskNotifyFromISRIndexed, xTaskNotifyGive, ulTaskNotifyTake,
       xTaskNotify, xTaskNotifyWait, xTaskNotifyFromISR, xTaskNotifyAndQuery,
       xTaskNotifyAndQueryFromISRIndexed, xTaskNotifyAndQueryFromISR, xTaskNotifyStateClear,
       ulTaskNotifyValueClear
  <2>4. /\ ~xTaskNotifyGiveIndexed(t, c) /\ ~xTaskNotifyIndexed(t, c) /\ ~xTaskNotifyWaitIndexed(t, c)
        /\ ~xTaskNotifyAndQueryIndexed(t, c) /\ ~ulTaskNotifyValueClearIndexed(t, c)
    BY <2>2 DEF xTaskNotifyGiveIndexed, xTaskNotifyIndexed, xTaskNotifyWaitIndexed,
       xTaskNotifyAndQueryIndexed, ulTaskNotifyValueClearIndexed
  <2>5. SemaphoreWait(t, c) \/ SemaphoreSignal(t, c) \/ NotifyWaited(t, c)
    BY <2>1, <2>3, <2>4, OtherCalls
  <2> QED
    BY <2>5 DEF c
<1>6. CASE SemaphoreSignal(t, call[t])
  <2>1. SignalFrame(call[t])
    BY <1>1, <1>6 DEF SemaphoreSignal, NotifyFrame, WaitFrame, WaitedFrame
  <2>2. SlotMove(t, call[t].o)
    BY <1>3, <1>4, <1>6, <2>1, SignalMove DEF SignalFrame
  <2> QED
    BY <1>4, <2>2
<1>7. CASE SemaphoreWait(t, call[t])
  <2>1. WaitFrame(t, call[t])
    BY <1>1, <1>7 DEF SemaphoreWait, NotifyFrame, SignalFrame, WaitedFrame
  <2>2. SlotMove(t, call[t].o)
    BY <1>1, <1>3, <1>7, <2>1, SemaphoreWaitMove
  <2> QED
    BY <1>4, <2>2
<1>8. CASE NotifyWaited(t, call[t])
  <2>1. WaitedFrame(t, call[t])
    BY <1>1, <1>8 DEF NotifyWaited, NotifyFrame, SignalFrame, WaitFrame
  <2>2. SlotMove(t, call[t].o)
    BY <1>1, <1>3, <1>8, <2>1, WaitedMove
  <2> QED
    BY <1>4, <2>2
<1> QED
  BY <1>5, <1>6, <1>7, <1>8

-----------------------------------------------------------------------------
(* What a move does to the waiters *)
LEMMA SlotListLemma ==
    ASSUME NotifyOnly, NotifyShape, NEW o \in DOMAIN obj
    PROVE  <<o, "list">> \in SyncObjects
<1>1. NotifyProgram(The) /\ o \in DOMAIN The.objects
  BY DEF NotifyOnly, NotifyShape
<1> HIDE DEF The
<1> QED
  BY <1>1 DEF NotifyProgram

(* Nobody but t gets on a list, and only on that of slot o *)
LinksOnly(t, o) ==
    /\ wait' \in WaitTypeIn(Signed) /\ ListsOnce(wait')
    /\ \A l \in SyncObjects, j \in Tasks : Linked(wait', l, j) =>
          Linked(wait, l, j) \/ (j = t /\ l = <<o, "list">> /\ LinksUp(t, o))
    /\ \A j \in Tasks : j # t /\ Unlinked(j) => wait'.timeout[j] = wait.timeout[j]

LEMMA LinksLemma ==
    ASSUME NotifyOnly, NotifyShape, NEW t \in Tasks, NEW o, SlotMove(t, o)
    PROVE  LinksOnly(t, o)
<1> DEFINE m == <<o, "list">>
<1>1. wait \in WaitTypeIn(Signed) /\ ListsOnce(wait) /\ Unlinked(t) /\ CountsDown(Signed)
  BY SignedLemma DEF NotifyShape, SlotMove
<1>2. m \in SyncObjects
  BY SlotListLemma DEF SlotMove
<1> HIDE DEF m
<1>3. CASE wait' = wait
  BY <1>1, <1>3 DEF LinksOnly
<1>4. CASE wait' = WakeOne(wait, m) /\ wait.list[m] # <<>>
  <2>1. wait' \in WaitTypeIn(Signed) /\ AfterWakeOne(wait', wait, m, Head(wait.list[m]))
    BY <1>1, <1>2, <1>4, WakeOneInLemma
  <2>2. \A l \in SyncObjects, j \in Tasks : Linked(wait', l, j) => Linked(wait, l, j)
    BY <2>1 DEF AfterWakeOne
  <2>3. \A j \in Tasks : Unlinked(j) => wait'.timeout[j] = wait.timeout[j]
    BY <1>2, <2>1 DEF AfterWakeOne, Unlinked
  <2> QED
    BY <2>1, <2>2, <2>3 DEF LinksOnly, AfterWakeOne
<1>5. CASE LinksUp(t, o)
  <2>1. PICK ticks \in Signed : wait' = SetupWait(wait, m, t, ticks)
    BY <1>5 DEF LinksUp, m
  <2>2. wait' \in WaitTypeIn(Signed) /\ AfterSetup(wait', wait, m, t)
    BY <1>1, <1>2, <2>1, SetupWaitInLemma DEF Unlinked
  <2>3. \A l \in SyncObjects, j \in Tasks : Linked(wait', l, j) => Linked(wait, l, j) \/ (l = m /\ j = t)
    BY <2>2 DEF AfterSetup
  <2> QED
    BY <1>5, <2>2, <2>3 DEF LinksOnly, AfterSetup, m
<1> QED
  BY <1>3, <1>4, <1>5 DEF SlotMove, Arms, Gives, Clears, TakesSignal, ReturnsFromWait, Ends, m

(* The program stays *)
LEMMA SlotProgramLemma ==
    ASSUME scenario' = scenario
    PROVE  /\ The' = The /\ Values' = Values /\ (NotifyOnly' <=> NotifyOnly)
           /\ \A r : SlotShape(r)' <=> SlotShape(r)
           /\ \A t, d : NotifyFrame(t, d)' <=> NotifyFrame(t, d)
<1>1. The' = The
  BY DEF The
<1>2. Values' = Values
  BY <1>1 DEF Values
<1>3. \A t, d : WaitedFrame(t, d)' <=> WaitedFrame(t, d)
  BY <1>1 DEF WaitedFrame
<1>4. \A t, d : NotifyFrame(t, d)' <=> NotifyFrame(t, d)
  BY <1>1, <1>3 DEF NotifyFrame, WaitFrame, SignalFrame
<1> QED
  BY <1>1, <1>2, <1>4 DEF NotifyOnly, SlotShape

LEMMA WaitedNext ==
    ASSUME NEW t, NEW c, WaitFrame(t, c)
    PROVE  c.then # NoCall /\ NotifyFrame(t, c.then) /\ c.then.op = "NotifyWaited" /\ c.then.o = c.o
BY DEF WaitFrame, WaitedFrame, NotifyFrame, NoCall

LEMMA SlotShapeStep ==
    ASSUME NotifyOnly, NotifyShape, scenario' = scenario, NEW t \in Tasks, NEW o, SlotMove(t, o)
    PROVE  NotifyShape'
<1>1. /\ The' = The /\ \A r : SlotShape(r)' <=> SlotShape(r)
      /\ \A j, d : NotifyFrame(j, d)' <=> NotifyFrame(j, d)
  BY SlotProgramLemma
<1>2. LinksOnly(t, o)
  BY LinksLemma
<1>3. DOMAIN obj' = DOMAIN The'.objects /\ (\A k \in DOMAIN obj : SlotShape(obj[k]))'
  <2>1. DOMAIN obj = DOMAIN The.objects /\ \A k \in DOMAIN obj : SlotShape(obj[k])
    BY DEF NotifyShape
  <2>2. DOMAIN obj' = DOMAIN obj /\ SlotShape(obj'[o]) /\ \A k \in DOMAIN obj : k # o => obj'[k] = obj[k]
    BY DEF SlotMove
  <2>3. \A k \in DOMAIN obj : SlotShape(obj'[k])
    BY <2>1, <2>2
  <2> QED
    BY <1>1, <2>1, <2>2, <2>3
<1>4. call'[t] = NoCall \/ NotifyFrame(t, call'[t])
  <2>1. CASE Arms(t, o) \/ Gives(t, o) \/ Clears(t, o) \/ LinksUp(t, o) \/ Ends(t, o)
    BY <2>1 DEF Arms, Gives, Clears, LinksUp, Ends
  <2>2. CASE WaitFrame(t, call[t]) /\ call'[t] = call[t].then
    BY <2>2, WaitedNext
  <2> QED
    BY <2>1, <2>2 DEF SlotMove, TakesSignal, ReturnsFromWait
<1>5. \A j \in Tasks : call'[j] = NoCall \/ NotifyFrame(j, call'[j])
  BY <1>4 DEF NotifyShape, SlotMove, Only
<1>6. (\A j \in Tasks : call[j] = NoCall \/ NotifyFrame(j, call[j]))'
  BY <1>1, <1>5
<1>7. ASSUME NEW l \in SyncObjects, NEW j \in Tasks, Linked(wait', l, j)
      PROVE  SlotWaits(l, j)'
  <2>1. CASE j = t /\ l = <<o, "list">> /\ LinksUp(t, o)
    <3>1. call'[t].op = "SemaphoreWait" /\ call'[t].blocked /\ call'[t].o = o
      BY <2>1 DEF LinksUp, WaitFrame
    <3>2. call'[t] # NoCall
      BY <3>1 DEF NoCall
    <3> QED
      BY <2>1, <3>1, <3>2 DEF SlotWaits
  <2>2. CASE Linked(wait, l, j)
    <3>1. j # t
      BY <2>2 DEF SlotMove, Unlinked
    <3>2. call'[j] = call[j] /\ SlotWaits(l, j)
      BY <2>2, <3>1 DEF SlotMove, Only, NotifyShape
    <3> QED
      BY <3>2 DEF SlotWaits
  <2> QED
    BY <1>2, <1>7, <2>1, <2>2 DEF LinksOnly
<1>8. wait' \in WaitTypeIn(Signed) /\ ListsOnce(wait') /\ DOMAIN call' = Tasks /\ DOMAIN ret' = Tasks
  BY <1>2 DEF LinksOnly, SlotMove, Only
<1> QED
  BY <1>3, <1>6, <1>7, <1>8 DEF NotifyShape

-----------------------------------------------------------------------------
(* What is on its way stays so *)
LEMMA StillArriving ==
    ASSUME NEW t \in Tasks, NEW o, SlotMove(t, o), LinksOnly(t, o), NEW j \in Tasks, j # t, NEW k
    PROVE  /\ Arriving(j, k) => Arriving(j, k)'
           /\ j \in Signals(k) => j \in Signals(k)'
<1>1. call'[j] = call[j] /\ ret'[j] = ret[j]
  BY DEF SlotMove, Only
<1>2. ASSUME Unlinked(j) PROVE Unlinked(j)' /\ wait'.timeout[j] = wait.timeout[j]
  BY <1>2 DEF Unlinked, LinksOnly
<1>3. Arriving(j, k) => Arriving(j, k)'
  BY <1>1, <1>2 DEF Arriving, Signalled
<1>4. j \in Signals(k) => j \in Signals(k)'
  BY <1>1 DEF Signals, Idle
<1> QED
  BY <1>3, <1>4

(* A list gets a waiter only if its slot has no signal *)
LEMMA StillNoSignal ==
    ASSUME NotifyOnly, NotifyShape, NEW t \in Tasks, NEW o, SlotMove(t, o), LinksOnly(t, o),
           NEW k \in DOMAIN obj, Noticed(k), wait'.list[<<k, "list">>] # <<>>
    PROVE  wait.list[<<k, "list">>] # <<>> \/ (k = o /\ LinksUp(t, o))
<1>1. <<k, "list">> \in SyncObjects /\ CountsDown(Signed) /\ wait \in WaitTypeIn(Signed)
      /\ wait' \in WaitTypeIn(Signed)
  BY SlotListLemma, SignedLemma DEF NotifyShape, LinksOnly
<1>2. PICK j \in Tasks : Linked(wait', <<k, "list">>, j)
  BY <1>1, LinkedInLemma
<1>3. CASE Linked(wait, <<k, "list">>, j)
  BY <1>1, <1>3, LinkedInLemma
<1>4. CASE <<k, "list">> = <<o, "list">> /\ LinksUp(t, o)
  BY <1>4
<1> QED
  BY <1>1, <1>2, <1>3, <1>4 DEF LinksOnly

(* Another slot *)
LEMMA NoticedElsewhere ==
    ASSUME NotifyOnly, NotifyShape, NEW t \in Tasks, NEW o, SlotMove(t, o), LinksOnly(t, o),
           NEW k \in DOMAIN obj, k # o, Noticed(k)
    PROVE  Noticed(k)'
<1>1. obj'[k] = obj[k]
  BY DEF SlotMove
<1>2. wait'.list[<<k, "list">>] # <<>> => obj'[k].m_count = 0
  BY <1>1, StillNoSignal DEF Noticed
<1>3. call[t] = NoCall \/ call[t].o # k
  BY DEF SlotMove, Arms, Gives, Clears
<1>4. t \notin Signals(k) /\ ~Arriving(t, k)
  BY <1>3 DEF Signals, Idle, Arriving
<1>5. Signals(k) \subseteq Tasks
  BY DEF Signals
<1>6. ASSUME Signals(k) # {} PROVE Signals(k)' # {}
  BY <1>4, <1>5, <1>6, StillArriving
<1>7. ASSUME NEW j \in Tasks, Arriving(j, k) PROVE \E i \in Tasks : Arriving(i, k)'
  BY <1>4, <1>7, StillArriving
<1>8. obj'[k].value # 0 => obj'[k].m_count # 0 \/ Signals(k)' # {} \/ \E i \in Tasks : Arriving(i, k)'
  BY <1>1, <1>6, <1>7 DEF Noticed
<1> QED
  BY <1>2, <1>8 DEF Noticed

(* The slot of the move *)
LEMMA NoticedStep ==
    ASSUME NotifyOnly, NotifyShape, NEW t \in Tasks, NEW o, SlotMove(t, o), LinksOnly(t, o), Noticed(o)
    PROVE  Noticed(o)'
<1> DEFINE m == <<o, "list">>
           Pending == Signals(o)' # {} \/ \E j \in Tasks : Arriving(j, o)'
<1>1. o \in DOMAIN obj /\ m \in SyncObjects /\ Unlinked(t) /\ obj[o].m_count \in Nat
  <2>1. o \in DOMAIN obj /\ Unlinked(t)
    BY DEF SlotMove
  <2> QED
    BY <2>1, SlotListLemma DEF NotifyShape, SlotShape
<1>2. ASSUME wait'.list[m] # <<>>, ~LinksUp(t, o)
      PROVE  obj[o].m_count = 0
  BY <1>1, <1>2, StillNoSignal DEF Noticed
<1>3. ASSUME obj[o].value # 0, obj[o].m_count = 0, t \notin Signals(o), ~Arriving(t, o)
      PROVE  Pending
  <2>1. CASE Signals(o) # {}
    <3>1. PICK j \in Tasks : j \in Signals(o)
      BY <2>1 DEF Signals
    <3> QED
      BY <1>3, <3>1, StillArriving
  <2>2. CASE \E j \in Tasks : Arriving(j, o)
    <3>1. PICK j \in Tasks : Arriving(j, o)
      BY <2>2
    <3> QED
      BY <1>3, <3>1, StillArriving
  <2> QED
    BY <1>3, <2>1, <2>2 DEF Noticed
<1> HIDE DEF Pending
<1>4. SUFFICES /\ wait'.list[m] # <<>> => obj'[o].m_count = 0
               /\ obj'[o].value # 0 /\ obj'[o].m_count = 0 => Pending
  BY DEF Noticed, Pending
<1>5. CASE Arms(t, o)
  <2>1. t \in Signals(o)'
    BY <1>5 DEF Arms, SignalFrame, Signals, Idle, NoCall
  <2>2. wait' = wait /\ obj'[o].m_count = obj[o].m_count
    BY <1>5 DEF Arms
  <2> QED
    BY <2>1, <2>2 DEF Pending, Noticed
<1>6. CASE Gives(t, o)
  <2>1. CASE wait.list[m] = <<>>
    BY <1>1, <1>6, <2>1 DEF Gives
  <2>2. CASE wait.list[m] # <<>>
    <3>1. wait' = WakeOne(wait, m) /\ obj'[o].m_count = obj[o].m_count /\ obj[o].m_count = 0
      BY <1>6, <2>2 DEF Gives, Noticed
    <3>2. PICK h : AfterWakeOne(wait', wait, m, h)
      BY <1>1, <2>2, <3>1, SignedLemma, WakeOneInLemma DEF NotifyShape
    <3>3. h \in Tasks /\ Linked(wait, m, h) /\ SlotWaits(m, h) /\ h # t
      BY <1>1, <3>2 DEF AfterWakeOne, NotifyShape, Unlinked
    <3>4. call'[h] = call[h]
      BY <3>3 DEF SlotMove, Only
    <3>5. Unlinked(h)'
      <4> SUFFICES ASSUME NEW l \in SyncObjects, Linked(wait', l, h) PROVE FALSE
        BY DEF Unlinked
      <4>1. Linked(wait, l, h) /\ l # m
        BY <3>2, <3>3 DEF AfterWakeOne
      <4>2. SlotWaits(l, h)
        BY <3>3, <4>1 DEF NotifyShape
      <4> QED
        BY <3>3, <4>1, <4>2 DEF SlotWaits
    <3>6. wait'.timeout[h] = FALSE
      BY <3>2 DEF AfterWakeOne
    <3>7. Arriving(h, o)'
      BY <3>3, <3>4, <3>5, <3>6 DEF Arriving, Signalled, SlotWaits
    <3> QED
      BY <3>1, <3>3, <3>7 DEF Pending
  <2> QED
    BY <2>1, <2>2
<1>7. CASE Clears(t, o)
  <2>1. t \notin Signals(o) /\ ~Arriving(t, o)
    BY <1>7 DEF Clears, Signals, Idle, Arriving
  <2> QED
    BY <1>3, <1>7, <2>1 DEF Clears, Noticed
<1>8. CASE call[t].o = o /\ WaitFrame(t, call[t]) /\ TakesSignal(t, o)
  <2>1. call'[t] # NoCall /\ call'[t].op = "NotifyWaited" /\ call'[t].o = o /\ ret'[t] = OK
    BY <1>8, WaitedNext DEF TakesSignal
  <2>2. Arriving(t, o)'
    BY <2>1, ResultsAssumption DEF Arriving
  <2>3. wait.list[m] = <<>> /\ wait' = wait
    BY <1>8 DEF TakesSignal, Noticed
  <2> QED
    BY <2>2, <2>3 DEF Pending
<1>9. CASE call[t].o = o /\ WaitFrame(t, call[t]) /\ ~call[t].blocked /\ LinksUp(t, o)
  <2>1. t \notin Signals(o) /\ ~Arriving(t, o)
    BY <1>9 DEF WaitFrame, Signals, Arriving, Signalled
  <2>2. obj' = obj /\ obj[o].m_count = 0
    BY <1>9 DEF LinksUp
  <2> QED
    BY <1>3, <2>1, <2>2
<1>10. CASE call[t].o = o /\ WaitFrame(t, call[t]) /\ ReturnsFromWait(t, o)
  <2>1. call'[t] # NoCall /\ call'[t].op = "NotifyWaited" /\ call'[t].o = o
    BY <1>10, WaitedNext DEF ReturnsFromWait
  <2>2. obj' = obj /\ wait' = wait /\ t \notin Signals(o)
    BY <1>10 DEF ReturnsFromWait, WaitFrame, Signals
  <2>3. ASSUME Arriving(t, o) PROVE Arriving(t, o)'
    <3>1. Signalled(t, call[t])
      BY <1>10, <2>3 DEF Arriving, WaitFrame
    <3>2. ret'[t] = OK
      BY <1>10, <3>1 DEF ReturnsFromWait
    <3> QED
      BY <2>1, <3>2, ResultsAssumption DEF Arriving
  <2>4. obj[o].value # 0 /\ obj[o].m_count = 0 => Pending
    BY <1>3, <2>2, <2>3 DEF Pending
  <2> QED
    BY <2>2, <2>4 DEF Noticed
<1>11. CASE Ends(t, o)
  <2>1. wait' = wait /\ obj'[o].m_count = obj[o].m_count /\ t \notin Signals(o)
    BY <1>11 DEF Ends, Signals
  <2>2. CASE ret[t] = FAIL
    <3>1. obj'[o].value = obj[o].value /\ ~Arriving(t, o)
      BY <1>11, <2>2 DEF Ends, Arriving
    <3> QED
      BY <1>3, <2>1, <3>1 DEF Noticed
  <2>3. CASE ret[t] # FAIL
    BY <1>11, <2>1, <2>3 DEF Ends, Noticed
  <2> QED
    BY <2>2, <2>3
<1> QED
  BY <1>5, <1>6, <1>7, <1>8, <1>9, <1>10, <1>11 DEF SlotMove

(* A tick *)
LEMMA NoticedTick ==
    ASSUME NotifyOnly, NotifyInv, Tick, scenario' = scenario
    PROVE  NotifyInv'
<1>1. wait \in WaitTypeIn(Signed) /\ ListsOnce(wait) /\ CountsDown(Signed)
  BY SignedLemma DEF NotifyInv, NotifyShape
<1>2. wait' = TickWaiters(wait) /\ obj' = obj /\ call' = call /\ ret' = ret
  BY DEF Tick, KernelTick
<1>3. /\ wait' \in WaitTypeIn(Signed) /\ ListsOnce(wait')
      /\ \A l \in SyncObjects, j \in Tasks : Linked(wait', l, j) => Linked(wait, l, j)
      /\ \A j \in Tasks : wait'.timeout[j] = (wait.timeout[j] \/ j \in Expired(wait))
  BY <1>1, <1>2, TickWaitersInLemma
<1>4. \A j \in Tasks : Unlinked(j) => Unlinked(j)' /\ wait'.timeout[j] = wait.timeout[j]
  <2>1. \A j \in Tasks : Unlinked(j) => Unlinked(j)' /\ j \notin Expired(wait)
    BY <1>3 DEF Unlinked, Expired, IsWaiting, Linked
  <2>2. \A j \in Tasks : wait.timeout[j] \in BOOLEAN
    BY <1>1 DEF WaitTypeIn
  <2> QED
    BY <1>3, <2>1, <2>2
<1>5. NotifyShape'
  <2>1. /\ The' = The /\ \A r : SlotShape(r)' <=> SlotShape(r)
        /\ \A j, d : NotifyFrame(j, d)' <=> NotifyFrame(j, d)
    BY SlotProgramLemma
  <2>2. (\A l \in SyncObjects, t \in Tasks : Linked(wait, l, t) => SlotWaits(l, t))'
    BY <1>2, <1>3 DEF NotifyInv, NotifyShape, SlotWaits
  <2>3. (\A o \in DOMAIN obj : SlotShape(obj[o]))'
    BY <1>2, <2>1 DEF NotifyInv, NotifyShape
  <2>4. (\A t \in Tasks : call[t] = NoCall \/ NotifyFrame(t, call[t]))'
    BY <1>2, <2>1 DEF NotifyInv, NotifyShape
  <2>5. (DOMAIN obj = DOMAIN The.objects)' /\ DOMAIN call' = Tasks /\ DOMAIN ret' = Tasks
    BY <1>2, <2>1 DEF NotifyInv, NotifyShape
  <2> QED
    BY <1>3, <2>2, <2>3, <2>4, <2>5 DEF NotifyShape
<1>6. ASSUME NEW o \in DOMAIN obj
      PROVE  Noticed(o)'
  <2>1. Noticed(o) /\ NotifyShape
    BY DEF NotifyInv
  <2>2. <<o, "list">> \in SyncObjects
    BY <2>1, SlotListLemma
  <2>3. wait'.list[<<o, "list">>] # <<>> => wait.list[<<o, "list">>] # <<>>
    BY <1>1, <1>3, <2>2, LinkedInLemma
  <2>4. Signals(o)' = Signals(o)
    BY <1>2 DEF Signals, Idle
  <2>5. \A j \in Tasks : Arriving(j, o) => Arriving(j, o)'
    BY <1>2, <1>4 DEF Arriving, Signalled
  <2> QED
    BY <1>2, <2>1, <2>3, <2>4, <2>5 DEF Noticed
<1> QED
  BY <1>2, <1>5, <1>6 DEF NotifyInv

LEMMA NotifyNext ==
    ASSUME NotifyOnly, NotifyInv, [Next]_vars
    PROVE  NotifyInv'
<1>1. ASSUME NEW t \in Tasks, NEW o \in DOMAIN obj, SlotMove(t, o), scenario' = scenario
      PROVE  NotifyInv'
  <2>1. NotifyShape /\ LinksOnly(t, o)
    BY <1>1, LinksLemma DEF NotifyInv
  <2>2. NotifyShape'
    BY <1>1, <2>1, SlotShapeStep
  <2>3. DOMAIN obj' = DOMAIN obj
    BY <1>1 DEF SlotMove
  <2>4. \A k \in DOMAIN obj : Noticed(k)'
    BY <1>1, <2>1, NoticedElsewhere, NoticedStep DEF NotifyInv
  <2> QED
    BY <2>2, <2>3, <2>4 DEF NotifyInv
<1>2. CASE Next
  <2>1. scenario' = scenario /\ NotifyShape
    BY <1>2 DEF Next, NotifyInv
  <2>2. ASSUME NEW t \in Tasks, Begin(t) \/ Continue(t) PROVE NotifyInv'
    <3>1. PICK o \in DOMAIN obj : SlotMove(t, o)
      BY <2>1, <2>2, BeginMove, ContinueMove
    <3> QED
      BY <1>1, <2>1, <3>1
  <2>3. ASSUME Tick PROVE NotifyInv'
    BY <2>1, <2>3, NoticedTick
  <2> QED
    BY <1>2, <2>2, <2>3 DEF Next
<1>3. CASE UNCHANGED vars
  <2>1. /\ scenario' = scenario /\ obj' = obj /\ wait' = wait /\ call' = call /\ ret' = ret
    BY <1>3 DEF vars
  <2>2. /\ The' = The /\ \A r : SlotShape(r)' <=> SlotShape(r)
        /\ \A j, d : NotifyFrame(j, d)' <=> NotifyFrame(j, d)
    BY <2>1, SlotProgramLemma
  <2>3. (\A o \in DOMAIN obj : SlotShape(obj[o]))'
        /\ (\A t \in Tasks : call[t] = NoCall \/ NotifyFrame(t, call[t]))'
    BY <2>1, <2>2 DEF NotifyInv, NotifyShape
  <2>4. (\A l \in SyncObjects, t \in Tasks : Linked(wait, l, t) => SlotWaits(l, t))'
    BY <2>1 DEF NotifyInv, NotifyShape, SlotWaits
  <2>5. NotifyShape'
    BY <2>1, <2>2, <2>3, <2>4 DEF NotifyInv, NotifyShape
  <2>6. \A o : Noticed(o)' <=> Noticed(o)
    BY <2>1 DEF Noticed, Signals, Idle, Arriving, Unlinked, Signalled
  <2> QED
    BY <2>1, <2>5, <2>6 DEF NotifyInv
<1> QED
  BY <1>2, <1>3

LEMMA NotifyBegins ==
    ASSUME NotifyOnly, Init
    PROVE  NotifyInv
<1>1. /\ obj = The.objects /\ wait = NoWaiters /\ call = [t \in Tasks |-> NoCall]
      /\ ret = [t \in Tasks |-> NULL]
  BY DEF Init
<1>2. \A o \in DOMAIN The.objects : The.objects[o] = NotifySlot
  <2>1. NotifyProgram(The)
    BY DEF NotifyOnly
  <2> HIDE DEF The
  <2> QED
    BY <2>1 DEF NotifyProgram
<1>3. 0 \in Values
  BY ValuesLemma DEF Covered
<1>4. SlotShape(NotifySlot)
  BY <1>3 DEF SlotShape, NotifySlot
<1>5. /\ wait \in WaitTypeIn(Signed) /\ ListsOnce(wait)
      /\ \A l \in SyncObjects, t \in Tasks : ~Linked(wait, l, t)
  BY <1>1, SignedLemma, NoWaitersLemma
<1>6. NotifyShape
  BY <1>1, <1>2, <1>4, <1>5 DEF NotifyShape
<1>7. \A o \in DOMAIN obj : Noticed(o)
  BY <1>1, <1>2 DEF Noticed, NotifySlot
<1> QED
  BY <1>6, <1>7 DEF NotifyInv

(* A task that is linked on the list of a slot is the one that would be on its way *)
LEMMA NoticedReaches ==
    ASSUME NotifyOnly, NotifyInv
    PROVE  NotificationsReachWaiter
<1> SUFFICES ASSUME NEW o \in Objects("notify"), NEW t \in Tasks,
                    IsLinked(wait.list[<<o, "list">>], t), obj[o].value # 0
             PROVE  Signals(o) # {}
  BY DEF NotificationsReachWaiter
<1>1. o \in DOMAIN obj /\ NotifyShape /\ Noticed(o)
  BY DEF Objects, NotifyInv
<1>2. <<o, "list">> \in SyncObjects /\ CountsDown(Signed) /\ wait \in WaitTypeIn(Signed)
  BY <1>1, SlotListLemma, SignedLemma DEF NotifyShape
<1>3. Linked(wait, <<o, "list">>, t)
  BY DEF Linked
<1>4. wait.list[<<o, "list">>] # <<>>
  BY <1>2, <1>3, LinkedInLemma
<1>5. SlotWaits(<<o, "list">>, t)
  BY <1>1, <1>2, <1>3 DEF NotifyShape
<1>6. call[t].o = o /\ call[t].op = "SemaphoreWait" /\ call[t] # NoCall
  BY <1>5 DEF SlotWaits
<1>7. ASSUME NEW u \in Tasks, Arriving(u, o) PROVE FALSE
  <2>1. ASSUME NEW j \in Tasks, call[j] # NoCall, call[j].o = o,
               call[j].op \in {"SemaphoreWait", "NotifyWaited"}
        PROVE  \E x : WaitsWith(The, j, o, x)
    <3>1. NotifyFrame(j, call[j])
      BY <1>1, <2>1 DEF NotifyShape
    <3>2. CASE WaitedFrame(j, call[j])
      BY <2>1, <3>2 DEF WaitedFrame
    <3>3. CASE WaitFrame(j, call[j])
      BY <2>1, <3>3 DEF WaitFrame, WaitedFrame
    <3> QED
      BY <2>1, <3>1, <3>2, <3>3 DEF NotifyFrame, SignalFrame
  <2>2. (\E x : WaitsWith(The, t, o, x)) /\ (\E x : WaitsWith(The, u, o, x))
    BY <1>6, <1>7, <2>1 DEF Arriving
  <2>3. u = t
    <3>1. NotifyProgram(The)
      BY DEF NotifyOnly
    <3> HIDE DEF The
    <3> QED
      BY <2>2, <3>1 DEF NotifyProgram
  <2> QED
    BY <1>2, <1>3, <1>6, <1>7, <2>3 DEF Arriving, Unlinked
<1> QED
  BY <1>1, <1>4, <1>7 DEF Noticed

(* A notification is not lost: whatever tasks and interrupts notify a slot, set, add to or
   clear its value, and whatever time-outs end a wait, a task that is blocked in
   xTaskNotifyWait has no value pending that no notifier is about to signal *)
THEOREM NotificationsNotLost == Spec => [](NotifyOnly => NotificationsReachWaiter)
<1>1. Init => (NotifyOnly => NotifyInv)
  BY NotifyBegins
<1>2. (NotifyOnly => NotifyInv) /\ [Next]_vars => (NotifyOnly => NotifyInv)'
  <2>1. [Next]_vars => scenario' = scenario
    BY DEF Next, vars
  <2> QED
    BY <2>1, NotifyNext, SlotProgramLemma
<1>3. (NotifyOnly => NotifyInv) => (NotifyOnly => NotificationsReachWaiter)
  BY NoticedReaches
<1> QED
  BY <1>1, <1>2, <1>3, PTL DEF Spec

-----------------------------------------------------------------------------
(* Message buffers, any number of them, with any tasks and interrupts that send, receive
   and reset *)

MessageOps == {"xMessageBufferSend", "xMessageBufferSendFromISR", "xMessageBufferReceive",
    "xMessageBufferReceiveFromISR", "xMessageBufferReset", "xMessageBufferResetFromISR",
    "xMessageBufferNextLengthBytes", "xMessageBufferIsEmpty", "xMessageBufferIsFull",
    "xMessageBufferSpacesAvailable"}

MessageBuffers(p) == {m \in DOMAIN p.objects : p.objects[m].kind = "messages"}

(* A program on message buffers as their constructors leave them: each has its own pool,
   which has no storage if the heap had none for it, and its own queue of envelopes *)
BufferProgram(p) ==
    /\ p.uses \subseteq {"MessageQueue", "Pipe", "BlockMemoryPool", "FreeRTOSBuffer"}
    /\ \A m \in MessageBuffers(p) :
          /\ {p.objects[m].m_pool, p.objects[m].m_eq} \subseteq DOMAIN p.objects
          /\ \E n \in Nat \ {0}, got \in BOOLEAN :
                /\ p.objects[p.objects[m].m_pool] = HeapPoolObject(n, got)
                /\ p.objects[p.objects[m].m_eq] = RingObject("envelopes", n)
          /\ \A k \in MessageBuffers(p) : k # m =>
                /\ p.objects[k].m_pool # p.objects[m].m_pool
                /\ p.objects[k].m_eq # p.objects[m].m_eq
    /\ \A t \in Tasks : \A c \in p.calls[t] :
          /\ c = Frame(c.op, c.o, c.x, c.ticks)
          /\ c.o \in MessageBuffers(p) /\ c.op \in MessageOps

(* The behaviour is one of such a program *)
BuffersOnly == BufferProgram(The)

(* The pool and the queue of buffer m, and the blocks of its pool *)
PoolOf(m) == The.objects[m].m_pool
QueueOf(m) == The.objects[m].m_eq
BlocksOf(m) == 0..The.objects[PoolOf(m)].m_capacity-1

(* A pool p and a queue q of envelopes, for the same number n of messages *)
Stored(p, q, n) ==
    /\ PoolShape(p) /\ p.m_capacity = n /\ p.m_used_count \in Nat
    /\ p.m_free_list \in Seq(0..n-1) /\ p.m_used_count + Len(p.m_free_list) <= n
    /\ RingShape(q) /\ InOrder(q) /\ q.m_capacity = n
    /\ \A i \in 1..q.m_count : Content(q)[i].blk \in 0..n-1

(* The steps of a reset *)
ResetSteps == {"xMessageBufferReset", "ResetFree"}
GotSteps == {"MessageGot", "MessageGotFromISR", "ResetFree"}

(* A function on buffer m that no other function called *)
TopFrame(m, c) == DOMAIN c = FrameFields /\ c.o = m /\ c.blocked = FALSE /\ c.then = NoCall

(* Where a call on buffer m can be, r being what the last step of it returned *)
MessageFrame(m, c, r) ==
    \/ /\ TopFrame(m, c)
       /\ \/ c.op = "MessagePut" /\ r \in {NULL} \cup BlocksOf(m)
          \/ c.op = "MessageSent" /\ \E b \in BlocksOf(m) : c.acc = <<b>>
          \/ c.op \in GotSteps /\ (r = <<>> \/ \E e : e.blk \in BlocksOf(m) /\ r = <<e>>)
          \/ c.op = "xMessageBufferReset"
    \/ /\ DOMAIN c = FrameFields /\ TopFrame(m, c.then)
       /\ \/ c.op = "PoolAlloc" /\ c.o = PoolOf(m) /\ c.then.op = "MessagePut"
          \/ c.op = "MessageQueueGet" /\ c.o = QueueOf(m) /\ c.then.op = "MessageGot"

(* A call that has a block of buffer m, or an envelope with one *)
HoldsBlock(m, c, r) ==
    /\ c # NoCall /\ c.o = m
    /\ \/ c.op = "MessagePut" /\ r # NULL
       \/ c.op = "MessageSent" /\ r # OK
       \/ c.op \in GotSteps /\ r # <<>>

Carriers(m) == {t \in Tasks : HoldsBlock(m, call[t], ret[t])}

Balanced(m) == obj[PoolOf(m)].m_used_count = obj[QueueOf(m)].m_count + Cardinality(Carriers(m))

(* Who resets a buffer is alone, and clears the queue when it is empty *)
ResetAlone ==
    \A t \in Tasks : call[t].op \in ResetSteps =>
        /\ \A u \in Tasks \ {t} : call[u] = NoCall
        /\ call[t].op = "ResetFree" /\ ret[t] = <<>> => obj[QueueOf(call[t].o)].m_count = 0

BufferShape ==
    /\ DOMAIN obj = DOMAIN The.objects /\ \A o \in DOMAIN obj : obj[o].kind = The.objects[o].kind
    /\ DOMAIN call = Tasks /\ DOMAIN ret = Tasks
    /\ \A m \in MessageBuffers(The) :
          /\ obj[m] = The.objects[m]
          /\ Stored(obj[PoolOf(m)], obj[QueueOf(m)], The.objects[PoolOf(m)].m_capacity)
    /\ \A t \in Tasks : call[t] = NoCall
                        \/ \E m \in MessageBuffers(The) : MessageFrame(m, call[t], ret[t])

BufferInv == BufferShape /\ ResetAlone /\ \A m \in MessageBuffers(The) : Balanced(m)

-----------------------------------------------------------------------------
LEMMA NewBufferPool ==
    ASSUME NEW n \in Nat \ {0}, NEW got \in BOOLEAN
    PROVE  LET p == HeapPoolObject(n, got)
           IN  /\ PoolShape(p) /\ p.kind = "pool" /\ p.m_capacity = n /\ p.m_used_count = 0
               /\ p.m_free_list \in Seq(0..n-1) /\ Len(p.m_free_list) <= n
<1> DEFINE s == [i \in 1..n |-> i - 1]
<1>1. Min({n, n}) = n
  <2>1. n \in {n, n} /\ \A y \in {n, n} : n <= y
    OBVIOUS
  <2>2. \A x \in {n, n} : x = n
    OBVIOUS
  <2> QED
    BY <2>1, <2>2 DEF Min
<1>2. s \in Seq(0..n-1) /\ s \in Seq(Nat) /\ Len(s) = n
  <2>1. \A i \in 1..n : i - 1 \in 0..n-1 /\ i - 1 \in Nat
    OBVIOUS
  <2> QED
    BY <2>1
<1>3. PoolObject(n, n) = [kind |-> "pool", m_capacity |-> n, m_used_count |-> 0,
                          m_storage |-> TRUE, m_free_list |-> s]
  BY <1>1 DEF PoolObject, BuildFreeList
<1>4. <<>> \in Seq(0..n-1) /\ <<>> \in Seq(Nat) /\ Len(<<>>) = 0
  OBVIOUS
<1> DEFINE l == IF got THEN s ELSE <<>>
<1>5. l \in Seq(0..n-1) /\ l \in Seq(Nat) /\ Len(l) <= n
  <2>1. Len(s) <= n /\ Len(<<>>) <= n
    BY <1>2, <1>4
  <2> HIDE DEF s
  <2> QED
    BY <1>2, <1>4, <2>1
<1> HIDE DEF s
<1> DEFINE p == HeapPoolObject(n, got)
<1>6. /\ DOMAIN p = {"kind", "m_capacity", "m_used_count", "m_storage", "m_free_list"}
      /\ p.kind = "pool" /\ p.m_capacity = n /\ p.m_used_count = 0 /\ p.m_free_list = l
      /\ p.m_storage \in BOOLEAN
  <2>1. CASE got = TRUE
    BY <1>3, <2>1 DEF HeapPoolObject
  <2>2. CASE got = FALSE
    BY <1>3, <2>2 DEF HeapPoolObject
  <2> QED
    BY <2>1, <2>2
<1> HIDE DEF l
<1> HIDE DEF p
<1>7. PoolShape(p)
  BY <1>5, <1>6 DEF PoolShape
<1> QED
  BY <1>5, <1>6, <1>7 DEF p

LEMMA NewBufferQueue ==
    ASSUME NEW n \in Nat \ {0}
    PROVE  LET q == RingObject("envelopes", n)
           IN  /\ RingShape(q) /\ q.kind = "envelopes" /\ q.m_capacity = n /\ q.m_count = 0
               /\ InOrder(q)
<1>1. 0 = (0 + 0) % n
  OBVIOUS
<1> QED
  BY <1>1 DEF RingObject, RingShape, InOrder

(* The parts of a message buffer *)
LEMMA PartsLemma ==
    ASSUME BuffersOnly, NEW m \in MessageBuffers(The)
    PROVE  /\ {m, PoolOf(m), QueueOf(m)} \subseteq DOMAIN The.objects
           /\ The.objects[PoolOf(m)].kind = "pool" /\ The.objects[QueueOf(m)].kind = "envelopes"
           /\ PoolOf(m) # QueueOf(m)
           /\ {PoolOf(m), QueueOf(m)} \cap MessageBuffers(The) = {}
           /\ The.objects[PoolOf(m)].m_capacity \in Nat \ {0}
           /\ Stored(The.objects[PoolOf(m)], The.objects[QueueOf(m)],
                     The.objects[PoolOf(m)].m_capacity)
           /\ The.objects[PoolOf(m)].m_used_count = 0 /\ The.objects[QueueOf(m)].m_count = 0
           /\ \A k \in MessageBuffers(The) : k # m =>
                 /\ PoolOf(k) # PoolOf(m) /\ QueueOf(k) # QueueOf(m)
                 /\ PoolOf(k) # QueueOf(m) /\ QueueOf(k) # PoolOf(m)
<1>1. BufferProgram(The)
  BY DEF BuffersOnly
<1> HIDE DEF The
<1>2. ASSUME NEW k \in MessageBuffers(The)
      PROVE  /\ {k, PoolOf(k), QueueOf(k)} \subseteq DOMAIN The.objects
             /\ \E n \in Nat \ {0}, got \in BOOLEAN :
                   /\ The.objects[PoolOf(k)] = HeapPoolObject(n, got)
                   /\ The.objects[QueueOf(k)] = RingObject("envelopes", n)
  <2>1. k \in DOMAIN The.objects
    BY DEF MessageBuffers
  <2> QED
    BY <1>1, <2>1 DEF BufferProgram, PoolOf, QueueOf
<1>3. ASSUME NEW k \in MessageBuffers(The)
      PROVE  The.objects[PoolOf(k)].kind = "pool" /\ The.objects[QueueOf(k)].kind = "envelopes"
  <2>1. PICK n \in Nat \ {0}, got \in BOOLEAN :
           /\ The.objects[PoolOf(k)] = HeapPoolObject(n, got)
           /\ The.objects[QueueOf(k)] = RingObject("envelopes", n)
    BY <1>2
  <2>2. HeapPoolObject(n, got).kind = "pool" /\ RingObject("envelopes", n).kind = "envelopes"
    BY NewBufferPool, NewBufferQueue
  <2> QED
    BY <2>1, <2>2
<1>4. PICK n \in Nat \ {0}, got \in BOOLEAN :
         /\ The.objects[PoolOf(m)] = HeapPoolObject(n, got)
         /\ The.objects[QueueOf(m)] = RingObject("envelopes", n)
  BY <1>2
<1>5. /\ The.objects[PoolOf(m)].m_capacity = n /\ The.objects[PoolOf(m)].m_used_count = 0
      /\ The.objects[QueueOf(m)].m_count = 0
      /\ Stored(The.objects[PoolOf(m)], The.objects[QueueOf(m)], n)
  <2>1. 1..0 = {}
    OBVIOUS
  <2>2. \A a \in Seq(0..n-1) : Len(a) \in Nat
    OBVIOUS
  <2> DEFINE p == HeapPoolObject(n, got)
             q == RingObject("envelopes", n)
  <2>3. /\ PoolShape(p) /\ p.m_capacity = n /\ p.m_used_count = 0
        /\ p.m_free_list \in Seq(0..n-1) /\ Len(p.m_free_list) <= n
    BY NewBufferPool
  <2>4. RingShape(q) /\ q.m_capacity = n /\ q.m_count = 0 /\ InOrder(q)
    BY NewBufferQueue
  <2> HIDE DEF p, q
  <2>5. Stored(p, q, n)
    BY <2>1, <2>2, <2>3, <2>4 DEF Stored
  <2> QED
    BY <1>4, <2>3, <2>4, <2>5 DEF p, q
<1>6. \A k \in MessageBuffers(The) : k # m => PoolOf(k) # PoolOf(m) /\ QueueOf(k) # QueueOf(m)
  BY <1>1 DEF BufferProgram, PoolOf, QueueOf
<1>7. \A k : k \in MessageBuffers(The) => The.objects[k].kind = "messages"
  BY DEF MessageBuffers
<1> QED
  BY <1>2, <1>3, <1>5, <1>6, <1>7

(* What the operations on the pool and on the queue leave *)
LEMMA StoredPop ==
    ASSUME NEW p, NEW q, NEW n \in Nat \ {0}, Stored(p, q, n), p.m_free_list # <<>>
    PROVE  /\ Stored(PopFreeList(p), q, n) /\ PopFreeList(p).m_used_count = p.m_used_count + 1
           /\ PopFreeList(p).kind = p.kind /\ Head(p.m_free_list) \in 0..n-1
<1> DEFINE s == p.m_free_list
           r == PopFreeList(p)
<1>1. /\ PoolShape(p) /\ p.m_capacity = n /\ p.m_used_count \in Nat
      /\ s \in Seq(0..n-1) /\ s # <<>> /\ p.m_used_count + Len(s) <= n
  BY DEF Stored
<1>2. /\ PoolShape(r) /\ r.m_free_list = Tail(s) /\ r.m_used_count = p.m_used_count + 1
      /\ r.m_capacity = n /\ r.kind = p.kind
  BY <1>1, PopLemma DEF PoolShape
<1>3. /\ Tail(s) \in Seq(0..n-1) /\ Len(Tail(s)) = Len(s) - 1 /\ Len(s) \in Nat
      /\ Head(s) \in 0..n-1
  <2> HIDE DEF s
  <2> QED
    BY <1>1
<1> HIDE DEF s, r
<1>4. r.m_used_count \in Nat /\ r.m_used_count + Len(Tail(s)) <= n
  BY <1>1, <1>2, <1>3
<1>5. Stored(r, q, n)
  BY <1>2, <1>3, <1>4 DEF Stored
<1> QED
  BY <1>2, <1>3, <1>5 DEF s, r

LEMMA StoredPush ==
    ASSUME NEW p, NEW q, NEW n \in Nat \ {0}, Stored(p, q, n), p.m_used_count # 0, NEW b \in 0..n-1
    PROVE  /\ Stored(PushFreeList(p, b), q, n)
           /\ PushFreeList(p, b).m_used_count = p.m_used_count - 1
           /\ PushFreeList(p, b).kind = p.kind
<1> DEFINE s == p.m_free_list
           r == PushFreeList(p, b)
<1>1. /\ PoolShape(p) /\ p.m_capacity = n /\ p.m_used_count \in Nat
      /\ s \in Seq(0..n-1) /\ p.m_used_count + Len(s) <= n /\ b \in Nat
  BY DEF Stored
<1>2. /\ PoolShape(r) /\ r.m_free_list = <<b>> \o s /\ r.m_used_count = p.m_used_count - 1
      /\ r.m_capacity = n /\ r.kind = p.kind
  BY <1>1, PushLemma DEF PoolShape
<1>3. /\ <<b>> \o s \in Seq(0..n-1) /\ Len(<<b>> \o s) = Len(s) + 1 /\ Len(s) \in Nat
  <2> HIDE DEF s
  <2>1. <<b>> \in Seq(0..n-1) /\ Len(<<b>>) = 1
    OBVIOUS
  <2> QED
    BY <1>1, <2>1
<1> HIDE DEF s, r
<1>4. r.m_used_count \in Nat /\ r.m_used_count + Len(<<b>> \o s) <= n
  BY <1>1, <1>2, <1>3
<1>5. Stored(r, q, n)
  BY <1>2, <1>3, <1>4 DEF Stored
<1> QED
  BY <1>2, <1>5 DEF r

LEMMA StoredAdd ==
    ASSUME NEW p, NEW q, NEW n \in Nat \ {0}, Stored(p, q, n), ~Full(q), NEW v, v.blk \in 0..n-1,
           NEW r \in {Add(q, v), AddFront(q, v)}
    PROVE  Stored(p, r, n) /\ r.m_count = q.m_count + 1 /\ r.kind = q.kind
<1>1. /\ RingShape(q) /\ InOrder(q) /\ q.m_capacity = n
      /\ \A i \in 1..q.m_count : Content(q)[i].blk \in 0..n-1
  BY DEF Stored
<1>2. /\ q.m_count \in Nat /\ q.m_count < n /\ q.m_tail \in 0..n-1 /\ q.m_head \in 0..n-1
      /\ DOMAIN q.m_buffer = 0..n-1 /\ q.m_head = Wrap(q.m_tail + q.m_count, n)
  BY <1>1, ContentLemma DEF RingShape, Full
<1>3. RingShape(r) /\ r.m_count = q.m_count + 1 /\ r.m_capacity = n /\ r.kind = q.kind /\ InOrder(r)
  BY <1>1, AddLemma, AddContent, AddFrontContent
<1>4. \A i \in 1..r.m_count : Content(r)[i] = r.m_buffer[Wrap(r.m_tail + i - 1, n)]
  BY <1>3, ContentLemma
<1>5. ASSUME NEW i \in 1..r.m_count PROVE Content(r)[i].blk \in 0..n-1
  <2>1. CASE r = Add(q, v)
    <3>1. r.m_tail = q.m_tail /\ r.m_buffer[q.m_head] = v
      BY <1>1, <1>2, <2>1 DEF Add, RingShape
    <3>2. CASE i = q.m_count + 1
      <4>1. r.m_tail + i - 1 = q.m_tail + q.m_count
        BY <1>2, <3>1, <3>2
      <4>2. Content(r)[i] = v
        BY <1>2, <1>4, <3>1, <4>1
      <4> QED
        BY <4>2
    <3>3. CASE i # q.m_count + 1
      <4>1. i \in 1..q.m_count
        BY <1>2, <1>3, <3>3
      <4>2. Content(r)[i] = Content(q)[i]
        BY <1>1, <2>1, <4>1, AddContent
      <4> QED
        BY <1>1, <4>1, <4>2
    <3> QED
      BY <3>2, <3>3
  <2>2. CASE r = AddFront(q, v)
    <3> DEFINE j == PrevSlot(q, q.m_tail)
    <3>1. j \in 0..n-1
      BY <1>1, <1>2, SlotLemma
    <3>2. r.m_tail = j /\ r.m_buffer[j] = v
      BY <1>1, <1>2, <2>2, <3>1 DEF AddFront, RingShape
    <3> HIDE DEF j
    <3>3. CASE i = 1
      <4>1. Wrap(r.m_tail + i - 1, n) = j
        BY <3>1, <3>2, <3>3 DEF Wrap
      <4>2. Content(r)[i] = v
        BY <1>4, <3>2, <4>1
      <4> QED
        BY <4>2
    <3>4. CASE i # 1
      <4>1. i - 1 \in 1..q.m_count /\ (i - 1) + 1 = i
        BY <1>2, <1>3, <3>4
      <4>2. Content(r)[(i - 1) + 1] = Content(q)[i - 1]
        BY <1>1, <2>2, <4>1, AddFrontContent
      <4> QED
        BY <1>1, <4>1, <4>2
    <3> QED
      BY <3>3, <3>4
  <2> QED
    BY <2>1, <2>2
<1> QED
  BY <1>3, <1>5 DEF Stored

LEMMA StoredTake ==
    ASSUME NEW p, NEW q, NEW n \in Nat \ {0}, Stored(p, q, n), ~Empty(q)
    PROVE  /\ Stored(p, RemoveOldest(q), n) /\ RemoveOldest(q).m_count = q.m_count - 1
           /\ RemoveOldest(q).kind = q.kind /\ Oldest(q).blk \in 0..n-1
<1> DEFINE r == RemoveOldest(q)
<1>1. /\ RingShape(q) /\ InOrder(q) /\ q.m_capacity = n /\ q.m_count \in Nat \ {0}
      /\ \A i \in 1..q.m_count : Content(q)[i].blk \in 0..n-1
  BY DEF Stored, RingShape, Empty
<1>2. RingShape(r) /\ r.m_count = q.m_count - 1 /\ r.m_capacity = n /\ r.kind = q.kind
  BY <1>1, RemoveLemma
<1>3. InOrder(r) /\ Oldest(q) = Content(q)[1]
      /\ \A i \in 1..q.m_count-1 : Content(r)[i] = Content(q)[i + 1]
  BY <1>1, RemoveContent
<1> HIDE DEF r
<1>4. \A i \in 1..r.m_count : Content(r)[i].blk \in 0..n-1
  <2>1. \A i \in 1..r.m_count : i \in 1..q.m_count-1 /\ i + 1 \in 1..q.m_count
    BY <1>1, <1>2
  <2> QED
    BY <1>1, <1>3, <2>1
<1>5. Oldest(q).blk \in 0..n-1
  BY <1>1, <1>3
<1>6. Stored(p, r, n)
  BY <1>2, <1>3, <1>4 DEF Stored
<1> QED
  BY <1>2, <1>5, <1>6 DEF r

LEMMA StoredClear ==
    ASSUME NEW p, NEW q, NEW n \in Nat \ {0}, Stored(p, q, n)
    PROVE  Stored(p, Cleared(q), n) /\ Cleared(q).m_count = 0 /\ Cleared(q).kind = q.kind
<1>1. RingShape(q) /\ q.m_capacity = n
  BY DEF Stored
<1>2. /\ RingShape(Cleared(q)) /\ Cleared(q).m_count = 0 /\ Cleared(q).m_capacity = n
      /\ Cleared(q).kind = q.kind /\ InOrder(Cleared(q))
  BY <1>1, ClearedLemma, ClearedContent
<1>3. 1..0 = {}
  OBVIOUS
<1> QED
  BY <1>2, <1>3 DEF Stored

-----------------------------------------------------------------------------
(* What a step of task t does to buffer m.  Blocks move between the free list, the queue
   and the tasks that carry them, and none is lost *)
Weight(m, c, r) == IF HoldsBlock(m, c, r) THEN 1 ELSE 0

(* Task t is in a call on m or in none, and nobody else resets a buffer *)
At(t, m) ==
    /\ t \in Tasks /\ m \in MessageBuffers(The)
    /\ call[t] = NoCall \/ MessageFrame(m, call[t], ret[t])
    /\ \A u \in Tasks \ {t} : call[u].op \notin ResetSteps

Touches(m) ==
    /\ DOMAIN obj' = DOMAIN obj
    /\ \A o \in DOMAIN obj : o \notin {PoolOf(m), QueueOf(m)} => obj'[o] = obj[o]
    /\ \A o \in {PoolOf(m), QueueOf(m)} : obj'[o].kind = obj[o].kind
    /\ Stored(obj'[PoolOf(m)], obj'[QueueOf(m)], The.objects[PoolOf(m)].m_capacity)

(* The blocks that leave the pool less those that get into the queue are with t *)
Keeps(t, m) ==
    obj'[PoolOf(m)].m_used_count + obj[QueueOf(m)].m_count + Weight(m, call[t], ret[t]) =
        obj[PoolOf(m)].m_used_count + obj'[QueueOf(m)].m_count + Weight(m, call'[t], ret'[t])

BufferMove(t, m) ==
    /\ At(t, m) /\ Only(t) /\ Touches(m) /\ Keeps(t, m)
    /\ call'[t] = NoCall \/ MessageFrame(m, call'[t], ret'[t])
    /\ call'[t].op \in ResetSteps =>
          /\ \A u \in Tasks \ {t} : call[u] = NoCall
          /\ call'[t].op = "ResetFree" /\ ret'[t] = <<>> => obj'[QueueOf(m)].m_count = 0

(* The blocks and the envelopes of a buffer are counted *)
LEMMA CountsLemma ==
    ASSUME BuffersOnly, BufferInv, NEW m \in MessageBuffers(The)
    PROVE  /\ {m, PoolOf(m), QueueOf(m)} \subseteq DOMAIN obj /\ PoolOf(m) # QueueOf(m)
           /\ obj[m] = The.objects[m] /\ obj[PoolOf(m)].m_capacity = The.objects[PoolOf(m)].m_capacity
           /\ The.objects[PoolOf(m)].m_capacity \in Nat \ {0}
           /\ Stored(obj[PoolOf(m)], obj[QueueOf(m)], The.objects[PoolOf(m)].m_capacity)
           /\ obj[PoolOf(m)].m_used_count \in Nat /\ obj[QueueOf(m)].m_count \in Nat
<1>1. /\ {m, PoolOf(m), QueueOf(m)} \subseteq DOMAIN The.objects /\ PoolOf(m) # QueueOf(m)
      /\ The.objects[PoolOf(m)].m_capacity \in Nat \ {0}
  BY PartsLemma
<1>2. /\ DOMAIN obj = DOMAIN The.objects /\ obj[m] = The.objects[m]
      /\ Stored(obj[PoolOf(m)], obj[QueueOf(m)], The.objects[PoolOf(m)].m_capacity)
  BY DEF BufferInv, BufferShape
<1>3. obj[PoolOf(m)].m_used_count \in Nat /\ obj[QueueOf(m)].m_count \in Nat
      /\ obj[PoolOf(m)].m_capacity = The.objects[PoolOf(m)].m_capacity
  BY <1>2 DEF Stored, RingShape
<1> QED
  BY <1>1, <1>2, <1>3

(* Who carries a block finds it in use, and room for its envelope *)
LEMMA RoomLemma ==
    ASSUME BuffersOnly, BufferInv, NEW t \in Tasks, NEW m \in MessageBuffers(The),
           HoldsBlock(m, call[t], ret[t])
    PROVE  obj[PoolOf(m)].m_used_count # 0 /\ ~Full(obj[QueueOf(m)])
<1> DEFINE S == Carriers(m)
           p == obj[PoolOf(m)]
           q == obj[QueueOf(m)]
           n == The.objects[PoolOf(m)].m_capacity
<1>1. S \in SUBSET Tasks /\ t \in S
  BY DEF Carriers
<1>2. p.m_used_count = q.m_count + Cardinality(S)
  BY DEF BufferInv, Balanced
<1>3. p.m_used_count \in Nat /\ q.m_count \in Nat /\ n \in Nat /\ Stored(p, q, n)
  BY CountsLemma
<1> HIDE DEF S, p, q, n
<1>4. Cardinality(S) \in Nat /\ Cardinality(S \ {t}) \in Nat /\ Cardinality(S \ {t}) = Cardinality(S) - 1
  BY <1>1, CardinalityLemma
<1>5. q.m_capacity = n /\ p.m_used_count <= n
  <2>1. p.m_free_list \in Seq(0..n-1) /\ p.m_used_count + Len(p.m_free_list) <= n /\ q.m_capacity = n
    BY <1>3 DEF Stored
  <2>2. Len(p.m_free_list) \in Nat
    BY <2>1
  <2> QED
    BY <1>3, <2>1, <2>2
<1>6. p.m_used_count # 0 /\ q.m_count # q.m_capacity
  BY <1>2, <1>3, <1>4, <1>5
<1> QED
  BY <1>6 DEF p, q, Full

LEMMA BufferReturn ==
    ASSUME BufferInv, NEW t \in Tasks, NEW d, NEW v, Return(t, d, v)
    PROVE  /\ Only(t) /\ call'[t] = d.then
           /\ ret'[t] = IF d.then = NoCall /\ d.op \in Unread THEN NULL ELSE v
<1>1. DOMAIN call = Tasks /\ DOMAIN ret = Tasks
  BY DEF BufferInv, BufferShape
<1> QED
  BY <1>1 DEF Return, Goto, Only

LEMMA TouchesNone ==
    ASSUME BuffersOnly, BufferInv, NEW m \in MessageBuffers(The), obj' = obj
    PROVE  Touches(m)
BY CountsLemma DEF Touches

LEMMA TouchesPool ==
    ASSUME BuffersOnly, BufferInv, NEW m \in MessageBuffers(The), NEW r, Set(PoolOf(m), r),
           r.kind = obj[PoolOf(m)].kind,
           Stored(r, obj[QueueOf(m)], The.objects[PoolOf(m)].m_capacity)
    PROVE  Touches(m) /\ obj'[PoolOf(m)] = r /\ obj'[QueueOf(m)] = obj[QueueOf(m)]
BY CountsLemma DEF Touches, Set

LEMMA TouchesQueue ==
    ASSUME BuffersOnly, BufferInv, NEW m \in MessageBuffers(The), NEW r, Set(QueueOf(m), r),
           r.kind = obj[QueueOf(m)].kind,
           Stored(obj[PoolOf(m)], r, The.objects[PoolOf(m)].m_capacity)
    PROVE  Touches(m) /\ obj'[QueueOf(m)] = r /\ obj'[PoolOf(m)] = obj[PoolOf(m)]
BY CountsLemma DEF Touches, Set

(* A call that is over carries nothing *)
LEMMA WeightLemma ==
    ASSUME NEW m, NEW c, NEW r
    PROVE  /\ Weight(m, c, r) \in {0, 1}
           /\ c = NoCall \/ c.op \notin {"MessagePut", "MessageSent"} \cup GotSteps => Weight(m, c, r) = 0
           /\ Weight(m, c, r) = 1 <=> HoldsBlock(m, c, r)
BY DEF Weight, HoldsBlock

(* A function that answers, or refuses *)
LEMMA AnswerMove ==
    ASSUME BuffersOnly, BufferInv, NEW t, NEW m, At(t, m), Weight(m, call[t], ret[t]) = 0,
           NEW c, c.then = NoCall, NEW v, Return(t, c, v), obj' = obj
    PROVE  BufferMove(t, m)
<1>1. t \in Tasks /\ m \in MessageBuffers(The)
  BY DEF At
<1>2. Only(t) /\ call'[t] = NoCall
  BY <1>1, BufferReturn
<1>3. Weight(m, call'[t], ret'[t]) = 0 /\ call'[t].op \notin ResetSteps
  BY <1>2, WeightLemma DEF NoCall, ResetSteps
<1>4. Keeps(t, m)
  BY <1>1, <1>3, CountsLemma DEF Keeps
<1> QED
  BY <1>1, <1>2, <1>3, <1>4, TouchesNone DEF BufferMove

(* A block from the pool *)
LEMMA AllocMove ==
    ASSUME BuffersOnly, BufferInv, NEW t, NEW m, At(t, m), Weight(m, call[t], ret[t]) = 0,
           NEW d, DOMAIN d = FrameFields, d.o = PoolOf(m), TopFrame(m, d.then),
           d.then.op = "MessagePut", PoolAlloc(t, d)
    PROVE  BufferMove(t, m)
<1> DEFINE p == obj[PoolOf(m)]
           n == The.objects[PoolOf(m)].m_capacity
<1>1. t \in Tasks /\ m \in MessageBuffers(The) /\ d.op = "PoolAlloc" /\ d.then # NoCall
      /\ d.then.op \notin ResetSteps
  BY DEF At, PoolAlloc, ResetSteps, NoCall
<1>2. /\ n \in Nat \ {0} /\ Stored(p, obj[QueueOf(m)], n)
      /\ p.m_used_count \in Nat /\ obj[QueueOf(m)].m_count \in Nat
  BY <1>1, CountsLemma
<1>3. CASE Blocks(t, d, p.m_free_list = <<>>, <<d.o, "cv">>, d.ticks) /\ obj' = obj
  <2>1. call' = [call EXCEPT ![t] = [d EXCEPT !.blocked = TRUE]] /\ ret' = ret
    BY <1>3 DEF Blocks, KernelWait, Goto
  <2>2. call'[t] = [d EXCEPT !.blocked = TRUE] /\ Only(t)
    BY <1>1, <2>1 DEF Only, BufferInv, BufferShape
  <2>3. MessageFrame(m, call'[t], ret'[t]) /\ call'[t].op = "PoolAlloc"
    BY <1>1, <2>2 DEF MessageFrame, FrameFields
  <2>4. Weight(m, call'[t], ret'[t]) = 0 /\ call'[t].op \notin ResetSteps
    BY <2>3, WeightLemma DEF ResetSteps, GotSteps
  <2>5. Keeps(t, m)
    BY <1>2, <1>3, <2>4 DEF Keeps
  <2> QED
    BY <1>1, <1>3, <2>2, <2>3, <2>4, <2>5, TouchesNone DEF BufferMove
<1>4. CASE Return(t, d, NULL) /\ obj' = obj
  <2>1. Only(t) /\ call'[t] = d.then /\ ret'[t] = NULL
    BY <1>1, <1>4, BufferReturn
  <2>2. MessageFrame(m, call'[t], ret'[t])
    BY <2>1 DEF MessageFrame
  <2>3. Weight(m, call'[t], ret'[t]) = 0
    BY <2>1 DEF Weight, HoldsBlock, GotSteps
  <2>4. Keeps(t, m)
    BY <1>2, <1>4, <2>3 DEF Keeps
  <2> QED
    BY <1>1, <1>4, <2>1, <2>2, <2>4, TouchesNone DEF BufferMove
<1>5. CASE /\ p.m_free_list # <<>> /\ Set(PoolOf(m), PopFreeList(p))
           /\ Return(t, d, Head(p.m_free_list))
  <2> DEFINE b == Head(p.m_free_list)
  <2>1. /\ Stored(PopFreeList(p), obj[QueueOf(m)], n) /\ b \in 0..n-1
        /\ PopFreeList(p).m_used_count = p.m_used_count + 1 /\ PopFreeList(p).kind = p.kind
    BY <1>2, <1>5, StoredPop
  <2>2. Touches(m) /\ obj'[PoolOf(m)] = PopFreeList(p) /\ obj'[QueueOf(m)] = obj[QueueOf(m)]
    BY <1>1, <1>5, <2>1, TouchesPool
  <2>3. Only(t) /\ call'[t] = d.then /\ ret'[t] = b
    BY <1>1, <1>5, BufferReturn
  <2> HIDE DEF b, p, n
  <2>4. b # NULL
    <3>1. b \in Nat
      BY <1>2, <2>1
    <3> QED
      BY <3>1, ResultsAssumption
  <2>5. MessageFrame(m, call'[t], ret'[t])
    BY <2>1, <2>3 DEF MessageFrame, BlocksOf, n
  <2>6. Weight(m, call'[t], ret'[t]) = 1
    BY <1>1, <2>3, <2>4 DEF Weight, HoldsBlock, TopFrame
  <2>7. Keeps(t, m)
    BY <1>2, <2>1, <2>2, <2>6 DEF Keeps, p
  <2> QED
    BY <1>1, <2>2, <2>3, <2>5, <2>7 DEF BufferMove
<1> QED
  BY <1>3, <1>4, <1>5 DEF PoolAlloc, Proceeds

(* An envelope from the queue *)
LEMMA GetMove ==
    ASSUME BuffersOnly, BufferInv, NEW t, NEW m, At(t, m), Weight(m, call[t], ret[t]) = 0,
           NEW d, DOMAIN d = FrameFields, d.o = QueueOf(m), TopFrame(m, d.then),
           d.then.op \in GotSteps, d.then.op = "MessageGot" \/ (d.ticks = NO_WAIT /\ d.blocked = FALSE),
           d.then.op = "ResetFree" => \A u \in Tasks \ {t} : call[u] = NoCall,
           MessageQueueGet(t, d)
    PROVE  BufferMove(t, m)
<1> DEFINE q == obj[QueueOf(m)]
           n == The.objects[PoolOf(m)].m_capacity
<1>1. t \in Tasks /\ m \in MessageBuffers(The) /\ d.op = "MessageQueueGet" /\ d.then # NoCall
  BY DEF At, MessageQueueGet, GotSteps, NoCall
<1>2. /\ n \in Nat \ {0} /\ Stored(obj[PoolOf(m)], q, n)
      /\ obj[PoolOf(m)].m_used_count \in Nat /\ q.m_count \in Nat
  BY <1>1, CountsLemma
<1>3. CASE Blocks(t, d, Empty(q), NotEmpty(d.o), d.ticks) /\ obj' = obj
  <2>1. call' = [call EXCEPT ![t] = [d EXCEPT !.blocked = TRUE]] /\ ret' = ret /\ d.then.op = "MessageGot"
    BY <1>3 DEF Blocks, KernelWait, Goto
  <2>2. call'[t] = [d EXCEPT !.blocked = TRUE] /\ Only(t)
    BY <1>1, <2>1 DEF Only, BufferInv, BufferShape
  <2>3. MessageFrame(m, call'[t], ret'[t]) /\ call'[t].op = "MessageQueueGet"
    BY <1>1, <2>1, <2>2 DEF MessageFrame, FrameFields
  <2>4. Weight(m, call'[t], ret'[t]) = 0 /\ call'[t].op \notin ResetSteps
    BY <2>3, WeightLemma DEF ResetSteps, GotSteps
  <2>5. Keeps(t, m)
    BY <1>2, <1>3, <2>4 DEF Keeps
  <2> QED
    BY <1>1, <1>3, <2>2, <2>3, <2>4, <2>5, TouchesNone DEF BufferMove
<1>4. CASE GivesUp(t, d, Empty(q), d.ticks) /\ Return(t, d, <<>>) /\ obj' = obj
  <2>1. Only(t) /\ call'[t] = d.then /\ ret'[t] = <<>>
    BY <1>1, <1>4, BufferReturn
  <2>2. MessageFrame(m, call'[t], ret'[t])
    BY <2>1 DEF MessageFrame
  <2>3. Weight(m, call'[t], ret'[t]) = 0
    BY <2>1 DEF Weight, HoldsBlock, GotSteps
  <2>4. Keeps(t, m)
    BY <1>2, <1>4, <2>3 DEF Keeps
  <2>5. call'[t].op = "ResetFree" => obj'[QueueOf(m)].m_count = 0
    BY <1>4, <2>1 DEF GivesUp, TimedOut, Empty
  <2>6. call'[t].op \in ResetSteps => d.then.op = "ResetFree"
    BY <2>1 DEF ResetSteps, GotSteps
  <2> QED
    BY <1>1, <1>4, <2>1, <2>2, <2>4, <2>5, <2>6, TouchesNone DEF BufferMove
<1>5. CASE ~Empty(q) /\ Set(QueueOf(m), RemoveOldest(q)) /\ Return(t, d, <<Oldest(q)>>)
  <2> DEFINE e == Oldest(q)
  <2>1. /\ Stored(obj[PoolOf(m)], RemoveOldest(q), n) /\ e.blk \in 0..n-1
        /\ RemoveOldest(q).m_count = q.m_count - 1 /\ RemoveOldest(q).kind = q.kind
    BY <1>2, <1>5, StoredTake
  <2>2. Touches(m) /\ obj'[QueueOf(m)] = RemoveOldest(q) /\ obj'[PoolOf(m)] = obj[PoolOf(m)]
    BY <1>1, <1>5, <2>1, TouchesQueue
  <2>3. Only(t) /\ call'[t] = d.then /\ ret'[t] = <<e>>
    BY <1>1, <1>5, BufferReturn
  <2> HIDE DEF e, q, n
  <2>4. ret'[t] # <<>>
    BY <2>3
  <2>5. MessageFrame(m, call'[t], ret'[t])
    BY <2>1, <2>3 DEF MessageFrame, BlocksOf, n
  <2>6. Weight(m, call'[t], ret'[t]) = 1
    BY <1>1, <2>3, <2>4 DEF Weight, HoldsBlock, TopFrame
  <2>7. Keeps(t, m)
    BY <1>2, <2>1, <2>2, <2>6 DEF Keeps, q
  <2>8. call'[t].op \in ResetSteps => d.then.op = "ResetFree"
    BY <2>3 DEF ResetSteps, GotSteps
  <2> QED
    BY <1>1, <2>2, <2>3, <2>4, <2>5, <2>7, <2>8 DEF BufferMove
<1> QED
  BY <1>3, <1>4, <1>5 DEF MessageQueueGet, Proceeds

(* An envelope into the queue, for a task that carries its block *)
LEMMA PutMove ==
    ASSUME BuffersOnly, BufferInv, NEW t, NEW m, At(t, m), HoldsBlock(m, call[t], ret[t]),
           NEW d, d.o = QueueOf(m), d.blocked = FALSE, d.x.blk \in BlocksOf(m),
           NEW r \in {Add(obj[d.o], d.x), AddFront(obj[d.o], d.x)}, PutWith(t, d, r),
           d.then = NoCall \/ (d.then.op = "MessageSent" /\ MessageFrame(m, d.then, OK))
    PROVE  BufferMove(t, m)
<1> DEFINE q == obj[QueueOf(m)]
           n == The.objects[PoolOf(m)].m_capacity
<1>1. t \in Tasks /\ m \in MessageBuffers(The) /\ Weight(m, call[t], ret[t]) = 1
  BY DEF At, Weight
<1>2. /\ n \in Nat \ {0} /\ Stored(obj[PoolOf(m)], q, n)
      /\ obj[PoolOf(m)].m_used_count \in Nat /\ q.m_count \in Nat /\ ~Full(q)
  BY <1>1, CountsLemma, RoomLemma
<1>3. Set(QueueOf(m), r) /\ Return(t, d, OK)
  BY <1>2 DEF PutWith, Blocks, GivesUp, TimedOut
<1>4. Stored(obj[PoolOf(m)], r, n) /\ r.m_count = q.m_count + 1 /\ r.kind = q.kind
  BY <1>2, StoredAdd DEF BlocksOf
<1>5. Touches(m) /\ obj'[QueueOf(m)] = r /\ obj'[PoolOf(m)] = obj[PoolOf(m)]
  BY <1>1, <1>3, <1>4, TouchesQueue
<1>6. Only(t) /\ call'[t] = d.then /\ (d.then # NoCall => ret'[t] = OK)
  BY <1>1, <1>3, BufferReturn
<1>7. Weight(m, call'[t], ret'[t]) = 0 /\ call'[t].op \notin ResetSteps
  <2>1. CASE d.then = NoCall
    BY <1>6, <2>1, WeightLemma DEF NoCall, ResetSteps
  <2>2. CASE d.then # NoCall /\ d.then.op = "MessageSent"
    BY <1>6, <2>2 DEF Weight, HoldsBlock, ResetSteps, GotSteps
  <2> QED
    BY <2>1, <2>2 DEF NoCall
<1>8. call'[t] = NoCall \/ MessageFrame(m, call'[t], ret'[t])
  BY <1>6
<1> HIDE DEF q, n
<1>9. Keeps(t, m)
  BY <1>1, <1>2, <1>4, <1>5, <1>7 DEF Keeps, q
<1> QED
  BY <1>5, <1>6, <1>7, <1>8, <1>9 DEF BufferMove

(* The block that a task carries, back into the pool *)
LEMMA FreeMove ==
    ASSUME BuffersOnly, BufferInv, NEW t, NEW m, At(t, m), HoldsBlock(m, call[t], ret[t]),
           NEW d, d.o = PoolOf(m), d.x \in BlocksOf(m), PoolFree(t, d),
           \/ d.then = NoCall
           \/ /\ d.then.op = "xMessageBufferReset" /\ TopFrame(m, d.then)
              /\ \A u \in Tasks \ {t} : call[u] = NoCall
    PROVE  BufferMove(t, m)
<1> DEFINE p == obj[PoolOf(m)]
           n == The.objects[PoolOf(m)].m_capacity
           r == PushFreeList(p, d.x)
<1>1. t \in Tasks /\ m \in MessageBuffers(The) /\ Weight(m, call[t], ret[t]) = 1
  BY DEF At, Weight
<1>2. /\ n \in Nat \ {0} /\ Stored(p, obj[QueueOf(m)], n) /\ p.m_capacity = n
      /\ p.m_used_count \in Nat /\ p.m_used_count # 0 /\ obj[QueueOf(m)].m_count \in Nat
  BY <1>1, CountsLemma, RoomLemma
<1>3. Set(PoolOf(m), r) /\ Return(t, d, OK)
  BY <1>2 DEF PoolFree, BlocksOf
<1>4. Stored(r, obj[QueueOf(m)], n) /\ r.m_used_count = p.m_used_count - 1 /\ r.kind = p.kind
  BY <1>2, StoredPush DEF BlocksOf
<1>5. Touches(m) /\ obj'[PoolOf(m)] = r /\ obj'[QueueOf(m)] = obj[QueueOf(m)]
  BY <1>1, <1>3, <1>4, TouchesPool
<1>6. Only(t) /\ call'[t] = d.then
  BY <1>1, <1>3, BufferReturn
<1>7. Weight(m, call'[t], ret'[t]) = 0
  BY <1>6, WeightLemma DEF NoCall, GotSteps
<1>8. call'[t] = NoCall \/ MessageFrame(m, call'[t], ret'[t])
  BY <1>6 DEF MessageFrame
<1>9. call'[t].op \in ResetSteps => call'[t].op # "ResetFree" /\ \A u \in Tasks \ {t} : call[u] = NoCall
  BY <1>6 DEF NoCall, ResetSteps
<1> HIDE DEF p, n, r
<1>10. Keeps(t, m)
  BY <1>1, <1>2, <1>4, <1>5, <1>7 DEF Keeps, p
<1> QED
  BY <1>5, <1>6, <1>8, <1>9, <1>10 DEF BufferMove

(* The end of a reset *)
LEMMA ClearQueueMove ==
    ASSUME BuffersOnly, BufferInv, NEW t, NEW m, At(t, m), Weight(m, call[t], ret[t]) = 0,
           obj[QueueOf(m)].m_count = 0,
           NEW d, d.o = QueueOf(m), d.then = NoCall, MessageQueueReset(t, d)
    PROVE  BufferMove(t, m)
<1> DEFINE q == obj[QueueOf(m)]
           n == The.objects[PoolOf(m)].m_capacity
<1>1. t \in Tasks /\ m \in MessageBuffers(The)
  BY DEF At
<1>2. /\ n \in Nat \ {0} /\ Stored(obj[PoolOf(m)], q, n) /\ obj[PoolOf(m)].m_used_count \in Nat
  BY <1>1, CountsLemma
<1>3. Set(QueueOf(m), Cleared(q)) /\ Return(t, d, OK)
  BY DEF MessageQueueReset
<1>4. Stored(obj[PoolOf(m)], Cleared(q), n) /\ Cleared(q).m_count = 0 /\ Cleared(q).kind = q.kind
  BY <1>2, StoredClear
<1>5. Touches(m) /\ obj'[QueueOf(m)] = Cleared(q) /\ obj'[PoolOf(m)] = obj[PoolOf(m)]
  BY <1>1, <1>3, <1>4, TouchesQueue
<1>6. Only(t) /\ call'[t] = NoCall
  BY <1>1, <1>3, BufferReturn
<1>7. Weight(m, call'[t], ret'[t]) = 0 /\ call'[t].op \notin ResetSteps
  BY <1>6, WeightLemma DEF NoCall, ResetSteps
<1>8. Keeps(t, m)
  BY <1>2, <1>4, <1>5, <1>7 DEF Keeps
<1> QED
  BY <1>5, <1>6, <1>7, <1>8 DEF BufferMove

-----------------------------------------------------------------------------
(* A function that a task calls *)
LEMMA MessageCall ==
    ASSUME BuffersOnly, BufferInv, NEW t, NEW m, At(t, m), Weight(m, call[t], ret[t]) = 0,
           NEW c, TopFrame(m, c), MessageBufferCalls(t, c),
           c.op \in MessageOps,
           c.op \in {"xMessageBufferReset", "xMessageBufferResetFromISR"} =>
              \A u \in Tasks \ {t} : call[u] = NoCall
    PROVE  BufferMove(t, m)
<1>1. m \in MessageBuffers(The) /\ c.o = m /\ c.then = NoCall
  BY DEF At, TopFrame
<1>2. obj[c.o].m_pool = PoolOf(m) /\ obj[c.o].m_eq = QueueOf(m)
  BY <1>1, CountsLemma DEF PoolOf, QueueOf
<1>3. ASSUME NEW n \in {Native(c, "PoolAlloc"), TryNative(c, "PoolAlloc")}, SendFrom(t, c, n)
      PROVE  BufferMove(t, m)
  <2> DEFINE d == Calling([n EXCEPT !.o = PoolOf(m)], Then(c, "MessagePut"))
  <2>1. CASE Refuse(t, c)
    BY <1>1, <2>1, AnswerMove DEF Refuse, Answers
  <2>2. CASE PoolAlloc(t, d)
    <3>1. DOMAIN d = FrameFields /\ d.o = PoolOf(m) /\ TopFrame(m, d.then) /\ d.then.op = "MessagePut"
      BY DEF TopFrame, Native, TryNative, Calling, Then, FrameFields
    <3> HIDE DEF d
    <3> QED
      BY <2>2, <3>1, AllocMove
  <2> QED
    BY <1>2, <1>3, <2>1, <2>2 DEF SendFrom
<1>4. CASE xMessageBufferSend(t, c) \/ xMessageBufferSendFromISR(t, c)
  BY <1>3, <1>4 DEF xMessageBufferSend, xMessageBufferSendFromISR
<1>5. CASE xMessageBufferReceive(t, c)
  <2> DEFINE d == Calling([Native(c, "MessageQueueGet") EXCEPT !.o = QueueOf(m)], Then(c, "MessageGot"))
  <2>1. DOMAIN d = FrameFields /\ d.o = QueueOf(m) /\ TopFrame(m, d.then) /\ d.then.op = "MessageGot"
    BY DEF TopFrame, Native, TryNative, Calling, Then, FrameFields
  <2>2. MessageQueueGet(t, d)
    BY <1>2, <1>5 DEF xMessageBufferReceive
  <2> HIDE DEF d
  <2> QED
    BY <2>1, <2>2, GetMove DEF GotSteps
<1>6. ASSUME NEW next \in {"MessageGotFromISR", "ResetFree"},
             MessageQueueGet(t, Calling([TryNative(c, "MessageQueueGet") EXCEPT !.o = obj[c.o].m_eq],
                                        Then(c, next))),
             next = "ResetFree" => \A u \in Tasks \ {t} : call[u] = NoCall
      PROVE  BufferMove(t, m)
  <2> DEFINE d == Calling([TryNative(c, "MessageQueueGet") EXCEPT !.o = QueueOf(m)], Then(c, next))
  <2>1. /\ DOMAIN d = FrameFields /\ d.o = QueueOf(m) /\ TopFrame(m, d.then) /\ d.then.op = next
        /\ d.ticks = NO_WAIT /\ d.blocked = FALSE
    BY DEF TopFrame, Native, TryNative, Calling, Then, FrameFields
  <2>2. MessageQueueGet(t, d)
    BY <1>2, <1>6
  <2> HIDE DEF d
  <2> QED
    BY <1>6, <2>1, <2>2, GetMove DEF GotSteps
<1>7. CASE xMessageBufferReceiveFromISR(t, c)
  BY <1>6, <1>7 DEF xMessageBufferReceiveFromISR
<1>8. CASE xMessageBufferReset(t, c) \/ xMessageBufferResetFromISR(t, c)
  BY <1>6, <1>8 DEF xMessageBufferReset, xMessageBufferResetFromISR, ResetNext
<1>9. CASE xMessageBufferNextLengthBytes(t, c)
  <2> DEFINE d == [TryNative(c, "MessageQueuePeek") EXCEPT !.o = QueueOf(m)]
  <2>1. d.then = NoCall /\ d.ticks = NO_WAIT
    BY DEF TopFrame, TryNative, FrameFields
  <2>2. MessageQueuePeek(t, d)
    BY <1>2, <1>9 DEF xMessageBufferNextLengthBytes
  <2> HIDE DEF d
  <2>3. obj' = obj /\ \E v : Return(t, d, v)
    BY <2>1, <2>2 DEF MessageQueuePeek, Blocks
  <2> QED
    BY <2>1, <2>3, AnswerMove
<1>10. CASE \/ xMessageBufferIsEmpty(t, c) \/ xMessageBufferIsFull(t, c)
            \/ xMessageBufferSpacesAvailable(t, c)
  <2>1. obj' = obj /\ \E v : Return(t, c, v)
    BY <1>10 DEF xMessageBufferIsEmpty, xMessageBufferIsFull, xMessageBufferSpacesAvailable, Answers
  <2> QED
    BY <1>1, <2>1, AnswerMove
<1>11. c.op \notin {"MessagePut", "MessageSent", "MessageGot", "MessageGotFromISR", "ResetFree",
                    "vMessageBufferDelete", "xMessageBufferCreate", "xMessageBufferCreateWithCallback",
                    "xMessageBufferCreateStatic", "xMessageBufferCreateStaticWithCallback"}
  BY DEF MessageOps
<1> QED
  BY <1>4, <1>5, <1>7, <1>8, <1>9, <1>10, <1>11 DEF MessageBufferCalls, MessagePut, MessageSent,
     MessageGot, MessageGotFromISR, ResetFree, vMessageBufferDelete, xMessageBufferCreate,
     xMessageBufferCreateWithCallback, xMessageBufferCreateStatic,
     xMessageBufferCreateStaticWithCallback

(* A function goes on after the step that it called *)
LEMMA MessagePutMove ==
    ASSUME BuffersOnly, BufferInv, NEW t, NEW m, At(t, m), NEW c, c = call[t], TopFrame(m, c),
           ret[t] \in {NULL} \cup BlocksOf(m), MessagePut(t, c)
    PROVE  BufferMove(t, m)
<1> DEFINE e == [len |-> c.x, blk |-> ret[t]]
           g == [Then(c, "MessageSent") EXCEPT !.acc = <<ret[t]>>]
           d == Calling([TryNative(c, "MessageQueuePut") EXCEPT !.o = QueueOf(m), !.x = e], g)
<1>1. m \in MessageBuffers(The) /\ c.o = m /\ c.then = NoCall /\ c # NoCall /\ c.op = "MessagePut"
  BY DEF At, TopFrame, MessagePut, NoCall
<1>2. obj[c.o].m_eq = QueueOf(m)
  BY <1>1, CountsLemma DEF QueueOf
<1>3. CASE ret[t] = NULL
  <2>1. Weight(m, call[t], ret[t]) = 0
    BY <1>1, <1>3 DEF Weight, HoldsBlock, GotSteps
  <2> QED
    BY <1>1, <1>3, <2>1, AnswerMove DEF MessagePut, Refuse, Answers
<1>4. CASE ret[t] # NULL
  <2>1. HoldsBlock(m, call[t], ret[t]) /\ ret[t] \in BlocksOf(m)
    BY <1>1, <1>4 DEF HoldsBlock
  <2>2. MessageQueuePut(t, d)
    BY <1>2, <1>4 DEF MessagePut
  <2>3. /\ d.o = QueueOf(m) /\ d.blocked = FALSE /\ d.x.blk = ret[t]
        /\ d.then.op = "MessageSent" /\ TopFrame(m, d.then) /\ d.then.acc = <<ret[t]>>
    BY DEF TopFrame, TryNative, Calling, Then, FrameFields
  <2> HIDE DEF d
  <2>4. MessageFrame(m, d.then, OK)
    BY <2>1, <2>3 DEF MessageFrame
  <2>5. PutWith(t, d, Add(obj[d.o], d.x))
    BY <2>2 DEF MessageQueuePut
  <2> QED
    BY <2>1, <2>3, <2>4, <2>5, PutMove
<1> QED
  BY <1>3, <1>4

(* The task frees the block that it carries *)
LEMMA FreesMove ==
    ASSUME BuffersOnly, BufferInv, NEW t, NEW m, At(t, m), NEW c, TopFrame(m, c),
           HoldsBlock(m, call[t], ret[t]), NEW b \in BlocksOf(m),
           PoolFree(t, [TryNative(c, "PoolFree") EXCEPT !.o = obj[c.o].m_pool, !.x = b])
    PROVE  BufferMove(t, m)
<1> DEFINE d == [TryNative(c, "PoolFree") EXCEPT !.o = PoolOf(m), !.x = b]
<1>1. m \in MessageBuffers(The) /\ c.o = m
  BY DEF At, TopFrame
<1>2. obj[c.o].m_pool = PoolOf(m)
  BY <1>1, CountsLemma DEF PoolOf
<1>3. PoolFree(t, d)
  BY <1>2
<1>4. d.o = PoolOf(m) /\ d.x = b /\ d.then = NoCall
  BY DEF TopFrame, TryNative, FrameFields
<1> HIDE DEF d
<1> QED
  BY <1>3, <1>4, FreeMove

LEMMA MessageSentMove ==
    ASSUME BuffersOnly, BufferInv, NEW t, NEW m, At(t, m), NEW c, c = call[t], TopFrame(m, c),
           NEW b \in BlocksOf(m), c.acc = <<b>>, MessageSent(t, c)
    PROVE  BufferMove(t, m)
<1>1. c.o = m /\ c.then = NoCall /\ c # NoCall /\ c.op = "MessageSent" /\ c.acc[1] = b
  BY DEF TopFrame, MessageSent, NoCall
<1>2. CASE ret[t] = OK
  <2>1. Weight(m, call[t], ret[t]) = 0
    BY <1>1, <1>2 DEF Weight, HoldsBlock, GotSteps
  <2> QED
    BY <1>1, <1>2, <2>1, AnswerMove DEF MessageSent
<1>3. CASE ret[t] # OK
  <2>1. HoldsBlock(m, call[t], ret[t])
    BY <1>1, <1>3 DEF HoldsBlock
  <2> QED
    BY <1>1, <1>3, <2>1, FreesMove DEF MessageSent
<1> QED
  BY <1>2, <1>3

LEMMA MessageGotMove ==
    ASSUME BuffersOnly, BufferInv, NEW t, NEW m, At(t, m), NEW c, c = call[t], TopFrame(m, c),
           ret[t] = <<>> \/ \E e : e.blk \in BlocksOf(m) /\ ret[t] = <<e>>,
           MessageGot(t, c) \/ MessageGotFromISR(t, c)
    PROVE  BufferMove(t, m)
<1>1. m \in MessageBuffers(The) /\ c.o = m /\ c.then = NoCall /\ c # NoCall
      /\ c.op \in {"MessageGot", "MessageGotFromISR"}
  BY DEF At, TopFrame, MessageGot, MessageGotFromISR, NoCall
<1>2. obj[c.o].m_eq = QueueOf(m)
  BY <1>1, CountsLemma DEF QueueOf
<1>3. CASE ret[t] = <<>>
  <2>1. Weight(m, call[t], ret[t]) = 0
    BY <1>1, <1>3 DEF Weight, HoldsBlock, GotSteps
  <2>2. Refuse(t, c)
    BY <1>3 DEF MessageGot, MessageGotFromISR, Deliver
  <2> QED
    BY <1>1, <2>1, <2>2, AnswerMove DEF Refuse, Answers
<1>4. CASE ret[t] # <<>>
  <2>1. PICK e : e.blk \in BlocksOf(m) /\ ret[t] = <<e>>
    BY <1>4
  <2>2. HoldsBlock(m, call[t], ret[t]) /\ ret[t][1] = e
    BY <1>1, <1>4, <2>1 DEF HoldsBlock, GotSteps
  <2> DEFINE d(op) == [TryNative(c, op) EXCEPT !.o = QueueOf(m), !.x = e]
  <2>3. \/ MessageQueuePut(t, d("MessageQueuePut"))
        \/ MessageQueuePutFront(t, d("MessageQueuePutFront"))
        \/ PoolFree(t, [TryNative(c, "PoolFree") EXCEPT !.o = obj[c.o].m_pool, !.x = e.blk])
    BY <1>2, <1>4, <2>2 DEF MessageGot, MessageGotFromISR, Deliver
  <2>4. \A op : d(op).o = QueueOf(m) /\ d(op).x = e /\ d(op).blocked = FALSE /\ d(op).then = NoCall
    BY DEF TopFrame, TryNative, FrameFields
  <2> HIDE DEF d
  <2>5. CASE MessageQueuePut(t, d("MessageQueuePut"))
    BY <2>1, <2>2, <2>4, <2>5, PutMove DEF MessageQueuePut
  <2>6. CASE MessageQueuePutFront(t, d("MessageQueuePutFront"))
    BY <2>1, <2>2, <2>4, <2>6, PutMove DEF MessageQueuePutFront
  <2> QED
    BY <2>1, <2>2, <2>3, <2>5, <2>6, FreesMove
<1> QED
  BY <1>3, <1>4

LEMMA ResetFreeMove ==
    ASSUME BuffersOnly, BufferInv, NEW t, NEW m, At(t, m), NEW c, c = call[t], TopFrame(m, c),
           ret[t] = <<>> \/ \E e : e.blk \in BlocksOf(m) /\ ret[t] = <<e>>, ResetFree(t, c)
    PROVE  BufferMove(t, m)
<1>1. /\ t \in Tasks /\ m \in MessageBuffers(The) /\ c.o = m /\ c.then = NoCall /\ c # NoCall
      /\ c.op = "ResetFree"
  BY DEF At, TopFrame, ResetFree, NoCall
<1>2. obj[c.o].m_eq = QueueOf(m) /\ obj[c.o].m_pool = PoolOf(m)
  BY <1>1, CountsLemma DEF QueueOf, PoolOf
<1>3. /\ \A u \in Tasks \ {t} : call[u] = NoCall
      /\ ret[t] = <<>> => obj[QueueOf(m)].m_count = 0
  BY <1>1 DEF BufferInv, ResetAlone, ResetSteps
<1>4. CASE ret[t] = <<>>
  <2> DEFINE d == [TryNative(c, "MessageQueueReset") EXCEPT !.o = QueueOf(m)]
  <2>1. Weight(m, call[t], ret[t]) = 0
    BY <1>1, <1>4 DEF Weight, HoldsBlock, GotSteps
  <2>2. MessageQueueReset(t, d)
    BY <1>2, <1>4 DEF ResetFree
  <2>3. d.o = QueueOf(m) /\ d.then = NoCall
    BY DEF TopFrame, TryNative, FrameFields
  <2> HIDE DEF d
  <2> QED
    BY <1>3, <1>4, <2>1, <2>2, <2>3, ClearQueueMove
<1>5. CASE ret[t] # <<>>
  <2>1. PICK e : e.blk \in BlocksOf(m) /\ ret[t] = <<e>>
    BY <1>5
  <2>2. HoldsBlock(m, call[t], ret[t]) /\ ret[t][1] = e
    BY <1>1, <1>5, <2>1 DEF HoldsBlock, GotSteps
  <2> DEFINE d == Calling([TryNative(c, "PoolFree") EXCEPT !.o = PoolOf(m), !.x = e.blk],
                          Then(c, "xMessageBufferReset"))
  <2>3. PoolFree(t, d)
    BY <1>2, <1>5, <2>2 DEF ResetFree
  <2>4. /\ d.o = PoolOf(m) /\ d.x = e.blk
        /\ d.then.op = "xMessageBufferReset" /\ TopFrame(m, d.then)
    BY DEF TopFrame, TryNative, Calling, Then, FrameFields
  <2> HIDE DEF d
  <2> QED
    BY <1>3, <2>1, <2>2, <2>3, <2>4, FreeMove
<1> QED
  BY <1>4, <1>5

-----------------------------------------------------------------------------
LEMMA BufferSteps ==
    ASSUME BuffersOnly, NEW t, NEW c, Step(t, c)
    PROVE  /\ c.op \in MessageOps \cup GotSteps \cup {"MessagePut", "MessageSent"} =>
                 MessageBufferCalls(t, c)
           /\ c.op = "PoolAlloc" => PoolAlloc(t, c)
           /\ c.op = "MessageQueueGet" => MessageQueueGet(t, c)
<1>1. The.uses \subseteq {"MessageQueue", "Pipe", "BlockMemoryPool", "FreeRTOSBuffer"}
  BY DEF BuffersOnly, BufferProgram
<1>2. \/ MessageQueueStep(t, c) \/ PipeStep(t, c) \/ PoolStep(t, c) \/ Awake(t, c)
      \/ FreeRTOSBufferStep(t, c)
  BY <1>1 DEF Step, NativeStep, Uses
<1> DEFINE PipeOps == {"PipeWrite", "PipeRead", "PipeReset", "PipeWriteBulk", "PipeWriteLoop",
                       "PipeReadBulk", "PipeReadLoop", "PipeReadTriggered", "PipeTriggerLoop",
                       "PipeTWrite", "PipeTRead", "PipeTReset", "PipeTWriteBulk", "PipeTReadBulk"}
           StreamOps == {"xStreamBufferCreate", "xStreamBufferCreateStatic",
                         "xStreamBufferCreateWithCallback", "xStreamBufferCreateStaticWithCallback",
                         "vStreamBufferDelete", "xStreamBufferSend", "xStreamBufferSendFromISR",
                         "xStreamBufferReceive", "xStreamBufferReceiveFromISR", "xStreamBufferReset",
                         "xStreamBufferResetFromISR", "xStreamBufferSetTriggerLevel",
                         "xStreamBufferBytesAvailable", "xStreamBufferSpacesAvailable",
                         "xStreamBufferIsEmpty", "xStreamBufferIsFull",
                         "xStreamBufferGetTriggerLevel", "xStreamBufferNextMessageLengthBytes"}
           BufferOps == MessageOps \cup GotSteps \cup {"MessagePut", "MessageSent",
                         "xMessageBufferCreate", "xMessageBufferCreateWithCallback",
                         "xMessageBufferCreateStatic", "xMessageBufferCreateStaticWithCallback",
                         "vMessageBufferDelete"}
<1>3. PipeStep(t, c) => c.op \in PipeOps
  BY DEF PipeStep, PipeWrite, PipeRead, PipeReset, PipeWriteBulk, PipeWriteLoop, PipeReadBulk,
     PipeReadLoop, PipeReadTriggered, PipeTriggerLoop, PipeTWrite, PipeTRead, PipeTReset,
     PipeTWriteBulk, PipeTReadBulk
<1>4. StreamBufferCalls(t, c) => c.op \in StreamOps
  BY DEF StreamBufferCalls, xStreamBufferCreate, xStreamBufferCreateStatic,
     xStreamBufferCreateWithCallback, xStreamBufferCreateStaticWithCallback, vStreamBufferDelete,
     xStreamBufferSend, xStreamBufferSendFromISR, xStreamBufferReceive,
     xStreamBufferReceiveFromISR, xStreamBufferReset, xStreamBufferResetFromISR,
     xStreamBufferSetTriggerLevel, xStreamBufferBytesAvailable, xStreamBufferSpacesAvailable,
     xStreamBufferIsEmpty, xStreamBufferIsFull, xStreamBufferGetTriggerLevel,
     xStreamBufferNextMessageLengthBytes
<1>5. MessageBufferCalls(t, c) => c.op \in BufferOps
  BY DEF MessageBufferCalls, xMessageBufferCreate, xMessageBufferCreateWithCallback,
     xMessageBufferCreateStatic, xMessageBufferCreateStaticWithCallback, vMessageBufferDelete,
     xMessageBufferSend, xMessageBufferSendFromISR, MessagePut, MessageSent, xMessageBufferReceive,
     xMessageBufferReceiveFromISR, MessageGot, MessageGotFromISR, xMessageBufferReset,
     xMessageBufferResetFromISR, ResetFree, xMessageBufferNextLengthBytes, xMessageBufferIsEmpty,
     xMessageBufferIsFull, xMessageBufferSpacesAvailable, MessageOps, GotSteps
<1>6. /\ MessageQueueStep(t, c) =>
            /\ c.op \in {"MessageQueuePut", "MessageQueuePutFront", "MessageQueueGet",
                         "MessageQueuePeek", "MessageQueueReset"}
            /\ c.op = "MessageQueueGet" => MessageQueueGet(t, c)
      /\ PoolStep(t, c) => c.op \in {"PoolAlloc", "PoolFree"} /\ (c.op = "PoolAlloc" => PoolAlloc(t, c))
      /\ Awake(t, c) => c.op = "Awake"
  BY DEF MessageQueueStep, MessageQueuePut, MessageQueuePutFront, MessageQueueGet, MessageQueuePeek,
     MessageQueueReset, PoolStep, PoolAlloc, PoolFree, Awake
<1>7. ASSUME c.op \in MessageOps \cup GotSteps \cup {"MessagePut", "MessageSent"}
      PROVE  MessageBufferCalls(t, c)
  <2>1. c.op \notin PipeOps \cup StreamOps
    BY <1>7 DEF MessageOps, GotSteps
  <2>2. c.op \notin {"MessageQueuePut", "MessageQueuePutFront", "MessageQueueGet", "MessageQueuePeek",
                     "MessageQueueReset", "PoolAlloc", "PoolFree", "Awake"}
    BY <1>7 DEF MessageOps, GotSteps
  <2> HIDE DEF PipeOps, StreamOps, BufferOps
  <2> QED
    BY <1>2, <1>3, <1>4, <1>6, <2>1, <2>2 DEF FreeRTOSBufferStep
<1>8. ASSUME c.op \in {"PoolAlloc", "MessageQueueGet"}
      PROVE  MessageQueueStep(t, c) \/ PoolStep(t, c)
  <2>1. c.op \notin PipeOps \cup StreamOps \cup BufferOps /\ c.op # "Awake"
    BY <1>8 DEF MessageOps, GotSteps
  <2> HIDE DEF PipeOps, StreamOps, BufferOps
  <2> QED
    BY <1>2, <1>3, <1>4, <1>5, <1>6, <2>1 DEF FreeRTOSBufferStep
<1>9. /\ c.op = "PoolAlloc" => PoolAlloc(t, c)
      /\ c.op = "MessageQueueGet" => MessageQueueGet(t, c)
  BY <1>6, <1>8
<1> QED
  BY <1>7, <1>9

LEMMA BeginsBuffer ==
    ASSUME BuffersOnly, BufferInv, NEW t \in Tasks, Begin(t)
    PROVE  \E m \in MessageBuffers(The) : BufferMove(t, m)
<1>1. PICK c \in The.calls[t] : Idle(t) /\ CallerMay(t, c) /\ Step(t, c)
  BY DEF Begin
<1>2. c = Frame(c.op, c.o, c.x, c.ticks) /\ c.o \in MessageBuffers(The) /\ c.op \in MessageOps
  <2>1. BufferProgram(The)
    BY DEF BuffersOnly
  <2> HIDE DEF The
  <2> QED
    BY <2>1 DEF BufferProgram
<1> DEFINE m == c.o
<1>3. TopFrame(m, c)
  BY <1>2 DEF TopFrame, Frame, FrameFields
<1>4. /\ call[t] = NoCall /\ \A u \in Tasks : call[u].op \notin ResetSteps
      /\ c.op \in {"xMessageBufferReset", "xMessageBufferResetFromISR"} => Alone(t)
  BY <1>1 DEF Idle, CallerMay, FreeRTOSMay, ResetSteps
<1>5. \A u \in Tasks : call[u].op # "PipeTRead"
  <2>1. \A u \in Tasks : call[u] = NoCall \/ \E k \in MessageBuffers(The) : MessageFrame(k, call[u], ret[u])
    BY DEF BufferInv, BufferShape
  <2> QED
    BY <2>1 DEF NoCall, MessageFrame, GotSteps
<1>6. c.op \in {"xMessageBufferReset", "xMessageBufferResetFromISR"} =>
         \A u \in Tasks \ {t} : call[u] = NoCall
  BY <1>4, <1>5 DEF Alone, Idle
<1>7. At(t, m) /\ Weight(m, call[t], ret[t]) = 0
  BY <1>2, <1>4, WeightLemma DEF At
<1>8. MessageBufferCalls(t, c)
  BY <1>1, <1>2, BufferSteps
<1>9. BufferMove(t, m)
  BY <1>2, <1>3, <1>6, <1>7, <1>8, MessageCall
<1> QED
  BY <1>2, <1>9

LEMMA ContinuesBuffer ==
    ASSUME BuffersOnly, BufferInv, NEW t \in Tasks, Continue(t)
    PROVE  \E m \in MessageBuffers(The) : BufferMove(t, m)
<1> DEFINE c == call[t]
<1>1. c # NoCall /\ Step(t, c)
  BY DEF Continue, Idle
<1>2. PICK m \in MessageBuffers(The) : MessageFrame(m, c, ret[t])
  BY <1>1 DEF BufferInv, BufferShape
<1>3. \A u \in Tasks \ {t} : call[u].op \notin ResetSteps
  <2>1. \A u \in Tasks : call[u].op \in ResetSteps => \A w \in Tasks \ {u} : call[w] = NoCall
    BY DEF BufferInv, ResetAlone
  <2> QED
    BY <1>1, <2>1
<1>4. At(t, m)
  BY <1>2, <1>3 DEF At
<1>5. CASE c.op \in {"PoolAlloc", "MessageQueueGet"}
  <2>1. Weight(m, call[t], ret[t]) = 0
    BY <1>5, WeightLemma DEF GotSteps
  <2>2. /\ DOMAIN c = FrameFields /\ TopFrame(m, c.then)
        /\ c.op = "PoolAlloc" => c.o = PoolOf(m) /\ c.then.op = "MessagePut"
        /\ c.op = "MessageQueueGet" => c.o = QueueOf(m) /\ c.then.op = "MessageGot"
    BY <1>2, <1>5 DEF MessageFrame, GotSteps
  <2>3. (c.op = "PoolAlloc" => PoolAlloc(t, c)) /\ (c.op = "MessageQueueGet" => MessageQueueGet(t, c))
    BY <1>1, BufferSteps
  <2> HIDE DEF c
  <2>4. BufferMove(t, m)
    BY <1>4, <1>5, <2>1, <2>2, <2>3, AllocMove, GetMove DEF GotSteps
  <2> QED
    BY <2>4
<1>6. CASE c.op \notin {"PoolAlloc", "MessageQueueGet"}
  <2>1. /\ TopFrame(m, c)
        /\ \/ c.op = "MessagePut" /\ ret[t] \in {NULL} \cup BlocksOf(m)
           \/ c.op = "MessageSent" /\ \E b \in BlocksOf(m) : c.acc = <<b>>
           \/ /\ c.op \in GotSteps
              /\ ret[t] = <<>> \/ \E e : e.blk \in BlocksOf(m) /\ ret[t] = <<e>>
           \/ c.op = "xMessageBufferReset"
    BY <1>2, <1>6 DEF MessageFrame
  <2>2. MessageBufferCalls(t, c)
    BY <1>1, <2>1, BufferSteps DEF MessageOps
  <2>3. /\ c.op = "MessagePut" => MessagePut(t, c)
        /\ c.op = "MessageSent" => MessageSent(t, c)
        /\ c.op \in {"MessageGot", "MessageGotFromISR"} => MessageGot(t, c) \/ MessageGotFromISR(t, c)
        /\ c.op = "ResetFree" => ResetFree(t, c)
    <3> HIDE DEF c
    <3> QED
      BY <2>2 DEF MessageBufferCalls, xMessageBufferCreate, xMessageBufferCreateWithCallback,
         xMessageBufferCreateStatic, xMessageBufferCreateStaticWithCallback, vMessageBufferDelete,
         xMessageBufferSend, xMessageBufferSendFromISR, MessagePut, MessageSent,
         xMessageBufferReceive, xMessageBufferReceiveFromISR, MessageGot, MessageGotFromISR,
         xMessageBufferReset, xMessageBufferResetFromISR, ResetFree,
         xMessageBufferNextLengthBytes, xMessageBufferIsEmpty, xMessageBufferIsFull,
         xMessageBufferSpacesAvailable
  <2>4. CASE c.op = "xMessageBufferReset"
    <3>1. Weight(m, call[t], ret[t]) = 0
      BY <2>4, WeightLemma DEF GotSteps
    <3>2. \A u \in Tasks \ {t} : call[u] = NoCall
      BY <2>4 DEF BufferInv, ResetAlone, ResetSteps
    <3>3. BufferMove(t, m)
      BY <1>4, <2>1, <2>2, <2>4, <3>1, <3>2, MessageCall DEF MessageOps
    <3> QED
      BY <3>3
  <2>5. CASE c.op = "MessagePut"
    BY <1>4, <2>1, <2>3, <2>5, MessagePutMove DEF GotSteps
  <2>6. CASE c.op = "MessageSent"
    BY <1>4, <2>1, <2>3, <2>6, MessageSentMove DEF GotSteps
  <2>7. CASE c.op \in {"MessageGot", "MessageGotFromISR"}
    BY <1>4, <2>1, <2>3, <2>7, MessageGotMove
  <2>8. CASE c.op = "ResetFree"
    BY <1>4, <2>1, <2>3, <2>8, ResetFreeMove
  <2> QED
    BY <2>1, <2>4, <2>5, <2>6, <2>7, <2>8 DEF GotSteps
<1> QED
  BY <1>5, <1>6

-----------------------------------------------------------------------------
(* The program stays *)
LEMMA BufferProgramLemma ==
    ASSUME scenario' = scenario
    PROVE  /\ The' = The /\ (BuffersOnly' <=> BuffersOnly)
           /\ MessageBuffers(The)' = MessageBuffers(The)
           /\ \A m : PoolOf(m)' = PoolOf(m) /\ QueueOf(m)' = QueueOf(m)
           /\ \A m, c, r : MessageFrame(m, c, r)' <=> MessageFrame(m, c, r)
<1>1. The' = The
  BY DEF The
<1>2. \A m : PoolOf(m)' = PoolOf(m) /\ QueueOf(m)' = QueueOf(m) /\ BlocksOf(m)' = BlocksOf(m)
  BY <1>1 DEF PoolOf, QueueOf, BlocksOf
<1>3. \A m, c, r : MessageFrame(m, c, r)' <=> MessageFrame(m, c, r)
  BY <1>2 DEF MessageFrame
<1> QED
  BY <1>1, <1>2, <1>3 DEF BuffersOnly

(* Who carries a block of another buffer goes on doing so *)
LEMMA CarriersStep ==
    ASSUME BuffersOnly, BufferInv, NEW t, NEW m, BufferMove(t, m), scenario' = scenario,
           NEW k \in MessageBuffers(The)
    PROVE  Balanced(k)'
<1>0. t \in Tasks /\ m \in MessageBuffers(The) /\ Only(t)
  BY DEF BufferMove, At
<1>1. /\ PoolOf(k)' = PoolOf(k) /\ QueueOf(k)' = QueueOf(k)
  BY BufferProgramLemma
<1> DEFINE S == Carriers(k)
           T == Carriers(k)'
<1>2. S \in SUBSET Tasks /\ T \in SUBSET Tasks
  BY DEF Carriers
<1>3. \A u \in Tasks : u # t => (u \in T <=> u \in S)
  BY <1>0 DEF Carriers, Only
<1>4. /\ t \in S <=> Weight(k, call[t], ret[t]) = 1
      /\ t \in T <=> Weight(k, call'[t], ret'[t]) = 1
  BY <1>0, WeightLemma DEF Carriers
<1>5. obj[PoolOf(k)].m_used_count = obj[QueueOf(k)].m_count + Cardinality(S)
  BY DEF BufferInv, Balanced
<1>6. Balanced(k)' <=> obj'[PoolOf(k)].m_used_count = obj'[QueueOf(k)].m_count + Cardinality(T)
  BY <1>1 DEF Balanced
<1>7. CASE k # m
  <2>1. obj'[PoolOf(k)] = obj[PoolOf(k)] /\ obj'[QueueOf(k)] = obj[QueueOf(k)]
    <3>1. {PoolOf(k), QueueOf(k)} \subseteq DOMAIN obj
      BY CountsLemma
    <3>2. {PoolOf(k), QueueOf(k)} \cap {PoolOf(m), QueueOf(m)} = {}
      BY <1>0, <1>7, PartsLemma
    <3> QED
      BY <3>1, <3>2 DEF BufferMove, Touches
  <2>2. ASSUME NEW c, NEW r, c = NoCall \/ MessageFrame(m, c, r) PROVE ~HoldsBlock(k, c, r)
    BY <1>7, <2>2 DEF HoldsBlock, MessageFrame, TopFrame, GotSteps
  <2>3. t \notin S /\ t \notin T
    BY <2>2 DEF Carriers, BufferMove, At
  <2>4. T = S
    BY <1>2, <1>3, <2>3
  <2> QED
    BY <1>5, <1>6, <2>1, <2>4
<1>8. CASE k = m
  <2> DEFINE a == Weight(k, call[t], ret[t])
             b == Weight(k, call'[t], ret'[t])
             used == obj[PoolOf(k)].m_used_count
             count == obj[QueueOf(k)].m_count
             used2 == obj'[PoolOf(k)].m_used_count
             count2 == obj'[QueueOf(k)].m_count
  <2>1. used2 + count + a = used + count2 + b
    BY <1>8 DEF BufferMove, Keeps
  <2>2. a \in {0, 1} /\ b \in {0, 1}
    BY WeightLemma
  <2>3. used \in Nat /\ count \in Nat /\ used2 \in Nat /\ count2 \in Nat
    BY <1>8, CountsLemma DEF BufferMove, Touches, Stored, RingShape
  <2>4. used = count + Cardinality(S) /\ (t \in S <=> a = 1) /\ (t \in T <=> b = 1)
    BY <1>4, <1>5
  <2> HIDE DEF a, b, used, count, used2, count2, S, T
  <2>5. Cardinality(S) \in Nat /\ Cardinality(T) \in Nat
    BY <1>0, <1>2, CardinalityLemma
  <2>6. Cardinality(T) + a = Cardinality(S) + b
    <3>1. CASE t \in S /\ t \notin T
      <4>1. T = S \ {t}
        BY <1>2, <1>3, <3>1
      <4>2. Cardinality(S \ {t}) = Cardinality(S) - 1
        BY <1>0, <1>2, <3>1, CardinalityLemma
      <4> QED
        BY <2>2, <2>4, <2>5, <3>1, <4>1, <4>2
    <3>2. CASE t \notin S /\ t \in T
      <4>1. T = S \cup {t}
        BY <1>0, <1>2, <1>3, <3>2
      <4>2. Cardinality(S \cup {t}) = Cardinality(S) + 1
        BY <1>0, <1>2, <3>2, CardinalityLemma
      <4> QED
        BY <2>2, <2>4, <2>5, <3>2, <4>1, <4>2
    <3>3. CASE t \in S <=> t \in T
      <4>1. T = S
        BY <1>2, <1>3, <3>3
      <4> QED
        BY <2>2, <2>4, <2>5, <3>3, <4>1
    <3> QED
      BY <3>1, <3>2, <3>3
  <2>7. used2 = count2 + Cardinality(T)
    BY <2>1, <2>2, <2>3, <2>4, <2>5, <2>6
  <2> QED
    BY <1>6, <2>7 DEF used2, count2
<1> QED
  BY <1>7, <1>8

LEMMA BufferStepLemma ==
    ASSUME BuffersOnly, BufferInv, NEW t, NEW m, BufferMove(t, m), scenario' = scenario
    PROVE  BufferInv'
<1>0. t \in Tasks /\ m \in MessageBuffers(The) /\ Only(t) /\ Touches(m)
  BY DEF BufferMove, At
<1>1. /\ The' = The /\ MessageBuffers(The)' = MessageBuffers(The)
      /\ \A k : PoolOf(k)' = PoolOf(k) /\ QueueOf(k)' = QueueOf(k)
      /\ \A k, c, r : MessageFrame(k, c, r)' <=> MessageFrame(k, c, r)
  BY BufferProgramLemma
<1>2. /\ DOMAIN obj = DOMAIN The.objects /\ \A o \in DOMAIN obj : obj[o].kind = The.objects[o].kind
      /\ \A k \in MessageBuffers(The) : obj[k] = The.objects[k]
      /\ \A k \in MessageBuffers(The) :
            Stored(obj[PoolOf(k)], obj[QueueOf(k)], The.objects[PoolOf(k)].m_capacity)
  BY DEF BufferInv, BufferShape
<1>3. DOMAIN obj' = DOMAIN The.objects /\ \A o \in DOMAIN obj' : obj'[o].kind = The.objects[o].kind
  BY <1>0, <1>2 DEF Touches
<1>4. ASSUME NEW k \in MessageBuffers(The)
      PROVE  /\ obj'[k] = The.objects[k]
             /\ Stored(obj'[PoolOf(k)], obj'[QueueOf(k)], The.objects[PoolOf(k)].m_capacity)
  <2>1. {k, PoolOf(k), QueueOf(k)} \subseteq DOMAIN obj
    BY CountsLemma
  <2>2. k \notin {PoolOf(m), QueueOf(m)}
    BY <1>0, PartsLemma
  <2>3. CASE k = m
    BY <1>0, <1>2, <2>1, <2>2, <2>3 DEF Touches
  <2>4. CASE k # m
    <3>1. {PoolOf(k), QueueOf(k)} \cap {PoolOf(m), QueueOf(m)} = {}
      BY <1>0, <2>4, PartsLemma
    <3>2. obj'[k] = obj[k] /\ obj'[PoolOf(k)] = obj[PoolOf(k)] /\ obj'[QueueOf(k)] = obj[QueueOf(k)]
      BY <1>0, <2>1, <2>2, <3>1 DEF Touches
    <3> QED
      BY <1>2, <3>2
  <2> QED
    BY <2>3, <2>4
<1>5. ASSUME NEW u \in Tasks
      PROVE  call'[u] = NoCall \/ \E k \in MessageBuffers(The) : MessageFrame(k, call'[u], ret'[u])
  <2>1. CASE u = t
    BY <1>0, <2>1 DEF BufferMove
  <2>2. CASE u # t
    <3>1. call'[u] = call[u] /\ ret'[u] = ret[u]
      BY <1>0, <2>2 DEF Only
    <3> QED
      BY <3>1 DEF BufferInv, BufferShape
  <2> QED
    BY <2>1, <2>2
<1>6. BufferShape'
  <2>1. DOMAIN call' = Tasks /\ DOMAIN ret' = Tasks
    BY <1>0 DEF Only
  <2>2. (\A u \in Tasks : call[u] = NoCall
                          \/ \E k \in MessageBuffers(The) : MessageFrame(k, call[u], ret[u]))'
    BY <1>1, <1>5
  <2>3. (\A k \in MessageBuffers(The) :
            /\ obj[k] = The.objects[k]
            /\ Stored(obj[PoolOf(k)], obj[QueueOf(k)], The.objects[PoolOf(k)].m_capacity))'
    BY <1>1, <1>4
  <2>4. (DOMAIN obj = DOMAIN The.objects /\ \A o \in DOMAIN obj : obj[o].kind = The.objects[o].kind)'
    BY <1>1, <1>3
  <2> QED
    BY <2>1, <2>2, <2>3, <2>4 DEF BufferShape
<1>7. ResetAlone'
  <2>1. ASSUME NEW u \in Tasks, call'[u].op \in ResetSteps
        PROVE  /\ u = t /\ \A w \in Tasks \ {u} : call'[w] = NoCall
               /\ call'[u].op = "ResetFree" /\ ret'[u] = <<>> =>
                     obj'[QueueOf(call'[u].o)].m_count = 0
    <3>1. u = t
      BY <1>0, <2>1 DEF Only, BufferMove, At
    <3>2. /\ \A w \in Tasks \ {t} : call[w] = NoCall
          /\ call'[t].op = "ResetFree" /\ ret'[t] = <<>> => obj'[QueueOf(m)].m_count = 0
      BY <2>1, <3>1 DEF BufferMove
    <3>3. \A w \in Tasks \ {t} : call'[w] = NoCall
      BY <1>0, <3>2 DEF Only
    <3>4. call'[t].op = "ResetFree" => call'[t].o = m
      BY DEF BufferMove, MessageFrame, TopFrame, NoCall
    <3> QED
      BY <3>1, <3>2, <3>3, <3>4
  <2> QED
    BY <1>1, <2>1 DEF ResetAlone
<1>8. (\A k \in MessageBuffers(The) : Balanced(k))'
  BY <1>1, CarriersStep
<1> QED
  BY <1>6, <1>7, <1>8 DEF BufferInv

LEMMA BufferSame ==
    ASSUME BufferInv, scenario' = scenario, obj' = obj, call' = call, ret' = ret
    PROVE  BufferInv'
<1>1. /\ The' = The /\ MessageBuffers(The)' = MessageBuffers(The)
      /\ \A k : PoolOf(k)' = PoolOf(k) /\ QueueOf(k)' = QueueOf(k)
      /\ \A k, c, r : MessageFrame(k, c, r)' <=> MessageFrame(k, c, r)
  BY BufferProgramLemma
<1>2. BufferShape'
  BY <1>1 DEF BufferInv, BufferShape
<1>3. ResetAlone'
  BY <1>1 DEF BufferInv, ResetAlone
<1>4. (\A k \in MessageBuffers(The) : Balanced(k))'
  BY <1>1 DEF BufferInv, Balanced, Carriers
<1> QED
  BY <1>2, <1>3, <1>4 DEF BufferInv

LEMMA BufferNext ==
    ASSUME BuffersOnly, BufferInv, [Next]_vars
    PROVE  BufferInv'
<1>1. CASE Next
  <2>1. scenario' = scenario
    BY <1>1 DEF Next
  <2>2. ASSUME NEW t \in Tasks, Begin(t) \/ Continue(t) PROVE BufferInv'
    <3>1. PICK m \in MessageBuffers(The) : BufferMove(t, m)
      BY <2>2, BeginsBuffer, ContinuesBuffer
    <3> QED
      BY <2>1, <3>1, BufferStepLemma
  <2>3. ASSUME Tick PROVE BufferInv'
    BY <2>1, <2>3, BufferSame DEF Tick, KernelTick
  <2> QED
    BY <1>1, <2>2, <2>3 DEF Next
<1>2. CASE UNCHANGED vars
  BY <1>2, BufferSame DEF vars
<1> QED
  BY <1>1, <1>2

LEMMA BufferBegins ==
    ASSUME BuffersOnly, Init
    PROVE  BufferInv
<1>1. /\ obj = The.objects /\ call = [t \in Tasks |-> NoCall] /\ ret = [t \in Tasks |-> NULL]
  BY DEF Init
<1> HIDE DEF The
<1>2. BufferShape
  BY <1>1, PartsLemma DEF BufferShape
<1>3. ResetAlone
  BY <1>1 DEF ResetAlone, NoCall, ResetSteps
<1>4. ASSUME NEW m \in MessageBuffers(The) PROVE Balanced(m)
  <2>1. Carriers(m) = {}
    BY <1>1 DEF Carriers, HoldsBlock
  <2>2. Cardinality(Carriers(m)) = 0
    BY <2>1, FS_EmptySet
  <2> QED
    BY <1>1, <2>2, PartsLemma DEF Balanced
<1> QED
  BY <1>2, <1>3, <1>4 DEF BufferInv

LEMMA BalancedConserves ==
    ASSUME BuffersOnly, BufferInv
    PROVE  MessageBlocksConserved
<1> SUFFICES ASSUME NEW o \in Objects("messages")
             PROVE  obj[obj[o].m_pool].m_used_count = obj[obj[o].m_eq].m_count +
                      Cardinality({t \in Tasks :
                          /\ call[t] # NoCall /\ call[t].o = o
                          /\ \/ call[t].op = "MessagePut" /\ ret[t] # NULL
                             \/ call[t].op = "MessageSent" /\ ret[t] # OK
                             \/ call[t].op \in {"MessageGot", "MessageGotFromISR", "ResetFree"}
                                /\ ret[t] # <<>>})
  BY DEF MessageBlocksConserved
<1>1. o \in MessageBuffers(The)
  BY DEF Objects, MessageBuffers, BufferInv, BufferShape
<1>2. obj[o].m_pool = PoolOf(o) /\ obj[o].m_eq = QueueOf(o)
  BY <1>1, CountsLemma DEF PoolOf, QueueOf
<1>3. Balanced(o)
  BY <1>1 DEF BufferInv
<1> QED
  BY <1>2, <1>3 DEF Balanced, Carriers, HoldsBlock, GotSteps

(* A message buffer neither loses nor makes a block, whatever tasks and interrupts send,
   receive with a buffer that is too short, time out, are refused or reset it: each block
   in use has one envelope, in the queue or with a task that is about to put it or to free
   the block *)
THEOREM MessageBlocksKept == Spec => [](BuffersOnly => MessageBlocksConserved)
<1>1. Init => (BuffersOnly => BufferInv)
  BY BufferBegins
<1>2. (BuffersOnly => BufferInv) /\ [Next]_vars => (BuffersOnly => BufferInv)'
  <2>1. [Next]_vars => scenario' = scenario
    BY DEF Next, vars
  <2> QED
    BY <2>1, BufferNext, BufferProgramLemma
<1>3. (BuffersOnly => BufferInv) => (BuffersOnly => MessageBlocksConserved)
  BY BalancedConserves
<1> QED
  BY <1>1, <1>2, <1>3, PTL DEF Spec
=============================================================================
