-------------------------- MODULE TimerHostProofs --------------------------
(***************************************************************************)
(* The timer host with any number of timers, callers, tick tasks and       *)
(* handlers and queues of any capacity: the marks m_pending and m_rearming *)
(* of a timer stand for an entry of a queue, or for a task on its way to   *)
(* or from it.                                                             *)
(***************************************************************************)
EXTENDS InteropProofs

Pipes == {"commands", "ready"}

(* The methods of a timer, and Shutdown *)
TimerOps == {"TimerStart", "TimerStop", "TimerReset", "TimerSetPeriod", "TimerRestart",
             "TimerStartOrReset"}

(* A program on timers as their constructors leave them: any tasks may call the methods
   of the timers, be the tick task and be a handler *)
TimerProgram(p) ==
    /\ p.uses \subseteq {"Pipe", "TimerHost"}
    /\ Pipes \subseteq DOMAIN p.objects /\ NULL \notin DOMAIN p.objects
    /\ \A o \in DOMAIN p.objects :
          LET r == p.objects[o]
          IN  \/ o \in Pipes /\ r = PipeObject(r.m_capacity) /\ r.m_capacity \in Nat \ {0}
              \/ o \notin Pipes /\ r = TimerObject(NULL)
              \/ o \notin Pipes /\ r = HostObject(r.handlers) /\ r.handlers \in Nat
    /\ \A o \in Pipes : NotEmpty(o) \in SyncObjects /\ NotFull(o) \in SyncObjects
    /\ \A t \in Tasks : \A c \in p.calls[t] :
          /\ c = Frame(c.op, c.o, c.x, NO_WAIT) /\ c.o \in DOMAIN p.objects
          /\ \/ /\ c.op \in TimerOps /\ p.objects[c.o].kind = "timer"
                /\ c.x \in [delay: Nat, period: Nat]
             \/ c.op = "Shutdown" /\ c.x \in [delay: Nat, period: Nat]
             \/ c.op \in {"UpdateTime", "ProcessTimers"} /\ p.objects[c.o].kind = "host"

(* The behaviour is one of such a program *)
TimerOnly == TimerProgram(The)

TimerNames == {o \in DOMAIN The.objects : Kind(o) = "timer"}
HostNames == {o \in DOMAIN The.objects : Kind(o) = "host"}

-----------------------------------------------------------------------------
(* The shape of the state *)
Clock == 0..2^TimeoutBits-1

TimerShape(r) ==
    r \in [kind: {"timer"}, m_active: BOOLEAN, m_pending: BOOLEAN, m_rearming: BOOLEAN,
           m_deadline: Clock, m_period: Nat, handler: {NULL}]

HostShape(r) == r \in [kind: {"host"}, m_active: Seq(TimerNames), handlers: Nat]

IsCommand(x) ==
    /\ x.timestamp \in Clock /\ x.delay \in Nat /\ x.period \in Nat
    /\ x.cmd # "SHUTDOWN" => x.timer \in TimerNames

(* What is in a ring, and what may be in the two pipes *)
Elements(q) == {Content(q)[i] : i \in 1..q.m_count}

Fits(o, x) ==
    /\ o = "commands" => IsCommand(x)
    /\ o = "ready" => x \in TimerNames \cup {NULL}

PipeShape(o, r) == RingShape(r) /\ InOrder(r) /\ \A x \in Elements(r) : Fits(o, x)

ObjectOK(o, r) ==
    /\ r.kind = Kind(o)
    /\ o \in TimerNames => TimerShape(r)
    /\ o \in HostNames => HostShape(r)
    /\ o \in Pipes => PipeShape(o, r)

(* The commands that mark a timer *)
RearmCommands ==
    IF \A t \in Tasks : \A c \in The.calls[t] :
          c.op \notin {"TimerStartOrReset", "stk_timer_start_or_reset"}
    THEN {"RESTART"} ELSE {"RESTART", "START_OR_RESET"}

(* The frames of callers, of the tick task and of handlers, and of the pipes they use *)
IsFrame(c) ==
    /\ DOMAIN c = FrameFields /\ c.blocked \in BOOLEAN
    /\ c.ticks \in Times /\ c.deadline \in Clock /\ c.acc \in Seq(TimerNames)

Outer(c) == IsFrame(c) /\ c.blocked = FALSE /\ c.then = NoCall

CallFrame(c) ==
    /\ Outer(c) /\ c.ticks = NO_WAIT
    /\ \/ c.op \in TimerOps /\ c.o \in TimerNames /\ c.x \in [delay: Nat, period: Nat]
       \/ c.op = "Shutdown" /\ c.x \in [delay: Nat, period: Nat]
       \/ c.op \in {"UpdateTime", "ProcessTimers"} /\ c.o \in HostNames
    /\ c.op = "TimerStartOrReset" => "START_OR_RESET" \in RearmCommands

PushFrame(c) ==
    /\ c.op \in {"PushRearm", "SetRearming", "PushDone"} /\ Outer(c)
    /\ c.o \in TimerNames /\ IsCommand(c.x) /\ c.x.timer = c.o /\ c.x.cmd \in RearmCommands

TickFrame(c) ==
    /\ c.op \in {"Execute", "NextCommand", "ProcessCommands", "LookAt"} /\ Outer(c)
    /\ c.o \in HostNames /\ (c.op = "LookAt" => c.acc # <<>>)

HandlerFrame(c) ==
    /\ c.op \in {"Handle", "OnExpired", "ProcessTimers"} /\ Outer(c)
    /\ c.o \in HostNames /\ (c.op = "OnExpired" => c.x \in TimerNames)

WriteFrame(c) ==
    /\ c.op = "PipeTWrite" /\ IsFrame(c)
    /\ \/ /\ c.o = "commands" /\ IsCommand(c.x) /\ c.blocked = FALSE /\ c.ticks = NO_WAIT
          /\ \/ c.then = NoCall
             \/ /\ PushFrame(c.then) /\ c.then.op = "PushDone" /\ c.then.o = c.x.timer
                /\ c.x.cmd \in RearmCommands
       \/ /\ c.o = "ready" /\ c.x \in TimerNames /\ c.ticks = WAIT_INFINITE
          /\ TickFrame(c.then) /\ c.then.op \in {"LookAt", "ProcessCommands"}

ReadFrame(c) ==
    /\ c.op = "PipeTRead" /\ IsFrame(c)
    /\ \/ c.o = "commands" /\ TickFrame(c.then) /\ c.then.op = "Execute"
       \/ c.o = "ready" /\ HandlerFrame(c.then) /\ c.then.op = "Handle"

AtRest(c) == PushFrame(c) \/ TickFrame(c) \/ HandlerFrame(c) \/ WriteFrame(c) \/ ReadFrame(c)

(* What a read left for its caller *)
Result(c, v) ==
    /\ c # NoCall /\ c.op = "Execute" => v = <<>> \/ \E x : IsCommand(x) /\ v = <<x>>
    /\ c # NoCall /\ c.op = "Handle" => v = <<>> \/ \E x \in TimerNames \cup {NULL} : v = <<x>>

(* The list that a frame waits on.  The tick task does not give up an expired timer *)
ListFor(c) == <<c.o, IF c.op = "PipeTRead" THEN "not_empty" ELSE "not_full">>

Patient(c, w, t) ==
    c # NoCall /\ c.op = "PipeTWrite" /\ c.blocked =>
        ~w.timeout[t] /\ \A l \in SyncObjects : Linked(w, l, t) => w.time[t] = WAIT_INFINITE

WaitsOK ==
    /\ wait \in WaitType /\ ListsOnce(wait)
    /\ \A l \in SyncObjects, t \in Tasks : Linked(wait, l, t) =>
          call[t] # NoCall /\ call[t].blocked /\ l = ListFor(call[t])
    /\ \A t \in Tasks : Patient(call[t], wait, t)

HostState ==
    /\ scenario \in DOMAIN Scenarios
    /\ DOMAIN obj = DOMAIN The.objects /\ \A o \in DOMAIN obj : ObjectOK(o, obj[o])
    /\ DOMAIN call = Tasks /\ DOMAIN ret = Tasks
    /\ \A t \in Tasks : (call[t] = NoCall \/ AtRest(call[t])) /\ Result(call[t], ret[t])
    /\ now \in Clock
    /\ WaitsOK

-----------------------------------------------------------------------------
(* The task carries the timer o to or from the handlers' queue *)
Carries(c, v, o) ==
    /\ c # NoCall
    /\ \/ c.op = "PipeTWrite" /\ c.o = "ready" /\ c.x = o
       \/ c.op = "Handle" /\ v = <<o>>
       \/ c.op = "OnExpired" /\ c.x = o

PendingOK ==
    \A o \in TimerNames : obj[o].m_pending =>
        o \in Elements(obj["ready"]) \/ \E t \in Tasks : Carries(call[t], ret[t], o)

(* The command that takes the mark away, and the task that has it or takes the mark away
   itself because the queue was full *)
Restarts(x, o) == x.cmd = "RESTART" /\ x.timer = o

Rearms(c, v, o) ==
    /\ c # NoCall
    /\ \/ /\ c.op = "PipeTWrite" /\ c.o = "commands" /\ Restarts(c.x, o)
          /\ c.then # NoCall /\ c.then.op = "PushDone"
       \/ c.op = "PushDone" /\ c.o = o /\ v = FAIL
       \/ c.op = "Execute" /\ v # <<>> /\ Restarts(v[1], o)

RearmingOK ==
    RearmCommands = {"RESTART"} =>
        \A o \in TimerNames : obj[o].m_rearming =>
            \/ \E x \in Elements(obj["commands"]) : Restarts(x, o)
            \/ \E t \in Tasks : Rearms(call[t], ret[t], o)

-----------------------------------------------------------------------------
(* What is in a ring after a write, a read and the farewell to the handlers *)
LEMMA ElementsAdd ==
    ASSUME NEW q, RingShape(q), InOrder(q), ~Full(q), NEW v
    PROVE  /\ RingShape(Add(q, v)) /\ InOrder(Add(q, v)) /\ Add(q, v).kind = q.kind
           /\ Elements(Add(q, v)) = Elements(q) \cup {v}
<1> DEFINE r == Add(q, v)
           n == q.m_capacity
           k == q.m_count
<1>1. /\ RingShape(r) /\ InOrder(r) /\ r.kind = q.kind /\ r.m_count = k + 1 /\ r.m_capacity = n
      /\ \A i \in 1..k : Content(r)[i] = Content(q)[i]
  BY AddLemma, AddContent
<1>2. /\ n \in Nat \ {0} /\ k \in Nat /\ q.m_head \in 0..n-1 /\ DOMAIN q.m_buffer = 0..n-1
      /\ r.m_tail = q.m_tail /\ r.m_buffer = [q.m_buffer EXCEPT ![q.m_head] = v] /\ q.m_tail \in Int
  BY DEF RingShape, Add
<1>3. Content(r)[k + 1] = v
  <2>1. q.m_head = Wrap(q.m_tail + k, n)
    BY ContentLemma
  <2>2. k + 1 \in 1..r.m_count
    BY <1>1, <1>2
  <2> HIDE DEF r, n, k
  <2>5. \A i \in 1..r.m_count : Content(r)[i] = r.m_buffer[Wrap(r.m_tail + i - 1, r.m_capacity)]
    BY <1>1, ContentLemma
  <2>3. Content(r)[k + 1] = r.m_buffer[Wrap(q.m_tail + (k + 1) - 1, n)]
    BY <1>1, <1>2, <2>2, <2>5
  <2>4. q.m_tail + (k + 1) - 1 = q.m_tail + k
    BY <1>2
  <2> QED
    BY <1>2, <2>1, <2>3, <2>4
<1> HIDE DEF r, n, k
<1>4. 1..r.m_count = 1..k \cup {k + 1}
  BY <1>1, <1>2
<1>5. Elements(r) = Elements(q) \cup {v}
  BY <1>1, <1>3, <1>4 DEF Elements, k
<1> QED
  BY <1>1, <1>5 DEF r

LEMMA ElementsRemove ==
    ASSUME NEW q, RingShape(q), InOrder(q), ~Empty(q)
    PROVE  /\ RingShape(RemoveOldest(q)) /\ InOrder(RemoveOldest(q)) /\ RemoveOldest(q).kind = q.kind
           /\ Elements(q) = Elements(RemoveOldest(q)) \cup {Oldest(q)}
<1> DEFINE r == RemoveOldest(q)
           k == q.m_count
<1>1. /\ RingShape(r) /\ InOrder(r) /\ r.kind = q.kind /\ r.m_count = k - 1
      /\ Oldest(q) = Content(q)[1] /\ \A i \in 1..k-1 : Content(r)[i] = Content(q)[i + 1]
  BY RemoveLemma, RemoveContent
<1>2. k \in Nat /\ k > 0
  BY DEF RingShape, Empty
<1> HIDE DEF r, k
<1>3. ASSUME NEW i \in 1..k PROVE Content(q)[i] \in Elements(r) \cup {Oldest(q)}
  <2>1. CASE i = 1
    BY <1>1, <2>1
  <2>2. CASE i # 1
    <3>1. i - 1 \in 1..k-1 /\ (i - 1) + 1 = i
      BY <1>2, <2>2
    <3>2. Content(r)[i - 1] = Content(q)[i]
      BY <1>1, <3>1
    <3> QED
      BY <1>1, <3>1, <3>2 DEF Elements
  <2> QED
    BY <2>1, <2>2
<1>4. ASSUME NEW i \in 1..k-1 PROVE Content(r)[i] \in Elements(q)
  <2>1. i + 1 \in 1..k /\ Content(r)[i] = Content(q)[i + 1]
    BY <1>1, <1>2
  <2> QED
    BY <2>1 DEF Elements, k
<1>5. Oldest(q) \in Elements(q)
  <2>1. 1 \in 1..k
    BY <1>2
  <2> QED
    BY <1>1, <2>1 DEF Elements, k
<1>6. Elements(q) \subseteq Elements(r) \cup {Oldest(q)}
  BY <1>3 DEF Elements, k
<1>7. Elements(r) \subseteq Elements(q)
  BY <1>1, <1>4 DEF Elements
<1> QED
  BY <1>1, <1>5, <1>6, <1>7 DEF r

(* The distance of the slot i from the write index h, and the slots that are written: the
   null timers for the handlers go into free ones *)
Ahead(i, h, n) == IF i >= h THEN i - h ELSE i - h + n

LEMMA AheadLemma ==
    ASSUME NEW n \in Nat \ {0}, NEW h \in 0..n-1, NEW i \in 0..n-1
    PROVE  (i - h) % n = Ahead(i, h, n) /\ Ahead(i, h, n) \in 0..n-1
<1>1. CASE i >= h
  <2>1. i - h \in 0..n-1
    BY <1>1
  <2> QED
    BY <1>1, <2>1 DEF Ahead
<1>2. CASE i < h
  <2> DEFINE a == i - h
  <2>1. a \in Int /\ a < 0 /\ a + n >= 0 /\ a + n < n
    BY <1>2
  <2> HIDE DEF a
  <2>2. a % n = a + n
    BY <2>1
  <2>3. a + n \in 0..n-1
    BY <2>1
  <2> QED
    BY <1>2, <2>2, <2>3 DEF a, Ahead
<1> QED
  BY <1>1, <1>2

AddsMany(n, t, k, m, h) ==
    /\ t + (k + m) \in 0..2*n-1 /\ h + m \in 0..2*n-1
    /\ Wrap(h + m, n) = Wrap(t + (k + m), n)
    /\ \A i \in 1..k : Ahead(Wrap(t + i - 1, n), h, n) >= m
    /\ \A i \in k+1..k+m : Ahead(Wrap(t + i - 1, n), h, n) < m

LEMMA AddManyWrap ==
    ASSUME NEW n \in Nat \ {0}, NEW t \in 0..n-1, NEW k \in 0..n, NEW m \in 0..n-k, NEW h,
           h = Wrap(t + k, n)
    PROVE  AddsMany(n, t, k, m, h)
<1>1. t + (k + m) \in 0..2*n-1
  OBVIOUS
<1>2. h + m \in 0..2*n-1 /\ Wrap(h + m, n) = Wrap(t + (k + m), n)
  BY DEF Wrap
<1>3. ASSUME NEW i \in 1..k PROVE Ahead(Wrap(t + i - 1, n), h, n) >= m
  BY DEF Wrap, Ahead
<1>4. ASSUME NEW i \in k+1..k+m PROVE Ahead(Wrap(t + i - 1, n), h, n) < m
  BY DEF Wrap, Ahead
<1> QED
  BY <1>1, <1>2, <1>3, <1>4 DEF AddsMany

LEMMA MinLemma ==
    ASSUME NEW a \in Nat, NEW b \in Nat
    PROVE  Min({a, b}) \in Nat /\ Min({a, b}) <= a /\ Min({a, b}) <= b
<1>1. \E x \in {a, b} : \A y \in {a, b} : x <= y
  <2>1. CASE a <= b
    BY <2>1
  <2>2. CASE b <= a
    BY <2>2
  <2> QED
    BY <2>1, <2>2
<1> QED
  BY <1>1 DEF Min

LEMMA ElementsFarewell ==
    ASSUME NEW q, RingShape(q), InOrder(q), NEW handlers \in Nat
    PROVE  LET r == Farewell(q, handlers)
           IN  /\ RingShape(r) /\ InOrder(r) /\ r.kind = q.kind
               /\ Elements(q) \subseteq Elements(r) /\ Elements(r) \subseteq Elements(q) \cup {NULL}
<1> DEFINE n == q.m_capacity
           k == q.m_count
           t == q.m_tail
           m == Min({handlers, n - k})
           s == [i \in 1..m |-> NULL]
           off(i) == (i - q.m_head) % n
           buffer == [i \in DOMAIN q.m_buffer |-> IF off(i) < m THEN s[off(i) + 1] ELSE q.m_buffer[i]]
           r == [q EXCEPT !.m_buffer = buffer, !.m_head = (@ + m) % n, !.m_count = @ + m]
<1>1. /\ n \in Nat \ {0} /\ k \in 0..n /\ t \in 0..n-1 /\ q.m_head \in 0..n-1
      /\ DOMAIN q.m_buffer = 0..n-1
  BY DEF RingShape
<1>2. m \in 0..n-k
  <2>1. n - k \in Nat
    BY <1>1
  <2> HIDE DEF n, k
  <2>2. m \in Nat /\ m <= n - k
    BY <2>1, MinLemma
  <2> QED
    BY <2>1, <2>2
<1> HIDE DEF m
<1>3. Len(s) = m
  BY <1>1, <1>2
<1>4. Farewell(q, handlers) = r
  <2>1. Farewell(q, handlers) = AddAll(q, s)
    BY DEF Farewell, m
  <2> HIDE DEF s
  <2>2. AddAll(q, s) = r
    BY <1>3 DEF AddAll
  <2> QED
    BY <2>1, <2>2
<1> HIDE DEF s, buffer, off
<1>0. DOMAIN q = {"kind", "m_capacity", "m_count", "m_head", "m_tail", "m_buffer"}
  BY DEF RingShape
<1>5. /\ r.m_buffer = buffer /\ r.m_head = (q.m_head + m) % n /\ r.m_count = k + m
      /\ r.m_capacity = n /\ r.m_tail = t /\ r.kind = q.kind /\ DOMAIN r = DOMAIN q
  BY <1>0
<1>6. q.m_head = Wrap(t + k, n) /\ \A i \in 1..k : Content(q)[i] = q.m_buffer[Wrap(t + i - 1, n)]
                                                   /\ Wrap(t + i - 1, n) \in 0..n-1
  BY ContentLemma
<1>7. AddsMany(n, t, k, m, q.m_head)
  <2> HIDE DEF n, k, t
  <2> QED
    BY <1>1, <1>2, <1>6, AddManyWrap
<1>8. DOMAIN buffer = 0..n-1
  BY <1>1 DEF buffer
<1>9. /\ (q.m_head + m) % n = Wrap(q.m_head + m, n) /\ Wrap(q.m_head + m, n) \in 0..n-1
      /\ (t + (k + m)) % n = Wrap(t + (k + m), n)
  BY <1>1, <1>7, WrapLemma DEF AddsMany
<1> HIDE DEF r
<1>10. RingShape(r)
  BY <1>1, <1>2, <1>5, <1>8, <1>9 DEF RingShape
<1>11. InOrder(r)
  BY <1>5, <1>7, <1>9 DEF InOrder, AddsMany
<1>12. \A i \in 1..k+m : /\ Content(r)[i] = buffer[Wrap(t + i - 1, n)]
                         /\ Wrap(t + i - 1, n) \in 0..n-1
  BY <1>5, <1>10, <1>11, ContentLemma
<1>13. ASSUME NEW i \in 1..k PROVE Content(r)[i] = Content(q)[i] /\ i \in 1..k+m
  <2> DEFINE w == Wrap(t + i - 1, n)
  <2>1. i \in 1..k+m
    BY <1>1, <1>2
  <2>2. /\ w \in 0..n-1 /\ Content(q)[i] = q.m_buffer[w] /\ Content(r)[i] = buffer[w]
        /\ Ahead(w, q.m_head, n) >= m
    BY <1>6, <1>7, <1>12, <2>1 DEF AddsMany
  <2> HIDE DEF w, n
  <2>3. off(w) = Ahead(w, q.m_head, n) /\ Ahead(w, q.m_head, n) \in 0..n-1
    BY <1>1, <2>2, AheadLemma DEF off
  <2> QED
    BY <1>1, <1>2, <2>1, <2>2, <2>3 DEF buffer
<1>14. ASSUME NEW i \in 1..k+m, i \notin 1..k PROVE Content(r)[i] = NULL
  <2> DEFINE w == Wrap(t + i - 1, n)
  <2>1. i \in k+1..k+m
    BY <1>1, <1>2, <1>14
  <2>2. w \in 0..n-1 /\ Content(r)[i] = buffer[w] /\ Ahead(w, q.m_head, n) < m
    BY <1>7, <1>12, <2>1 DEF AddsMany
  <2> HIDE DEF w, n
  <2>3. off(w) = Ahead(w, q.m_head, n) /\ Ahead(w, q.m_head, n) \in 0..n-1
    BY <1>1, <2>2, AheadLemma DEF off
  <2>4. off(w) < m /\ off(w) + 1 \in 1..m
    BY <1>2, <2>2, <2>3
  <2>5. s[off(w) + 1] = NULL
    BY <2>4 DEF s
  <2> QED
    BY <1>1, <2>2, <2>4, <2>5 DEF buffer
<1>15. Elements(q) \subseteq Elements(r)
  BY <1>5, <1>13 DEF Elements
<1>16. Elements(r) \subseteq Elements(q) \cup {NULL}
  BY <1>5, <1>13, <1>14 DEF Elements
<1> QED
  BY <1>4, <1>5, <1>10, <1>11, <1>15, <1>16

-----------------------------------------------------------------------------
(* The waiters.  A wake-up leaves the other waiters as they are *)
Relaxed(v, w) ==
    /\ v \in WaitType /\ ListsOnce(v)
    /\ \A l \in SyncObjects, j \in Tasks :
          Linked(v, l, j) => Linked(w, l, j) /\ v.time[j] = w.time[j]
    /\ \A j \in Tasks : v.timeout[j] => w.timeout[j]

OneList(w) ==
    \A l, m \in SyncObjects, j \in Tasks : Linked(w, l, j) /\ Linked(w, m, j) => l = m

LEMMA WakeRelaxes ==
    ASSUME NEW w \in WaitType, ListsOnce(w), OneList(w), NEW m \in SyncObjects,
           NEW v \in {w, WakeOne(w, m), WakeAll(w, m)}
    PROVE  Relaxed(v, w)
<1>1. CASE v = w
  BY <1>1 DEF Relaxed
<1>2. CASE v = WakeOne(w, m)
  <2>1. CASE w.list[m] = <<>>
    BY <1>1, <1>2, <2>1 DEF WakeOne
  <2>2. CASE w.list[m] # <<>>
    <3> DEFINE h == Head(w.list[m])
    <3>1. v \in WaitType /\ AfterWakeOne(v, w, m, h)
      BY <1>2, <2>2, WakeOneLemma
    <3>2. \A j \in Tasks : j # h => v.time[j] = w.time[j]
      <4>1. v.time = [w.time EXCEPT ![h] = 0]
        BY <1>2, <2>2 DEF WakeOne, WaitType, WaitTypeIn
      <4> HIDE DEF h
      <4> QED
        BY <4>1 DEF WaitType, WaitTypeIn
    <3> HIDE DEF h
    <3>3. ASSUME NEW l \in SyncObjects, NEW j \in Tasks, Linked(v, l, j)
          PROVE  Linked(w, l, j) /\ v.time[j] = w.time[j]
      <4>1. Linked(w, l, j) /\ ~(l = m /\ j = h) /\ Linked(w, m, h) /\ h \in Tasks
        BY <3>1, <3>3 DEF AfterWakeOne
      <4>2. j # h
        BY <4>1 DEF OneList
      <4> QED
        BY <3>2, <4>1, <4>2
    <3>4. \A j \in Tasks : v.timeout[j] => w.timeout[j]
      BY <3>1 DEF AfterWakeOne
    <3> QED
      BY <3>1, <3>3, <3>4 DEF Relaxed, AfterWakeOne
  <2> QED
    BY <2>1, <2>2
<1>3. CASE v = WakeAll(w, m)
  <2>1. /\ v \in WaitType /\ ListsOnce(v)
        /\ \A o \in SyncObjects, j \in Tasks : Linked(v, o, j) <=> Linked(w, o, j) /\ o # m
        /\ \A j \in Tasks : v.timeout[j] = (w.timeout[j] /\ ~Linked(w, m, j))
    BY <1>3, WakeAllLemma
  <2>2. \A j \in Tasks : ~Linked(w, m, j) => v.time[j] = w.time[j]
    <3>1. v.time = [j \in Tasks |-> IF IsLinked(w.list[m], j) THEN 0 ELSE w.time[j]]
      BY <1>3 DEF WakeAll, WaitType, WaitTypeIn
    <3> QED
      BY <3>1 DEF Linked
  <2>3. ASSUME NEW l \in SyncObjects, NEW j \in Tasks, Linked(v, l, j)
        PROVE  Linked(w, l, j) /\ v.time[j] = w.time[j]
    <3>1. Linked(w, l, j) /\ l # m
      BY <2>1, <2>3
    <3>2. ~Linked(w, m, j)
      BY <3>1 DEF OneList
    <3> QED
      BY <2>2, <3>1, <3>2
  <2>4. \A j \in Tasks : v.timeout[j] => w.timeout[j]
    <3>1. \A j \in Tasks : w.timeout[j] \in BOOLEAN
      BY DEF WaitType, WaitTypeIn
    <3> QED
      BY <2>1, <3>1
  <2> QED
    BY <2>1, <2>3, <2>4 DEF Relaxed
<1> QED
  BY <1>1, <1>2, <1>3

(* A step of t wakes waiters, or parks t *)
WakesSome(t) ==
    /\ call'[t] = NoCall \/ call'[t].blocked = FALSE
    /\ \E l \in SyncObjects : wait' \in {wait, WakeOne(wait, l), WakeAll(wait, l)}

ParksIn(t) ==
    /\ call'[t] # NoCall /\ call'[t].blocked = TRUE /\ call'[t].ticks \in Times
    /\ call'[t].op = "PipeTWrite" => call'[t].ticks = WAIT_INFINITE
    /\ ListFor(call'[t]) \in SyncObjects
    /\ wait' = SetupWait(wait, ListFor(call'[t]), t, call'[t].ticks)

LEMMA WaitsWake ==
    ASSUME WaitsOK, NEW t \in Tasks, Only(t), Unlinked(t), WakesSome(t)
    PROVE  WaitsOK'
<1>1. OneList(wait)
  BY DEF OneList, WaitsOK
<1>2. Relaxed(wait', wait)
  BY <1>1, WakeRelaxes DEF WakesSome, WaitsOK
<1>3. wait' \in WaitType /\ ListsOnce(wait')
  BY <1>2 DEF Relaxed
<1>4. ASSUME NEW l \in SyncObjects, NEW j \in Tasks, Linked(wait', l, j)
      PROVE  call'[j] # NoCall /\ call'[j].blocked /\ l = ListFor(call'[j])
  <2>1. Linked(wait, l, j)
    BY <1>2, <1>4 DEF Relaxed
  <2>2. j # t
    BY <2>1 DEF Unlinked
  <2> QED
    BY <2>1, <2>2 DEF WaitsOK, Only
<1>5. ASSUME NEW j \in Tasks PROVE Patient(call'[j], wait', j)
  <2>1. CASE j = t
    BY <2>1 DEF WakesSome, Patient
  <2>2. CASE j # t
    <3>1. call'[j] = call[j] /\ Patient(call[j], wait, j)
      BY <2>2 DEF Only, WaitsOK
    <3>2. /\ wait'.timeout[j] => wait.timeout[j]
          /\ \A l \in SyncObjects : Linked(wait', l, j) => Linked(wait, l, j) /\ wait'.time[j] = wait.time[j]
      BY <1>2 DEF Relaxed
    <3> QED
      BY <3>1, <3>2 DEF Patient
  <2> QED
    BY <2>1, <2>2
<1> QED
  BY <1>3, <1>4, <1>5 DEF WaitsOK

LEMMA WaitsPark ==
    ASSUME WaitsOK, NEW t \in Tasks, Only(t), Unlinked(t), ParksIn(t)
    PROVE  WaitsOK'
<1> DEFINE m == ListFor(call'[t])
           ticks == call'[t].ticks
<1>1. wait \in WaitType /\ ListsOnce(wait) /\ m \in SyncObjects /\ ticks \in Times
      /\ wait' = SetupWait(wait, m, t, ticks)
  BY DEF WaitsOK, ParksIn
<1>2. \A l \in SyncObjects : ~Linked(wait, l, t)
  BY DEF Unlinked
<1>3. /\ wait' \in WaitType /\ ListsOnce(wait')
      /\ \A l \in SyncObjects, j \in Tasks :
            Linked(wait', l, j) <=> Linked(wait, l, j) \/ (l = m /\ j = t)
      /\ \A j \in Tasks : j # t => wait'.timeout[j] = wait.timeout[j]
  <2> HIDE DEF m, ticks
  <2>1. wait' \in WaitType /\ AfterSetup(wait', wait, m, t)
    BY <1>1, <1>2, SetupWaitLemma
  <2> QED
    BY <2>1 DEF AfterSetup
<1>4. /\ wait'.timeout[t] = FALSE /\ wait'.time[t] = ticks
      /\ \A j \in Tasks : j # t => wait'.time[j] = wait.time[j]
  <2> HIDE DEF m, ticks
  <2>1. wait'.time = [wait.time EXCEPT ![t] = ticks] /\ wait'.timeout = [wait.timeout EXCEPT ![t] = FALSE]
    BY <1>1 DEF SetupWait, WaitType, WaitTypeIn
  <2> QED
    BY <1>1, <2>1 DEF WaitType, WaitTypeIn
<1>5. ASSUME NEW l \in SyncObjects, NEW j \in Tasks, Linked(wait', l, j)
      PROVE  call'[j] # NoCall /\ call'[j].blocked /\ l = ListFor(call'[j])
  <2>1. CASE j = t
    BY <1>2, <1>3, <1>5, <2>1 DEF ParksIn
  <2>2. CASE j # t
    BY <1>3, <1>5, <2>2 DEF WaitsOK, Only
  <2> QED
    BY <2>1, <2>2
<1>6. ASSUME NEW j \in Tasks PROVE Patient(call'[j], wait', j)
  <2>1. CASE j = t
    BY <1>4, <2>1 DEF ParksIn, Patient
  <2>2. CASE j # t
    <3>1. call'[j] = call[j] /\ Patient(call[j], wait, j)
      BY <2>2 DEF Only, WaitsOK
    <3>2. /\ wait'.timeout[j] = wait.timeout[j] /\ wait'.time[j] = wait.time[j]
          /\ \A l \in SyncObjects : Linked(wait', l, j) => Linked(wait, l, j)
      BY <1>3, <1>4, <2>2
    <3> QED
      BY <3>1, <3>2 DEF Patient
  <2> QED
    BY <2>1, <2>2
<1> QED
  BY <1>3, <1>5, <1>6 DEF WaitsOK

LEMMA WaitsTick ==
    ASSUME WaitsOK, wait' = TickWaiters(wait), call' = call
    PROVE  WaitsOK'
<1>1. /\ wait' \in WaitType /\ ListsOnce(wait')
      /\ \A l \in SyncObjects, j \in Tasks :
            Linked(wait', l, j) <=> Linked(wait, l, j) /\ j \notin Expired(wait)
      /\ \A j \in Tasks : wait'.timeout[j] = (wait.timeout[j] \/ j \in Expired(wait))
  BY TickWaitersLemma DEF WaitsOK
<1>2. ASSUME NEW j \in Tasks PROVE Patient(call'[j], wait', j)
  <2> SUFFICES ASSUME call[j] # NoCall, call[j].op = "PipeTWrite", call[j].blocked
               PROVE  ~wait'.timeout[j] /\ \A l \in SyncObjects : Linked(wait', l, j) => wait'.time[j] = WAIT_INFINITE
    BY DEF Patient
  <2>1. ~wait.timeout[j] /\ \A l \in SyncObjects : Linked(wait, l, j) => wait.time[j] = WAIT_INFINITE
    BY DEF WaitsOK, Patient
  <2>2. j \notin Expired(wait)
    BY <2>1, IsWaitingLemma DEF Expired
  <2>3. wait.time[j] = WAIT_INFINITE => wait'.time[j] = WAIT_INFINITE
    <3>1. wait'.time[j] = CASE j \in Expired(wait) -> 0
                      [] IsWaiting(wait, j) /\ wait.time[j] # WAIT_INFINITE /\ j \notin Expired(wait)
                            -> wait.time[j] - 1
                      [] OTHER -> wait.time[j]
      BY DEF TickWaiters
    <3> QED
      BY <2>2, <3>1
  <2> QED
    BY <1>1, <2>1, <2>2, <2>3
<1>3. \A l \in SyncObjects, t \in Tasks : Linked(wait', l, t) =>
          call'[t] # NoCall /\ call'[t].blocked /\ l = ListFor(call'[t])
  BY <1>1 DEF WaitsOK
<1> QED
  BY <1>1, <1>2, <1>3 DEF WaitsOK

-----------------------------------------------------------------------------
(* A step of the task t.  A mark that is there afterwards has its queue entry or is
   carried by t, or it was there before and had another cause than these *)
PendingKept(t) ==
    \A o \in TimerNames : obj'[o].m_pending =>
        \/ o \in Elements(obj'["ready"]) \/ Carries(call'[t], ret'[t], o)
        \/ obj[o].m_pending /\ o \notin Elements(obj["ready"]) /\ ~Carries(call[t], ret[t], o)

Queued(q, o) == \E x \in Elements(q) : Restarts(x, o)

RearmingKept(t) ==
    \A o \in TimerNames : obj'[o].m_rearming =>
        \/ Queued(obj'["commands"], o) \/ Rearms(call'[t], ret'[t], o)
        \/ obj[o].m_rearming /\ ~Queued(obj["commands"], o) /\ ~Rearms(call[t], ret[t], o)

HostStep(t) ==
    /\ Only(t) /\ now' = now
    /\ DOMAIN obj' = DOMAIN obj /\ \A o \in DOMAIN obj : ObjectOK(o, obj'[o])
    /\ call'[t] = NoCall \/ AtRest(call'[t])
    /\ Result(call'[t], ret'[t])
    /\ WakesSome(t) \/ ParksIn(t)
    /\ PendingKept(t) /\ (RearmCommands = {"RESTART"} => RearmingKept(t))

(* The task t takes a step of the frame c, its own or a new one *)
Serves(t, c) ==
    /\ Unlinked(t)
    /\ \/ call[t] = NoCall /\ CallFrame(c)
       \/ call[t] = c /\ AtRest(c)

(* The queue entries and marks that t has are those it had *)
KeepsPending(t) ==
    \A o \in TimerNames : obj'[o].m_pending /\ Carries(call[t], ret[t], o) => Carries(call'[t], ret'[t], o)

KeepsRearming(t) ==
    \A o \in TimerNames : obj'[o].m_rearming /\ Rearms(call[t], ret[t], o) => Rearms(call'[t], ret'[t], o)

LEMMA ProgramLemma ==
    ASSUME TimerOnly, HostState
    PROVE  /\ Pipes \subseteq DOMAIN obj /\ NULL \notin DOMAIN obj
           /\ \A o \in Pipes : NotEmpty(o) \in SyncObjects /\ NotFull(o) \in SyncObjects
           /\ \A o \in Pipes : Kind(o) = "pipe" /\ o \notin TimerNames /\ o \notin HostNames
           /\ \A o \in TimerNames : o \in DOMAIN obj /\ o \notin HostNames /\ TimerShape(obj[o])
           /\ \A o \in HostNames : o \in DOMAIN obj /\ HostShape(obj[o])
           /\ \A o \in Pipes : PipeShape(o, obj[o]) /\ obj[o].kind = "pipe"
           /\ \E l : l \in SyncObjects
<1> HIDE DEF The
<1>1. TimerProgram(The) /\ DOMAIN obj = DOMAIN The.objects /\ \A o \in DOMAIN obj : ObjectOK(o, obj[o])
  BY DEF TimerOnly, HostState
<1>2. /\ Pipes \subseteq DOMAIN obj /\ NULL \notin DOMAIN obj
      /\ \A o \in Pipes : NotEmpty(o) \in SyncObjects /\ NotFull(o) \in SyncObjects
  BY <1>1 DEF TimerProgram
<1>3. ASSUME NEW o \in Pipes PROVE Kind(o) = "pipe"
  <2>1. The.objects[o] = PipeObject(The.objects[o].m_capacity)
    BY <1>1, <1>2 DEF TimerProgram
  <2> QED
    BY <2>1 DEF PipeObject, RingObject, Kind
<1>4. \A o \in Pipes : o \notin TimerNames /\ o \notin HostNames
  BY <1>3 DEF TimerNames, HostNames
<1>5. \A o \in TimerNames : o \in DOMAIN obj /\ o \notin HostNames /\ TimerShape(obj[o])
  BY <1>1 DEF ObjectOK, TimerNames, HostNames
<1>6. \A o \in HostNames : o \in DOMAIN obj /\ HostShape(obj[o])
  BY <1>1 DEF ObjectOK, HostNames
<1>7. \A o \in Pipes : PipeShape(o, obj[o]) /\ obj[o].kind = "pipe"
  BY <1>1, <1>2, <1>3 DEF ObjectOK
<1>8. \E l : l \in SyncObjects
  BY <1>2 DEF Pipes
<1> QED
  BY <1>2, <1>3, <1>4, <1>5, <1>6, <1>7, <1>8

(* A step that changes no object and wakes nobody *)
LEMMA QuietStep ==
    ASSUME TimerOnly, HostState, NEW t \in Tasks, Only(t),
           obj' = obj, wait' = wait, now' = now,
           call'[t] = NoCall \/ (AtRest(call'[t]) /\ call'[t].blocked = FALSE),
           Result(call'[t], ret'[t]), KeepsPending(t), KeepsRearming(t)
    PROVE  HostStep(t)
<1>1. WakesSome(t)
  BY ProgramLemma DEF WakesSome
<1>2. PendingKept(t)
  BY DEF PendingKept, KeepsPending
<1>3. RearmingKept(t)
  BY DEF RearmingKept, KeepsRearming
<1>4. DOMAIN obj' = DOMAIN obj /\ \A o \in DOMAIN obj : ObjectOK(o, obj'[o])
  BY DEF HostState
<1> QED
  BY <1>1, <1>2, <1>3, <1>4 DEF HostStep

LEMMA GoesLemma ==
    ASSUME HostState, NEW t \in Tasks, NEW d, Goto(t, d)
    PROVE  /\ DOMAIN call' = Tasks /\ call'[t] = d
           /\ \A u \in Tasks : u # t => call'[u] = call[u]
           /\ ret' = ret => Only(t) /\ ret'[t] = ret[t]
           /\ Forgets(t) => Only(t) /\ ret'[t] = NULL
BY DEF HostState, Goto, Forgets, Only

LEMMA ReturnsLemma ==
    ASSUME HostState, NEW t \in Tasks, NEW c, NEW v, Return(t, c, v)
    PROVE  /\ Only(t) /\ call'[t] = c.then
           /\ c.then # NoCall => ret'[t] = v
BY DEF HostState, Return, Goto, Only

LEMMA ResumeLemma ==
    ASSUME NEW c, IsFrame(c), NEW op
    PROVE  LET d == Resume(c, op)
           IN  /\ IsFrame(d) /\ d.op = op /\ d.o = c.o /\ d.x = c.x /\ d.ticks = c.ticks
               /\ d.blocked = FALSE /\ d.then = c.then /\ d.acc = c.acc /\ d.deadline = c.deadline
BY DEF Resume, IsFrame, FrameFields

(* The frame e is the frame next, not blocked *)
SameFrame(e, next) ==
    /\ IsFrame(e) /\ e.blocked = FALSE
    /\ e.op = next.op /\ e.o = next.o /\ e.x = next.x /\ e.ticks = next.ticks
    /\ e.acc = next.acc /\ e.then = next.then

LEMMA CallingLemma ==
    ASSUME NEW d, IsFrame(d), NEW next, IsFrame(next)
    PROVE  LET e == Calling(d, next)
           IN  /\ IsFrame(e) /\ e.op = d.op /\ e.o = d.o /\ e.x = d.x /\ e.ticks = d.ticks
               /\ e.blocked = d.blocked /\ e.acc = d.acc /\ SameFrame(e.then, next)
<1> DEFINE n == [next EXCEPT !.blocked = FALSE]
<1>1. SameFrame(n, next)
  BY DEF IsFrame, FrameFields, SameFrame
<1>2. Calling(d, next) = [d EXCEPT !.then = n]
  BY DEF Calling
<1> HIDE DEF n
<1> QED
  BY <1>1, <1>2 DEF IsFrame, FrameFields

LEMMA SameFrameLemma ==
    ASSUME NEW e, NEW next, SameFrame(e, next)
    PROVE  /\ TickFrame(next) => TickFrame(e)
           /\ PushFrame(next) => PushFrame(e)
           /\ HandlerFrame(next) => HandlerFrame(e)
BY DEF SameFrame, TickFrame, PushFrame, HandlerFrame, Outer

(* Times of the clock and time-outs *)
LEMMA TickTimes ==
    /\ 0 \in Clock /\ NO_WAIT \in Times /\ WAIT_INFINITE \in Times /\ WAIT_INFINITE # NO_WAIT
    /\ \A x \in Int : x % 2^TimeoutBits \in Clock /\ AsTimeout(x) \in Signed
    /\ \A x \in Clock : x \in Int
<1>1. 2^TimeoutBits \in Nat /\ 2^TimeoutBits > 0 /\ WAIT_INFINITE \in Nat /\ WAIT_INFINITE # NO_WAIT
  BY TimeoutAssumption, WaitAssumption
<1>2. 0 \in Clock /\ NO_WAIT \in Times /\ WAIT_INFINITE \in Times /\ \A x \in Clock : x \in Int
  BY <1>1 DEF Clock, Times, NO_WAIT
<1> DEFINE n == 2^TimeoutBits
<1>3. ASSUME NEW x \in Int PROVE x % n \in Clock
  <2>1. n \in Nat /\ n > 0 /\ Clock = 0..n-1
    BY <1>1 DEF Clock
  <2> HIDE DEF n
  <2> QED
    BY <2>1
<1>4. \A x \in Int : AsTimeout(x) \in Signed
  BY AsTimeoutLemma
<1>5. \A x \in Int : x % 2^TimeoutBits \in Clock
  BY <1>3
<1> QED
  BY <1>1, <1>2, <1>4, <1>5

-----------------------------------------------------------------------------
(* The frame of a step is known by its method *)
LEMMA ServesLemma ==
    ASSUME NEW t, NEW c, Serves(t, c)
    PROVE  /\ Unlinked(t) /\ IsFrame(c)
           /\ c.op \in TimerOps \cup {"Shutdown", "UpdateTime"} => CallFrame(c) /\ call[t] = NoCall
           /\ c.op \in {"PushRearm", "SetRearming", "PushDone"} => PushFrame(c) /\ call[t] = c
           /\ c.op \in {"Execute", "NextCommand", "ProcessCommands", "LookAt"} =>
                TickFrame(c) /\ call[t] = c
           /\ c.op = "ProcessTimers" => HandlerFrame(c) /\ call[t] \in {NoCall, c}
           /\ c.op \in {"Handle", "OnExpired"} => HandlerFrame(c) /\ call[t] = c
           /\ c.op = "PipeTWrite" => WriteFrame(c) /\ call[t] = c
           /\ c.op = "PipeTRead" => ReadFrame(c) /\ call[t] = c
           /\ c.op \in TimerOps \cup {"Shutdown", "UpdateTime", "PushRearm", "SetRearming",
                "PushDone", "Execute", "NextCommand", "ProcessCommands", "LookAt",
                "ProcessTimers", "Handle", "OnExpired", "PipeTWrite", "PipeTRead"}
<1>1. CASE call[t] = NoCall /\ CallFrame(c)
  BY <1>1 DEF Serves, CallFrame, Outer, TimerOps, HandlerFrame
<1>2. CASE call[t] = c /\ AtRest(c)
  <2>1. CASE PushFrame(c)
    BY <1>2, <2>1 DEF Serves, PushFrame, Outer, TimerOps
  <2>2. CASE TickFrame(c)
    BY <1>2, <2>2 DEF Serves, TickFrame, Outer, TimerOps
  <2>3. CASE HandlerFrame(c)
    BY <1>2, <2>3 DEF Serves, HandlerFrame, Outer, TimerOps
  <2>4. CASE WriteFrame(c)
    BY <1>2, <2>4 DEF Serves, WriteFrame, Outer, TimerOps
  <2>5. CASE ReadFrame(c)
    BY <1>2, <2>5 DEF Serves, ReadFrame, Outer, TimerOps
  <2> QED
    BY <1>2, <2>1, <2>2, <2>3, <2>4, <2>5 DEF AtRest
<1> QED
  BY <1>1, <1>2 DEF Serves

(* A task that has no timer and no command under way *)
Free(t) == \A o \in TimerNames : ~Carries(call[t], ret[t], o) /\ ~Rearms(call[t], ret[t], o)

LEMMA FreeLemma ==
    ASSUME NEW t, \/ call[t] = NoCall
                  \/ call[t].op \notin {"PipeTWrite", "Handle", "OnExpired", "PushDone", "Execute"}
    PROVE  Free(t)
BY DEF Free, Carries, Rearms

(* A call answers at once, or sends its command *)
LEMMA AnswerStep ==
    ASSUME TimerOnly, HostState, NEW t \in Tasks, NEW c, c.then = NoCall, Free(t),
           NEW v, Answers(t, c, v)
    PROVE  HostStep(t)
<1>1. Only(t) /\ call'[t] = NoCall /\ obj' = obj /\ wait' = wait /\ now' = now
  BY ReturnsLemma DEF Answers
<1>2. KeepsPending(t) /\ KeepsRearming(t)
  BY DEF Free, KeepsPending, KeepsRearming
<1>3. Result(call'[t], ret'[t])
  BY <1>1 DEF Result
<1> QED
  BY <1>1, <1>2, <1>3, QuietStep

LEMMA CommandLemma ==
    ASSUME NEW c, c.x \in [delay: Nat, period: Nat], NEW cmd, NEW time \in Clock,
           cmd # "SHUTDOWN" => c.o \in TimerNames
    PROVE  LET x == Command(c, cmd, time)
           IN  IsCommand(x) /\ x.cmd = cmd /\ x.timer = c.o
BY DEF Command, IsCommand

LEMMA PushStep ==
    ASSUME TimerOnly, HostState, NEW t \in Tasks, NEW c, CallFrame(c), Free(t),
           c.x \in [delay: Nat, period: Nat], NEW cmd, NEW time \in Clock,
           cmd # "SHUTDOWN" => c.o \in TimerNames, Pushes(t, c, cmd, time)
    PROVE  HostStep(t)
<1> DEFINE x == Command(c, cmd, time)
           d == On(c, "PipeTWrite", "commands", x, NO_WAIT)
<1>1. IsCommand(x)
  BY CommandLemma
<1> HIDE DEF x
<1>2. /\ IsFrame(d) /\ d.op = "PipeTWrite" /\ d.o = "commands" /\ d.x = x /\ d.ticks = NO_WAIT
      /\ d.blocked = FALSE /\ d.then = NoCall
  <2>1. IsFrame(c) /\ c.then = NoCall /\ NO_WAIT \in Times
    BY TickTimes DEF CallFrame, Outer
  <2> QED
    BY <2>1 DEF On, IsFrame, FrameFields
<1>3. Goto(t, d) /\ obj' = obj /\ wait' = wait /\ ret' = ret /\ now' = now
  BY DEF Pushes, x
<1> HIDE DEF d
<1>4. Only(t) /\ call'[t] = d
  BY <1>3, GoesLemma
<1>5. AtRest(d)
  BY <1>1, <1>2 DEF AtRest, WriteFrame
<1>6. KeepsPending(t) /\ KeepsRearming(t)
  BY DEF Free, KeepsPending, KeepsRearming
<1>7. Result(call'[t], ret'[t])
  BY <1>2, <1>4 DEF Result
<1> QED
  BY <1>2, <1>3, <1>4, <1>5, <1>6, <1>7, QuietStep

LEMMA RearmStep ==
    ASSUME TimerOnly, HostState, NEW t \in Tasks, NEW c, CallFrame(c), Free(t), c.o \in TimerNames,
           c.x \in [delay: Nat, period: Nat], NEW cmd \in RearmCommands,
           Goto(t, On(c, "PushRearm", c.o, Command(c, cmd, now), NO_WAIT)),
           UNCHANGED <<obj, wait, ret, now>>
    PROVE  HostStep(t)
<1> DEFINE x == Command(c, cmd, now)
           d == On(c, "PushRearm", c.o, x, NO_WAIT)
<1>1. IsCommand(x) /\ x.cmd = cmd /\ x.timer = c.o
  BY CommandLemma DEF HostState
<1> HIDE DEF x
<1>2. /\ IsFrame(d) /\ d.op = "PushRearm" /\ d.o = c.o /\ d.x = x /\ d.blocked = FALSE /\ d.then = NoCall
  <2>1. IsFrame(c) /\ c.then = NoCall /\ NO_WAIT \in Times
    BY TickTimes DEF CallFrame, Outer
  <2> QED
    BY <2>1 DEF On, IsFrame, FrameFields
<1>3. Goto(t, d) /\ obj' = obj /\ wait' = wait /\ ret' = ret /\ now' = now
  BY DEF x
<1> HIDE DEF d
<1>4. Only(t) /\ call'[t] = d
  BY <1>3, GoesLemma
<1>5. AtRest(d)
  BY <1>1, <1>2 DEF AtRest, PushFrame, Outer
<1>6. KeepsPending(t) /\ KeepsRearming(t)
  BY DEF Free, KeepsPending, KeepsRearming
<1>7. Result(call'[t], ret'[t])
  BY <1>2, <1>4 DEF Result
<1> QED
  BY <1>2, <1>3, <1>4, <1>5, <1>6, <1>7, QuietStep

LEMMA CallsStep ==
    ASSUME TimerOnly, HostState, NEW t \in Tasks, NEW c, Serves(t, c),
           \/ TimerStart(t, c) \/ TimerStop(t, c) \/ TimerReset(t, c) \/ TimerSetPeriod(t, c)
           \/ TimerRestart(t, c) \/ TimerStartOrReset(t, c) \/ Shutdown(t, c)
    PROVE  HostStep(t)
<1>1. c.op \in TimerOps \cup {"Shutdown"}
  BY DEF TimerStart, TimerStop, TimerReset, TimerSetPeriod, TimerRestart, TimerStartOrReset,
         Shutdown, TimerOps
<1>2. CallFrame(c) /\ call[t] = NoCall
  BY <1>1, ServesLemma
<1>3. Free(t) /\ c.then = NoCall
  BY <1>2, FreeLemma DEF CallFrame, Outer
<1>4. c.x \in [delay: Nat, period: Nat] /\ (c.op \in TimerOps => c.o \in TimerNames)
  BY <1>1, <1>2 DEF CallFrame, TimerOps
<1>5. now \in Clock /\ 0 \in Clock
  BY TickTimes DEF HostState
<1>6. \A v : Answers(t, c, v) => HostStep(t)
  BY <1>3, AnswerStep
<1>7. CASE TimerStart(t, c)
  BY <1>2, <1>3, <1>4, <1>5, <1>6, <1>7, PushStep DEF TimerStart, TimerOps
<1>8. CASE TimerStop(t, c)
  BY <1>2, <1>3, <1>4, <1>5, <1>6, <1>8, PushStep DEF TimerStop, TimerOps
<1>9. CASE TimerReset(t, c)
  BY <1>2, <1>3, <1>4, <1>5, <1>6, <1>9, PushStep DEF TimerReset, TimerOps
<1>10. CASE TimerSetPeriod(t, c)
  BY <1>2, <1>3, <1>4, <1>5, <1>6, <1>10, PushStep DEF TimerSetPeriod, TimerOps
<1>11. CASE TimerRestart(t, c)
  <2>1. "RESTART" \in RearmCommands /\ c.o \in TimerNames
    BY <1>4, <1>11 DEF RearmCommands, TimerRestart, TimerOps
  <2> QED
    BY <1>2, <1>3, <1>4, <1>11, <2>1, RearmStep DEF TimerRestart
<1>12. CASE TimerStartOrReset(t, c)
  <2>1. "START_OR_RESET" \in RearmCommands /\ c.o \in TimerNames
    BY <1>2, <1>4, <1>12 DEF CallFrame, TimerStartOrReset, TimerOps
  <2> QED
    BY <1>2, <1>3, <1>4, <1>12, <2>1, RearmStep DEF TimerStartOrReset
<1>13. CASE Shutdown(t, c)
  BY <1>2, <1>3, <1>4, <1>5, <1>13, PushStep DEF Shutdown
<1> QED
  BY <1>7, <1>8, <1>9, <1>10, <1>11, <1>12, <1>13

-----------------------------------------------------------------------------
(* The objects after a step that sets one of them, or a timer or a pipe and the list of
   the host *)
SetTo(o, r) ==
    /\ DOMAIN obj' = DOMAIN obj /\ obj'[o] = r
    /\ \A p \in DOMAIN obj : p # o => obj'[p] = obj[p]
    /\ \A p \in DOMAIN obj : ObjectOK(p, obj'[p])

SetWithList(o, r, h) ==
    /\ DOMAIN obj' = DOMAIN obj /\ obj'[o] = r
    /\ \A p \in DOMAIN obj : p \notin {o, h} => obj'[p] = obj[p]
    /\ \A p \in DOMAIN obj : ObjectOK(p, obj'[p])

LEMMA ShapesLemma ==
    ASSUME TimerOnly, HostState, NEW r
    PROVE  /\ \A o \in TimerNames : TimerShape(r) => ObjectOK(o, r)
           /\ \A o \in HostNames : HostShape(r) => ObjectOK(o, r)
           /\ \A o \in Pipes : PipeShape(o, r) /\ r.kind = "pipe" => ObjectOK(o, r)
<1>1. ASSUME NEW o \in TimerNames, TimerShape(r) PROVE ObjectOK(o, r)
  BY <1>1, ProgramLemma DEF ObjectOK, TimerNames, TimerShape
<1>2. ASSUME NEW o \in HostNames, HostShape(r) PROVE ObjectOK(o, r)
  BY <1>2, ProgramLemma DEF ObjectOK, HostNames, HostShape
<1>3. ASSUME NEW o \in Pipes, PipeShape(o, r), r.kind = "pipe" PROVE ObjectOK(o, r)
  BY <1>3, ProgramLemma DEF ObjectOK
<1> QED
  BY <1>1, <1>2, <1>3

LEMMA SetToLemma ==
    ASSUME TimerOnly, HostState, NEW o \in DOMAIN obj, NEW r, ObjectOK(o, r), Set(o, r)
    PROVE  SetTo(o, r)
<1>1. \A p \in DOMAIN obj : ObjectOK(p, obj[p])
  BY DEF HostState
<1>2. DOMAIN obj' = DOMAIN obj /\ obj'[o] = r /\ \A p \in DOMAIN obj : p # o => obj'[p] = obj[p]
  BY DEF Set
<1>3. ASSUME NEW p \in DOMAIN obj PROVE ObjectOK(p, obj'[p])
  BY <1>1, <1>2
<1> QED
  BY <1>2, <1>3 DEF SetTo

LEMMA SetWithListLemma ==
    ASSUME TimerOnly, HostState, NEW o \in DOMAIN obj, NEW r, ObjectOK(o, r), NEW h \in HostNames,
           o # h, NEW list \in Seq(TimerNames), obj' = [obj EXCEPT ![o] = r, ![h].m_active = list]
    PROVE  SetWithList(o, r, h)
<1>1. \A p \in DOMAIN obj : ObjectOK(p, obj[p])
  BY DEF HostState
<1>2. h \in DOMAIN obj /\ HostShape(obj[h])
  BY ProgramLemma
<1> DEFINE k == [obj[h] EXCEPT !.m_active = list]
<1>3. HostShape(k)
  BY <1>2 DEF HostShape
<1>4. ObjectOK(h, k)
  <2> HIDE DEF k
  <2> QED
    BY <1>3, ShapesLemma
<1>5. /\ DOMAIN obj' = DOMAIN obj /\ obj'[o] = r /\ obj'[h] = k
      /\ \A p \in DOMAIN obj : p \notin {o, h} => obj'[p] = obj[p]
  BY <1>2
<1> HIDE DEF k
<1>6. ASSUME NEW p \in DOMAIN obj PROVE ObjectOK(p, obj'[p])
  BY <1>1, <1>4, <1>5
<1> QED
  BY <1>5, <1>6 DEF SetWithList

(* A step that only changes the list of a host, timers and nothing else in the queues *)
LEMMA ReadyKept ==
    ASSUME TimerOnly, HostState, NEW o, NEW r, NEW h, h \notin Pipes, o \notin Pipes,
           SetTo(o, r) \/ SetWithList(o, r, h)
    PROVE  obj'["ready"] = obj["ready"] /\ obj'["commands"] = obj["commands"]
BY ProgramLemma DEF SetTo, SetWithList, Pipes

(* A step that does not wait *)
LEMMA RunStep ==
    ASSUME TimerOnly, HostState, NEW t \in Tasks, Only(t), now' = now,
           DOMAIN obj' = DOMAIN obj, \A o \in DOMAIN obj : ObjectOK(o, obj'[o]),
           call'[t] = NoCall \/ (AtRest(call'[t]) /\ call'[t].blocked = FALSE),
           Result(call'[t], ret'[t]), WakesSome(t), PendingKept(t),
           RearmCommands = {"RESTART"} => RearmingKept(t)
    PROVE  HostStep(t)
BY DEF HostStep

LEMMA WakesLemma ==
    ASSUME TimerOnly, HostState, NEW t \in Tasks, call'[t] = NoCall \/ call'[t].blocked = FALSE,
           \/ wait' = wait
           \/ \E o \in Pipes : wait' \in {WakeOne(wait, NotEmpty(o)), WakeAll(wait, NotEmpty(o)),
                                         WakeOne(wait, NotFull(o)), WakeAll(wait, NotFull(o))}
    PROVE  WakesSome(t)
BY ProgramLemma DEF WakesSome

-----------------------------------------------------------------------------
(* PushCommand with a mark *)
LEMMA PushRearmStep ==
    ASSUME TimerOnly, HostState, NEW t \in Tasks, NEW c, Serves(t, c), PushRearm(t, c)
    PROVE  HostStep(t)
<1>1. PushFrame(c) /\ call[t] = c /\ c.op = "PushRearm"
  BY ServesLemma DEF PushRearm
<1>2. Free(t) /\ c.then = NoCall /\ IsFrame(c)
  BY <1>1, FreeLemma DEF PushFrame, Outer
<1>3. CASE Answers(t, c, OK)
  BY <1>2, <1>3, AnswerStep
<1>4. CASE Goto(t, Resume(c, "SetRearming")) /\ UNCHANGED <<obj, wait, ret, now>>
  <2> DEFINE d == Resume(c, "SetRearming")
  <2>1. /\ IsFrame(d) /\ d.op = "SetRearming" /\ d.o = c.o /\ d.x = c.x /\ d.blocked = FALSE
        /\ d.then = c.then
    BY <1>2 DEF Resume, IsFrame, FrameFields
  <2>2. Goto(t, d) /\ obj' = obj /\ wait' = wait /\ ret' = ret /\ now' = now
    BY <1>4
  <2> HIDE DEF d
  <2>3. Only(t) /\ call'[t] = d
    BY <2>2, GoesLemma
  <2>4. AtRest(d)
    BY <1>1, <2>1 DEF AtRest, PushFrame, Outer
  <2>5. KeepsPending(t) /\ KeepsRearming(t)
    BY <1>2 DEF Free, KeepsPending, KeepsRearming
  <2>6. Result(call'[t], ret'[t])
    BY <2>1, <2>3 DEF Result
  <2> QED
    BY <2>1, <2>2, <2>3, <2>4, <2>5, <2>6, QuietStep
<1> QED
  BY <1>3, <1>4 DEF PushRearm

LEMMA SetRearmingStep ==
    ASSUME TimerOnly, HostState, NEW t \in Tasks, NEW c, Serves(t, c), SetRearming(t, c)
    PROVE  HostStep(t)
<1>1. PushFrame(c) /\ call[t] = c /\ c.op = "SetRearming"
  BY ServesLemma DEF SetRearming
<1>2. /\ Free(t) /\ c.then = NoCall /\ IsFrame(c) /\ c.o \in TimerNames /\ IsCommand(c.x)
      /\ c.x.timer = c.o /\ c.x.cmd \in RearmCommands
  BY <1>1, FreeLemma DEF PushFrame, Outer
<1> DEFINE r == [obj[c.o] EXCEPT !.m_rearming = TRUE]
           w == On(c, "PipeTWrite", "commands", c.x, NO_WAIT)
           next == Resume(c, "PushDone")
           d == Calling(w, next)
<1>3. TimerShape(obj[c.o]) /\ c.o \in DOMAIN obj /\ c.o \notin Pipes
  BY <1>2, ProgramLemma
<1>4. TimerShape(r) /\ r.m_pending = obj[c.o].m_pending
  BY <1>3 DEF TimerShape
<1>5. /\ IsFrame(w) /\ w.op = "PipeTWrite" /\ w.o = "commands" /\ w.x = c.x /\ w.ticks = NO_WAIT
      /\ w.blocked = FALSE
  <2>1. NO_WAIT \in Times
    BY TickTimes
  <2> QED
    BY <1>2, <2>1 DEF On, IsFrame, FrameFields
<1>6. /\ IsFrame(next) /\ next.op = "PushDone" /\ next.o = c.o /\ next.x = c.x
      /\ next.blocked = FALSE /\ next.then = c.then
  BY <1>2, ResumeLemma
<1>7. Set(c.o, r) /\ Goto(t, d) /\ wait' = wait /\ ret' = ret /\ now' = now
  BY DEF SetRearming
<1> HIDE DEF r, w, next
<1>8. /\ IsFrame(d) /\ d.op = w.op /\ d.o = w.o /\ d.x = w.x /\ d.ticks = w.ticks
      /\ d.blocked = w.blocked /\ SameFrame(d.then, next)
  BY <1>5, <1>6, CallingLemma
<1> HIDE DEF d
<1>9. PushFrame(next)
  BY <1>2, <1>6 DEF PushFrame, Outer
<1>10. PushFrame(d.then) /\ d.then.op = "PushDone" /\ d.then.o = c.o
  BY <1>6, <1>8, <1>9, SameFrameLemma DEF SameFrame
<1>11. AtRest(d)
  BY <1>2, <1>5, <1>8, <1>10 DEF AtRest, WriteFrame
<1>12. Only(t) /\ call'[t] = d
  BY <1>7, GoesLemma
<1>13. SetTo(c.o, r)
  BY <1>2, <1>3, <1>4, <1>7, ShapesLemma, SetToLemma
<1>14. obj'["ready"] = obj["ready"] /\ obj'["commands"] = obj["commands"]
  BY <1>3, <1>13, ReadyKept
<1>15. PendingKept(t)
  <2>1. \A o \in TimerNames : obj'[o].m_pending = obj[o].m_pending
    BY <1>4, <1>13, ProgramLemma DEF SetTo
  <2> QED
    BY <1>2, <1>14, <2>1 DEF PendingKept, Free
<1>16. ASSUME RearmCommands = {"RESTART"} PROVE RearmingKept(t)
  <2>1. Rearms(call'[t], ret'[t], c.o)
    <3>1. d # NoCall /\ d.then # NoCall
      BY <1>5, <1>8, <1>10 DEF NoCall
    <3> QED
      BY <1>2, <1>5, <1>8, <1>10, <1>12, <1>16, <3>1 DEF Rearms, Restarts
  <2>2. \A o \in TimerNames : o # c.o => obj'[o] = obj[o]
    BY <1>13, ProgramLemma DEF SetTo
  <2> QED
    BY <1>2, <1>14, <2>1, <2>2 DEF RearmingKept, Free
<1>17. WakesSome(t) /\ Result(call'[t], ret'[t])
  BY <1>5, <1>7, <1>8, <1>12, WakesLemma DEF Result
<1> QED
  BY <1>5, <1>7, <1>8, <1>11, <1>12, <1>13, <1>15, <1>16, <1>17, RunStep DEF SetTo

LEMMA PushDoneStep ==
    ASSUME TimerOnly, HostState, NEW t \in Tasks, NEW c, Serves(t, c), PushDone(t, c)
    PROVE  HostStep(t)
<1>1. PushFrame(c) /\ call[t] = c /\ c.op = "PushDone"
  BY ServesLemma DEF PushDone
<1>2. c.then = NoCall /\ c.o \in TimerNames
  BY <1>1 DEF PushFrame, Outer
<1> DEFINE r == IF ret[t] = FAIL THEN [obj[c.o] EXCEPT !.m_rearming = FALSE] ELSE obj[c.o]
<1>3. TimerShape(obj[c.o]) /\ c.o \in DOMAIN obj /\ c.o \notin Pipes
  BY <1>2, ProgramLemma
<1>4. /\ TimerShape(r) /\ r.m_pending = obj[c.o].m_pending
      /\ ret[t] # FAIL => r = obj[c.o]
      /\ ret[t] = FAIL => r.m_rearming = FALSE
  BY <1>3 DEF TimerShape
<1>5. Set(c.o, r) /\ Return(t, c, ret[t]) /\ wait' = wait /\ now' = now
  BY DEF PushDone
<1> HIDE DEF r
<1>6. Only(t) /\ call'[t] = NoCall
  BY <1>2, <1>5, ReturnsLemma
<1>7. SetTo(c.o, r)
  BY <1>2, <1>3, <1>4, <1>5, ShapesLemma, SetToLemma
<1>8. obj'["ready"] = obj["ready"] /\ obj'["commands"] = obj["commands"]
  BY <1>3, <1>7, ReadyKept
<1>9. \A o \in TimerNames : obj'[o].m_pending = obj[o].m_pending
  BY <1>4, <1>7, ProgramLemma DEF SetTo
<1>10. PendingKept(t)
  BY <1>1, <1>8, <1>9 DEF PendingKept, Carries
<1>11. ASSUME NEW o \in TimerNames, obj'[o].m_rearming
       PROVE  obj[o].m_rearming /\ ~Rearms(call[t], ret[t], o)
  <2>1. CASE o = c.o
    BY <1>1, <1>4, <1>7, <1>11, <2>1 DEF SetTo, Rearms
  <2>2. CASE o # c.o
    BY <1>1, <1>7, <1>11, <2>2, ProgramLemma DEF SetTo, Rearms
  <2> QED
    BY <2>1, <2>2
<1>12. RearmingKept(t)
  BY <1>8, <1>11 DEF RearmingKept
<1>13. WakesSome(t) /\ Result(call'[t], ret'[t])
  BY <1>5, <1>6, WakesLemma DEF Result
<1> QED
  BY <1>5, <1>6, <1>7, <1>10, <1>12, <1>13, RunStep DEF SetTo

-----------------------------------------------------------------------------
(* The pipes.  A frame that blocks *)
LEMMA BlockedLemma ==
    ASSUME NEW c, IsFrame(c)
    PROVE  LET d == [c EXCEPT !.blocked = TRUE]
           IN  /\ IsFrame(d) /\ d.blocked = TRUE /\ d.op = c.op /\ d.o = c.o /\ d.x = c.x
               /\ d.ticks = c.ticks /\ d.then = c.then /\ d # NoCall
<1> DEFINE d == [c EXCEPT !.blocked = TRUE]
<1>1. /\ IsFrame(d) /\ d.blocked = TRUE /\ d.op = c.op /\ d.o = c.o /\ d.x = c.x
      /\ d.ticks = c.ticks /\ d.then = c.then
  BY DEF IsFrame, FrameFields
<1>2. d # NoCall
  <2>1. DOMAIN d = FrameFields /\ DOMAIN NoCall = {"op"}
    BY DEF IsFrame, NoCall
  <2> QED
    BY <2>1 DEF FrameFields
<1> QED
  BY <1>1, <1>2

LEMMA WriteStep ==
    ASSUME TimerOnly, HostState, NEW t \in Tasks, NEW c, Serves(t, c), PipeTWrite(t, c)
    PROVE  HostStep(t)
<1> DEFINE q == obj[c.o]
<1>1. WriteFrame(c) /\ call[t] = c /\ c.op = "PipeTWrite" /\ c # NoCall /\ Unlinked(t)
  BY ServesLemma DEF PipeTWrite, NoCall
<1>2. c.o \in Pipes /\ IsFrame(c) /\ Fits(c.o, c.x)
  BY <1>1 DEF WriteFrame, Pipes, Fits
<1>3. /\ c.o \in DOMAIN obj /\ PipeShape(c.o, q) /\ q.kind = "pipe"
      /\ NotEmpty(c.o) \in SyncObjects /\ NotFull(c.o) \in SyncObjects
  BY <1>2, ProgramLemma
<1>4. PutWith(t, c, Add(q, c.x))
  BY DEF PipeTWrite
<1> HIDE DEF q
<1>5. ASSUME Blocks(t, c, Full(q), NotFull(c.o), c.ticks), obj' = obj, now' = now
      PROVE  HostStep(t)
  <2> DEFINE d == [c EXCEPT !.blocked = TRUE]
  <2>1. /\ IsFrame(d) /\ d.blocked = TRUE /\ d.op = c.op /\ d.o = c.o /\ d.x = c.x
        /\ d.ticks = c.ticks /\ d.then = c.then /\ d # NoCall
    BY <1>2, BlockedLemma
  <2>2. /\ Goto(t, d) /\ ret' = ret /\ c.ticks # NO_WAIT
        /\ wait' = SetupWait(wait, NotFull(c.o), t, c.ticks)
    BY <1>5 DEF Blocks, KernelWait
  <2> HIDE DEF d
  <2>3. Only(t) /\ call'[t] = d /\ ret'[t] = ret[t]
    BY <2>2, GoesLemma
  <2>4. c.o = "ready" /\ c.ticks = WAIT_INFINITE
    BY <1>1, <2>2 DEF WriteFrame
  <2>5. AtRest(d)
    BY <1>1, <2>1, <2>4 DEF AtRest, WriteFrame
  <2>6. ListFor(d) = NotFull(c.o)
    BY <1>1, <2>1 DEF ListFor, NotFull
  <2>7. ParksIn(t)
    BY <1>1, <1>2, <1>3, <2>1, <2>2, <2>3, <2>4, <2>6 DEF ParksIn, IsFrame
  <2>8. PendingKept(t) /\ RearmingKept(t)
    BY <1>1, <1>5, <2>1, <2>3, <2>4 DEF PendingKept, RearmingKept, Carries, Rearms
  <2>9. Result(call'[t], ret'[t])
    BY <1>1, <2>1, <2>3 DEF Result
  <2>10. DOMAIN obj' = DOMAIN obj /\ \A o \in DOMAIN obj : ObjectOK(o, obj'[o])
    BY <1>5 DEF HostState
  <2> QED
    BY <1>5, <2>3, <2>5, <2>7, <2>8, <2>9, <2>10 DEF HostStep
<1>6. c.then = NoCall \/ (AtRest(c.then) /\ c.then.blocked = FALSE
                          /\ c.then.op \in {"PushDone", "LookAt", "ProcessCommands"})
  BY <1>1 DEF WriteFrame, AtRest, TickFrame, PushFrame, Outer
<1>7. ASSUME GivesUp(t, c, Full(q), c.ticks), Return(t, c, FAIL), obj' = obj, wait' = wait, now' = now
      PROVE  HostStep(t)
  <2>1. c.o = "commands"
    <3> SUFFICES ASSUME c.o = "ready" PROVE FALSE
      BY <1>2 DEF Pipes
    <3>1. c.ticks = WAIT_INFINITE /\ WAIT_INFINITE # NO_WAIT
      BY <1>1, TickTimes DEF WriteFrame
    <3>2. c.blocked /\ wait.timeout[t]
      BY <1>7, <3>1 DEF GivesUp, TimedOut
    <3>3. Patient(c, wait, t)
      BY <1>1 DEF HostState, WaitsOK
    <3> QED
      BY <1>1, <3>2, <3>3 DEF Patient
  <2>2. Only(t) /\ call'[t] = c.then /\ (c.then # NoCall => ret'[t] = FAIL)
    BY <1>7, ReturnsLemma
  <2>3. c.then # NoCall => c.then.op = "PushDone" /\ c.then.o = c.x.timer
    BY <1>1, <2>1 DEF WriteFrame
  <2>4. KeepsPending(t)
    BY <1>1, <2>1 DEF KeepsPending, Carries
  <2>5. KeepsRearming(t)
    BY <1>1, <2>1, <2>2, <2>3 DEF KeepsRearming, Rearms, Restarts
  <2>6. Result(call'[t], ret'[t])
    BY <1>6, <2>2 DEF Result
  <2> QED
    BY <1>6, <1>7, <2>2, <2>4, <2>5, <2>6, QuietStep
<1>8. ASSUME Proceeds(t, c, Full(q)), Set(c.o, Add(q, c.x)), wait' = WakeOne(wait, NotEmpty(c.o)),
             Return(t, c, OK), now' = now
      PROVE  HostStep(t)
  <2> DEFINE r == Add(q, c.x)
  <2>1. RingShape(q) /\ InOrder(q) /\ ~Full(q) /\ \A x \in Elements(q) : Fits(c.o, x)
    BY <1>3, <1>8 DEF PipeShape, Proceeds
  <2>2. RingShape(r) /\ InOrder(r) /\ r.kind = q.kind /\ Elements(r) = Elements(q) \cup {c.x}
    BY <2>1, ElementsAdd
  <2> HIDE DEF r
  <2>3. PipeShape(c.o, r) /\ r.kind = "pipe"
    BY <1>2, <1>3, <2>1, <2>2 DEF PipeShape
  <2>4. SetTo(c.o, r)
    BY <1>2, <1>3, <1>8, <2>3, ShapesLemma, SetToLemma DEF r
  <2>5. Only(t) /\ call'[t] = c.then
    BY <1>8, ReturnsLemma
  <2>6. WakesSome(t)
    BY <1>2, <1>6, <1>8, <2>5, WakesLemma
  <2>7. Result(call'[t], ret'[t])
    BY <1>6, <2>5 DEF Result
  <2>8. \A o \in TimerNames : obj'[o] = obj[o]
    BY <1>2, <2>4, ProgramLemma DEF SetTo
  <2>9. /\ c.o = "ready" => obj'["ready"] = r /\ obj["ready"] = q
        /\ c.o # "ready" => obj'["ready"] = obj["ready"]
        /\ c.o = "commands" => obj'["commands"] = r /\ obj["commands"] = q
        /\ c.o # "commands" => obj'["commands"] = obj["commands"]
    BY <2>4, ProgramLemma DEF SetTo, Pipes, q
  <2>10. PendingKept(t)
    <3> SUFFICES ASSUME NEW o \in TimerNames, obj'[o].m_pending
                 PROVE  \/ o \in Elements(obj'["ready"])
                        \/ obj[o].m_pending /\ o \notin Elements(obj["ready"])
                             /\ ~Carries(call[t], ret[t], o)
      BY DEF PendingKept
    <3>1. CASE c.o = "ready"
      BY <1>1, <2>2, <2>8, <2>9, <3>1 DEF Carries
    <3>2. CASE c.o # "ready"
      BY <1>1, <2>8, <2>9, <3>2 DEF Carries
    <3> QED
      BY <3>1, <3>2
  <2>11. RearmingKept(t)
    <3> SUFFICES ASSUME NEW o \in TimerNames, obj'[o].m_rearming
                 PROVE  \/ Queued(obj'["commands"], o)
                        \/ obj[o].m_rearming /\ ~Queued(obj["commands"], o)
                             /\ ~Rearms(call[t], ret[t], o)
      BY DEF RearmingKept
    <3>1. CASE c.o = "commands"
      BY <1>1, <2>2, <2>8, <2>9, <3>1 DEF Rearms, Queued
    <3>2. CASE c.o # "commands"
      BY <1>1, <2>8, <2>9, <3>2 DEF Rearms
    <3> QED
      BY <3>1, <3>2
  <2> QED
    BY <1>6, <1>8, <2>4, <2>5, <2>6, <2>7, <2>10, <2>11, RunStep DEF SetTo
<1> QED
  BY <1>4, <1>5, <1>7, <1>8 DEF PutWith, q

(* A read with the frame d, by a task that has nothing under way *)
LEMMA ReadsStep ==
    ASSUME TimerOnly, HostState, NEW t \in Tasks, Unlinked(t), Free(t), NEW d, ReadFrame(d),
           PipeReads(t, d)
    PROVE  HostStep(t)
<1> DEFINE q == obj[d.o]
<1>1. d.op = "PipeTRead" /\ IsFrame(d) /\ d.o \in Pipes /\ d # NoCall
  BY DEF ReadFrame, Pipes, NoCall
<1>2. /\ AtRest(d.then) /\ d.then # NoCall /\ d.then.blocked = FALSE
      /\ d.o = "commands" => d.then.op = "Execute"
      /\ d.o = "ready" => d.then.op = "Handle"
  BY DEF ReadFrame, AtRest, TickFrame, HandlerFrame, Outer, NoCall
<1>3. /\ d.o \in DOMAIN obj /\ PipeShape(d.o, q) /\ q.kind = "pipe"
      /\ NotEmpty(d.o) \in SyncObjects /\ NotFull(d.o) \in SyncObjects
  BY <1>1, ProgramLemma
<1>4. /\ now' = now
      /\ \/ Blocks(t, d, Empty(q), NotEmpty(d.o), d.ticks) /\ obj' = obj
         \/ GivesUp(t, d, Empty(q), d.ticks) /\ Return(t, d, <<>>) /\ obj' = obj /\ wait' = wait
         \/ /\ Proceeds(t, d, Empty(q)) /\ Set(d.o, RemoveOldest(q))
            /\ wait' = WakeOne(wait, NotFull(d.o)) /\ Return(t, d, <<Oldest(q)>>)
  BY DEF PipeReads
<1> HIDE DEF q
<1>5. ASSUME Blocks(t, d, Empty(q), NotEmpty(d.o), d.ticks), obj' = obj PROVE HostStep(t)
  <2> DEFINE e == [d EXCEPT !.blocked = TRUE]
  <2>1. /\ IsFrame(e) /\ e.blocked = TRUE /\ e.op = d.op /\ e.o = d.o /\ e.x = d.x
        /\ e.ticks = d.ticks /\ e.then = d.then /\ e # NoCall
    BY <1>1, BlockedLemma
  <2>2. Goto(t, e) /\ ret' = ret /\ wait' = SetupWait(wait, NotEmpty(d.o), t, d.ticks)
    BY <1>5 DEF Blocks, KernelWait
  <2> HIDE DEF e
  <2>3. Only(t) /\ call'[t] = e
    BY <2>2, GoesLemma
  <2>4. AtRest(e)
    BY <2>1 DEF AtRest, ReadFrame
  <2>5. ListFor(e) = NotEmpty(d.o)
    BY <1>1, <2>1 DEF ListFor, NotEmpty
  <2>6. ParksIn(t)
    BY <1>1, <1>3, <2>1, <2>2, <2>3, <2>5 DEF ParksIn, IsFrame
  <2>7. PendingKept(t) /\ RearmingKept(t)
    BY <1>5 DEF PendingKept, RearmingKept, Free
  <2>8. Result(call'[t], ret'[t])
    BY <1>1, <2>1, <2>3 DEF Result
  <2>9. DOMAIN obj' = DOMAIN obj /\ \A o \in DOMAIN obj : ObjectOK(o, obj'[o])
    BY <1>5 DEF HostState
  <2> QED
    BY <1>4, <2>3, <2>4, <2>6, <2>7, <2>8, <2>9 DEF HostStep
<1>6. ASSUME Return(t, d, <<>>), obj' = obj, wait' = wait PROVE HostStep(t)
  <2>1. Only(t) /\ call'[t] = d.then /\ ret'[t] = <<>>
    BY <1>2, <1>6, ReturnsLemma
  <2>2. KeepsPending(t) /\ KeepsRearming(t)
    BY DEF Free, KeepsPending, KeepsRearming
  <2>3. Result(call'[t], ret'[t])
    BY <2>1 DEF Result
  <2> QED
    BY <1>2, <1>4, <1>6, <2>1, <2>2, <2>3, QuietStep
<1>7. ASSUME Proceeds(t, d, Empty(q)), Set(d.o, RemoveOldest(q)),
             wait' = WakeOne(wait, NotFull(d.o)), Return(t, d, <<Oldest(q)>>)
      PROVE  HostStep(t)
  <2> DEFINE r == RemoveOldest(q)
             x == Oldest(q)
  <2>1. RingShape(q) /\ InOrder(q) /\ ~Empty(q) /\ \A y \in Elements(q) : Fits(d.o, y)
    BY <1>3, <1>7 DEF PipeShape, Proceeds
  <2>2. RingShape(r) /\ InOrder(r) /\ r.kind = q.kind /\ Elements(q) = Elements(r) \cup {x}
    BY <2>1, ElementsRemove
  <2> HIDE DEF r, x
  <2>3. PipeShape(d.o, r) /\ r.kind = "pipe" /\ Fits(d.o, x)
    BY <1>3, <2>1, <2>2 DEF PipeShape
  <2>4. SetTo(d.o, r)
    BY <1>1, <1>3, <1>7, <2>3, ShapesLemma, SetToLemma DEF r
  <2>5. Only(t) /\ call'[t] = d.then /\ ret'[t] = <<x>>
    BY <1>2, <1>7, ReturnsLemma DEF x
  <2>6. WakesSome(t)
    BY <1>1, <1>2, <1>7, <2>5, WakesLemma
  <2>7. Result(call'[t], ret'[t])
    <3>1. CASE d.o = "commands"
      BY <1>2, <2>3, <2>5, <3>1 DEF Result, Fits
    <3>2. CASE d.o = "ready"
      BY <1>2, <2>3, <2>5, <3>2 DEF Result, Fits
    <3> QED
      BY <1>1, <3>1, <3>2 DEF Pipes
  <2>8. \A o \in TimerNames : obj'[o] = obj[o]
    BY <1>1, <2>4, ProgramLemma DEF SetTo
  <2>9. /\ d.o = "ready" => obj'["ready"] = r /\ obj["ready"] = q
        /\ d.o # "ready" => obj'["ready"] = obj["ready"]
        /\ d.o = "commands" => obj'["commands"] = r /\ obj["commands"] = q
        /\ d.o # "commands" => obj'["commands"] = obj["commands"]
    BY <2>4, ProgramLemma DEF SetTo, Pipes, q
  <2>10. PendingKept(t)
    <3>1. CASE d.o = "ready"
      <4>1. ASSUME NEW o \in TimerNames PROVE o \in Elements(q) => o \in Elements(r) \/ Carries(call'[t], ret'[t], o)
        BY <1>2, <2>2, <2>5, <3>1 DEF Carries
      <4> QED
        BY <2>8, <2>9, <3>1, <4>1 DEF PendingKept, Free
    <3>2. CASE d.o # "ready"
      BY <2>8, <2>9, <3>2 DEF PendingKept, Free
    <3> QED
      BY <3>1, <3>2
  <2>11. RearmingKept(t)
    <3>1. CASE d.o = "commands"
      <4>1. ASSUME NEW o \in TimerNames PROVE Queued(q, o) => Queued(r, o) \/ Rearms(call'[t], ret'[t], o)
        BY <1>2, <2>2, <2>5, <3>1 DEF Rearms, Queued
      <4> QED
        BY <2>8, <2>9, <3>1, <4>1 DEF RearmingKept, Free
    <3>2. CASE d.o # "commands"
      BY <2>8, <2>9, <3>2 DEF RearmingKept, Free
    <3> QED
      BY <3>1, <3>2
  <2> QED
    BY <1>2, <1>4, <2>4, <2>5, <2>6, <2>7, <2>10, <2>11, RunStep DEF SetTo
<1> QED
  BY <1>4, <1>5, <1>6, <1>7

(* The tick task reads a command, a handler an expired timer *)
LEMMA CallReadLemma ==
    ASSUME NEW c, IsFrame(c), NEW o, NEW ticks \in Times, NEW next, IsFrame(next),
           \/ o = "commands" /\ TickFrame(next) /\ next.op = "Execute"
           \/ o = "ready" /\ HandlerFrame(next) /\ next.op = "Handle"
    PROVE  ReadFrame(Calling(On(c, "PipeTRead", o, 0, ticks), next))
<1> DEFINE w == On(c, "PipeTRead", o, 0, ticks)
           d == Calling(w, next)
<1>1. IsFrame(w) /\ w.op = "PipeTRead" /\ w.o = o
  BY DEF On, IsFrame, FrameFields
<1> HIDE DEF w
<1>2. IsFrame(d) /\ d.op = w.op /\ d.o = w.o /\ SameFrame(d.then, next)
  BY <1>1, CallingLemma
<1> HIDE DEF d
<1>3. (TickFrame(next) => TickFrame(d.then)) /\ (HandlerFrame(next) => HandlerFrame(d.then))
      /\ d.then.op = next.op
  BY <1>2, SameFrameLemma DEF SameFrame
<1>4. ReadFrame(d)
  BY <1>1, <1>2, <1>3 DEF ReadFrame
<1> QED
  BY <1>4 DEF d, w

LEMMA CommandReadStep ==
    ASSUME TimerOnly, HostState, NEW t \in Tasks, NEW c, Serves(t, c),
           ProcessCommands(t, c) \/ NextCommand(t, c)
    PROVE  HostStep(t)
<1>1. c.op \in {"UpdateTime", "ProcessCommands", "NextCommand"}
  BY DEF ProcessCommands, NextCommand
<1>2. /\ CallFrame(c) \/ TickFrame(c)
      /\ call[t] = NoCall \/ call[t] = c
      /\ Unlinked(t)
  BY <1>1, ServesLemma
<1>3. Outer(c) /\ c.o \in HostNames /\ c.ticks \in Times /\ IsFrame(c)
  BY <1>1, <1>2 DEF CallFrame, TickFrame, TimerOps, Outer, IsFrame
<1>4. Free(t)
  BY <1>1, <1>2, FreeLemma
<1>5. PICK ticks \in Times : ReadCommand(t, c, ticks)
  BY <1>3, TickTimes DEF ProcessCommands, NextCommand
<1> DEFINE next == [Resume(c, "Execute") EXCEPT !.ticks = ticks]
           d == Calling(On(c, "PipeTRead", "commands", 0, ticks), next)
<1>6. IsFrame(next) /\ TickFrame(next) /\ next.op = "Execute"
  BY <1>3 DEF Resume, IsFrame, FrameFields, TickFrame, Outer
<1>7. PipeReads(t, d)
  BY <1>5 DEF ReadCommand, PipeTRead
<1> HIDE DEF next
<1>8. ReadFrame(d)
  BY <1>3, <1>6, CallReadLemma
<1> HIDE DEF d
<1> QED
  BY <1>2, <1>4, <1>7, <1>8, ReadsStep

LEMMA ExpiredReadStep ==
    ASSUME TimerOnly, HostState, NEW t \in Tasks, NEW c, Serves(t, c), ProcessTimers(t, c)
    PROVE  HostStep(t)
<1>1. HandlerFrame(c) /\ call[t] \in {NoCall, c} /\ Unlinked(t) /\ c.op = "ProcessTimers"
  BY ServesLemma DEF ProcessTimers
<1>2. Outer(c) /\ c.o \in HostNames /\ IsFrame(c)
  BY <1>1 DEF HandlerFrame, Outer
<1>3. Free(t)
  BY <1>1, FreeLemma
<1> DEFINE next == Resume(c, "Handle")
           d == Calling(On(c, "PipeTRead", "ready", 0, WAIT_INFINITE), next)
<1>4. IsFrame(next) /\ HandlerFrame(next) /\ next.op = "Handle"
  BY <1>2 DEF Resume, IsFrame, FrameFields, HandlerFrame, Outer
<1>5. PipeReads(t, d)
  BY DEF ProcessTimers, PipeTRead
<1> HIDE DEF next
<1>6. ReadFrame(d)
  BY <1>2, <1>4, CallReadLemma, TickTimes
<1> HIDE DEF d
<1> QED
  BY <1>1, <1>3, <1>5, <1>6, ReadsStep

-----------------------------------------------------------------------------
(* What a command does to its timer *)
LEMMA UnlinkKeeps ==
    ASSUME NEW S, NEW s \in Seq(S), NEW k
    PROVE  Unlink(s, k) \in Seq(S)
<1> DEFINE n == Len(s)
<1>1. n \in Nat /\ \A i \in 1..n : s[i] \in S
  OBVIOUS
<1>2. CASE n = 0
  <2>1. Unlink(s, k) = <<>>
    BY <1>2 DEF Unlink
  <2> QED
    BY <2>1
<1>3. CASE n # 0
  <2> DEFINE m == n - 1
  <2>1. m \in Nat /\ \A i \in 1..m : i \in 1..n /\ i + 1 \in 1..n
    BY <1>1, <1>3
  <2>2. Unlink(s, k) = [i \in 1..m |-> IF i < Index(s, k) THEN s[i] ELSE s[i + 1]]
    BY DEF Unlink
  <2> HIDE DEF m, n
  <2>3. \A i \in 1..m : (IF i < Index(s, k) THEN s[i] ELSE s[i + 1]) \in S
    BY <1>1, <2>1
  <2> QED
    BY <2>1, <2>2, <2>3
<1> QED
  BY <1>2, <1>3

Harmless(r, s, restart) ==
    /\ TimerShape(s) /\ (s.m_pending => r.m_pending)
    /\ s.m_rearming => r.m_rearming /\ ~restart

LEMMA ArmedLemma ==
    ASSUME NEW cmd, IsCommand(cmd), NEW r, TimerShape(r)
    PROVE  /\ Harmless(r, r, FALSE) /\ Harmless(r, Armed(r, cmd), FALSE)
           /\ Harmless(r, [Armed(r, cmd) EXCEPT !.m_rearming = FALSE], TRUE)
           /\ Harmless(r, Postponed(r, cmd), FALSE)
           /\ Harmless(r, Stopped(r), FALSE)
           /\ Harmless(r, [r EXCEPT !.m_period = cmd.period], FALSE)
<1>1. cmd.timestamp \in Int /\ cmd.delay \in Nat /\ cmd.period \in Nat /\ r.m_period \in Nat
  BY TickTimes DEF IsCommand, TimerShape
<1> DEFINE n == 2^TimeoutBits
           a == (cmd.timestamp + cmd.delay) % n
           b == (cmd.timestamp + r.m_period) % n
<1>2. a \in Clock /\ b \in Clock /\ 0 \in Clock
  <2>1. cmd.timestamp + cmd.delay \in Int /\ cmd.timestamp + r.m_period \in Int
    BY <1>1
  <2> QED
    BY <2>1, TickTimes
<1>3. Armed(r, cmd) = [r EXCEPT !.m_deadline = a, !.m_period = cmd.period, !.m_active = TRUE, !.m_pending = FALSE]
  BY DEF Armed
<1>4. Postponed(r, cmd) = [r EXCEPT !.m_deadline = b, !.m_pending = FALSE]
  BY DEF Postponed
<1> HIDE DEF a, b
<1>5. Harmless(r, r, FALSE) /\ Harmless(r, [r EXCEPT !.m_period = cmd.period], FALSE)
  BY <1>1 DEF Harmless, TimerShape
<1>6. Harmless(r, Armed(r, cmd), FALSE) /\ Harmless(r, [Armed(r, cmd) EXCEPT !.m_rearming = FALSE], TRUE)
  BY <1>1, <1>2, <1>3 DEF Harmless, TimerShape
<1>7. Harmless(r, Postponed(r, cmd), FALSE) /\ Harmless(r, Stopped(r), FALSE)
  BY <1>1, <1>2, <1>4 DEF Harmless, TimerShape, Stopped
<1> QED
  BY <1>5, <1>6, <1>7

LEMMA CommandEffect ==
    ASSUME NEW cmd, IsCommand(cmd), cmd.cmd # "SHUTDOWN", NEW r, TimerShape(r),
           NEW list \in Seq(TimerNames), NEW ticks \in Times
    PROVE  LET e == Effect(cmd, r, list, ticks)
           IN  /\ Harmless(r, e[1], cmd.cmd = "RESTART")
               /\ e[2] \in Seq(TimerNames) /\ e[3] \in Times
<1> DEFINE tmr == cmd.timer
           armed == Armed(r, cmd)
           done == [Armed(r, cmd) EXCEPT !.m_rearming = FALSE]
           later == Postponed(r, cmd)
           stopped == Stopped(r)
           periods == [r EXCEPT !.m_period = cmd.period]
           added == Append(list, tmr)
           without == Unlink(list, tmr)
           relinked == Relinked(list, tmr)
           e == Effect(cmd, r, list, ticks)
<1>1. tmr \in TimerNames /\ NO_WAIT \in Times
  BY TickTimes DEF IsCommand
<1>2. added \in Seq(TimerNames) /\ without \in Seq(TimerNames) /\ relinked \in Seq(TimerNames)
  BY <1>1, UnlinkKeeps DEF Relinked
<1>3. /\ Harmless(r, r, FALSE) /\ Harmless(r, armed, FALSE) /\ Harmless(r, done, TRUE)
      /\ Harmless(r, later, FALSE) /\ Harmless(r, stopped, FALSE) /\ Harmless(r, periods, FALSE)
  BY ArmedLemma
<1>4. \E s \in {r, armed, done, later, stopped, periods}, k \in {list, added, without, relinked},
         n \in {NO_WAIT, ticks} :
        e = <<s, k, n>> /\ (cmd.cmd = "RESTART" => s = done)
  <2>1. e = LET periodic == r.m_active /\ r.m_period # 0
            IN  CASE cmd.cmd = "START" /\ ~r.m_active -> <<armed, added, NO_WAIT>>
                  [] cmd.cmd = "STOP" -> <<stopped, IF IsLinked(list, tmr) THEN without ELSE list, ticks>>
                  [] cmd.cmd = "RESET" /\ periodic -> <<later, list, NO_WAIT>>
                  [] cmd.cmd = "RESTART" -> <<done, IF IsLinked(list, tmr) THEN relinked ELSE added, NO_WAIT>>
                  [] cmd.cmd = "START_OR_RESET" /\ ~r.m_active -> <<done, added, NO_WAIT>>
                  [] cmd.cmd = "START_OR_RESET" /\ r.m_active -> <<IF periodic THEN later ELSE r, list, NO_WAIT>>
                  [] cmd.cmd = "SET_PERIOD" /\ periodic -> <<periods, list, ticks>>
                  [] OTHER -> <<r, list, ticks>>
    BY DEF Effect
  <2> HIDE DEF armed, done, later, stopped, periods, added, without, relinked, e
  <2> QED
    BY <2>1
<1> HIDE DEF armed, done, later, stopped, periods, added, without, relinked
<1>5. PICK s \in {r, armed, done, later, stopped, periods}, k \in {list, added, without, relinked},
           n \in {NO_WAIT, ticks} :
        e = <<s, k, n>> /\ (cmd.cmd = "RESTART" => s = done)
  BY <1>4
<1> HIDE DEF e
<1>6. e[1] = s /\ e[2] = k /\ e[3] = n
  BY <1>5
<1>7. Harmless(r, s, cmd.cmd = "RESTART")
  <2>1. Harmless(r, s, FALSE)
    BY <1>3 DEF Harmless
  <2>2. CASE cmd.cmd = "RESTART"
    BY <1>3, <1>5, <2>2 DEF Harmless
  <2>3. CASE cmd.cmd # "RESTART"
    BY <2>1, <2>3 DEF Harmless
  <2> QED
    BY <2>2, <2>3
<1>8. k \in Seq(TimerNames) /\ n \in Times
  BY <1>1, <1>2
<1> QED
  BY <1>6, <1>7, <1>8 DEF e

-----------------------------------------------------------------------------
(* The frame with the timers that are left to look at *)
LEMMA LooksLemma ==
    ASSUME NEW c, IsFrame(c), c.op = "LookAt", c.blocked = FALSE, c.then = NoCall,
           c.o \in HostNames, NEW timers \in Seq(TimerNames)
    PROVE  LET d == Looks(c, timers)
           IN  IsFrame(d) /\ TickFrame(d) /\ d.op \in {"LookAt", "ProcessCommands"} /\ d.blocked = FALSE
<1> DEFINE d == Looks(c, timers)
<1>1. 0 \in Clock /\ <<>> \in Seq(TimerNames)
  BY TickTimes
<1>2. CASE timers = <<>>
  <2>1. d = [c EXCEPT !.op = "ProcessCommands", !.deadline = 0, !.acc = <<>>]
    BY <1>2 DEF Looks
  <2> HIDE DEF d
  <2>2. IsFrame(d) /\ d.op = "ProcessCommands" /\ d.blocked = FALSE /\ d.then = NoCall /\ d.o = c.o
    BY <1>1, <2>1 DEF IsFrame, FrameFields
  <2> QED
    BY <2>2 DEF TickFrame, Outer, d
<1>3. CASE timers # <<>>
  <2>1. d = [c EXCEPT !.acc = timers]
    BY <1>3 DEF Looks
  <2> HIDE DEF d
  <2>2. /\ IsFrame(d) /\ d.op = "LookAt" /\ d.blocked = FALSE /\ d.then = NoCall /\ d.o = c.o
        /\ d.acc = timers
    BY <2>1 DEF IsFrame, FrameFields
  <2> QED
    BY <1>3, <2>2 DEF TickFrame, Outer, d
<1> QED
  BY <1>2, <1>3

LEMMA ExecuteStep ==
    ASSUME TimerOnly, HostState, NEW t \in Tasks, NEW c, Serves(t, c), Execute(t, c)
    PROVE  HostStep(t)
<1>1. TickFrame(c) /\ call[t] = c /\ c.op = "Execute" /\ c # NoCall /\ now' = now
  BY ServesLemma DEF Execute, NoCall
<1>2. IsFrame(c) /\ c.then = NoCall /\ c.o \in HostNames
  BY <1>1 DEF TickFrame, Outer
<1>3. HostShape(obj[c.o]) /\ c.o \in DOMAIN obj /\ c.o \notin Pipes /\ c.o \notin TimerNames
  BY <1>2, ProgramLemma
<1>4. obj[c.o].m_active \in Seq(TimerNames) /\ obj[c.o].handlers \in Nat
  BY <1>3 DEF HostShape
<1>5. ret[t] = <<>> \/ \E x : IsCommand(x) /\ ret[t] = <<x>>
  BY <1>1 DEF HostState, Result
<1>6. \A o : ~Carries(call[t], ret[t], o)
  BY <1>1 DEF Carries
<1>7. CASE ret[t] = <<>>
  <2> DEFINE b == [Resume(c, "LookAt") EXCEPT !.ticks = WAIT_INFINITE, !.deadline = now]
             d == Looks(b, obj[c.o].m_active)
  <2>1. IsFrame(b) /\ b.op = "LookAt" /\ b.blocked = FALSE /\ b.then = NoCall /\ b.o = c.o
    <3>1. now \in Clock /\ WAIT_INFINITE \in Times
      BY TickTimes DEF HostState
    <3> QED
      BY <1>2, <3>1 DEF Resume, IsFrame, FrameFields
  <2>2. Forgets(t) /\ Goto(t, d) /\ obj' = obj /\ wait' = wait
    BY <1>7 DEF Execute
  <2> HIDE DEF b
  <2>3. TickFrame(d) /\ d.op \in {"LookAt", "ProcessCommands"} /\ d.blocked = FALSE
    BY <1>2, <1>4, <2>1, LooksLemma
  <2> HIDE DEF d
  <2>4. Only(t) /\ call'[t] = d
    BY <2>2, GoesLemma
  <2>5. KeepsPending(t) /\ KeepsRearming(t)
    BY <1>1, <1>6, <1>7 DEF KeepsPending, KeepsRearming, Rearms
  <2>6. Result(call'[t], ret'[t]) /\ AtRest(d)
    BY <2>3, <2>4 DEF Result, AtRest
  <2> QED
    BY <1>1, <2>2, <2>3, <2>4, <2>5, <2>6, QuietStep
<1>8. ASSUME NEW cmd, IsCommand(cmd), ret[t] = <<cmd>> PROVE HostStep(t)
  <2>1. ret[t] # <<>> /\ ret[t][1] = cmd
    BY <1>8
  <2>2. CASE cmd.cmd = "SHUTDOWN"
    <3> DEFINE q == obj["ready"]
               r == Farewell(q, obj[c.o].handlers)
    <3>1. /\ obj' = [obj EXCEPT !["ready"] = r, ![c.o].m_active = <<>>]
          /\ wait' = WakeAll(wait, NotEmpty("ready")) /\ Goto(t, NoCall) /\ ret' = ret
      BY <1>2, <2>1, <2>2 DEF Execute
    <3>2. PipeShape("ready", q) /\ q.kind = "pipe" /\ "ready" \in DOMAIN obj /\ "ready" \in Pipes
      BY ProgramLemma DEF Pipes
    <3> HIDE DEF q
    <3>3. /\ RingShape(r) /\ InOrder(r) /\ r.kind = q.kind
          /\ Elements(q) \subseteq Elements(r) /\ Elements(r) \subseteq Elements(q) \cup {NULL}
      BY <1>4, <3>2, ElementsFarewell DEF PipeShape
    <3> HIDE DEF r
    <3>4. PipeShape("ready", r) /\ r.kind = "pipe"
      BY <3>2, <3>3 DEF PipeShape, Fits
    <3>5. SetWithList("ready", r, c.o)
      <4>1. ObjectOK("ready", r)
        BY <3>2, <3>4, ShapesLemma
      <4>2. <<>> \in Seq(TimerNames) /\ "ready" # c.o
        BY <1>3, <3>2
      <4> QED
        BY <1>2, <3>1, <3>2, <4>1, <4>2, SetWithListLemma
    <3>6. Only(t) /\ call'[t] = NoCall
      BY <3>1, GoesLemma
    <3>7. WakesSome(t) /\ Result(call'[t], ret'[t])
      BY <3>1, <3>2, <3>6, WakesLemma DEF Result
    <3>8. \A o \in TimerNames : obj'[o] = obj[o]
      BY <1>3, <3>2, <3>5, ProgramLemma DEF SetWithList
    <3>9. obj'["ready"] = r /\ obj'["commands"] = obj["commands"]
      BY <1>3, <3>5, ProgramLemma DEF SetWithList, Pipes
    <3>10. PendingKept(t)
      BY <1>6, <3>3, <3>8, <3>9 DEF PendingKept, q
    <3>11. RearmingKept(t)
      BY <1>1, <2>1, <2>2, <3>8, <3>9 DEF RearmingKept, Rearms, Restarts
    <3> QED
      BY <1>1, <3>5, <3>6, <3>7, <3>10, <3>11, RunStep DEF SetWithList
  <2>3. CASE cmd.cmd # "SHUTDOWN"
    <3> DEFINE tmr == cmd.timer
               e == Effect(cmd, obj[tmr], obj[c.o].m_active, c.ticks)
               d == [Resume(c, "NextCommand") EXCEPT !.ticks = e[3]]
    <3>1. /\ obj' = [obj EXCEPT ![tmr] = e[1], ![c.o].m_active = e[2]]
          /\ Goto(t, d) /\ Forgets(t) /\ wait' = wait
      BY <2>1, <2>3 DEF Execute
    <3>2. tmr \in TimerNames
      BY <1>8, <2>3 DEF IsCommand
    <3>3. TimerShape(obj[tmr]) /\ tmr \in DOMAIN obj /\ tmr # c.o /\ tmr \notin Pipes
      BY <1>3, <3>2, ProgramLemma
    <3>4. /\ Harmless(obj[tmr], e[1], cmd.cmd = "RESTART")
          /\ e[2] \in Seq(TimerNames) /\ e[3] \in Times
      <4>1. c.ticks \in Times
        BY <1>2 DEF IsFrame
      <4> HIDE DEF tmr
      <4> QED
        BY <1>4, <1>8, <2>3, <3>3, <4>1, CommandEffect
    <3> HIDE DEF e, tmr
    <3>5. /\ IsFrame(d) /\ d.op = "NextCommand" /\ d.blocked = FALSE /\ d.then = NoCall /\ d.o = c.o
      BY <1>2, <3>4 DEF Resume, IsFrame, FrameFields
    <3> HIDE DEF d
    <3>6. AtRest(d)
      BY <1>2, <3>5 DEF AtRest, TickFrame, Outer
    <3>7. Only(t) /\ call'[t] = d
      BY <3>1, GoesLemma
    <3>8. SetWithList(tmr, e[1], c.o)
      <4>1. ObjectOK(tmr, e[1])
        BY <3>2, <3>4, ShapesLemma DEF Harmless
      <4> QED
        BY <1>2, <3>1, <3>3, <3>4, <4>1, SetWithListLemma
    <3>9. obj'["ready"] = obj["ready"] /\ obj'["commands"] = obj["commands"]
      BY <1>3, <3>3, <3>8, ReadyKept
    <3>10. \A o \in TimerNames : o # tmr => obj'[o] = obj[o]
      BY <1>3, <3>8, ProgramLemma DEF SetWithList
    <3>11. PendingKept(t)
      BY <1>6, <3>4, <3>8, <3>9, <3>10 DEF PendingKept, SetWithList, Harmless
    <3>12. RearmingKept(t)
      <4>1. ASSUME NEW o \in TimerNames, obj'[o].m_rearming
            PROVE  obj[o].m_rearming /\ ~Rearms(call[t], ret[t], o)
        <5>1. CASE o = tmr
          BY <1>1, <2>1, <3>4, <3>8, <4>1, <5>1 DEF SetWithList, Harmless, Rearms, Restarts
        <5>2. CASE o # tmr
          BY <1>1, <2>1, <3>10, <4>1, <5>2 DEF Rearms, Restarts, tmr
        <5> QED
          BY <5>1, <5>2
      <4> QED
        BY <3>9, <4>1 DEF RearmingKept
    <3>13. WakesSome(t) /\ Result(call'[t], ret'[t])
      BY <3>1, <3>5, <3>7, WakesLemma DEF Result
    <3> QED
      BY <1>1, <3>5, <3>6, <3>7, <3>8, <3>11, <3>12, <3>13, RunStep DEF SetWithList
  <2> QED
    BY <2>2, <2>3
<1> QED
  BY <1>5, <1>7, <1>8

-----------------------------------------------------------------------------
LEMMA SoonerLemma ==
    ASSUME NEW c, c.ticks \in Times, c.deadline \in Clock, NEW deadline \in Clock
    PROVE  Sooner(c, deadline) \in Times
<1> DEFINE left == AsTimeout(deadline - c.deadline)
<1>1. left \in Signed
  <2>1. deadline - c.deadline \in Int
    BY TickTimes
  <2> QED
    BY <2>1, AsTimeoutLemma
<1>2. Sooner(c, deadline) = IF left > 0 /\ left < c.ticks THEN left ELSE c.ticks
  BY DEF Sooner
<1> HIDE DEF left
<1> QED
  BY <1>1, <1>2, WaitAssumption DEF Signed, Times

LEMMA ReadyFrame ==
    ASSUME NEW c, IsFrame(c), NEW tmr \in TimerNames, NEW next, IsFrame(next), TickFrame(next),
           next.op \in {"LookAt", "ProcessCommands"}
    PROVE  LET d == Calling(On(c, "PipeTWrite", "ready", tmr, WAIT_INFINITE), next)
           IN  WriteFrame(d) /\ d.blocked = FALSE /\ d.o = "ready" /\ d.x = tmr /\ d # NoCall
<1> DEFINE w == On(c, "PipeTWrite", "ready", tmr, WAIT_INFINITE)
           d == Calling(w, next)
<1>1. WAIT_INFINITE \in Times
  BY TickTimes
<1>2. /\ IsFrame(w) /\ w.op = "PipeTWrite" /\ w.o = "ready" /\ w.x = tmr /\ w.ticks = WAIT_INFINITE
      /\ w.blocked = FALSE
  BY <1>1 DEF On, IsFrame, FrameFields
<1> HIDE DEF w
<1>3. /\ IsFrame(d) /\ d.op = w.op /\ d.o = w.o /\ d.x = w.x /\ d.ticks = w.ticks
      /\ d.blocked = w.blocked /\ SameFrame(d.then, next)
  BY <1>2, CallingLemma
<1> HIDE DEF d
<1>4. TickFrame(d.then) /\ d.then.op = next.op
  BY <1>3, SameFrameLemma DEF SameFrame
<1>5. WriteFrame(d) /\ d # NoCall
  BY <1>2, <1>3, <1>4 DEF WriteFrame, NoCall
<1> QED
  BY <1>2, <1>3, <1>5 DEF d, w

LEMMA LookAtStep ==
    ASSUME TimerOnly, HostState, NEW t \in Tasks, NEW c, Serves(t, c), LookAt(t, c)
    PROVE  HostStep(t)
<1> DEFINE tmr == Head(c.acc)
           r == obj[tmr]
           rest(n) == Looks([c EXCEPT !.ticks = n], Tail(c.acc))
           diff == AsTimeout(c.deadline - r.m_deadline)
           reloaded == (r.m_deadline + r.m_period) % 2^TimeoutBits
           again == [r EXCEPT !.m_pending = TRUE, !.m_deadline = reloaded]
           once == [r EXCEPT !.m_pending = TRUE, !.m_active = FALSE, !.m_deadline = 0]
           list == Unlink(obj[c.o].m_active, tmr)
           ready(next) == Calling(On(c, "PipeTWrite", "ready", tmr, WAIT_INFINITE), next)
<1>1. TickFrame(c) /\ call[t] = c /\ c.op = "LookAt"
  BY ServesLemma DEF LookAt
<1>2. /\ IsFrame(c) /\ c.then = NoCall /\ c.o \in HostNames /\ c.blocked = FALSE
      /\ c.ticks \in Times /\ c.deadline \in Clock /\ c.acc \in Seq(TimerNames) /\ c.acc # <<>>
  BY <1>1 DEF TickFrame, Outer, IsFrame
<1>3. tmr \in TimerNames /\ Tail(c.acc) \in Seq(TimerNames)
  BY <1>2
<1>4. HostShape(obj[c.o]) /\ c.o \in DOMAIN obj /\ c.o \notin Pipes /\ c.o \notin TimerNames
  BY <1>2, ProgramLemma
<1>5. TimerShape(r) /\ tmr \in DOMAIN obj /\ tmr # c.o /\ tmr \notin Pipes
  BY <1>3, <1>4, ProgramLemma
<1>6. /\ UNCHANGED <<wait, ret, now>>
      /\ CASE r.m_pending -> Goto(t, rest(c.ticks)) /\ UNCHANGED obj
           [] ~r.m_pending /\ diff < 0 -> Goto(t, rest(Sooner(c, r.m_deadline))) /\ UNCHANGED obj
           [] ~r.m_pending /\ diff >= 0 /\ r.m_period # 0 ->
                Set(tmr, again) /\ Goto(t, ready(rest(Sooner(c, reloaded))))
           [] OTHER -> /\ obj' = [obj EXCEPT ![tmr] = once, ![c.o].m_active = list]
                       /\ Goto(t, ready(rest(c.ticks)))
  BY DEF LookAt
<1>7. list \in Seq(TimerNames)
  BY <1>4, UnlinkKeeps DEF HostShape
<1>8. reloaded \in Clock /\ r.m_deadline \in Clock /\ 0 \in Clock
  <2>1. r.m_deadline \in Clock /\ r.m_period \in Nat
    BY <1>5 DEF TimerShape
  <2>2. r.m_deadline + r.m_period \in Int
    BY <2>1, TickTimes
  <2> QED
    BY <2>1, <2>2, TickTimes
<1>9. Sooner(c, r.m_deadline) \in Times /\ Sooner(c, reloaded) \in Times
  <2> HIDE DEF reloaded, r
  <2> QED
    BY <1>2, <1>8, SoonerLemma
<1>10. /\ TimerShape(again) /\ again.m_rearming = r.m_rearming
       /\ TimerShape(once) /\ once.m_rearming = r.m_rearming
  <2> HIDE DEF reloaded, r
  <2> QED
    BY <1>5, <1>8 DEF TimerShape
<1>11. ASSUME NEW n \in Times
       PROVE  IsFrame(rest(n)) /\ TickFrame(rest(n)) /\ rest(n).op \in {"LookAt", "ProcessCommands"}
              /\ rest(n).blocked = FALSE
  <2> DEFINE b == [c EXCEPT !.ticks = n]
  <2>1. IsFrame(b) /\ b.op = "LookAt" /\ b.blocked = FALSE /\ b.then = NoCall /\ b.o = c.o
    BY <1>1, <1>2 DEF IsFrame, FrameFields
  <2> HIDE DEF b
  <2>2. LET d == Looks(b, Tail(c.acc))
        IN  IsFrame(d) /\ TickFrame(d) /\ d.op \in {"LookAt", "ProcessCommands"} /\ d.blocked = FALSE
    BY <1>2, <1>3, <2>1, LooksLemma
  <2> QED
    BY <2>2 DEF b
<1> HIDE DEF diff, again, once, list, reloaded, rest, ready
<1>12. /\ wait' = wait /\ ret' = ret /\ now' = now
       /\ \E n \in Times :
            \/ Goto(t, rest(n)) /\ obj' = obj
            \/ Set(tmr, again) /\ Goto(t, ready(rest(n)))
            \/ /\ obj' = [obj EXCEPT ![tmr] = once, ![c.o].m_active = list]
               /\ Goto(t, ready(rest(n)))
  BY <1>2, <1>6, <1>9
<1> HIDE DEF r, tmr
<1>13. PICK n \in Times :
            \/ Goto(t, rest(n)) /\ obj' = obj
            \/ Set(tmr, again) /\ Goto(t, ready(rest(n)))
            \/ /\ obj' = [obj EXCEPT ![tmr] = once, ![c.o].m_active = list]
               /\ Goto(t, ready(rest(n)))
  BY <1>12
<1> DEFINE d == rest(n)
<1>14. IsFrame(d) /\ TickFrame(d) /\ d.op \in {"LookAt", "ProcessCommands"} /\ d.blocked = FALSE
  BY <1>11
<1>15. Free(t)
  BY <1>1, FreeLemma
<1>16. CASE Goto(t, d) /\ obj' = obj
  <2> HIDE DEF d
  <2>1. Only(t) /\ call'[t] = d
    BY <1>12, <1>16, GoesLemma
  <2>2. KeepsPending(t) /\ KeepsRearming(t)
    BY <1>15 DEF Free, KeepsPending, KeepsRearming
  <2>3. AtRest(d) /\ Result(call'[t], ret'[t])
    BY <1>14, <2>1 DEF Result, AtRest
  <2> QED
    BY <1>12, <1>14, <1>16, <2>1, <2>2, <2>3, QuietStep
<1>17. ASSUME NEW s, TimerShape(s), s.m_rearming = r.m_rearming, Goto(t, ready(d)),
              SetTo(tmr, s) \/ SetWithList(tmr, s, c.o)
       PROVE  HostStep(t)
  <2> DEFINE w == ready(d)
  <2> HIDE DEF d
  <2>1. WriteFrame(w) /\ w.blocked = FALSE /\ w.o = "ready" /\ w.x = tmr /\ w # NoCall
    <3>1. PICK a, b : a = tmr /\ b = d
      OBVIOUS
    <3>2. LET e == Calling(On(c, "PipeTWrite", "ready", a, WAIT_INFINITE), b)
          IN  WriteFrame(e) /\ e.blocked = FALSE /\ e.o = "ready" /\ e.x = a /\ e # NoCall
      <4>1. a \in TimerNames /\ IsFrame(b) /\ TickFrame(b) /\ b.op \in {"LookAt", "ProcessCommands"}
        BY <1>3, <1>14, <3>1
      <4> QED
        BY <1>2, <4>1, ReadyFrame
    <3> QED
      BY <3>1, <3>2 DEF ready
  <2>2. Goto(t, w)
    BY <1>17
  <2> HIDE DEF w
  <2>3. Only(t) /\ call'[t] = w
    BY <1>12, <2>2, GoesLemma
  <2>4. AtRest(w) /\ w.op = "PipeTWrite"
    BY <2>1 DEF AtRest, WriteFrame
  <2>5. WakesSome(t) /\ Result(call'[t], ret'[t])
    BY <1>12, <2>1, <2>3, <2>4, WakesLemma DEF Result
  <2>6. obj'["ready"] = obj["ready"] /\ obj'["commands"] = obj["commands"]
    BY <1>4, <1>5, <1>17, ReadyKept
  <2>7. /\ obj'[tmr] = s /\ DOMAIN obj' = DOMAIN obj /\ \A o \in DOMAIN obj : ObjectOK(o, obj'[o])
        /\ \A o \in TimerNames : o # tmr => obj'[o] = obj[o]
    BY <1>4, <1>17, ProgramLemma DEF SetTo, SetWithList
  <2>8. PendingKept(t)
    <3>1. Carries(call'[t], ret'[t], tmr)
      BY <2>1, <2>3, <2>4 DEF Carries
    <3> QED
      BY <1>15, <2>6, <2>7, <3>1 DEF PendingKept, Free
  <2>9. RearmingKept(t)
    <3>1. \A o \in TimerNames : obj'[o].m_rearming = obj[o].m_rearming
      BY <1>17, <2>7 DEF r
    <3> QED
      BY <1>15, <2>6, <3>1 DEF RearmingKept, Free
  <2> QED
    BY <1>12, <2>1, <2>3, <2>4, <2>5, <2>7, <2>8, <2>9, RunStep
<1>18. CASE Set(tmr, again) /\ Goto(t, ready(d))
  <2>1. ObjectOK(tmr, again)
    BY <1>3, <1>10, ShapesLemma
  <2>2. SetTo(tmr, again)
    BY <1>5, <1>18, <2>1, SetToLemma
  <2> QED
    BY <1>10, <1>17, <1>18, <2>2
<1>19. CASE obj' = [obj EXCEPT ![tmr] = once, ![c.o].m_active = list] /\ Goto(t, ready(d))
  <2>1. ObjectOK(tmr, once)
    BY <1>3, <1>10, ShapesLemma
  <2>2. SetWithList(tmr, once, c.o)
    BY <1>2, <1>5, <1>7, <1>19, <2>1, SetWithListLemma
  <2> QED
    BY <1>10, <1>17, <1>19, <2>2
<1> QED
  BY <1>13, <1>16, <1>18, <1>19

-----------------------------------------------------------------------------
LEMMA HandleStep ==
    ASSUME TimerOnly, HostState, NEW t \in Tasks, NEW c, Serves(t, c), Handle(t, c)
    PROVE  HostStep(t)
<1>1. HandlerFrame(c) /\ call[t] = c /\ c.op = "Handle" /\ c # NoCall
  BY ServesLemma DEF Handle, NoCall
<1>2. IsFrame(c) /\ c.then = NoCall /\ c.o \in HostNames
  BY <1>1 DEF HandlerFrame, Outer
<1>3. ret[t] = <<>> \/ \E x \in TimerNames \cup {NULL} : ret[t] = <<x>>
  BY <1>1 DEF HostState, Result
<1>4. \A o : ~Rearms(call[t], ret[t], o)
  BY <1>1 DEF Rearms
<1>5. obj' = obj /\ wait' = wait /\ now' = now
  BY DEF Handle
<1>6. CASE ret[t] = <<>> \/ ret[t] = <<NULL>>
  <2>1. Goto(t, NoCall) /\ ret' = ret
    BY <1>2, <1>6 DEF Handle
  <2>2. Only(t) /\ call'[t] = NoCall
    BY <2>1, GoesLemma
  <2>3. \A o \in TimerNames : ret[t] # <<o>>
    <3>1. NULL \notin TimerNames
      BY ProgramLemma
    <3>2. \A o \in TimerNames : o # NULL
      BY <3>1
    <3> QED
      BY <1>6, <3>2
  <2>4. KeepsPending(t) /\ KeepsRearming(t)
    BY <1>1, <1>4, <2>3 DEF KeepsPending, KeepsRearming, Carries
  <2>5. Result(call'[t], ret'[t])
    BY <2>2 DEF Result
  <2> QED
    BY <1>5, <2>2, <2>4, <2>5, QuietStep
<1>7. ASSUME NEW x \in TimerNames, ret[t] = <<x>> PROVE HostStep(t)
  <2>1. ret[t] \notin {<<>>, <<NULL>>} /\ ret[t][1] = x
    <3>1. x # NULL
      BY ProgramLemma
    <3> QED
      BY <1>7, <3>1
  <2>2. CASE obj[x].m_pending
    <3> DEFINE d == [Resume(c, "OnExpired") EXCEPT !.x = x]
    <3>1. Goto(t, d) /\ Forgets(t)
      BY <2>1, <2>2 DEF Handle
    <3>2. IsFrame(d) /\ d.op = "OnExpired" /\ d.x = x /\ d.o = c.o /\ d.blocked = FALSE /\ d.then = NoCall
      BY <1>2 DEF Resume, IsFrame, FrameFields
    <3> HIDE DEF d
    <3>3. Only(t) /\ call'[t] = d
      BY <3>1, GoesLemma
    <3>4. AtRest(d) /\ Result(call'[t], ret'[t]) /\ d # NoCall
      BY <1>2, <3>2, <3>3 DEF Result, AtRest, HandlerFrame, Outer, NoCall
    <3>5. KeepsPending(t) /\ KeepsRearming(t)
      BY <1>1, <1>4, <1>7, <3>2, <3>3, <3>4 DEF KeepsPending, KeepsRearming, Carries
    <3> QED
      BY <1>5, <3>2, <3>3, <3>4, <3>5, QuietStep
  <2>3. CASE ~obj[x].m_pending
    <3> DEFINE d == Resume(c, "ProcessTimers")
    <3>1. Goto(t, d) /\ Forgets(t)
      BY <2>1, <2>3 DEF Handle
    <3>2. IsFrame(d) /\ d.op = "ProcessTimers" /\ d.o = c.o /\ d.blocked = FALSE /\ d.then = NoCall
      BY <1>2 DEF Resume, IsFrame, FrameFields
    <3> HIDE DEF d
    <3>3. Only(t) /\ call'[t] = d
      BY <3>1, GoesLemma
    <3>4. AtRest(d) /\ Result(call'[t], ret'[t])
      BY <1>2, <3>2, <3>3 DEF Result, AtRest, HandlerFrame, Outer
    <3>5. KeepsPending(t) /\ KeepsRearming(t)
      BY <1>1, <1>4, <1>5, <1>7, <2>3 DEF KeepsPending, KeepsRearming, Carries
    <3> QED
      BY <1>5, <3>2, <3>3, <3>4, <3>5, QuietStep
  <2> QED
    BY <2>2, <2>3
<1> QED
  BY <1>3, <1>6, <1>7

LEMMA OnExpiredStep ==
    ASSUME TimerOnly, HostState, NEW t \in Tasks, NEW c, Serves(t, c), OnExpired(t, c)
    PROVE  HostStep(t)
<1>1. HandlerFrame(c) /\ call[t] = c /\ c.op = "OnExpired"
  BY ServesLemma DEF OnExpired
<1>2. IsFrame(c) /\ c.then = NoCall /\ c.o \in HostNames /\ c.x \in TimerNames
  BY <1>1 DEF HandlerFrame, Outer
<1>3. TimerShape(obj[c.x]) /\ c.x \in DOMAIN obj /\ c.x \notin Pipes
  BY <1>2, ProgramLemma
<1> DEFINE r == [obj[c.x] EXCEPT !.m_pending = FALSE]
           d == [Resume(c, "ProcessTimers") EXCEPT !.x = 0]
<1>4. TimerShape(r) /\ r.m_pending = FALSE /\ r.m_rearming = obj[c.x].m_rearming
  BY <1>3 DEF TimerShape
<1>5. Set(c.x, r) /\ Goto(t, d) /\ wait' = wait /\ ret' = ret /\ now' = now
  BY <1>3 DEF OnExpired, TimerShape
<1>6. IsFrame(d) /\ d.op = "ProcessTimers" /\ d.o = c.o /\ d.blocked = FALSE /\ d.then = NoCall
  BY <1>2 DEF Resume, IsFrame, FrameFields
<1> HIDE DEF r, d
<1>7. Only(t) /\ call'[t] = d
  BY <1>5, GoesLemma
<1>8. AtRest(d) /\ Result(call'[t], ret'[t])
  BY <1>2, <1>6, <1>7 DEF Result, AtRest, HandlerFrame, Outer
<1>9. SetTo(c.x, r)
  BY <1>2, <1>3, <1>4, <1>5, ShapesLemma, SetToLemma
<1>10. obj'["ready"] = obj["ready"] /\ obj'["commands"] = obj["commands"]
  BY <1>3, <1>9, ReadyKept
<1>11. \A o \in TimerNames : o # c.x => obj'[o] = obj[o]
  BY <1>9, ProgramLemma DEF SetTo
<1>12. PendingKept(t)
  BY <1>1, <1>4, <1>9, <1>10, <1>11 DEF PendingKept, Carries, SetTo
<1>13. RearmingKept(t)
  <2>1. \A o \in TimerNames : obj'[o].m_rearming = obj[o].m_rearming
    BY <1>4, <1>9, <1>11 DEF SetTo
  <2> QED
    BY <1>1, <1>10, <2>1 DEF RearmingKept, Rearms
<1>14. WakesSome(t)
  BY <1>5, <1>6, <1>7, WakesLemma
<1> QED
  BY <1>5, <1>6, <1>7, <1>8, <1>9, <1>12, <1>13, <1>14, RunStep DEF SetTo

-----------------------------------------------------------------------------
(* Every step of a task is one of these *)
LEMMA ServeStep ==
    ASSUME TimerOnly, HostState, NEW t \in Tasks, NEW c, Serves(t, c), Step(t, c)
    PROVE  HostStep(t)
<1>1. /\ ~Uses("Semaphore") /\ ~Uses("EventFlags") /\ ~Uses("MessageQueue") /\ ~Uses("BlockMemoryPool")
      /\ ~Uses("ConditionVariable") /\ ~Uses("SpinLock") /\ ~Uses("SmoothWeighted") /\ ~Uses("Monotonic")
      /\ ~Uses("Heap") /\ ~Uses("FreeRTOSQueue") /\ ~Uses("FreeRTOSTask") /\ ~Uses("FreeRTOSBuffer")
      /\ ~Uses("FreeRTOSTimer") /\ ~Uses("Cmsis") /\ ~Uses("CApi")
  BY DEF TimerOnly, TimerProgram, Uses
<1>2. /\ c.op \notin {"PipeWrite", "PipeRead", "PipeReset", "PipeWriteBulk", "PipeWriteLoop",
                      "PipeReadBulk", "PipeReadLoop", "PipeReadTriggered", "PipeTriggerLoop",
                      "PipeTReset", "PipeTWriteBulk", "PipeTReadBulk", "Awake"}
      /\ Unlinked(t)
  BY ServesLemma DEF TimerOps
<1>3. PipeStep(t, c) \/ TimerHostStep(t, c)
  BY <1>1, <1>2 DEF Step, NativeStep, Awake
<1>4. CASE PipeStep(t, c)
  <2>1. PipeTWrite(t, c) \/ PipeTRead(t, c)
    BY <1>2, <1>4 DEF PipeStep, PipeWrite, PipeRead, PipeReset, PipeWriteBulk, PipeWriteLoop,
       PipeReadBulk, PipeReadLoop, PipeReadTriggered, PipeTriggerLoop, PipeTReset, PipeTWriteBulk,
       PipeTReadBulk
  <2>2. CASE PipeTRead(t, c)
    <3>1. ReadFrame(c) /\ call[t] = c /\ c.op = "PipeTRead" /\ PipeReads(t, c)
      BY <2>2, ServesLemma DEF PipeTRead
    <3>2. Free(t)
      BY <3>1, FreeLemma
    <3> QED
      BY <1>2, <3>1, <3>2, ReadsStep
  <2> QED
    BY <2>1, <2>2, WriteStep
<1>5. CASE TimerHostStep(t, c)
  <2>1. CASE TimerCalls(t, c)
    BY <2>1, CallsStep, PushRearmStep, SetRearmingStep, PushDoneStep DEF TimerCalls
  <2>2. CASE TickTask(t, c)
    BY <2>2, CommandReadStep, ExecuteStep, LookAtStep DEF TickTask
  <2>3. CASE HandlerTask(t, c)
    BY <2>3, ExpiredReadStep, HandleStep, OnExpiredStep DEF HandlerTask
  <2> QED
    BY <1>5, <2>1, <2>2, <2>3 DEF TimerHostStep
<1> QED
  BY <1>3, <1>4, <1>5

(* A call that a program of this kind makes *)
LEMMA TimerCallLemma ==
    ASSUME TimerOnly, NEW t \in Tasks, NEW c \in The.calls[t]
    PROVE  CallFrame(c)
<1>1. "TimerStartOrReset" = c.op => "START_OR_RESET" \in RearmCommands
  BY DEF RearmCommands
<1> HIDE DEF The
<1>2. /\ c = Frame(c.op, c.o, c.x, NO_WAIT) /\ c.o \in DOMAIN The.objects
      /\ \/ /\ c.op \in TimerOps /\ The.objects[c.o].kind = "timer"
            /\ c.x \in [delay: Nat, period: Nat]
         \/ c.op = "Shutdown" /\ c.x \in [delay: Nat, period: Nat]
         \/ c.op \in {"UpdateTime", "ProcessTimers"} /\ The.objects[c.o].kind = "host"
  BY DEF TimerOnly, TimerProgram
<1>3. /\ DOMAIN c = FrameFields /\ c.then = NoCall /\ c.deadline = 0 /\ c.blocked = FALSE
      /\ c.ticks = NO_WAIT /\ c.acc = <<>>
  BY <1>2 DEF Frame, FrameFields
<1>4. Outer(c)
  <2>1. 0 \in Clock /\ NO_WAIT \in Times /\ <<>> \in Seq(TimerNames)
    BY TickTimes
  <2> QED
    BY <1>3, <2>1 DEF Outer, IsFrame
<1> QED
  BY <1>1, <1>2, <1>3, <1>4 DEF CallFrame, TimerNames, HostNames, Kind

LEMMA TimerNext ==
    ASSUME TimerOnly, HostState, Next
    PROVE  (\E t \in Tasks : Unlinked(t) /\ HostStep(t)) \/ Tick
<1>1. ASSUME NEW t \in Tasks, Begin(t) PROVE Unlinked(t) /\ HostStep(t)
  <2>1. PICK c \in The.calls[t] : Idle(t) /\ ~IsWaiting(wait, t) /\ Step(t, c)
    BY <1>1 DEF Begin
  <2>2. Serves(t, c)
    BY <2>1, TimerCallLemma DEF Serves, Idle, Unlinked, Linked, IsWaiting
  <2> QED
    BY <2>1, <2>2, ServeStep DEF Serves
<1>2. ASSUME NEW t \in Tasks, Continue(t) PROVE Unlinked(t) /\ HostStep(t)
  <2>1. call[t] # NoCall /\ Step(t, call[t]) /\ AtRest(call[t])
        /\ (~IsWaiting(wait, t) \/ call[t].op = "CvSleep")
    BY <1>2 DEF Continue, Idle, HostState
  <2>2. ~IsWaiting(wait, t)
    BY <2>1 DEF AtRest, PushFrame, TickFrame, HandlerFrame, WriteFrame, ReadFrame
  <2>3. Serves(t, call[t])
    BY <2>1, <2>2 DEF Serves, Unlinked, Linked, IsWaiting
  <2> QED
    BY <2>1, <2>3, ServeStep DEF Serves
<1> QED
  BY <1>1, <1>2 DEF Next

LEMMA SameTimers ==
    ASSUME scenario' = scenario
    PROVE  /\ The' = The /\ (TimerOnly' <=> TimerOnly)
           /\ TimerNames' = TimerNames /\ RearmCommands' = RearmCommands
           /\ \A d : AtRest(d)' <=> AtRest(d)
           /\ \A d, v : Result(d, v)' <=> Result(d, v)
           /\ \A o, r : ObjectOK(o, r)' <=> ObjectOK(o, r)
<1>1. The' = The
  BY DEF The
<1> HIDE DEF The
<1>2. TimerNames' = TimerNames /\ HostNames' = HostNames /\ RearmCommands' = RearmCommands
      /\ \A o : Kind(o)' = Kind(o)
  BY <1>1 DEF TimerNames, HostNames, RearmCommands, Kind
<1>3. \A x : IsCommand(x)' <=> IsCommand(x)
  BY <1>2 DEF IsCommand
<1>4. \A d : IsFrame(d)' <=> IsFrame(d)
  BY <1>2 DEF IsFrame
<1>5. \A d : (PushFrame(d)' <=> PushFrame(d)) /\ (TickFrame(d)' <=> TickFrame(d))
             /\ (HandlerFrame(d)' <=> HandlerFrame(d))
  BY <1>2, <1>3, <1>4 DEF PushFrame, TickFrame, HandlerFrame, Outer
<1>6. \A d : (WriteFrame(d)' <=> WriteFrame(d)) /\ (ReadFrame(d)' <=> ReadFrame(d))
  BY <1>2, <1>3, <1>4, <1>5 DEF WriteFrame, ReadFrame
<1>7. \A d : AtRest(d)' <=> AtRest(d)
  BY <1>5, <1>6 DEF AtRest
<1>8. \A d, v : Result(d, v)' <=> Result(d, v)
  BY <1>2, <1>3 DEF Result
<1>9. \A o, x : Fits(o, x)' <=> Fits(o, x)
  BY <1>2, <1>3 DEF Fits
<1>10. \A o, r : PipeShape(o, r)' <=> PipeShape(o, r)
  BY <1>9 DEF PipeShape
<1>11. \A r : (TimerShape(r)' <=> TimerShape(r)) /\ (HostShape(r)' <=> HostShape(r))
  BY <1>2 DEF TimerShape, HostShape
<1>12. \A o, r : ObjectOK(o, r)' <=> ObjectOK(o, r)
  BY <1>2, <1>10, <1>11 DEF ObjectOK
<1>13. TimerOnly' <=> TimerOnly
  BY <1>1 DEF TimerOnly
<1> QED
  BY <1>1, <1>2, <1>7, <1>8, <1>12, <1>13

Marked == HostState /\ PendingOK /\ RearmingOK

LEMMA MarkedStep ==
    ASSUME TimerOnly, Marked, NEW t \in Tasks, Unlinked(t), HostStep(t), scenario' = scenario
    PROVE  Marked'
<1>1. /\ Only(t) /\ now' = now /\ DOMAIN obj' = DOMAIN obj
      /\ \A o \in DOMAIN obj : ObjectOK(o, obj'[o])
      /\ (call'[t] = NoCall \/ AtRest(call'[t])) /\ Result(call'[t], ret'[t])
      /\ PendingKept(t) /\ (RearmCommands = {"RESTART"} => RearmingKept(t))
  BY DEF HostStep
<1>2. HostState /\ PendingOK /\ RearmingOK
  BY DEF Marked
<1>3. WaitsOK'
  BY <1>1, <1>2, WaitsWake, WaitsPark DEF HostStep, HostState
<1>4. \A u \in Tasks : (call'[u] = NoCall \/ AtRest(call'[u])) /\ Result(call'[u], ret'[u])
  BY <1>1, <1>2 DEF Only, HostState
<1>5. HostState'
  <2>1. scenario' \in DOMAIN Scenarios /\ DOMAIN obj' = DOMAIN The'.objects /\ now' \in Clock
    BY <1>1, <1>2, SameTimers DEF HostState
  <2>2. DOMAIN call' = Tasks /\ DOMAIN ret' = Tasks
    BY <1>1 DEF Only
  <2>3. /\ \A d : AtRest(d)' <=> AtRest(d)
        /\ \A d, v : Result(d, v)' <=> Result(d, v)
        /\ \A o, r : ObjectOK(o, r)' <=> ObjectOK(o, r)
    BY SameTimers
  <2> QED
    BY <1>1, <1>3, <1>4, <2>1, <2>2, <2>3 DEF HostState
<1>6. PendingOK'
  <2>1. ASSUME NEW o \in TimerNames, obj'[o].m_pending
        PROVE  o \in Elements(obj'["ready"]) \/ \E u \in Tasks : Carries(call'[u], ret'[u], o)
    <3>1. CASE o \in Elements(obj'["ready"]) \/ Carries(call'[t], ret'[t], o)
      BY <3>1
    <3>2. CASE obj[o].m_pending /\ o \notin Elements(obj["ready"]) /\ ~Carries(call[t], ret[t], o)
      <4>1. PICK u \in Tasks : Carries(call[u], ret[u], o)
        BY <1>2, <3>2 DEF PendingOK
      <4> QED
        BY <1>1, <3>2, <4>1 DEF Only
    <3> QED
      BY <1>1, <2>1, <3>1, <3>2 DEF PendingKept
  <2> QED
    BY <2>1, SameTimers DEF PendingOK
<1>7. RearmingOK'
  <2>1. ASSUME RearmCommands = {"RESTART"}, NEW o \in TimerNames, obj'[o].m_rearming
        PROVE  \/ \E x \in Elements(obj'["commands"]) : Restarts(x, o)
               \/ \E u \in Tasks : Rearms(call'[u], ret'[u], o)
    <3>1. CASE Queued(obj'["commands"], o) \/ Rearms(call'[t], ret'[t], o)
      BY <3>1 DEF Queued
    <3>2. CASE obj[o].m_rearming /\ ~Queued(obj["commands"], o) /\ ~Rearms(call[t], ret[t], o)
      <4>1. PICK u \in Tasks : Rearms(call[u], ret[u], o)
        BY <1>2, <2>1, <3>2 DEF RearmingOK, Queued
      <4> QED
        BY <1>1, <3>2, <4>1 DEF Only
    <3> QED
      BY <1>1, <2>1, <3>1, <3>2 DEF RearmingKept
  <2> QED
    BY <2>1, SameTimers DEF RearmingOK
<1> QED
  BY <1>5, <1>6, <1>7 DEF Marked

(* A tick, a step that changes nothing, and the start *)
LEMMA MarkedTick ==
    ASSUME TimerOnly, Marked, obj' = obj, call' = call, ret' = ret, scenario' = scenario,
           \/ Tick
           \/ wait' = wait /\ now' = now
    PROVE  Marked'
<1>1. HostState /\ PendingOK /\ RearmingOK
  BY DEF Marked
<1>2. now' \in Clock
  <2>1. CASE Tick
    <3>1. now' = now \/ now' = (now + 1) % 2^TimeoutBits
      BY <2>1 DEF Tick, KernelTick
    <3>2. now \in Clock /\ now + 1 \in Int
      BY <1>1, TickTimes DEF HostState
    <3> QED
      BY <3>1, <3>2, TickTimes
  <2> QED
    BY <1>1, <2>1 DEF HostState
<1>3. WaitsOK'
  <2>1. CASE Tick
    BY <1>1, <2>1, WaitsTick DEF Tick, KernelTick, HostState
  <2>2. CASE wait' = wait
    BY <1>1, <2>2 DEF HostState, WaitsOK
  <2> QED
    BY <2>1, <2>2
<1>4. /\ The' = The /\ TimerNames' = TimerNames /\ RearmCommands' = RearmCommands
      /\ \A d : AtRest(d)' <=> AtRest(d)
      /\ \A d, v : Result(d, v)' <=> Result(d, v)
      /\ \A o, r : ObjectOK(o, r)' <=> ObjectOK(o, r)
  BY SameTimers
<1>5. HostState'
  BY <1>1, <1>2, <1>3, <1>4 DEF HostState
<1>6. PendingOK' /\ RearmingOK'
  BY <1>1, <1>4 DEF PendingOK, RearmingOK
<1> QED
  BY <1>5, <1>6 DEF Marked

LEMMA MarkedInit ==
    ASSUME TimerOnly, Init
    PROVE  Marked
<1> HIDE DEF The
<1>1. /\ scenario \in DOMAIN Scenarios /\ obj = The.objects /\ now = 0 /\ wait = NoWaiters
      /\ call = [t \in Tasks |-> NoCall] /\ ret = [t \in Tasks |-> NULL]
  BY DEF Init
<1>2. 0 \in Clock
  BY TickTimes
<1>3. ASSUME NEW o \in DOMAIN The.objects
      PROVE  ObjectOK(o, The.objects[o])
             /\ (o \in TimerNames => The.objects[o].m_pending = FALSE /\ The.objects[o].m_rearming = FALSE)
  <2> DEFINE r == The.objects[o]
  <2>1. r.kind = Kind(o)
    BY DEF Kind
  <2>2. \/ o \in Pipes /\ r = PipeObject(r.m_capacity) /\ r.m_capacity \in Nat \ {0}
        \/ o \notin Pipes /\ r = TimerObject(NULL)
        \/ o \notin Pipes /\ r = HostObject(r.handlers) /\ r.handlers \in Nat
    BY DEF TimerOnly, TimerProgram
  <2>3. (o \in TimerNames => r.kind = "timer") /\ (o \in HostNames => r.kind = "host")
    BY <2>1 DEF TimerNames, HostNames
  <2> HIDE DEF r
  <2>4. CASE o \in Pipes /\ r = PipeObject(r.m_capacity) /\ r.m_capacity \in Nat \ {0}
    <3> DEFINE n == r.m_capacity
    <3>1. /\ DOMAIN r = {"kind", "m_capacity", "m_count", "m_head", "m_tail", "m_buffer"}
          /\ r.kind = "pipe" /\ r.m_count = 0 /\ r.m_head = 0 /\ r.m_tail = 0
          /\ DOMAIN r.m_buffer = 0..n-1
      BY <2>4 DEF PipeObject, RingObject
    <3>2. RingShape(r)
      BY <2>4, <3>1 DEF RingShape
    <3>3. InOrder(r)
      <4>1. n \in Nat \ {0}
        BY <2>4
      <4> HIDE DEF n
      <4>2. (0 + 0) % n = 0
        BY <4>1
      <4> QED
        BY <3>1, <4>2 DEF InOrder, n
    <3>4. Elements(r) = {}
      BY <3>1 DEF Elements
    <3> QED
      BY <2>1, <2>3, <3>1, <3>2, <3>3, <3>4 DEF ObjectOK, PipeShape, r
  <2>5. CASE o \notin Pipes /\ r = TimerObject(NULL)
    <3>1. TimerShape(r) /\ r.kind = "timer" /\ r.m_pending = FALSE /\ r.m_rearming = FALSE
      BY <1>2, <2>5 DEF TimerObject, TimerShape
    <3> QED
      BY <2>1, <2>3, <2>5, <3>1 DEF ObjectOK, r
  <2>6. CASE o \notin Pipes /\ r = HostObject(r.handlers) /\ r.handlers \in Nat
    <3>0. PICK h \in Nat : r = HostObject(h)
      BY <2>6
    <3>1. HostShape(r) /\ r.kind = "host"
      <4>1. <<>> \in Seq(TimerNames)
        OBVIOUS
      <4>2. r = [kind |-> "host", m_active |-> <<>>, handlers |-> h]
        BY <3>0 DEF HostObject
      <4> QED
        BY <4>1, <4>2 DEF HostShape
    <3> QED
      BY <2>1, <2>3, <2>6, <3>1 DEF ObjectOK, r
  <2> QED
    BY <2>2, <2>4, <2>5, <2>6
<1>4. WaitsOK
  BY <1>1, NoWaitersLemma DEF WaitsOK, Patient
<1>5. HostState
  BY <1>1, <1>2, <1>3, <1>4 DEF HostState, Result
<1>6. PendingOK /\ RearmingOK
  <2>1. \A o \in TimerNames : obj[o].m_pending = FALSE /\ obj[o].m_rearming = FALSE
    BY <1>1, <1>3 DEF TimerNames
  <2> QED
    BY <2>1 DEF PendingOK, RearmingOK
<1> QED
  BY <1>5, <1>6 DEF Marked

(* In any program on the timer host: every frame, list and queue keeps its shape, the
   tick task never gives up an expired timer, and a mark of a timer has its cause *)
THEOREM MarksHaveCause == Spec => [](TimerOnly => Marked)
<1>1. Init => (TimerOnly => Marked)
  BY MarkedInit
<1>2. (TimerOnly => Marked) /\ [Next]_vars => (TimerOnly => Marked)'
  <2> SUFFICES ASSUME TimerOnly => Marked, [Next]_vars, TimerOnly' PROVE Marked'
    OBVIOUS
  <2>1. scenario' = scenario
    BY DEF Next, vars
  <2>2. TimerOnly /\ Marked
    BY <2>1, SameTimers
  <2>3. CASE Next
    <3>1. CASE Tick
      <4>1. obj' = obj /\ call' = call /\ ret' = ret
        BY <3>1 DEF Tick, KernelTick
      <4> QED
        BY <2>1, <2>2, <3>1, <4>1, MarkedTick
    <3>2. (\E t \in Tasks : Unlinked(t) /\ HostStep(t)) \/ Tick
      BY <2>2, <2>3, TimerNext DEF Marked
    <3> QED
      BY <2>1, <2>2, <3>1, <3>2, MarkedStep
  <2>4. CASE UNCHANGED vars
    <3>1. obj' = obj /\ call' = call /\ ret' = ret /\ wait' = wait /\ now' = now
      BY <2>4 DEF vars
    <3> QED
      BY <2>1, <2>2, <3>1, MarkedTick
  <2> QED
    BY <2>3, <2>4
<1> QED
  BY <1>1, <1>2, PTL DEF Spec

LEMMA TimersLemma ==
    ASSUME HostState
    PROVE  Objects("timer") = TimerNames
BY DEF HostState, ObjectOK, Objects, TimerNames

(* A timer marked m_pending is in the handlers' queue or with a task that puts it there
   or handles it, whatever tasks start, stop and restart timers: none is skipped by
   UpdateTime for ever *)
THEOREM PendingQueued == Spec => [](TimerOnly => PendingTimersQueued)
<1>1. HostState /\ PendingOK => PendingTimersQueued
  BY TimersLemma DEF PendingOK, PendingTimersQueued, InQueue, Elements, Carries
<1>2. (TimerOnly => Marked) => (TimerOnly => PendingTimersQueued)
  BY <1>1 DEF Marked
<1> QED
  BY <1>2, MarksHaveCause, PTL

(* Without StartOrReset, a timer marked m_rearming has its RESTART command in the queue or
   on its way there or in the tick task, so that no later Restart is dropped for good *)
THEOREM RearmingIsQueued == Spec => [](TimerOnly => RearmingQueued)
<1>1. HostState /\ RearmingOK => RearmingQueued
  <2> SUFFICES ASSUME HostState, RearmingOK, RearmCommands = {"RESTART"},
                      NEW o \in TimerNames, obj[o].m_rearming
               PROVE  CommandQueued(o)
    BY TimersLemma DEF RearmingQueued, RearmCommands
  <2>1. CASE \E x \in Elements(obj["commands"]) : Restarts(x, o)
    BY <2>1 DEF CommandQueued, InQueue, Elements, Restarts
  <2>2. ASSUME NEW t \in Tasks, Rearms(call[t], ret[t], o) PROVE CommandQueued(o)
    BY <2>2 DEF CommandQueued, Rearms, Restarts, Underway
  <2> QED
    BY <2>1, <2>2 DEF RearmingOK
<1>2. (TimerOnly => Marked) => (TimerOnly => RearmingQueued)
  BY <1>1 DEF Marked
<1> QED
  BY <1>2, MarksHaveCause, PTL

(* The counts and indices of the two pipes stay in range, and so do the times of waits
   and the clock *)
THEOREM TimerTypeCorrect == Spec => [](TimerOnly => TypeOK)
<1>1. TimerOnly /\ HostState => TypeOK
  <2> SUFFICES ASSUME TimerOnly, HostState PROVE TypeOK
    OBVIOUS
  <2>1. scenario \in DOMAIN Scenarios /\ DOMAIN obj = DOMAIN The.objects /\ now \in 0..2^TimeoutBits-1
    BY DEF HostState, Clock
  <2>2. wait \in [list: [SyncObjects -> Seq(Tasks)], time: [Tasks -> -WAIT_INFINITE-1..WAIT_INFINITE],
                  timeout: [Tasks -> BOOLEAN]]
    <3>1. 0..WAIT_INFINITE \subseteq -WAIT_INFINITE-1..WAIT_INFINITE
      BY WaitAssumption
    <3> QED
      BY <3>1 DEF HostState, WaitsOK, WaitType, WaitTypeIn, Times
  <2>3. \A t \in Tasks : call[t] = NoCall \/ call[t].ticks \in -WAIT_INFINITE-1..portMAX_DELAY
    <3>1. \A t \in Tasks : call[t] = NoCall \/ call[t].ticks \in 0..WAIT_INFINITE
      BY DEF HostState, AtRest, PushFrame, TickFrame, HandlerFrame, WriteFrame, ReadFrame, Outer,
             IsFrame, Times
    <3>2. portMAX_DELAY \in Int /\ WAIT_INFINITE <= portMAX_DELAY /\ WAIT_INFINITE \in Nat
      BY WaitAssumption, TimeoutAssumption DEF portMAX_DELAY
    <3> HIDE DEF portMAX_DELAY
    <3>3. \A x \in 0..WAIT_INFINITE : x \in -WAIT_INFINITE-1..portMAX_DELAY
      BY <3>2
    <3> QED
      BY <3>1, <3>3
  <2>4. ASSUME NEW o \in DOMAIN obj
        PROVE  obj[o].kind \in {"pipe", "timer", "host"} /\ (obj[o].kind = "pipe" => RingShape(obj[o]))
    <3> HIDE DEF The
    <3> DEFINE r == The.objects[o]
    <3>1. \/ o \in Pipes
          \/ r = TimerObject(NULL)
          \/ r = HostObject(r.handlers)
      BY DEF TimerOnly, TimerProgram, HostState
    <3>2. obj[o].kind = r.kind
      BY DEF HostState, ObjectOK, Kind
    <3> HIDE DEF r
    <3>3. CASE o \in Pipes
      BY <3>3, ProgramLemma DEF PipeShape
    <3> QED
      BY <3>1, <3>2, <3>3 DEF TimerObject, HostObject
  <2>5. \A o \in Objects("semaphore") : obj[o].m_count \in 0..obj[o].m_count_max
    BY <2>4 DEF Objects
  <2>6. ASSUME NEW o \in UNION {Objects(k) : k \in {"queue", "pipe", "set", "envelopes"}}
        PROVE  /\ obj[o].m_count \in 0..obj[o].m_capacity
               /\ {obj[o].m_head, obj[o].m_tail} \subseteq 0..obj[o].m_capacity-1
    <3>1. o \in DOMAIN obj /\ obj[o].kind \in {"queue", "pipe", "set", "envelopes"}
      BY DEF Objects
    <3>2. RingShape(obj[o])
      BY <2>4, <3>1
    <3> QED
      BY <3>2 DEF RingShape
  <2> QED
    BY <2>1, <2>2, <2>3, <2>5, <2>6 DEF TypeOK
<1>2. (TimerOnly => Marked) => (TimerOnly => TypeOK)
  BY <1>1 DEF Marked
<1> QED
  BY <1>2, MarksHaveCause, PTL
=============================================================================
