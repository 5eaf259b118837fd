-------------------------- MODULE WaitQueueProofs --------------------------
(***************************************************************************)
(* What linking, waking and aging waiters do to the wait lists, for any    *)
(* sync objects, tasks and times.                                          *)
(***************************************************************************)
EXTENDS WaitQueue, LinkedListProofs

Times == 0..WAIT_INFINITE

(* Wait states with remaining times of T, which 0 is in and counting down stays in *)
WaitTypeIn(T) == [list: [SyncObjects -> Seq(Tasks)], time: [Tasks -> T], timeout: [Tasks -> BOOLEAN]]

CountsDown(T) == T \subseteq Int /\ 0 \in T /\ \A x \in T : x > 1 => x - 1 \in T

WaitType == WaitTypeIn(Times)

LEMMA TimesLemma == CountsDown(Times)
BY WaitAssumption DEF CountsDown, Times

Linked(w, m, t) == IsLinked(w.list[m], t)

(* A wait object is once in a list *)
ListsOnce(w) == \A m \in SyncObjects : NoDuplicates(w.list[m])

(* At first nobody waits *)
LEMMA NoWaitersLemma ==
    /\ \A T : CountsDown(T) => NoWaiters \in WaitTypeIn(T)
    /\ NoWaiters \in WaitType /\ ListsOnce(NoWaiters)
    /\ \A o \in SyncObjects, t \in Tasks : ~Linked(NoWaiters, o, t)
<1>0. \A T : CountsDown(T) => NoWaiters \in WaitTypeIn(T)
  BY DEF NoWaiters, WaitTypeIn, CountsDown
<1>1. NoWaiters \in WaitType
  BY <1>0, TimesLemma DEF WaitType
<1>2. \A o \in SyncObjects : NoWaiters.list[o] = <<>>
  BY DEF NoWaiters
<1> QED
  BY <1>0, <1>1, <1>2 DEF ListsOnce, Linked, IsLinked, NoDuplicates

(* IsWaiting is linked in some list *)
LEMMA IsWaitingLemma ==
    ASSUME NEW w, NEW t
    PROVE  IsWaiting(w, t) <=> \E o \in SyncObjects : Linked(w, o, t)
BY DEF IsWaiting, Linked

(* The lists of v are those of w with t linked behind the waiters of m *)
AfterSetup(v, w, m, t) ==
    /\ ListsOnce(v)
    /\ \A o \in SyncObjects, j \in Tasks :
            Linked(v, o, j) <=> Linked(w, o, j) \/ (o = m /\ j = t)
    /\ \A j \in Tasks : j # t => v.timeout[j] = w.timeout[j]

(* The lists of v are those of w without t, which was signalled *)
AfterWakeOne(v, w, m, t) ==
    /\ ListsOnce(v)
    /\ t \in Tasks /\ Linked(w, m, t)
    /\ \A o \in SyncObjects, j \in Tasks :
            Linked(v, o, j) <=> Linked(w, o, j) /\ ~(o = m /\ j = t)
    /\ v.timeout[t] = FALSE
    /\ \A j \in Tasks : j # t => v.timeout[j] = w.timeout[j]

(* The lists of v are those of w without t, if its time is over *)
AfterTickWaiter(v, w, t) ==
    /\ ListsOnce(v)
    /\ \A o \in SyncObjects, j \in Tasks :
            Linked(v, o, j) <=> Linked(w, o, j) /\ ~(j = t /\ t \in Expired(w))
    /\ t \in Expired(w) => v.timeout[t] = TRUE
    /\ \A j \in Tasks : (j # t \/ t \notin Expired(w)) => v.timeout[j] = w.timeout[j]

(* SetupWait links a task that is linked nowhere *)
LEMMA SetupWaitInLemma ==
    ASSUME NEW T, CountsDown(T), NEW w \in WaitTypeIn(T), ListsOnce(w), NEW m \in SyncObjects, NEW t \in Tasks,
           NEW ticks \in T, \A o \in SyncObjects : ~Linked(w, o, t)
    PROVE  /\ SetupWait(w, m, t, ticks) \in WaitTypeIn(T)
           /\ AfterSetup(SetupWait(w, m, t, ticks), w, m, t)
<1> DEFINE v == SetupWait(w, m, t, ticks)
           l == Append(w.list[m], t)
<1>0. v = [w EXCEPT !.list[m] = l, !.time[t] = ticks, !.timeout[t] = FALSE]
  BY DEF SetupWait
<1>2. l \in Seq(Tasks) /\ NoDuplicates(l)
      /\ \A j : IsLinked(l, j) <=> IsLinked(w.list[m], j) \/ j = t
  <2>1. w.list[m] \in Seq(Tasks) /\ NoDuplicates(w.list[m]) /\ ~IsLinked(w.list[m], t)
    BY DEF WaitTypeIn, ListsOnce, Linked
  <2> QED
    BY <2>1, AppendLemma
<1> HIDE DEF l, v
<1>1. v = [list |-> [w.list EXCEPT ![m] = l], time |-> [w.time EXCEPT ![t] = ticks],
           timeout |-> [w.timeout EXCEPT ![t] = FALSE]]
  BY <1>0 DEF WaitTypeIn
<1>3. v \in WaitTypeIn(T)
  BY <1>1, <1>2 DEF WaitTypeIn
<1>4. \A o \in SyncObjects : v.list[o] = IF o = m THEN l ELSE w.list[o]
  BY <1>1 DEF WaitTypeIn
<1>5. \A j \in Tasks : j # t => v.timeout[j] = w.timeout[j]
  BY <1>1 DEF WaitTypeIn
<1>6. ListsOnce(v)
  BY <1>2, <1>4 DEF ListsOnce
<1>7. \A o \in SyncObjects, j \in Tasks :
        Linked(v, o, j) <=> Linked(w, o, j) \/ (o = m /\ j = t)
  BY <1>2, <1>4 DEF Linked
<1> QED
  BY <1>3, <1>5, <1>6, <1>7 DEF v, AfterSetup

(* WakeOne takes the first waiter out of the list and signals it *)
LEMMA WakeOneInLemma ==
    ASSUME NEW T, CountsDown(T), NEW w \in WaitTypeIn(T), ListsOnce(w), NEW m \in SyncObjects, w.list[m] # <<>>
    PROVE  /\ WakeOne(w, m) \in WaitTypeIn(T)
           /\ AfterWakeOne(WakeOne(w, m), w, m, Head(w.list[m]))
<1> DEFINE v == WakeOne(w, m)
           h == Head(w.list[m])
           l == Tail(w.list[m])
<1>1. /\ h \in Tasks /\ IsLinked(w.list[m], h)
      /\ l \in Seq(Tasks) /\ NoDuplicates(l)
      /\ \A j : IsLinked(l, j) <=> IsLinked(w.list[m], j) /\ j # h
  <2>1. w.list[m] \in Seq(Tasks) /\ NoDuplicates(w.list[m])
    BY DEF WaitTypeIn, ListsOnce
  <2> QED
    BY <2>1, TailLemma
<1>2. v = [list |-> [w.list EXCEPT ![m] = l], time |-> [w.time EXCEPT ![h] = 0],
           timeout |-> [w.timeout EXCEPT ![h] = FALSE]]
  BY DEF WakeOne, WaitTypeIn
<1> HIDE DEF h, l
<1>3. v \in WaitTypeIn(T)
  BY <1>1, <1>2 DEF WaitTypeIn, CountsDown
<1>4. \A o \in SyncObjects : v.list[o] = IF o = m THEN l ELSE w.list[o]
  BY <1>2 DEF WaitTypeIn
<1>5. v.timeout[h] = FALSE /\ \A j \in Tasks : j # h => v.timeout[j] = w.timeout[j]
  BY <1>1, <1>2 DEF WaitTypeIn
<1> HIDE DEF v
<1>6. ListsOnce(v)
  BY <1>1, <1>4 DEF ListsOnce
<1>7. \A o \in SyncObjects, j \in Tasks : Linked(v, o, j) <=> Linked(w, o, j) /\ ~(o = m /\ j = h)
  BY <1>1, <1>4 DEF Linked
<1> QED
  BY <1>1, <1>3, <1>5, <1>6, <1>7 DEF v, h, Linked, AfterWakeOne

(* A tick unlinks a waiter whose time is over and marks it as timed out *)
LEMMA TickWaiterInLemma ==
    ASSUME NEW T, CountsDown(T), NEW w \in WaitTypeIn(T), ListsOnce(w), NEW t \in Tasks
    PROVE  TickWaiter(w, t) \in WaitTypeIn(T) /\ AfterTickWaiter(TickWaiter(w, t), w, t)
<1> DEFINE v == TickWaiter(w, t)
<1>1. CASE t \in Expired(w)
  <2> DEFINE L(o) == IF IsLinked(w.list[o], t) THEN Unlink(w.list[o], t) ELSE w.list[o]
  <2>1. v = [list |-> [o \in SyncObjects |-> L(o)], time |-> [w.time EXCEPT ![t] = 0],
             timeout |-> [w.timeout EXCEPT ![t] = TRUE]]
    BY <1>1 DEF TickWaiter
  <2>2. ASSUME NEW o \in SyncObjects
        PROVE  /\ L(o) \in Seq(Tasks) /\ NoDuplicates(L(o))
               /\ \A j : IsLinked(L(o), j) <=> IsLinked(w.list[o], j) /\ j # t
    <3>1. w.list[o] \in Seq(Tasks) /\ NoDuplicates(w.list[o])
      BY DEF WaitTypeIn, ListsOnce
    <3>2. CASE IsLinked(w.list[o], t)
      BY <3>1, <3>2, UnlinkLemma
    <3>3. CASE ~IsLinked(w.list[o], t)
      BY <3>1, <3>3
    <3> QED
      BY <3>2, <3>3
  <2> HIDE DEF L
  <2>3. v \in WaitTypeIn(T)
    BY <2>1, <2>2 DEF WaitTypeIn, CountsDown
  <2>4. \A o \in SyncObjects : v.list[o] = L(o)
    BY <2>1
  <2>5. v.timeout[t] = TRUE /\ \A j \in Tasks : j # t => v.timeout[j] = w.timeout[j]
    BY <2>1 DEF WaitTypeIn
  <2> HIDE DEF v
  <2>6. ListsOnce(v)
    BY <2>2, <2>4 DEF ListsOnce
  <2>7. \A o \in SyncObjects, j \in Tasks : Linked(v, o, j) <=> Linked(w, o, j) /\ j # t
    BY <2>2, <2>4 DEF Linked
  <2> QED
    BY <1>1, <2>3, <2>5, <2>6, <2>7 DEF v, AfterTickWaiter
<1>2. CASE t \notin Expired(w)
  <2>1. v \in WaitTypeIn(T) /\ v.list = w.list /\ v.timeout = w.timeout
    <3>1. CASE IsWaiting(w, t) /\ w.time[t] # WAIT_INFINITE
      <4>1. ~(w.time[t] <= 1)
        BY <1>2, <3>1 DEF Expired
      <4>2. w.time[t] \in T
        BY DEF WaitTypeIn
      <4>3. w.time[t] \in Int /\ w.time[t] > 1
        BY <4>1, <4>2 DEF CountsDown
      <4>4. w.time[t] - 1 \in T
        BY <4>2, <4>3 DEF CountsDown
      <4>5. v = [w EXCEPT !.time[t] = w.time[t] - 1]
        BY <1>2, <3>1 DEF TickWaiter
      <4> QED
        BY <4>4, <4>5 DEF WaitTypeIn
    <3>2. CASE ~(IsWaiting(w, t) /\ w.time[t] # WAIT_INFINITE)
      BY <1>2, <3>2 DEF TickWaiter
    <3> QED
      BY <3>1, <3>2
  <2> HIDE DEF v
  <2> QED
    BY <1>2, <2>1 DEF v, ListsOnce, Linked, AfterTickWaiter
<1> QED
  BY <1>1, <1>2

(* A list is not empty when some task is linked *)
LEMMA LinkedInLemma ==
    ASSUME NEW T, CountsDown(T), NEW w \in WaitTypeIn(T), NEW m \in SyncObjects
    PROVE  w.list[m] # <<>> <=> \E t \in Tasks : Linked(w, m, t)
<1>1. w.list[m] \in Seq(Tasks)
  BY DEF WaitTypeIn
<1>2. w.list[m] # <<>> <=> Len(w.list[m]) # 0
  BY <1>1, EmptyLemma
<1>3. ASSUME Len(w.list[m]) # 0 PROVE \E t \in Tasks : Linked(w, m, t)
  <2>1. 1 \in 1..Len(w.list[m]) /\ w.list[m][1] \in Tasks
    BY <1>1, <1>3
  <2> QED
    BY <2>1 DEF Linked, IsLinked
<1>4. ASSUME NEW t \in Tasks, Linked(w, m, t) PROVE Len(w.list[m]) # 0
  BY <1>1, <1>4 DEF Linked, IsLinked
<1> QED
  BY <1>2, <1>3, <1>4

(* WakeAll empties one list and signals its tasks *)
LEMMA WakeAllInLemma ==
    ASSUME NEW T, CountsDown(T), NEW w \in WaitTypeIn(T), ListsOnce(w), NEW m \in SyncObjects
    PROVE  LET v == WakeAll(w, m)
           IN  /\ v \in WaitTypeIn(T) /\ ListsOnce(v)
               /\ \A o \in SyncObjects, j \in Tasks :
                    Linked(v, o, j) <=> Linked(w, o, j) /\ o # m
               /\ \A j \in Tasks : v.timeout[j] = (w.timeout[j] /\ ~Linked(w, m, j))
<1> DEFINE v == WakeAll(w, m)
           time == [t \in Tasks |-> IF IsLinked(w.list[m], t) THEN 0 ELSE w.time[t]]
           timeout == [t \in Tasks |-> w.timeout[t] /\ ~IsLinked(w.list[m], t)]
<1>1. v = [w EXCEPT !.list[m] = <<>>, !.time = time, !.timeout = timeout]
  BY DEF WakeAll
<1>2. time \in [Tasks -> T] /\ timeout \in [Tasks -> BOOLEAN]
  BY DEF WaitTypeIn, CountsDown
<1>3. \A j \in Tasks : timeout[j] = (w.timeout[j] /\ ~Linked(w, m, j))
  BY DEF Linked
<1> HIDE DEF time, timeout
<1>4. v \in WaitTypeIn(T)
  <2> DEFINE list == [w.list EXCEPT ![m] = <<>>]
  <2>1. list \in [SyncObjects -> Seq(Tasks)]
    BY DEF WaitTypeIn
  <2>2. v = [list |-> list, time |-> time, timeout |-> timeout]
    BY <1>1 DEF WaitTypeIn
  <2> HIDE DEF list, v
  <2> QED
    BY <1>2, <2>1, <2>2 DEF WaitTypeIn
<1>5. v.timeout = timeout
      /\ \A o \in SyncObjects : v.list[o] = IF o = m THEN <<>> ELSE w.list[o]
  BY <1>1 DEF WaitTypeIn
<1> HIDE DEF v
<1>6. ListsOnce(v)
  BY <1>5 DEF ListsOnce, NoDuplicates
<1>7. \A o \in SyncObjects, j \in Tasks : Linked(v, o, j) <=> Linked(w, o, j) /\ o # m
  BY <1>5 DEF Linked, IsLinked
<1> QED
  BY <1>3, <1>4, <1>5, <1>6, <1>7 DEF v

(* A tick of all waiters unlinks those whose time is over and marks them *)
LEMMA TickWaitersInLemma ==
    ASSUME NEW T, CountsDown(T), NEW w \in WaitTypeIn(T), ListsOnce(w)
    PROVE  LET v == TickWaiters(w)
           IN  /\ v \in WaitTypeIn(T) /\ ListsOnce(v)
               /\ \A o \in SyncObjects, j \in Tasks :
                    Linked(v, o, j) <=> Linked(w, o, j) /\ j \notin Expired(w)
               /\ \A j \in Tasks : v.timeout[j] = (w.timeout[j] \/ j \in Expired(w))
<1> DEFINE v == TickWaiters(w)
<1>1. ASSUME NEW o \in SyncObjects
      PROVE  /\ v.list[o] \in Seq(Tasks) /\ NoDuplicates(v.list[o])
             /\ \A j : IsLinked(v.list[o], j) <=> IsLinked(w.list[o], j) /\ j \notin Expired(w)
  <2>1. v.list[o] = UnlinkAll(w.list[o], Expired(w))
    BY DEF TickWaiters
  <2>2. w.list[o] \in Seq(Tasks) /\ NoDuplicates(w.list[o])
    BY DEF WaitTypeIn, ListsOnce
  <2> QED
    BY <2>1, <2>2, UnlinkAllLemma
<1>2. ASSUME NEW t \in Tasks PROVE v.time[t] \in T
  <2>1. w.time[t] \in T /\ w.time[t] \in Int /\ 0 \in T
    BY DEF WaitTypeIn, CountsDown
  <2>2. CASE t \in Expired(w)
    BY <2>1, <2>2 DEF TickWaiters
  <2>3. CASE t \notin Expired(w) /\ IsWaiting(w, t) /\ w.time[t] # WAIT_INFINITE
    <3>1. ~(w.time[t] <= 1)
      BY <2>3 DEF Expired
    <3>2. w.time[t] - 1 \in T
      BY <2>1, <3>1 DEF CountsDown
    <3>3. v.time[t] = w.time[t] - 1
      BY <2>3 DEF TickWaiters
    <3> QED
      BY <3>2, <3>3
  <2>4. CASE t \notin Expired(w) /\ ~(IsWaiting(w, t) /\ w.time[t] # WAIT_INFINITE)
    BY <2>1, <2>4 DEF TickWaiters
  <2> QED
    BY <2>2, <2>3, <2>4
<1>3. \A j \in Tasks : v.timeout[j] = (w.timeout[j] \/ j \in Expired(w))
  BY DEF TickWaiters
<1>4. /\ v = [list |-> v.list, time |-> v.time, timeout |-> v.timeout]
      /\ v.list = [o \in SyncObjects |-> v.list[o]]
      /\ v.time = [t \in Tasks |-> v.time[t]]
      /\ v.timeout = [t \in Tasks |-> v.timeout[t]]
  BY DEF TickWaiters
<1> HIDE DEF v
<1>5. v \in WaitTypeIn(T)
  <2>1. v.list \in [SyncObjects -> Seq(Tasks)]
    BY <1>1, <1>4
  <2>2. v.time \in [Tasks -> T]
    BY <1>2, <1>4
  <2>3. v.timeout \in [Tasks -> BOOLEAN]
    <3>1. \A j \in Tasks : v.timeout[j] \in BOOLEAN
      BY <1>3
    <3> QED
      BY <1>4, <3>1
  <2> QED
    BY <1>4, <2>1, <2>2, <2>3 DEF WaitTypeIn
<1>6. ListsOnce(v)
  BY <1>1 DEF ListsOnce
<1>7. \A o \in SyncObjects, j \in Tasks :
        Linked(v, o, j) <=> Linked(w, o, j) /\ j \notin Expired(w)
  BY <1>1 DEF Linked
<1> QED
  BY <1>3, <1>5, <1>6, <1>7 DEF v

-----------------------------------------------------------------------------
(* The same with the times of a wait that does not compute with a deadline *)
LEMMA SetupWaitLemma ==
    ASSUME NEW w \in WaitType, ListsOnce(w), NEW m \in SyncObjects, NEW t \in Tasks,
           NEW ticks \in Times, \A o \in SyncObjects : ~Linked(w, o, t)
    PROVE  /\ SetupWait(w, m, t, ticks) \in WaitType
           /\ AfterSetup(SetupWait(w, m, t, ticks), w, m, t)
BY TimesLemma, SetupWaitInLemma DEF WaitType

LEMMA WakeOneLemma ==
    ASSUME NEW w \in WaitType, ListsOnce(w), NEW m \in SyncObjects, w.list[m] # <<>>
    PROVE  /\ WakeOne(w, m) \in WaitType
           /\ AfterWakeOne(WakeOne(w, m), w, m, Head(w.list[m]))
BY TimesLemma, WakeOneInLemma DEF WaitType

LEMMA TickWaiterLemma ==
    ASSUME NEW w \in WaitType, ListsOnce(w), NEW t \in Tasks
    PROVE  TickWaiter(w, t) \in WaitType /\ AfterTickWaiter(TickWaiter(w, t), w, t)
BY TimesLemma, TickWaiterInLemma DEF WaitType

LEMMA LinkedLemma ==
    ASSUME NEW w \in WaitType, NEW m \in SyncObjects
    PROVE  w.list[m] # <<>> <=> \E t \in Tasks : Linked(w, m, t)
BY TimesLemma, LinkedInLemma DEF WaitType

LEMMA WakeAllLemma ==
    ASSUME NEW w \in WaitType, ListsOnce(w), NEW m \in SyncObjects
    PROVE  LET v == WakeAll(w, m)
           IN  /\ v \in WaitType /\ ListsOnce(v)
               /\ \A o \in SyncObjects, j \in Tasks :
                    Linked(v, o, j) <=> Linked(w, o, j) /\ o # m
               /\ \A j \in Tasks : v.timeout[j] = (w.timeout[j] /\ ~Linked(w, m, j))
BY TimesLemma, WakeAllInLemma DEF WaitType

LEMMA TickWaitersLemma ==
    ASSUME NEW w \in WaitType, ListsOnce(w)
    PROVE  LET v == TickWaiters(w)
           IN  /\ v \in WaitType /\ ListsOnce(v)
               /\ \A o \in SyncObjects, j \in Tasks :
                    Linked(v, o, j) <=> Linked(w, o, j) /\ j \notin Expired(w)
               /\ \A j \in Tasks : v.timeout[j] = (w.timeout[j] \/ j \in Expired(w))
BY TimesLemma, TickWaitersInLemma DEF WaitType
=============================================================================
