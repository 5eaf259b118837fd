---------------------------- MODULE MutexProofs ----------------------------
(***************************************************************************)
(* Ownership of the mutexes and the hand-over to waiters, for any number   *)
(* of tasks and mutexes, any weights, time-outs and recursion depth.       *)
(***************************************************************************)
EXTENDS Mutex, WaitQueueProofs

-----------------------------------------------------------------------------
(* What the methods of SwitchStrategyFixedPriority do to its lists, its cursors and its
   bitmap, for tasks of any set S and any number of levels *)

StrategyType(S) == [m_tasks: [Priorities -> Seq(S)], m_prev: [Priorities -> S \cup {NONE}],
                    m_sleep: Seq(S), m_ready_bitmap: SUBSET Priorities]

(* A level that has tasks has its bit and a cursor, a level without has neither *)
LevelOK(s, p) ==
    /\ NoDuplicates(s.m_tasks[p])
    /\ p \in s.m_ready_bitmap <=> s.m_tasks[p] # <<>>
    /\ IF s.m_tasks[p] = <<>> THEN s.m_prev[p] = NONE ELSE IsLinked(s.m_tasks[p], s.m_prev[p])

Consistent(s) == NoDuplicates(s.m_sleep) /\ \A p \in Priorities : LevelOK(s, p)

StrategyOK(s, S) == s \in StrategyType(S) /\ Consistent(s)

AtLevel(s, p, k) == IsLinked(s.m_tasks[p], k)
Asleep(s, k) == IsLinked(s.m_sleep, k)

(* The lists of v are those of s, with k added to or taken from a level *)
Added1(v, s, k, prio) ==
    /\ \A j : Asleep(v, j) <=> Asleep(s, j)
    /\ \A p \in Priorities : \A j :
            AtLevel(v, p, j) <=> AtLevel(s, p, j) \/ (p = prio /\ j = k)

Removed1(v, s, k, prio) ==
    /\ \A j : Asleep(v, j) <=> Asleep(s, j)
    /\ \A p \in Priorities : \A j :
            AtLevel(v, p, j) <=> AtLevel(s, p, j) /\ ~(p = prio /\ j = k)

-----------------------------------------------------------------------------
(* The list, the cursor and the bits of a level fit together *)
LevelParts(S, prio, list, cursor, bits) ==
    /\ list \in Seq(S) /\ cursor \in S \cup {NONE} /\ bits \in SUBSET Priorities
    /\ NoDuplicates(list)
    /\ prio \in bits <=> list # <<>>
    /\ IF list = <<>> THEN cursor = NONE ELSE IsLinked(list, cursor)

(* v is s with another list at one level *)
LevelChanged(v, s, prio, list) ==
    /\ v.m_sleep = s.m_sleep
    /\ \A p \in Priorities : v.m_tasks[p] = IF p = prio THEN list ELSE s.m_tasks[p]

(* A change of one level keeps the others *)
LEMMA LevelLemma ==
    ASSUME NEW S, NEW s, StrategyOK(s, S), NEW v, NEW prio \in Priorities,
           NEW list, NEW cursor, NEW bits, LevelParts(S, prio, list, cursor, bits),
           v = [s EXCEPT !.m_tasks[prio] = list, !.m_prev[prio] = cursor,
                         !.m_ready_bitmap = bits],
           \A p \in Priorities \ {prio} : p \in bits <=> p \in s.m_ready_bitmap
    PROVE  StrategyOK(v, S) /\ LevelChanged(v, s, prio, list)
<1>1. s \in StrategyType(S) /\ Consistent(s)
  BY DEF StrategyOK
<1>2. /\ v \in StrategyType(S)
      /\ v.m_sleep = s.m_sleep /\ v.m_ready_bitmap = bits
      /\ \A p \in Priorities : v.m_tasks[p] = IF p = prio THEN list ELSE s.m_tasks[p]
      /\ \A p \in Priorities : v.m_prev[p] = IF p = prio THEN cursor ELSE s.m_prev[p]
  BY <1>1 DEF StrategyType, LevelParts
<1>3. ASSUME NEW p \in Priorities PROVE LevelOK(v, p)
  <2>1. CASE p = prio
    BY <1>2, <2>1 DEF LevelOK, LevelParts
  <2>2. CASE p # prio
    <3>1. LevelOK(s, p)
      BY <1>1 DEF Consistent
    <3> QED
      BY <1>2, <2>2, <3>1 DEF LevelOK
  <2> QED
    BY <2>1, <2>2
<1>4. Consistent(v)
  BY <1>1, <1>2, <1>3 DEF Consistent
<1> QED
  BY <1>2, <1>4 DEF StrategyOK, LevelChanged

(* AddActive links a task behind those of its level *)
LEMMA AddActiveLemma ==
    ASSUME NEW S, NEW s, StrategyOK(s, S), NEW k \in S, NEW prio \in Priorities,
           ~AtLevel(s, prio, k)
    PROVE  StrategyOK(AddActive(s, k, prio), S) /\ Added1(AddActive(s, k, prio), s, k, prio)
<1> DEFINE level == s.m_tasks[prio]
           list == Append(level, k)
           cursor == IF level = <<>> THEN k ELSE s.m_prev[prio]
           bits == IF level = <<>> THEN s.m_ready_bitmap \cup {prio} ELSE s.m_ready_bitmap
           v == AddActive(s, k, prio)
<1>1. s \in StrategyType(S) /\ LevelOK(s, prio)
  BY DEF StrategyOK, Consistent
<1>2. level \in Seq(S) /\ NoDuplicates(level) /\ ~IsLinked(level, k)
  BY <1>1 DEF StrategyType, LevelOK, AtLevel
<1>3. /\ list \in Seq(S) /\ list # <<>> /\ NoDuplicates(list)
      /\ \A j : IsLinked(list, j) <=> IsLinked(level, j) \/ j = k
  BY <1>2, AppendLemma
<1>4. cursor \in S \cup {NONE} /\ bits \in SUBSET Priorities /\ prio \in bits
      /\ \A p \in Priorities \ {prio} : p \in bits <=> p \in s.m_ready_bitmap
  BY <1>1 DEF StrategyType, LevelOK
<1>5. IsLinked(list, cursor)
  BY <1>1, <1>3 DEF LevelOK
<1>6. v = [s EXCEPT !.m_tasks[prio] = list, !.m_prev[prio] = cursor,
                    !.m_ready_bitmap = bits]
  BY DEF AddActive
<1> HIDE DEF list, cursor, bits, v
<1>p. LevelParts(S, prio, list, cursor, bits)
  BY <1>3, <1>4, <1>5 DEF LevelParts
<1>7. StrategyOK(v, S) /\ LevelChanged(v, s, prio, list)
  BY <1>p, <1>4, <1>6, LevelLemma
<1>8. Added1(v, s, k, prio)
  BY <1>3, <1>7 DEF Added1, AtLevel, Asleep, LevelChanged
<1> QED
  BY <1>7, <1>8 DEF v

(* RemoveActive takes a task from its level; the cursor stays in the level *)
LEMMA RemoveActiveLemma ==
    ASSUME NEW S, NEW s, StrategyOK(s, S), NEW k \in S, NEW prio \in Priorities,
           AtLevel(s, prio, k)
    PROVE  /\ StrategyOK(RemoveActive(s, k, prio), S)
           /\ Removed1(RemoveActive(s, k, prio), s, k, prio)
<1> DEFINE level == s.m_tasks[prio]
           next == LoopNext(level, k)
           list == Unlink(level, k)
           cursor == IF next # k THEN LoopPrev(list, next) ELSE NONE
           bits == IF next # k THEN s.m_ready_bitmap ELSE s.m_ready_bitmap \ {prio}
           v == RemoveActive(s, k, prio)
<1>1. s \in StrategyType(S) /\ LevelOK(s, prio)
  BY DEF StrategyOK, Consistent
<1>2. level \in Seq(S) /\ NoDuplicates(level) /\ IsLinked(level, k) /\ level # <<>>
  BY <1>1 DEF StrategyType, LevelOK, AtLevel, IsLinked
<1>3. /\ list \in Seq(S) /\ NoDuplicates(list) /\ Len(list) = Len(level) - 1
      /\ \A j : IsLinked(list, j) <=> IsLinked(level, j) /\ j # k
  BY <1>2, UnlinkLemma
<1>4. next \in S /\ IsLinked(level, next) /\ (next = k <=> Len(level) = 1)
  BY <1>2, LoopLemma
<1>5. list = <<>> <=> next = k
  <2>1. Len(level) \in Nat /\ (list = <<>> <=> Len(list) = 0)
    BY <1>2, <1>3, EmptyLemma
  <2> QED
    BY <1>3, <1>4, <2>1
<1>6. v = [s EXCEPT !.m_tasks[prio] = list, !.m_prev[prio] = cursor,
                    !.m_ready_bitmap = bits]
  BY DEF RemoveActive
<1> HIDE DEF next, list, v
<1>7. IF list = <<>> THEN cursor = NONE ELSE cursor \in S /\ IsLinked(list, cursor)
  <2>1. CASE next # k
    <3>1. IsLinked(list, next)
      BY <1>3, <1>4, <2>1
    <3>2. LoopPrev(list, next) \in S /\ IsLinked(list, LoopPrev(list, next))
      BY <1>3, <3>1, LoopLemma
    <3> QED
      BY <1>5, <2>1, <3>2
  <2>2. CASE next = k
    BY <1>5, <2>2
  <2> QED
    BY <2>1, <2>2
<1>8. bits \in SUBSET Priorities /\ (prio \in bits <=> list # <<>>)
      /\ \A p \in Priorities \ {prio} : p \in bits <=> p \in s.m_ready_bitmap
  BY <1>1, <1>2, <1>5 DEF StrategyType, LevelOK
<1> HIDE DEF cursor, bits
<1>p. LevelParts(S, prio, list, cursor, bits)
  BY <1>3, <1>7, <1>8 DEF LevelParts
<1>9. StrategyOK(v, S) /\ LevelChanged(v, s, prio, list)
  BY <1>p, <1>6, <1>8, LevelLemma
<1>10. Removed1(v, s, k, prio)
  BY <1>3, <1>9 DEF Removed1, AtLevel, Asleep, LevelChanged
<1> QED
  BY <1>9, <1>10 DEF v

-----------------------------------------------------------------------------
(* The strategy and the weights of its tasks *)

(* The tasks of A are active, each at the level of its weight and nowhere else, the
   other tasks of S are asleep *)
Placed(s, S, A, w) ==
    /\ StrategyOK(s, S)
    /\ \A k \in S : Asleep(s, k) <=> k \notin A
    /\ \A p \in Priorities : \A k \in S : AtLevel(s, p, k) <=> k \in A /\ p = w[k]

(* A task goes to sleep *)
LEMMA OnTaskSleepLemma ==
    ASSUME NEW S, NEW s, NEW A, NEW w \in [S -> Priorities], Placed(s, S, A, w),
           NEW k \in S, k \in A
    PROVE  Placed(OnTaskSleep(s, k, w[k]), S, A \ {k}, w)
<1> DEFINE r == RemoveActive(s, k, w[k])
           l == Append(r.m_sleep, k)
           v == OnTaskSleep(s, k, w[k])
<1>1. w[k] \in Priorities /\ StrategyOK(s, S) /\ AtLevel(s, w[k], k) /\ ~Asleep(s, k)
  BY DEF Placed
<1>2. StrategyOK(r, S) /\ Removed1(r, s, k, w[k])
  BY <1>1, RemoveActiveLemma
<1>3. v = [r EXCEPT !.m_sleep = l]
  BY DEF OnTaskSleep
<1> HIDE DEF r
<1>4. r \in StrategyType(S) /\ Consistent(r)
  BY <1>2 DEF StrategyOK
<1>5. r.m_sleep \in Seq(S) /\ NoDuplicates(r.m_sleep) /\ ~IsLinked(r.m_sleep, k)
  BY <1>1, <1>2, <1>4 DEF StrategyType, Consistent, Removed1, Asleep
<1>6. /\ l \in Seq(S) /\ NoDuplicates(l)
      /\ \A j : IsLinked(l, j) <=> IsLinked(r.m_sleep, j) \/ j = k
  BY <1>5, AppendLemma
<1> HIDE DEF l, v
<1>7. /\ v \in StrategyType(S) /\ v.m_sleep = l /\ v.m_tasks = r.m_tasks
      /\ v.m_prev = r.m_prev /\ v.m_ready_bitmap = r.m_ready_bitmap
  BY <1>3, <1>4, <1>6 DEF StrategyType
<1>8. StrategyOK(v, S)
  BY <1>4, <1>6, <1>7 DEF StrategyOK, Consistent, LevelOK
<1>9. \A j \in S : Asleep(v, j) <=> j \notin A \ {k}
  BY <1>2, <1>6, <1>7 DEF Placed, Removed1, Asleep
<1>10. \A p \in Priorities : \A j \in S : AtLevel(v, p, j) <=> j \in A \ {k} /\ p = w[j]
  BY <1>2, <1>7 DEF Placed, Removed1, AtLevel
<1> QED
  BY <1>8, <1>9, <1>10 DEF Placed, v

(* A task wakes up, at the level of its present weight *)
LEMMA OnTaskWakeLemma ==
    ASSUME NEW S, NEW s, NEW A, NEW w \in [S -> Priorities], Placed(s, S, A, w),
           NEW k \in S, k \notin A
    PROVE  Placed(OnTaskWake(s, k, w[k]), S, A \cup {k}, w)
<1> DEFINE l == Unlink(s.m_sleep, k)
           r == [s EXCEPT !.m_sleep = l]
           v == OnTaskWake(s, k, w[k])
<1>1. w[k] \in Priorities /\ Asleep(s, k) /\ ~AtLevel(s, w[k], k)
  BY DEF Placed
<1>2. s \in StrategyType(S) /\ Consistent(s)
  BY DEF Placed, StrategyOK
<1>3. s.m_sleep \in Seq(S) /\ NoDuplicates(s.m_sleep) /\ IsLinked(s.m_sleep, k)
  BY <1>1, <1>2 DEF StrategyType, Consistent, Asleep
<1>4. /\ l \in Seq(S) /\ NoDuplicates(l)
      /\ \A j : IsLinked(l, j) <=> IsLinked(s.m_sleep, j) /\ j # k
  BY <1>3, UnlinkLemma
<1>5. v = AddActive(r, k, w[k])
  BY DEF OnTaskWake
<1> HIDE DEF l
<1>6. /\ r \in StrategyType(S) /\ r.m_sleep = l /\ r.m_tasks = s.m_tasks
      /\ r.m_prev = s.m_prev /\ r.m_ready_bitmap = s.m_ready_bitmap
  BY <1>2, <1>4 DEF StrategyType
<1> HIDE DEF r, v
<1>7. StrategyOK(r, S) /\ ~AtLevel(r, w[k], k)
  BY <1>1, <1>2, <1>4, <1>6 DEF StrategyOK, Consistent, LevelOK, AtLevel
<1>8. StrategyOK(v, S) /\ Added1(v, r, k, w[k])
  BY <1>1, <1>5, <1>7, AddActiveLemma
<1>9. \A j \in S : Asleep(v, j) <=> j \notin A \cup {k}
  BY <1>4, <1>6, <1>8 DEF Placed, Added1, Asleep
<1>10. \A p \in Priorities : \A j \in S : AtLevel(v, p, j) <=> j \in A \cup {k} /\ p = w[j]
  <2>1. \A p \in Priorities : \A j \in S :
            AtLevel(v, p, j) <=> AtLevel(s, p, j) \/ (p = w[k] /\ j = k)
    BY <1>6, <1>8 DEF Added1, AtLevel
  <2> QED
    BY <1>1, <2>1 DEF Placed
<1> QED
  BY <1>8, <1>9, <1>10 DEF Placed, v

(* The weight of a task changes: an active task moves to the new level *)
LEMMA OnTaskWeightChangeLemma ==
    ASSUME NEW S, NEW s, NEW A, NEW w \in [S -> Priorities], Placed(s, S, A, w),
           NEW k \in S, NEW prio \in Priorities
    PROVE  Placed(OnTaskWeightChange(s, k, w[k], prio), S, A, [w EXCEPT ![k] = prio])
<1> DEFINE r == RemoveActive(s, k, w[k])
           v == OnTaskWeightChange(s, k, w[k], prio)
           x == [w EXCEPT ![k] = prio]
<1>0. StrategyOK(s, S) /\ w[k] \in Priorities /\ \A j \in S : x[j] = IF j = k THEN prio ELSE w[j]
  BY DEF Placed
<1>1. CASE Asleep(s, k)
  <2>1. v = s /\ k \notin A
    BY <1>1 DEF OnTaskWeightChange, Asleep, Placed
  <2> HIDE DEF v, x
  <2>2. \A j \in A \cap S : x[j] = w[j]
    BY <1>0, <2>1
  <2>3. \A p \in Priorities : \A j \in S : AtLevel(v, p, j) <=> j \in A /\ p = x[j]
    BY <2>1, <2>2 DEF Placed
  <2> QED
    BY <2>1, <2>3 DEF Placed, v, x
<1>2. CASE ~Asleep(s, k)
  <2>1. k \in A /\ AtLevel(s, w[k], k)
    BY <1>2 DEF Placed
  <2>2. StrategyOK(r, S) /\ Removed1(r, s, k, w[k])
    BY <1>0, <2>1, RemoveActiveLemma
  <2>3. v = AddActive(r, k, prio)
    BY <1>2 DEF OnTaskWeightChange, Asleep
  <2> HIDE DEF r, v, x
  <2>4. ~AtLevel(r, prio, k)
    BY <2>1, <2>2 DEF Removed1, Placed
  <2>5. StrategyOK(v, S) /\ Added1(v, r, k, prio)
    BY <2>2, <2>3, <2>4, AddActiveLemma
  <2>6. \A j \in S : Asleep(v, j) <=> j \notin A
    BY <2>2, <2>5 DEF Placed, Added1, Removed1
  <2>7. \A p \in Priorities : \A j \in S : AtLevel(v, p, j)
            <=> (AtLevel(s, p, j) /\ ~(p = w[k] /\ j = k)) \/ (p = prio /\ j = k)
    BY <2>2, <2>5 DEF Added1, Removed1
  <2>8. \A p \in Priorities : \A j \in S : AtLevel(v, p, j) <=> j \in A /\ p = x[j]
    BY <1>0, <2>1, <2>7 DEF Placed
  <2> QED
    BY <2>5, <2>6, <2>8 DEF Placed, v, x
<1> QED
  BY <1>1, <1>2

-----------------------------------------------------------------------------
(* The pick of the next task *)

(* The highest bit of a bitmap that is not empty *)
LEMMA HighestLemma ==
    ASSUME NEW bitmap, bitmap \subseteq Priorities, bitmap # {}
    PROVE  /\ GetHighestReadyPriority(bitmap) \in bitmap
           /\ \A q \in bitmap : q <= GetHighestReadyPriority(bitmap)
<1> DEFINE below == {MAX_PRIORITIES - q : q \in bitmap}
<1>1. MAX_PRIORITIES \in Nat /\ \A q \in bitmap : q \in Nat /\ q < MAX_PRIORITIES
  BY LevelsAssumption DEF Priorities
<1>2. below \subseteq Nat /\ below # {}
  BY <1>1
<1>3. PICK n \in below : \A m \in below : n <= m
  BY <1>2, LeastLemma
<1>4. PICK p \in bitmap : n = MAX_PRIORITIES - p
  BY <1>3
<1>5. \A q \in bitmap : q <= p
  BY <1>1, <1>3, <1>4
<1> QED
  BY <1>5 DEF GetHighestReadyPriority

(* What GetNext picks: an active task of the highest weight there is *)
LEMMA GetNextLemma ==
    ASSUME NEW S, NONE \notin S, NEW s, NEW A, A \subseteq S,
           NEW w \in [S -> Priorities], Placed(s, S, A, w)
    PROVE  /\ A # {} => GetNext(s) \in A /\ \A t \in A : w[t] <= w[GetNext(s)]
           /\ A = {} => GetNext(s) = NONE
<1> DEFINE prio == GetHighestReadyPriority(s.m_ready_bitmap)
           next == LoopNext(s.m_tasks[prio], s.m_prev[prio])
<1>1. s \in StrategyType(S) /\ \A p \in Priorities : LevelOK(s, p)
  BY DEF Placed, StrategyOK, Consistent
<1>2. s.m_ready_bitmap \subseteq Priorities /\ \A p \in Priorities : s.m_tasks[p] \in Seq(S)
  BY <1>1 DEF StrategyType
<1>3. \A t \in A : w[t] \in s.m_ready_bitmap
  <2>1. ASSUME NEW t \in A PROVE w[t] \in s.m_ready_bitmap
    <3>1. w[t] \in Priorities /\ AtLevel(s, w[t], t)
      BY DEF Placed
    <3>2. s.m_tasks[w[t]] # <<>>
      BY <3>1 DEF AtLevel, IsLinked
    <3> QED
      BY <1>1, <3>1, <3>2 DEF LevelOK
  <2> QED
    BY <2>1
<1>4. ASSUME s.m_ready_bitmap # {}
      PROVE  /\ prio \in s.m_ready_bitmap /\ \A q \in s.m_ready_bitmap : q <= prio
             /\ next \in S /\ AtLevel(s, prio, next)
  <2>1. prio \in s.m_ready_bitmap /\ \A q \in s.m_ready_bitmap : q <= prio
    BY <1>2, <1>4, HighestLemma
  <2> HIDE DEF prio
  <2>2. /\ s.m_tasks[prio] \in Seq(S) /\ NoDuplicates(s.m_tasks[prio])
        /\ IsLinked(s.m_tasks[prio], s.m_prev[prio])
    BY <1>1, <1>2, <2>1 DEF LevelOK
  <2>3. next \in S /\ IsLinked(s.m_tasks[prio], next)
    BY <2>2, LoopLemma
  <2> QED
    BY <2>1, <2>3 DEF AtLevel
<1>5. CASE s.m_ready_bitmap = {}
  <2>1. GetNext(s) = NONE /\ A = {}
    BY <1>3, <1>5 DEF GetNext
  <2> QED
    BY <2>1
<1>6. CASE s.m_ready_bitmap # {}
  <2>1. GetNext(s) = next
    BY <1>6 DEF GetNext
  <2> HIDE DEF prio, next
  <2>2. next \in A /\ prio = w[next]
    BY <1>2, <1>4, <1>6 DEF Placed
  <2> QED
    BY <1>3, <1>4, <1>6, <2>1, <2>2
<1> QED
  BY <1>5, <1>6

(* The cursor moves onto the task that was picked and nothing else changes *)
LEMMA AdvancedLemma ==
    ASSUME NEW S, NEW s, NEW A, A \subseteq S, NEW w \in [S -> Priorities], Placed(s, S, A, w)
    PROVE  Placed(Advanced(s), S, A, w)
<1> DEFINE prio == GetHighestReadyPriority(s.m_ready_bitmap)
           next == LoopNext(s.m_tasks[prio], s.m_prev[prio])
           v == Advanced(s)
<1>1. s \in StrategyType(S) /\ StrategyOK(s, S) /\ \A p \in Priorities : LevelOK(s, p)
  BY DEF Placed, StrategyOK, Consistent
<1>2. CASE s.m_ready_bitmap = {}
  BY <1>2 DEF Advanced
<1>3. CASE s.m_ready_bitmap # {}
  <2>1. v = [s EXCEPT !.m_prev[prio] = next]
    BY <1>3 DEF Advanced, GetNext
  <2>2. prio \in s.m_ready_bitmap
    BY <1>1, <1>3, HighestLemma DEF StrategyType
  <2> HIDE DEF prio, v
  <2>3. /\ prio \in Priorities
        /\ s.m_tasks[prio] \in Seq(S) /\ NoDuplicates(s.m_tasks[prio])
        /\ IsLinked(s.m_tasks[prio], s.m_prev[prio]) /\ s.m_tasks[prio] # <<>>
    BY <1>1, <2>2 DEF LevelOK, StrategyType
  <2>4. next \in S /\ IsLinked(s.m_tasks[prio], next)
    BY <2>3, LoopLemma
  <2> HIDE DEF next
  <2>5. LevelParts(S, prio, s.m_tasks[prio], next, s.m_ready_bitmap)
    BY <1>1, <2>2, <2>3, <2>4 DEF LevelParts, StrategyType
  <2>6. v = [s EXCEPT !.m_tasks[prio] = s.m_tasks[prio], !.m_prev[prio] = next,
                      !.m_ready_bitmap = s.m_ready_bitmap]
    BY <1>1, <2>1, <2>3 DEF StrategyType
  <2>7. StrategyOK(v, S) /\ LevelChanged(v, s, prio, s.m_tasks[prio])
    BY <1>1, <2>3, <2>5, <2>6, LevelLemma
  <2>8. \A p \in Priorities : \A k : AtLevel(v, p, k) <=> AtLevel(s, p, k)
    BY <2>7 DEF LevelChanged, AtLevel
  <2>9. \A k : Asleep(v, k) <=> Asleep(s, k)
    BY <2>7 DEF LevelChanged, Asleep
  <2> QED
    BY <2>7, <2>8, <2>9 DEF Placed, v
<1> QED
  BY <1>2, <1>3

-----------------------------------------------------------------------------
(* The strategy at the start *)

(* No task is known to the strategy *)
LEMMA EmptyStrategyLemma ==
    ASSUME NEW S
    PROVE  /\ StrategyOK(Empty, S)
           /\ \A k : ~Asleep(Empty, k)
           /\ \A p \in Priorities : \A k : ~AtLevel(Empty, p, k)
<1>1. Empty \in StrategyType(S)
  BY DEF Empty, StrategyType
<1>2. /\ Empty.m_sleep = <<>> /\ Empty.m_ready_bitmap = {}
      /\ \A p \in Priorities : Empty.m_tasks[p] = <<>> /\ Empty.m_prev[p] = NONE
  BY DEF Empty
<1>3. \A k : ~IsLinked(<<>>, k)
  BY DEF IsLinked
<1>4. NoDuplicates(<<>>)
  BY DEF NoDuplicates
<1> QED
  BY <1>1, <1>2, <1>3, <1>4 DEF StrategyOK, Consistent, LevelOK, Asleep, AtLevel

(* AddTask keeps the type of any state of the strategy *)
LEMMA AddTaskTypeLemma ==
    ASSUME NEW S, NEW s \in StrategyType(S), NEW k \in S, NEW prio \in Priorities
    PROVE  AddTask(s, k, prio) \in StrategyType(S)
<1>1. s.m_tasks[prio] \in Seq(S) /\ Append(s.m_tasks[prio], k) \in Seq(S)
  BY DEF StrategyType
<1>2. AddActive(s, k, prio) \in StrategyType(S)
  BY <1>1 DEF AddActive, StrategyType
<1>3. ASSUME NEW v \in StrategyType(S) PROVE [v EXCEPT !.m_prev[prio] = k] \in StrategyType(S)
  BY DEF StrategyType
<1> QED
  BY <1>2, <1>3 DEF AddTask

(* AddTask links a task that is new, and moves the cursor onto it or not at all *)
LEMMA AddTaskLemma ==
    ASSUME NEW S, NEW s, StrategyOK(s, S), NEW k \in S, NEW prio \in Priorities,
           ~AtLevel(s, prio, k)
    PROVE  StrategyOK(AddTask(s, k, prio), S) /\ Added1(AddTask(s, k, prio), s, k, prio)
<1> DEFINE a == AddActive(s, k, prio)
           v == [a EXCEPT !.m_prev[prio] = k]
<1>1. StrategyOK(a, S) /\ Added1(a, s, k, prio)
  BY AddActiveLemma
<1>2. AddTask(s, k, prio) \in {a, v}
  BY DEF AddTask
<1> HIDE DEF a
<1>3. a \in StrategyType(S) /\ LevelOK(a, prio) /\ AtLevel(a, prio, k)
  BY <1>1 DEF StrategyOK, Consistent, Added1
<1>4. LevelParts(S, prio, a.m_tasks[prio], k, a.m_ready_bitmap)
  <2>1. a.m_tasks[prio] # <<>>
    BY <1>3 DEF AtLevel, IsLinked
  <2> QED
    BY <1>3, <2>1 DEF LevelParts, LevelOK, StrategyType, AtLevel
<1>5. v = [a EXCEPT !.m_tasks[prio] = a.m_tasks[prio], !.m_prev[prio] = k,
                    !.m_ready_bitmap = a.m_ready_bitmap]
  BY <1>3 DEF StrategyType
<1> HIDE DEF v
<1>6. StrategyOK(v, S) /\ LevelChanged(v, a, prio, a.m_tasks[prio])
  BY <1>1, <1>4, <1>5, LevelLemma
<1>7. Added1(v, s, k, prio)
  BY <1>1, <1>6 DEF Added1, AtLevel, Asleep, LevelChanged
<1> QED
  BY <1>1, <1>2, <1>6, <1>7

-----------------------------------------------------------------------------
(* The types the argument needs *)
CallType == [mutex: Mutexes, owner: Tasks]

Types ==
    /\ m_owner_tid \in [Mutexes -> Tasks \cup {NONE}]
    /\ m_recursion_count \in [Mutexes -> Nat]
    /\ held \in [Tasks -> [Mutexes -> Nat]]
    /\ sleep \in [Tasks -> {"awake", "asleep", "woken"}]
    /\ wait \in WaitType
    /\ call \in [Tasks -> CallType \cup {NoCall}]
    /\ pc \in [Tasks -> {"run", "wait"}]

(* A wait list holds a task once, and only while the task sleeps in a TimedLock
   of that mutex *)
WaitsOK ==
    /\ ListsOnce(wait)
    /\ \A m \in Mutexes, t \in Tasks : Linked(wait, m, t) =>
            pc[t] = "wait" /\ call[t].mutex = m /\ sleep[t] = "asleep"
    /\ \A t \in Tasks : pc[t] = "wait" => call[t] \in CallType

(* HandOver, in terms of who is linked *)
Unlinked(t) == pc[t] = "wait" /\ \A m \in Mutexes : ~Linked(wait, m, t)

HandOverOK ==
    /\ \A t \in Tasks : Unlinked(t) /\ wait.timeout[t] => m_owner_tid[call[t].mutex] # t
    /\ \A t \in Tasks : Unlinked(t) /\ ~wait.timeout[t] =>
            m_owner_tid[call[t].mutex] = t /\ m_recursion_count[call[t].mutex] = 1
    /\ \A m \in Mutexes, t \in Tasks : Linked(wait, m, t) =>
            m_owner_tid[m] \in Tasks /\ m_owner_tid[m] # t

(* The converse of OwnershipExact: an owner has made the locks that are counted,
   unless it was handed the mutex and has not run since *)
OwnersHold == \A m \in Mutexes, t \in Tasks : m_owner_tid[m] = t =>
    held[t][m] = m_recursion_count[m] \/ (Unlinked(t) /\ call[t].mutex = m)

(* The inductive invariant *)
IInv == Types /\ WaitsOK /\ OwnershipExact /\ HandOverOK /\ OwnersHold

-----------------------------------------------------------------------------
(* The wait lists *)

(* No task has the id TID_NONE *)
LEMMA TaskIds == NONE \notin Tasks
BY SlotsAssumption, FS_CardinalityType DEF NONE

(* The two forms of the hand-over *)
LEMMA HandOverLemma ==
    ASSUME Types, HandOverOK
    PROVE  HandOver
<1>1. \A t \in Tasks : pc[t] = "wait" /\ ~IsWaiting(wait, t) => Unlinked(t)
  BY DEF IsWaiting, Unlinked, Linked, Mutexes
<1>2. ASSUME NEW m \in Mutexes, wait.list[m] # <<>>
      PROVE  m_owner_tid[m] \in Tasks /\ ~IsLinked(wait.list[m], m_owner_tid[m])
  <2>1. PICK t \in Tasks : Linked(wait, m, t)
    BY <1>2, LinkedLemma DEF Types, Mutexes
  <2> QED
    BY <2>1 DEF HandOverOK, Linked
<1> QED
  BY <1>1, <1>2 DEF HandOver, HandOverOK

-----------------------------------------------------------------------------
(* The steps *)

(* Steps that leave the mutexes alone: a task sleeps or is woken from a sleep
   that is not a wait, the tick handler goes on, TimedLock gives up at once *)
LEMMA OutsideLemma ==
    ASSUME IInv, UNCHANGED <<mutexVars, wait, call, pc>>,
           sleep' \in [Tasks -> {"awake", "asleep", "woken"}],
           \A t \in Tasks : pc[t] = "wait" /\ sleep[t] = "asleep" => sleep'[t] = "asleep"
    PROVE  IInv'
<1>0. UNCHANGED <<m_owner_tid, m_recursion_count, held, wait, call, pc>>
  BY DEF mutexVars
<1>1. Types'
  BY <1>0 DEF IInv, Types
<1>2. WaitsOK'
  BY <1>0 DEF IInv, WaitsOK, ListsOnce, Linked
<1>3. OwnershipExact'
  BY <1>0 DEF IInv, OwnershipExact
<1>4. HandOverOK'
  BY <1>0 DEF IInv, HandOverOK, Linked, Unlinked
<1>5. OwnersHold'
  BY <1>0 DEF IInv, OwnersHold, Linked, Unlinked
<1> QED
  BY <1>1, <1>2, <1>3, <1>4, <1>5 DEF IInv

(* A lock that does not wait: the mutex is the caller's, or free *)
LEMMA LockNowLemma ==
    ASSUME IInv, NEW t \in Tasks, NEW m \in Mutexes, pc[t] = "run",
           LockRecursive(t, m) \/ LockFree(t, m)
    PROVE  IInv'
<1> DEFINE n == m_recursion_count[m] + 1
<1>0. Types /\ WaitsOK /\ OwnershipExact /\ HandOverOK /\ OwnersHold
  BY DEF IInv
<1>1. /\ m_recursion_count' = [m_recursion_count EXCEPT ![m] = n]
      /\ m_owner_tid' = [m_owner_tid EXCEPT ![m] = t]
      /\ held' = [held EXCEPT ![t][m] = n]
      /\ m_owner_tid[m] \in {t, NONE}
      /\ UNCHANGED <<sleep, wait, call, pc>>
  <2>1. CASE LockRecursive(t, m)
    <3>1. m_owner_tid[m] = t /\ m_recursion_count[m] # 0
          /\ m_recursion_count' = [m_recursion_count EXCEPT ![m] = n]
          /\ held' = [held EXCEPT ![t][m] = held[t][m] + 1]
          /\ UNCHANGED <<m_owner_tid, sleep, wait, call, pc>>
      BY <2>1 DEF LockRecursive
    <3>2. held[t][m] = m_recursion_count[m]
      BY <1>0, <3>1 DEF OwnersHold, Unlinked
    <3>3. m_owner_tid' = [m_owner_tid EXCEPT ![m] = t]
      BY <1>0, <3>1 DEF Types
    <3> QED
      BY <3>1, <3>2, <3>3
  <2>2. CASE LockFree(t, m)
    <3>1. m_recursion_count[m] = 0 /\ m_owner_tid[m] = NONE
      BY <1>0, <2>2 DEF LockFree, OwnershipExact
    <3> QED
      BY <2>2, <3>1 DEF LockFree
  <2> QED
    BY <2>1, <2>2
<1>2. m_recursion_count[m] \in Nat /\ n \in Nat /\ n > 0
  BY <1>0 DEF Types
<1> HIDE DEF n
<1>3. Types'
  BY <1>0, <1>1, <1>2 DEF Types
<1>4. WaitsOK'
  BY <1>0, <1>1 DEF WaitsOK, ListsOnce, Linked
<1>5. \A o \in Mutexes, u \in Tasks :
        /\ m_owner_tid'[o] = IF o = m THEN t ELSE m_owner_tid[o]
        /\ m_recursion_count'[o] = IF o = m THEN n ELSE m_recursion_count[o]
        /\ held'[u][o] = IF u = t /\ o = m THEN n ELSE held[u][o]
  BY <1>0, <1>1, <1>2 DEF Types
<1>6. OwnershipExact'
  <2>1. \A u \in Tasks : held[u][m] > 0 => u = t
    BY <1>0, <1>1, TaskIds DEF OwnershipExact
  <2> QED
    BY <1>0, <1>2, <1>5, <2>1, TaskIds DEF OwnershipExact
<1>7. HandOverOK'
  <2>1. \A u \in Tasks : Unlinked(u)' <=> Unlinked(u)
    BY <1>1 DEF Unlinked, Linked
  <2>2. \A u \in Tasks : Unlinked(u) => u # t /\ call[u].mutex \in Mutexes
    BY <1>0 DEF Unlinked, WaitsOK, CallType
  <2>3. \A u \in Tasks : Unlinked(u) /\ ~wait.timeout[u] => call[u].mutex # m
    BY <1>0, <1>1, <2>2, TaskIds DEF HandOverOK
  <2>4. \A u \in Tasks : Linked(wait, m, u) => m_owner_tid[m] = t /\ u # t
    BY <1>0, <1>1, TaskIds DEF HandOverOK
  <2>5. \A o \in Mutexes, u \in Tasks : Linked(wait', o, u) <=> Linked(wait, o, u)
    BY <1>1
  <2> QED
    BY <1>0, <1>1, <1>5, <2>1, <2>2, <2>3, <2>4, <2>5 DEF HandOverOK
<1>8. OwnersHold'
  <2>1. \A u \in Tasks : Unlinked(u)' <=> Unlinked(u)
    BY <1>1 DEF Unlinked, Linked
  <2> QED
    BY <1>0, <1>1, <1>5, <2>1 DEF OwnersHold
<1> QED
  BY <1>3, <1>4, <1>6, <1>7, <1>8 DEF IInv

(* A lock that waits: the caller is linked behind the waiters of another owner *)
LEMMA LockWaitLemma ==
    ASSUME IInv, NEW t \in Tasks, NEW m \in Mutexes, NEW ticks \in Timeouts,
           pc[t] = "run", LockWait(t, m, ticks)
    PROVE  IInv'
<1> DEFINE c == [mutex |-> m, owner |-> m_owner_tid[m]]
<1>0. Types /\ WaitsOK /\ OwnershipExact /\ HandOverOK /\ OwnersHold
  BY DEF IInv
<1>1. /\ wait' = SetupWait(wait, m, t, ticks)
      /\ sleep' = [sleep EXCEPT ![t] = "asleep"]
      /\ call' = [call EXCEPT ![t] = c]
      /\ pc' = [pc EXCEPT ![t] = "wait"]
      /\ UNCHANGED <<m_owner_tid, m_recursion_count, held>>
      /\ m_recursion_count[m] # 0 /\ m_owner_tid[m] # t
  BY DEF LockWait, ScheduleSleep, mutexVars
<1>2. m_owner_tid[m] \in Tasks /\ c \in CallType /\ c.mutex = m
  <2>1. m_owner_tid[m] \in Tasks
    BY <1>0, <1>1 DEF Types, OwnershipExact
  <2> QED
    BY <2>1 DEF CallType
<1> HIDE DEF c
<1>3. /\ wait' \in WaitType /\ ListsOnce(wait')
      /\ \A o \in Mutexes, j \in Tasks :
            Linked(wait', o, j) <=> Linked(wait, o, j) \/ (o = m /\ j = t)
      /\ \A j \in Tasks : j # t => wait'.timeout[j] = wait.timeout[j]
  <2>1. wait \in WaitType /\ ListsOnce(wait) /\ \A o \in Mutexes : ~Linked(wait, o, t)
    BY <1>0 DEF Types, WaitsOK
  <2> QED
    BY <1>1, <2>1, SetupWaitLemma, TimeoutsAssumption DEF Mutexes, Times, AfterSetup
<1>4. Types'
  BY <1>0, <1>1, <1>2, <1>3 DEF Types
<1>5. \A u \in Tasks :
        /\ pc'[u] = IF u = t THEN "wait" ELSE pc[u]
        /\ sleep'[u] = IF u = t THEN "asleep" ELSE sleep[u]
        /\ call'[u] = IF u = t THEN c ELSE call[u]
  BY <1>0, <1>1 DEF Types
<1>6. WaitsOK'
  BY <1>0, <1>2, <1>3, <1>5 DEF WaitsOK
<1>7. OwnershipExact'
  BY <1>0, <1>1 DEF OwnershipExact
<1>8. \A u \in Tasks : Unlinked(u)' <=> Unlinked(u)
  <2>1. ASSUME NEW u \in Tasks, u # t PROVE Unlinked(u)' <=> Unlinked(u)
    BY <1>3, <1>5, <2>1 DEF Unlinked
  <2>2. ~Unlinked(t) /\ ~Unlinked(t)'
    BY <1>3 DEF Unlinked
  <2> QED
    BY <2>1, <2>2
<1>9. \A u \in Tasks : Unlinked(u) => u # t
  BY DEF Unlinked
<1>10. HandOverOK'
  BY <1>0, <1>1, <1>2, <1>3, <1>5, <1>8, <1>9 DEF HandOverOK
<1>11. OwnersHold'
  BY <1>0, <1>1, <1>5, <1>8, <1>9 DEF OwnersHold
<1> QED
  BY <1>4, <1>6, <1>7, <1>10, <1>11 DEF IInv

(* A waiter returns: with the mutex when it was signalled, without it otherwise *)
LEMMA LockWaitReturnsLemma ==
    ASSUME IInv, NEW t \in Tasks, LockWaitReturns(t)
    PROVE  IInv'
<1> DEFINE m == call[t].mutex
<1>0. Types /\ WaitsOK /\ OwnershipExact /\ HandOverOK /\ OwnersHold
  BY DEF IInv
<1>1. /\ pc[t] = "wait" /\ sleep[t] = "awake"
      /\ IF wait.timeout[t] THEN held' = held ELSE held' = [held EXCEPT ![t][m] = 1]
      /\ pc' = [pc EXCEPT ![t] = "run"]
      /\ call' = [call EXCEPT ![t] = NoCall]
      /\ UNCHANGED <<m_owner_tid, m_recursion_count, sleep, wait>>
  BY DEF LockWaitReturns, Executes
<1>2. m \in Mutexes /\ Unlinked(t)
  BY <1>0, <1>1 DEF WaitsOK, CallType, Unlinked
<1>3. IF wait.timeout[t] THEN m_owner_tid[m] # t
                         ELSE m_owner_tid[m] = t /\ m_recursion_count[m] = 1
  BY <1>0, <1>2 DEF HandOverOK
<1> HIDE DEF m
<1>4. Types'
  <2>1. held' \in [Tasks -> [Mutexes -> Nat]]
    BY <1>0, <1>1, <1>2 DEF Types
  <2>2. call' \in [Tasks -> CallType \cup {NoCall}] /\ pc' \in [Tasks -> {"run", "wait"}]
    BY <1>0, <1>1 DEF Types
  <2> QED
    BY <1>0, <1>1, <2>1, <2>2 DEF Types
<1>5. \A u \in Tasks :
        /\ pc'[u] = IF u = t THEN "run" ELSE pc[u]
        /\ call'[u] = IF u = t THEN NoCall ELSE call[u]
        /\ \A o \in Mutexes : held'[u][o] =
                IF u = t /\ o = m /\ ~wait.timeout[t] THEN 1 ELSE held[u][o]
  BY <1>0, <1>1, <1>2 DEF Types
<1>6. \A o \in Mutexes, u \in Tasks : Linked(wait', o, u) <=> Linked(wait, o, u)
  BY <1>1
<1>7. \A o \in Mutexes : ~Linked(wait, o, t)
  BY <1>2 DEF Unlinked
<1>8. WaitsOK'
  BY <1>0, <1>1, <1>5, <1>6, <1>7 DEF WaitsOK, ListsOnce
<1>9. OwnershipExact'
  BY <1>0, <1>1, <1>3, <1>5 DEF OwnershipExact
<1>10. \A u \in Tasks : Unlinked(u)' <=> Unlinked(u) /\ u # t
  BY <1>5, <1>6 DEF Unlinked
<1>11. HandOverOK'
  BY <1>0, <1>1, <1>5, <1>6, <1>10 DEF HandOverOK
<1>12. OwnersHold'
  <2>1. ASSUME NEW o \in Mutexes, m_owner_tid[o] = t
        PROVE  held'[t][o] = m_recursion_count[o]
    <3>1. CASE o = m
      BY <1>3, <1>5, <2>1, <3>1
    <3>2. CASE o # m
      BY <1>0, <1>5, <2>1, <3>2 DEF OwnersHold, m
    <3> QED
      BY <3>1, <3>2
  <2> QED
    BY <1>0, <1>1, <1>5, <1>10, <2>1 DEF OwnersHold
<1> QED
  BY <1>4, <1>8, <1>9, <1>11, <1>12 DEF IInv

(* An Unlock that is not the last of the owner *)
LEMMA UnlockNestedLemma ==
    ASSUME IInv, NEW t \in Tasks, NEW m \in Mutexes, pc[t] = "run", held[t][m] > 0,
           m_recursion_count[m] > 1,
           held' = [held EXCEPT ![t][m] = held[t][m] - 1],
           m_recursion_count' = [m_recursion_count EXCEPT ![m] = m_recursion_count[m] - 1],
           UNCHANGED <<m_owner_tid, sleep, wait, call, pc>>
    PROVE  IInv'
<1> DEFINE n == m_recursion_count[m] - 1
<1>0. Types /\ WaitsOK /\ OwnershipExact /\ HandOverOK /\ OwnersHold
  BY DEF IInv
<1>1. m_owner_tid[m] = t /\ held[t][m] = m_recursion_count[m]
  BY <1>0 DEF OwnershipExact
<1>2. n \in Nat /\ n > 0
  BY <1>0 DEF Types
<1>3. held' = [held EXCEPT ![t][m] = n]
      /\ m_recursion_count' = [m_recursion_count EXCEPT ![m] = n]
  BY <1>1
<1> HIDE DEF n
<1>4. Types'
  BY <1>0, <1>2, <1>3 DEF Types
<1>5. \A o \in Mutexes, u \in Tasks :
        /\ m_recursion_count'[o] = IF o = m THEN n ELSE m_recursion_count[o]
        /\ held'[u][o] = IF u = t /\ o = m THEN n ELSE held[u][o]
  BY <1>0, <1>2, <1>3 DEF Types
<1>6. WaitsOK'
  BY <1>0 DEF WaitsOK, ListsOnce, Linked
<1>7. OwnershipExact'
  <2>1. \A u \in Tasks : held[u][m] > 0 => u = t
    BY <1>0, <1>1 DEF OwnershipExact
  <2> QED
    BY <1>0, <1>1, <1>2, <1>5, <2>1, TaskIds DEF OwnershipExact
<1>8. \A u \in Tasks : (Unlinked(u)' <=> Unlinked(u)) /\ (Unlinked(u) => u # t)
  BY DEF Unlinked, Linked
<1>9. \A u \in Tasks : Unlinked(u) /\ ~wait.timeout[u] => call[u].mutex # m
  BY <1>0, <1>1, <1>8 DEF HandOverOK
<1>10. \A u \in Tasks : Unlinked(u) => call[u].mutex \in Mutexes
  BY <1>0 DEF Unlinked, WaitsOK, CallType
<1>11. HandOverOK'
  <2>1. \A o \in Mutexes, u \in Tasks : Linked(wait', o, u) <=> Linked(wait, o, u)
    OBVIOUS
  <2> QED
    BY <1>0, <1>5, <1>8, <1>9, <1>10, <2>1 DEF HandOverOK
<1>12. OwnersHold'
  BY <1>0, <1>1, <1>5, <1>8 DEF OwnersHold
<1> QED
  BY <1>4, <1>6, <1>7, <1>11, <1>12 DEF IInv

(* The last Unlock: the first waiter is the owner before it runs *)
LEMMA PassOwnershipLemma ==
    ASSUME IInv, NEW t \in Tasks, NEW m \in Mutexes, pc[t] = "run", held[t][m] > 0,
           m_recursion_count[m] = 1, PassOwnership(m),
           held' = [held EXCEPT ![t][m] = held[t][m] - 1],
           UNCHANGED <<call, pc>>
    PROVE  IInv'
<1> DEFINE first == Head(wait.list[m])
<1>0. Types /\ WaitsOK /\ OwnershipExact /\ HandOverOK /\ OwnersHold
  BY DEF IInv
<1>1. /\ wait.list[m] # <<>>
      /\ m_owner_tid' = [m_owner_tid EXCEPT ![m] = first]
      /\ wait' = WakeOne(wait, m)
      /\ sleep' = [sleep EXCEPT ![first] = "woken"]
      /\ UNCHANGED m_recursion_count
  BY DEF PassOwnership
<1>2. /\ wait' \in WaitType /\ ListsOnce(wait')
      /\ first \in Tasks /\ Linked(wait, m, first)
      /\ \A o \in Mutexes, j \in Tasks :
            Linked(wait', o, j) <=> Linked(wait, o, j) /\ ~(o = m /\ j = first)
      /\ wait'.timeout[first] = FALSE
      /\ \A j \in Tasks : j # first => wait'.timeout[j] = wait.timeout[j]
  <2>1. wait \in WaitType /\ ListsOnce(wait)
    BY <1>0 DEF Types, WaitsOK
  <2> DEFINE v == WakeOne(wait, m)
  <2>2. /\ v \in WaitType /\ ListsOnce(v)
        /\ first \in Tasks /\ Linked(wait, m, first)
        /\ \A o \in Mutexes, j \in Tasks :
              Linked(v, o, j) <=> Linked(wait, o, j) /\ ~(o = m /\ j = first)
        /\ v.timeout[first] = FALSE
        /\ \A j \in Tasks : j # first => v.timeout[j] = wait.timeout[j]
    BY <1>1, <2>1, WakeOneLemma DEF Mutexes, AfterWakeOne
  <2>3. wait' = v
    BY <1>1
  <2> HIDE DEF v, first
  <2> QED
    BY <2>2, <2>3
<1> HIDE DEF first
<1>3. m_owner_tid[m] = t /\ held[t][m] = 1 /\ first # t
  BY <1>0, <1>2 DEF OwnershipExact, WaitsOK
<1>4. /\ pc[first] = "wait" /\ call[first].mutex = m
      /\ \A o \in Mutexes : ~Linked(wait', o, first)
  BY <1>0, <1>2 DEF WaitsOK
<1>5. held' = [held EXCEPT ![t][m] = 0]
  BY <1>3
<1>6. Types'
  BY <1>0, <1>1, <1>2, <1>5 DEF Types
<1>7. \A o \in Mutexes, u \in Tasks :
        /\ m_owner_tid'[o] = IF o = m THEN first ELSE m_owner_tid[o]
        /\ held'[u][o] = IF u = t /\ o = m THEN 0 ELSE held[u][o]
        /\ sleep'[u] = IF u = first THEN "woken" ELSE sleep[u]
  BY <1>0, <1>1, <1>5 DEF Types
<1>8. WaitsOK'
  BY <1>0, <1>2, <1>4, <1>7 DEF WaitsOK
<1>9. OwnershipExact'
  <2>1. \A u \in Tasks : ~(held'[u][m] > 0)
    BY <1>0, <1>3, <1>7 DEF OwnershipExact
  <2> QED
    BY <1>0, <1>1, <1>2, <1>7, <2>1, TaskIds DEF OwnershipExact
<1>10. \A u \in Tasks : /\ Unlinked(u)' <=> Unlinked(u) \/ u = first
                        /\ Unlinked(u) => u # t /\ u # first
  BY <1>2, <1>4 DEF Unlinked
<1>11. \A u \in Tasks : Unlinked(u) => call[u].mutex \in Mutexes
  BY <1>0 DEF Unlinked, WaitsOK, CallType
<1>12. \A u \in Tasks : Unlinked(u) /\ ~wait.timeout[u] => call[u].mutex # m
  BY <1>0, <1>3, <1>10 DEF HandOverOK
<1>13. HandOverOK'
  <2>1. \A u \in Tasks : Unlinked(u)' /\ wait'.timeout[u] => m_owner_tid'[call'[u].mutex] # u
    BY <1>0, <1>2, <1>7, <1>10, <1>11 DEF HandOverOK
  <2>2. \A u \in Tasks : Unlinked(u)' /\ ~wait'.timeout[u] =>
            m_owner_tid'[call'[u].mutex] = u /\ m_recursion_count'[call'[u].mutex] = 1
    BY <1>0, <1>1, <1>2, <1>4, <1>7, <1>10, <1>11, <1>12 DEF HandOverOK
  <2>3. \A o \in Mutexes, u \in Tasks : Linked(wait', o, u) =>
            m_owner_tid'[o] \in Tasks /\ m_owner_tid'[o] # u
    BY <1>0, <1>2, <1>7 DEF HandOverOK
  <2> QED
    BY <2>1, <2>2, <2>3 DEF HandOverOK
<1>14. OwnersHold'
  BY <1>0, <1>1, <1>3, <1>4, <1>7, <1>10 DEF OwnersHold
<1> QED
  BY <1>6, <1>8, <1>9, <1>13, <1>14 DEF IInv

(* The last Unlock when nobody waits *)
LEMMA FreeMutexLemma ==
    ASSUME IInv, NEW t \in Tasks, NEW m \in Mutexes, pc[t] = "run", held[t][m] > 0,
           m_recursion_count[m] = 1, FreeMutex(m),
           held' = [held EXCEPT ![t][m] = held[t][m] - 1],
           UNCHANGED <<call, pc>>
    PROVE  IInv'
<1>0. Types /\ WaitsOK /\ OwnershipExact /\ HandOverOK /\ OwnersHold
  BY DEF IInv
<1>1. /\ wait.list[m] = <<>>
      /\ m_recursion_count' = [m_recursion_count EXCEPT ![m] = 0]
      /\ m_owner_tid' = [m_owner_tid EXCEPT ![m] = NONE]
      /\ UNCHANGED <<wait, sleep>>
  BY DEF FreeMutex
<1>2. m_owner_tid[m] = t /\ held[t][m] = 1
  BY <1>0 DEF OwnershipExact
<1>3. \A u \in Tasks : ~Linked(wait, m, u)
  BY <1>0, <1>1, LinkedLemma DEF Types, Mutexes
<1>4. held' = [held EXCEPT ![t][m] = 0]
  BY <1>2
<1>5. Types'
  BY <1>0, <1>1, <1>4 DEF Types
<1>6. \A o \in Mutexes, u \in Tasks :
        /\ m_owner_tid'[o] = IF o = m THEN NONE ELSE m_owner_tid[o]
        /\ m_recursion_count'[o] = IF o = m THEN 0 ELSE m_recursion_count[o]
        /\ held'[u][o] = IF u = t /\ o = m THEN 0 ELSE held[u][o]
  BY <1>0, <1>1, <1>4 DEF Types
<1>7. WaitsOK'
  BY <1>0, <1>1 DEF WaitsOK, ListsOnce, Linked
<1>8. OwnershipExact'
  <2>1. \A u \in Tasks : ~(held'[u][m] > 0)
    BY <1>0, <1>2, <1>6 DEF OwnershipExact
  <2> QED
    BY <1>0, <1>6, <2>1 DEF OwnershipExact
<1>9. \A u \in Tasks : (Unlinked(u)' <=> Unlinked(u)) /\ (Unlinked(u) => u # t)
  BY <1>1 DEF Unlinked, Linked
<1>10. \A u \in Tasks : Unlinked(u) => call[u].mutex \in Mutexes
  BY <1>0 DEF Unlinked, WaitsOK, CallType
<1>11. \A u \in Tasks : Unlinked(u) /\ ~wait.timeout[u] => call[u].mutex # m
  BY <1>0, <1>2, <1>9 DEF HandOverOK
<1>12. HandOverOK'
  <2>1. \A o \in Mutexes, u \in Tasks : Linked(wait', o, u) <=> Linked(wait, o, u)
    BY <1>1
  <2> QED
    BY <1>0, <1>1, <1>3, <1>6, <1>9, <1>10, <1>11, <2>1, TaskIds DEF HandOverOK
<1>13. OwnersHold'
  BY <1>0, <1>6, <1>9, TaskIds DEF OwnersHold
<1> QED
  BY <1>5, <1>7, <1>8, <1>12, <1>13 DEF IInv

(* A tick ages the wait of one task.  One that expires has not been handed the
   mutex, and cannot be any more *)
LEMMA UpdateSyncObjectsLemma ==
    ASSUME IInv, NEW t \in Tasks, UpdateSyncObjects(t)
    PROVE  IInv'
<1> DEFINE over == t \in Expired(wait)
<1>0. Types /\ WaitsOK /\ OwnershipExact /\ HandOverOK /\ OwnersHold
  BY DEF IInv
<1>1. /\ wait' = TickWaiter(wait, t)
      /\ sleep' = IF over THEN [sleep EXCEPT ![t] = "woken"] ELSE sleep
      /\ UNCHANGED <<m_owner_tid, m_recursion_count, held, call, pc>>
  BY DEF UpdateSyncObjects, mutexVars
<1>2. /\ wait' \in WaitType /\ ListsOnce(wait')
      /\ \A o \in Mutexes, j \in Tasks :
            Linked(wait', o, j) <=> Linked(wait, o, j) /\ ~(j = t /\ over)
      /\ over => wait'.timeout[t] = TRUE
      /\ \A j \in Tasks : (j # t \/ ~over) => wait'.timeout[j] = wait.timeout[j]
  <2> DEFINE v == TickWaiter(wait, t)
  <2>1. wait \in WaitType /\ ListsOnce(wait)
    BY <1>0 DEF Types, WaitsOK
  <2>2. /\ v \in WaitType /\ ListsOnce(v)
        /\ \A o \in Mutexes, j \in Tasks :
              Linked(v, o, j) <=> Linked(wait, o, j) /\ ~(j = t /\ over)
        /\ over => v.timeout[t] = TRUE
        /\ \A j \in Tasks : (j # t \/ ~over) => v.timeout[j] = wait.timeout[j]
    BY <2>1, TickWaiterLemma DEF Mutexes, AfterTickWaiter
  <2>3. wait' = v
    BY <1>1
  <2> HIDE DEF v, over
  <2> QED
    BY <2>2, <2>3
<1>3. ASSUME over
      PROVE  /\ pc[t] = "wait" /\ call[t].mutex \in Mutexes
             /\ m_owner_tid[call[t].mutex] # t
  <2>1. PICK o \in Mutexes : Linked(wait, o, t)
    BY <1>3 DEF Expired, IsWaiting, Linked, Mutexes
  <2> QED
    BY <1>0, <2>1 DEF WaitsOK, HandOverOK
<1> HIDE DEF over
<1>4. Types'
  BY <1>0, <1>1, <1>2 DEF Types
<1>5. \A u \in Tasks : sleep'[u] = IF u = t /\ over THEN "woken" ELSE sleep[u]
  BY <1>0, <1>1 DEF Types
<1>6. WaitsOK'
  BY <1>0, <1>1, <1>2, <1>5 DEF WaitsOK
<1>7. OwnershipExact'
  BY <1>0, <1>1 DEF OwnershipExact
<1>8. \A u \in Tasks : /\ Unlinked(u) => Unlinked(u)'
                       /\ Unlinked(u)' => Unlinked(u) \/ (u = t /\ over)
  BY <1>1, <1>2 DEF Unlinked
<1>9. HandOverOK'
  <2>1. \A u \in Tasks : Unlinked(u)' /\ wait'.timeout[u] => m_owner_tid'[call'[u].mutex] # u
    BY <1>0, <1>1, <1>2, <1>3, <1>8 DEF HandOverOK
  <2>2. \A u \in Tasks : Unlinked(u)' /\ ~wait'.timeout[u] =>
            m_owner_tid'[call'[u].mutex] = u /\ m_recursion_count'[call'[u].mutex] = 1
    BY <1>0, <1>1, <1>2, <1>8 DEF HandOverOK
  <2>3. \A o \in Mutexes, u \in Tasks : Linked(wait', o, u) =>
            m_owner_tid'[o] \in Tasks /\ m_owner_tid'[o] # u
    BY <1>0, <1>1, <1>2 DEF HandOverOK
  <2> QED
    BY <2>1, <2>2, <2>3 DEF HandOverOK
<1>10. OwnersHold'
  BY <1>0, <1>1, <1>8 DEF OwnersHold
<1> QED
  BY <1>4, <1>6, <1>7, <1>9, <1>10 DEF IInv

(* The steps of a task *)
LEMMA TaskStepLemma ==
    ASSUME IInv, NEW t \in Tasks, TaskStep(t)
    PROVE  IInv'
<1>0. Types
  BY DEF IInv
<1>1. CASE Sleep(t)
  <2>1. /\ pc[t] = "run" /\ sleep' = [sleep EXCEPT ![t] = "asleep"]
        /\ UNCHANGED <<mutexVars, wait, call, pc>>
    BY <1>1 DEF Sleep, InTask, ScheduleSleep
  <2>2. sleep' \in [Tasks -> {"awake", "asleep", "woken"}]
        /\ \A u \in Tasks : pc[u] = "wait" /\ sleep[u] = "asleep" => sleep'[u] = "asleep"
    BY <1>0, <2>1 DEF Types
  <2> QED
    BY <2>1, <2>2, OutsideLemma
<1>2. CASE LockWaitReturns(t)
  BY <1>2, LockWaitReturnsLemma
<1>3. ASSUME NEW m \in Mutexes, Unlock(t, m) PROVE IInv'
  <2>1. pc[t] = "run" /\ held[t][m] > 0 /\ UNCHANGED <<call, pc>>
        /\ held' = [held EXCEPT ![t][m] = held[t][m] - 1]
    BY <1>3 DEF Unlock, InTask
  <2>2. \/ /\ m_recursion_count[m] > 1
           /\ m_recursion_count' = [m_recursion_count EXCEPT ![m] = m_recursion_count[m] - 1]
           /\ UNCHANGED <<m_owner_tid, sleep, wait>>
        \/ m_recursion_count[m] = 1 /\ PassOwnership(m)
        \/ m_recursion_count[m] = 1 /\ FreeMutex(m)
    BY <1>3 DEF Unlock
  <2> QED
    BY <2>1, <2>2, UnlockNestedLemma, PassOwnershipLemma, FreeMutexLemma
<1>4. ASSUME NEW m \in Mutexes, NEW ticks \in Timeouts, TimedLock(t, m, ticks)
      PROVE  IInv'
  <2>1. pc[t] = "run" /\ (LockRecursive(t, m) \/ LockFree(t, m)
                            \/ LockWait(t, m, ticks) \/ LockBusy(t, m, ticks))
    BY <1>4 DEF TimedLock, InTask
  <2>2. CASE LockBusy(t, m, ticks)
    <3>1. UNCHANGED <<mutexVars, wait, call, pc, sleep>>
      BY <2>2 DEF LockBusy
    <3> QED
      BY <1>0, <3>1, OutsideLemma DEF Types
  <2> QED
    BY <2>1, <2>2, LockNowLemma, LockWaitLemma
<1> QED
  BY <1>1, <1>2, <1>3, <1>4 DEF TaskStep

LEMMA NextLemma ==
    ASSUME IInv, [Next]_vars
    PROVE  IInv'
<1>0. Types /\ WaitsOK
  BY DEF IInv
<1>1. ASSUME Tick \/ SwitchContext \/ UNCHANGED vars PROVE IInv'
  <2>1. UNCHANGED <<mutexVars, wait, call, pc, sleep>>
    BY <1>1 DEF Tick, SwitchContext, vars
  <2> QED
    BY <1>0, <2>1, OutsideLemma DEF Types
<1>2. ASSUME NEW t \in Tasks, UpdateTaskState(t) PROVE IInv'
  <2>1. UNCHANGED <<mutexVars, wait, call, pc>>
    BY <1>2 DEF UpdateTaskState
  <2>2. \/ sleep' = sleep
        \/ (sleep[t] # "asleep" \/ pc[t] = "run") /\ sleep' = [sleep EXCEPT ![t] = "awake"]
    BY <1>2 DEF UpdateTaskState
  <2>3. sleep' \in [Tasks -> {"awake", "asleep", "woken"}]
        /\ \A u \in Tasks : pc[u] = "wait" /\ sleep[u] = "asleep" => sleep'[u] = "asleep"
    BY <1>0, <2>2 DEF Types
  <2> QED
    BY <2>1, <2>3, OutsideLemma
<1> QED
  BY <1>1, <1>2, UpdateSyncObjectsLemma, TaskStepLemma DEF Next

LEMMA InitLemma ==
    ASSUME Init
    PROVE  IInv
<1>1. Types
  BY WaitAssumption DEF Init, Types, WaitType, WaitTypeIn, Times, NoWaiters, Mutexes
<1>2. \A m \in Mutexes : wait.list[m] = <<>> /\ m_owner_tid[m] = NONE
                         /\ m_recursion_count[m] = 0
                         /\ \A t \in Tasks : held[t][m] = 0
  BY DEF Init, NoWaiters, Mutexes
<1>3. \A m \in Mutexes, t \in Tasks : ~Linked(wait, m, t)
  BY <1>1, <1>2, LinkedLemma DEF Types, Mutexes
<1>4. \A t \in Tasks : pc[t] = "run"
  BY DEF Init
<1>5. WaitsOK
  <2>1. ListsOnce(wait)
    BY <1>2 DEF ListsOnce, NoDuplicates, Mutexes
  <2> QED
    BY <2>1, <1>3, <1>4 DEF WaitsOK
<1>6. OwnershipExact
  BY <1>2 DEF OwnershipExact
<1>7. HandOverOK
  BY <1>3, <1>4 DEF HandOverOK, Unlinked
<1>8. OwnersHold
  BY <1>2, TaskIds DEF OwnersHold
<1> QED
  BY <1>1, <1>5, <1>6, <1>7, <1>8 DEF IInv

-----------------------------------------------------------------------------
(* The wait lists, the owners and the locks of the tasks agree, at any
   interleaving of locks, waits, time-outs and ticks *)
THEOREM Invariance == Spec => []IInv
<1>1. Init => IInv
  BY InitLemma
<1>2. IInv /\ [Next]_vars => IInv'
  BY NextLemma
<1> QED
  BY <1>1, <1>2, PTL DEF Spec

(* Mutual exclusion: a task that has locked a mutex is its owner and the count is
   the task's own *)
THEOREM OwnershipIsExact == Spec => []OwnershipExact
<1>1. IInv => OwnershipExact
  BY DEF IInv
<1> QED
  BY <1>1, Invariance, PTL

(* The hand-over: a signalled waiter is the owner when it runs again, one that
   timed out is not, and the queued ones wait for another task; neither panic of
   TimedLock can happen *)
THEOREM HandOverSafe == Spec => []HandOver
<1>1. IInv => HandOver
  BY HandOverLemma DEF IInv
<1> QED
  BY <1>1, Invariance, PTL

-----------------------------------------------------------------------------
(* The weights and the lists of the strategy *)

WeightType == Priorities \cup {NO_WEIGHT}

SchedType == [m_rt_weight: [Tasks -> WeightType], m_strategy: StrategyType(Tasks)]

Weights(s) == [t \in Tasks |-> GetWeight(s, t)]

ActiveTasks == {t \in Tasks : Active(t)}

(* Each task of A is in the list of its weight, the others are asleep *)
SchedOK(s, A) == s \in SchedType /\ Placed(s.m_strategy, Tasks, A, Weights(s))

(* The weight a task has after SetCurrentWeight *)
NewWeight(t, weight) == IF weight # NO_WEIGHT THEN weight ELSE BaseWeight[t]

Reweighted(v, s, t, weight) == \A u \in Tasks :
    GetWeight(v, u) = IF u = t THEN NewWeight(t, weight) ELSE GetWeight(s, u)

LEMMA WeightsLemma ==
    ASSUME NEW s, s \in SchedType
    PROVE  /\ Weights(s) \in [Tasks -> Priorities]
           /\ \A t \in Tasks : GetWeight(s, t) \in Priorities
           /\ \A t \in Tasks : Weights(s)[t] = GetWeight(s, t)
<1>1. \A t \in Tasks : GetWeight(s, t) \in Priorities
  BY WeightAssumption DEF SchedType, WeightType, GetWeight, Priorities
<1> QED
  BY <1>1 DEF Weights

(* The strategy follows a change of weight *)
LEMMA ChangeWeightLemma ==
    ASSUME NEW s, NEW A, SchedOK(s, A), NEW t \in Tasks, NEW weight \in WeightType
    PROVE  /\ SchedOK(ChangeWeight(s, t, weight), A)
           /\ Reweighted(ChangeWeight(s, t, weight), s, t, weight)
<1> DEFINE new == [s EXCEPT !.m_rt_weight[t] = weight]
           str == OnTaskWeightChange(s.m_strategy, t, GetWeight(s, t), GetWeight(new, t))
           v == ChangeWeight(s, t, weight)
<1>1. s \in SchedType /\ Placed(s.m_strategy, Tasks, A, Weights(s))
  BY DEF SchedOK
<1>2. /\ new \in SchedType /\ new.m_strategy = s.m_strategy
      /\ \A u \in Tasks : new.m_rt_weight[u] = IF u = t THEN weight ELSE s.m_rt_weight[u]
  BY <1>1 DEF SchedType
<1>3. v = [new EXCEPT !.m_strategy = str]
  BY <1>2 DEF ChangeWeight
<1> HIDE DEF new
<1>4. Reweighted(new, s, t, weight)
  BY <1>2 DEF Reweighted, GetWeight, NewWeight
<1>5. Weights(new) = [Weights(s) EXCEPT ![t] = GetWeight(new, t)]
  BY <1>4 DEF Weights, Reweighted
<1>6. Placed(str, Tasks, A, Weights(new))
  <2>1. Weights(s)[t] = GetWeight(s, t) /\ GetWeight(new, t) \in Priorities
        /\ Weights(s) \in [Tasks -> Priorities]
    BY <1>1, <1>2, WeightsLemma
  <2> HIDE DEF str
  <2>2. str = OnTaskWeightChange(s.m_strategy, t, Weights(s)[t], GetWeight(new, t))
    BY <2>1 DEF str
  <2> DEFINE g == GetWeight(new, t)
             x == s.m_strategy
             w == Weights(s)
  <2>3. Placed(x, Tasks, A, w) /\ w \in [Tasks -> Priorities] /\ g \in Priorities
    BY <1>1, <2>1
  <2> HIDE DEF g, x, w
  <2>4. Placed(OnTaskWeightChange(x, t, w[t], g), Tasks, A, [w EXCEPT ![t] = g])
    BY <2>3, OnTaskWeightChangeLemma
  <2> QED
    BY <1>5, <2>2, <2>4 DEF g, x, w
<1> HIDE DEF str, v
<1>7. str \in StrategyType(Tasks)
  BY <1>6 DEF Placed, StrategyOK
<1>8. v \in SchedType /\ v.m_strategy = str /\ v.m_rt_weight = new.m_rt_weight
  BY <1>2, <1>3, <1>7 DEF SchedType
<1>9. \A u \in Tasks : GetWeight(v, u) = GetWeight(new, u)
  BY <1>8 DEF GetWeight
<1>10. Weights(v) = Weights(new)
  BY <1>9 DEF Weights
<1> QED
  BY <1>4, <1>6, <1>8, <1>9, <1>10 DEF SchedOK, Reweighted, v

(* A task inherits a weight that is higher than its own *)
Inherited(v, s, t, weight) ==
    \/ Reweighted(v, s, t, weight) /\ weight # NO_WEIGHT
    \/ v = s

LEMMA OnInheritWeightLemma ==
    ASSUME NEW s, NEW A, SchedOK(s, A), NEW t \in Tasks, NEW weight \in WeightType
    PROVE  /\ SchedOK(OnInheritWeight(s, t, weight), A)
           /\ Inherited(OnInheritWeight(s, t, weight), s, t, weight)
BY ChangeWeightLemma DEF OnInheritWeight, Inherited

(* The weight FindWeightHigherThan finds is that of a waiter *)
LEMMA FindWeightLemma ==
    ASSUME NEW waiters \in Seq(Tasks), NEW comp
    PROVE  /\ FindWeightHigherThan(waiters, comp) \in WeightType
           /\ FindWeightHigherThan(waiters, comp) # NO_WEIGHT =>
                \E u \in Tasks : /\ IsLinked(waiters, u)
                                 /\ BaseWeight[u] = FindWeightHigherThan(waiters, comp)
<1> DEFINE higher == {BaseWeight[waiters[i]] : i \in 1..Len(waiters)}
<1>1. \A i \in 1..Len(waiters) : waiters[i] \in Tasks
  OBVIOUS
<1>2. higher \subseteq Priorities
  BY <1>1, WeightAssumption DEF Priorities
<1>3. CASE \E w \in higher : w > comp
  <2>1. FindWeightHigherThan(waiters, comp) = GetHighestReadyPriority(higher)
    BY <1>3 DEF FindWeightHigherThan, GetHighestReadyPriority
  <2>2. GetHighestReadyPriority(higher) \in higher
    BY <1>2, <1>3, HighestLemma
  <2>3. PICK i \in 1..Len(waiters) : BaseWeight[waiters[i]] = GetHighestReadyPriority(higher)
    BY <2>2
  <2> QED
    BY <1>1, <1>2, <2>1, <2>2, <2>3 DEF WeightType, IsLinked
<1>4. CASE ~\E w \in higher : w > comp
  BY <1>4 DEF FindWeightHigherThan, WeightType
<1> QED
  BY <1>3, <1>4

-----------------------------------------------------------------------------
(* The strategy after AddTask of every slot *)

(* The walk of Start over the slots: what the strategy is after n slots *)
LEMMA AddedLemma ==
    /\ Cardinality(Tasks) \in Nat
    /\ Added[0] = Empty
    /\ \A n \in 1..Cardinality(Tasks) : Added[n] = AddTask(Added[n - 1], n, BaseWeight[n])
<1> DEFINE N == Cardinality(Tasks)
           S == StrategyType(Tasks)
           At(f, n) == IF n = 0 THEN Empty ELSE AddTask(f[n - 1], n, BaseWeight[n])
           IsAdded(f) == f = [n \in 0..N |-> At(f, n)]
           h == [p \in (1..N) \X S |-> AddTask(p[2], p[1], BaseWeight[p[1]])]
<1>1. N \in Nat /\ Tasks = 1..N
  BY SlotsAssumption, FS_CardinalityType
<1>2. Added = CHOOSE f : IsAdded(f)
  BY DEF Added
<1> HIDE DEF N, S
<1>3. \E f : IsAdded(f)
  <2>1. h \in [(1..N) \X S -> S]
    <3>1. ASSUME NEW i \in 1..N, NEW x \in S PROVE AddTask(x, i, BaseWeight[i]) \in S
      <4>1. i \in Tasks /\ BaseWeight[i] \in Priorities
        BY <1>1, WeightAssumption DEF Priorities
      <4> QED
        BY <4>1, AddTaskTypeLemma DEF S
    <3> QED
      BY <3>1
  <2>2. \A i \in 1..N, x \in S : h[<<i, x>>] = AddTask(x, i, BaseWeight[i])
    OBVIOUS
  <2> HIDE DEF h
  <2>3. PICK f \in [0..N -> S] : IsWalk(f, N, Empty, h)
    <3>1. Empty \in S /\ h \in Steps(N, S)
      BY <2>1, EmptyStrategyLemma DEF Steps, S, StrategyOK
    <3> QED
      BY <1>1, <3>1, WalkLemma
  <2>4. ASSUME NEW i \in 0..N PROVE f[i] = At(f, i)
    <3>1. CASE i = 0
      BY <2>3, <3>1 DEF IsWalk
    <3>2. CASE i # 0
      <4>1. i \in 1..N /\ i - 1 \in 0..N
        BY <1>1, <3>2
      <4>2. f[i] = h[<<i, f[i - 1]>>]
        BY <2>3, <4>1 DEF IsWalk
      <4> QED
        BY <2>2, <3>2, <4>1, <4>2
    <3> QED
      BY <3>1, <3>2
  <2> HIDE DEF At
  <2>5. IsAdded(f)
    BY <2>4
  <2> QED
    BY <2>5
<1>4. \A i \in 0..N : Added[i] = At(Added, i)
  <2> HIDE DEF At
  <2>1. IsAdded(Added)
    BY <1>2, <1>3
  <2> QED
    BY <2>1
<1>5. 0 \in 0..N /\ \A i \in 1..N : i \in 0..N /\ i # 0
  BY <1>1
<1> QED
  BY <1>1, <1>4, <1>5 DEF N

(* At the start every task is active, in the list of its own weight *)
LEMMA StartLemma ==
    SchedOK([m_rt_weight |-> [t \in Tasks |-> NO_WEIGHT],
             m_strategy  |-> Added[Cardinality(Tasks)]], Tasks)
<1> DEFINE N == Cardinality(Tasks)
           P(i) == /\ StrategyOK(Added[i], Tasks)
                   /\ \A k : ~Asleep(Added[i], k)
                   /\ \A p \in Priorities : \A k :
                        AtLevel(Added[i], p, k) <=> k \in 1..i /\ p = BaseWeight[k]
           T == {i \in 0..N : ~P(i)}
           s == [m_rt_weight |-> [t \in Tasks |-> NO_WEIGHT], m_strategy |-> Added[N]]
<1>1. N \in Nat /\ Tasks = 1..N
  BY SlotsAssumption, FS_CardinalityType
<1>2. Added[0] = Empty /\ \A i \in 1..N : Added[i] = AddTask(Added[i - 1], i, BaseWeight[i])
  BY AddedLemma
<1> HIDE DEF N
<1>3. P(0)
  BY <1>2, EmptyStrategyLemma
<1>4. ASSUME NEW i \in 1..N, P(i - 1) PROVE P(i)
  <2> DEFINE a == Added[i - 1]
             b == BaseWeight[i]
             v == Added[i]
  <2>1. i \in Tasks /\ b \in Priorities
    BY <1>1, WeightAssumption DEF Priorities
  <2>2. /\ StrategyOK(a, Tasks) /\ \A k : ~Asleep(a, k)
        /\ \A p \in Priorities : \A k : AtLevel(a, p, k) <=> k \in 1..(i - 1) /\ p = BaseWeight[k]
    BY <1>4
  <2>3. i \notin 1..(i - 1) /\ 1..i = 1..(i - 1) \cup {i}
    BY <1>1
  <2>4. v = AddTask(a, i, b)
    BY <1>2
  <2> HIDE DEF a, v, P
  <2>5. ~AtLevel(a, b, i)
    BY <2>1, <2>2, <2>3
  <2>6. StrategyOK(v, Tasks) /\ Added1(v, a, i, b)
    BY <2>1, <2>2, <2>4, <2>5, AddTaskLemma
  <2>7. \A k : ~Asleep(v, k)
    BY <2>2, <2>6 DEF Added1
  <2>8. \A p \in Priorities : \A k : AtLevel(v, p, k) <=> k \in 1..i /\ p = BaseWeight[k]
    BY <2>2, <2>3, <2>6 DEF Added1
  <2> QED
    BY <2>6, <2>7, <2>8 DEF P, v
<1> HIDE DEF P
<1>5. T = {}
  <2>1. SUFFICES ASSUME T # {} PROVE FALSE
    OBVIOUS
  <2>2. T \subseteq Nat
    BY <1>1
  <2>3. PICK i \in T : \A m \in T : i <= m
    BY <2>1, <2>2, LeastLemma
  <2>4. i \in 1..N /\ i - 1 \in 0..N
    BY <1>1, <1>3, <2>3
  <2>5. P(i - 1)
    BY <2>3, <2>4
  <2> QED
    BY <1>4, <2>3, <2>4, <2>5
<1>6. P(N)
  BY <1>1, <1>5
<1>7. s \in SchedType /\ s.m_strategy = Added[N] /\ s.m_rt_weight = [t \in Tasks |-> NO_WEIGHT]
  BY <1>6 DEF P, StrategyOK, SchedType, WeightType
<1> HIDE DEF s
<1>8. \A t \in Tasks : Weights(s)[t] = BaseWeight[t]
  BY <1>7 DEF Weights, GetWeight
<1>9. Placed(s.m_strategy, Tasks, Tasks, Weights(s))
  BY <1>1, <1>6, <1>7, <1>8 DEF P, Placed
<1> QED
  BY <1>7, <1>9 DEF SchedOK, s, N

-----------------------------------------------------------------------------
(* What the steps do to the weights and to the strategy *)

(* The invariant of the scheduling: the lists agree with the weights, and a boost
   belongs to an owner *)
SchedInv == SchedOK(sched, ActiveTasks) /\ BoostEndsWithOwnership

(* No weight changes, nobody loses a mutex, and the same tasks are active *)
LEMMA SameWeightsLemma ==
    ASSUME SchedInv, SchedOK(sched', ActiveTasks'),
           \A t \in Tasks : GetWeight(sched', t) = GetWeight(sched, t),
           \A m \in Mutexes : m_owner_tid[m] \in Tasks => m_owner_tid'[m] = m_owner_tid[m]
    PROVE  SchedInv'
<1>1. BoostEndsWithOwnership'
  BY DEF SchedInv, BoostEndsWithOwnership
<1> QED
  BY <1>1 DEF SchedInv

(* Who sleeps in a wait or is woken from it is as active as before: the strategy
   hears of it at the next tick *)
LEMMA SameActiveLemma ==
    ASSUME \A t \in Tasks : sleep'[t] = "awake" \/ t \in pended'
                                <=> sleep[t] = "awake" \/ t \in pended
    PROVE  ActiveTasks' = ActiveTasks
BY DEF ActiveTasks, Active

LEMMA SchedLockWaitLemma ==
    ASSUME IInv, SchedInv, NEW t \in Tasks, NEW m \in Mutexes, NEW ticks \in Timeouts,
           InTask(t), LockWait(t, m, ticks)
    PROVE  SchedInv'
<1> DEFINE o == m_owner_tid[m]
           v == OnInheritWeight(sched, o, BaseWeight[t])
<1>0. Types /\ OwnershipExact /\ SchedOK(sched, ActiveTasks) /\ BoostEndsWithOwnership
  BY DEF IInv, SchedInv
<1>1. /\ sched' = v /\ m_recursion_count[m] # 0 /\ o # t
      /\ sleep' = [sleep EXCEPT ![t] = "asleep"] /\ pended' = pended \cup {t}
      /\ sleep[t] = "awake" /\ m_owner_tid' = m_owner_tid
  BY DEF LockWait, ScheduleSleep, InTask, Executes, mutexVars
<1>2. o \in Tasks
  BY <1>0, <1>1 DEF Types, OwnershipExact
<1>3. ActiveTasks' = ActiveTasks
  BY <1>0, <1>1, SameActiveLemma DEF Types
<1>4. BaseWeight[t] \in WeightType
  BY WeightAssumption DEF WeightType, Priorities
<1>5. SchedOK(v, ActiveTasks) /\ Inherited(v, sched, o, BaseWeight[t])
  BY <1>0, <1>2, <1>4, OnInheritWeightLemma
<1> HIDE DEF v, o
<1>6. SchedOK(sched', ActiveTasks')
  BY <1>1, <1>3, <1>5
<1>7. CASE v = sched
  BY <1>1, <1>6, <1>7, SameWeightsLemma
<1>8. CASE Reweighted(v, sched, o, BaseWeight[t]) /\ BaseWeight[t] # NO_WEIGHT
  <2>1. ASSUME NEW u \in Tasks, GetWeight(sched', u) > BaseWeight[u]
        PROVE  /\ \E n \in Mutexes : m_owner_tid'[n] = u
               /\ \E x \in Tasks \ {u} : BaseWeight[x] = GetWeight(sched', u)
    <3>1. CASE u = o
      <4>1. GetWeight(sched', u) = BaseWeight[t]
        BY <1>1, <1>8, <3>1 DEF Reweighted, NewWeight
      <4> QED
        BY <1>1, <3>1, <4>1 DEF o
    <3>2. CASE u # o
      <4>1. GetWeight(sched', u) = GetWeight(sched, u)
        BY <1>1, <1>8, <3>2 DEF Reweighted
      <4> QED
        BY <1>0, <1>1, <2>1, <4>1 DEF BoostEndsWithOwnership
    <3> QED
      BY <3>1, <3>2
  <2>2. BoostEndsWithOwnership'
    BY <2>1 DEF BoostEndsWithOwnership
  <2> QED
    BY <1>6, <2>2 DEF SchedInv
<1> QED
  BY <1>5, <1>7, <1>8 DEF Inherited

(* A waiter that gave up withdraws its weight from the owner it found: what the
   owner keeps is the weight of a task that still waits *)
LEMMA SchedLockWaitReturnsLemma ==
    ASSUME IInv, SchedInv, NEW t \in Tasks, LockWaitReturns(t)
    PROVE  SchedInv'
<1> DEFINE m == call[t].mutex
           o == call[t].owner
           f == FindWeightHigherThan(wait.list[m], GetWeight(sched, o))
           v == ChangeWeight(sched, o, f)
<1>0. /\ Types /\ WaitsOK /\ HandOverOK
      /\ SchedOK(sched, ActiveTasks) /\ BoostEndsWithOwnership
  BY DEF IInv, SchedInv
<1>1. /\ pc[t] = "wait" /\ UNCHANGED <<m_owner_tid, sleep, pended>>
      /\ sched' = sched \/ (sched' = v /\ o = m_owner_tid[m])
  BY DEF LockWaitReturns, RestoreFromWaiters, Executes
<1>2. m \in Mutexes /\ o \in Tasks
  BY <1>0, <1>1 DEF WaitsOK, CallType
<1>3. ActiveTasks' = ActiveTasks
  BY <1>1, SameActiveLemma
<1>4. wait.list[m] \in Seq(Tasks)
  BY <1>0, <1>2 DEF Types, WaitType, WaitTypeIn, Mutexes
<1>5. /\ f \in WeightType
      /\ f # NO_WEIGHT => \E u \in Tasks : IsLinked(wait.list[m], u) /\ BaseWeight[u] = f
  BY <1>4, FindWeightLemma
<1> HIDE DEF f
<1>6. SchedOK(v, ActiveTasks) /\ Reweighted(v, sched, o, f)
  BY <1>0, <1>2, <1>5, ChangeWeightLemma
<1> HIDE DEF v, o, m
<1>7. SchedOK(sched', ActiveTasks')
  BY <1>0, <1>1, <1>3, <1>6
<1>8. CASE sched' = sched
  BY <1>1, <1>7, <1>8, SameWeightsLemma
<1>9. CASE sched' = v /\ o = m_owner_tid[m]
  <2>1. ASSUME NEW u \in Tasks, GetWeight(sched', u) > BaseWeight[u]
        PROVE  /\ \E n \in Mutexes : m_owner_tid'[n] = u
               /\ \E x \in Tasks \ {u} : BaseWeight[x] = GetWeight(sched', u)
    <3>1. CASE u = o
      <4>1. GetWeight(sched', u) = IF f # NO_WEIGHT THEN f ELSE BaseWeight[u]
        BY <1>6, <1>9, <3>1 DEF Reweighted, NewWeight
      <4>2. f # NO_WEIGHT
        <5>1. BaseWeight[u] \in Int
          BY WeightAssumption
        <5> QED
          BY <2>1, <4>1, <5>1
      <4>3. PICK x \in Tasks : IsLinked(wait.list[m], x) /\ BaseWeight[x] = f
        BY <1>5, <4>2
      <4>4. x # u
        BY <1>0, <1>2, <1>9, <3>1, <4>3 DEF HandOverOK, Linked
      <4> QED
        BY <1>1, <1>2, <1>9, <3>1, <4>1, <4>2, <4>3, <4>4
    <3>2. CASE u # o
      <4>1. GetWeight(sched', u) = GetWeight(sched, u)
        BY <1>6, <1>9, <3>2 DEF Reweighted
      <4> QED
        BY <1>0, <1>1, <2>1, <4>1 DEF BoostEndsWithOwnership
    <3> QED
      BY <3>1, <3>2
  <2>2. BoostEndsWithOwnership'
    BY <2>1 DEF BoostEndsWithOwnership
  <2> QED
    BY <1>7, <2>2 DEF SchedInv
<1> QED
  BY <1>1, <1>8, <1>9

(* The last Unlock takes the boost from the owner; the weights of the other waiters
   go to the first, which owns the mutex now *)
LEMMA SchedPassOwnershipLemma ==
    ASSUME IInv, SchedInv, NEW t \in Tasks, NEW m \in Mutexes, held[t][m] > 0,
           PassOwnership(m), UNCHANGED pended
    PROVE  SchedInv'
<1> DEFINE first == Head(wait.list[m])
           f == FindWeightHigherThan(Tail(wait.list[m]), BaseWeight[first])
           r == ChangeWeight(sched, t, NO_WEIGHT)
           v == OnInheritWeight(r, first, f)
<1>0. /\ Types /\ WaitsOK /\ OwnershipExact
      /\ SchedOK(sched, ActiveTasks) /\ BoostEndsWithOwnership
  BY DEF IInv, SchedInv
<1>1. m_owner_tid[m] = t
  BY <1>0 DEF OwnershipExact
<1>2. /\ wait.list[m] # <<>> /\ sched' = v
      /\ m_owner_tid' = [m_owner_tid EXCEPT ![m] = first]
      /\ sleep' = [sleep EXCEPT ![first] = "woken"]
  BY <1>1 DEF PassOwnership, RestoreOriginal
<1>3. wait.list[m] \in Seq(Tasks) /\ NoDuplicates(wait.list[m])
  BY <1>0 DEF Types, WaitType, WaitTypeIn, WaitsOK, ListsOnce, Mutexes
<1>4. /\ first \in Tasks /\ IsLinked(wait.list[m], first) /\ Tail(wait.list[m]) \in Seq(Tasks)
      /\ \A j : IsLinked(Tail(wait.list[m]), j) <=> IsLinked(wait.list[m], j) /\ j # first
  BY <1>2, <1>3, TailLemma
<1>5. /\ f \in WeightType
      /\ f # NO_WEIGHT => \E u \in Tasks : u # first /\ BaseWeight[u] = f
  <2>1. /\ f \in WeightType
        /\ f # NO_WEIGHT => \E u \in Tasks : IsLinked(Tail(wait.list[m]), u) /\ BaseWeight[u] = f
    BY <1>4, FindWeightLemma
  <2> HIDE DEF f, first
  <2> QED
    BY <1>4, <2>1
<1> HIDE DEF f, first
<1>6. SchedOK(r, ActiveTasks) /\ Reweighted(r, sched, t, NO_WEIGHT)
  BY <1>0, ChangeWeightLemma DEF WeightType
<1> HIDE DEF r
<1>7. SchedOK(v, ActiveTasks) /\ Inherited(v, r, first, f)
  BY <1>4, <1>5, <1>6, OnInheritWeightLemma
<1> HIDE DEF v
<1>8. ActiveTasks' = ActiveTasks
  <2>1. sleep[first] = "asleep"
    BY <1>0, <1>4 DEF WaitsOK, Linked
  <2> QED
    BY <1>0, <1>2, <2>1, SameActiveLemma DEF Types
<1>9. SchedOK(sched', ActiveTasks')
  BY <1>2, <1>7, <1>8
<1>10. \A n \in Mutexes : m_owner_tid'[n] = IF n = m THEN first ELSE m_owner_tid[n]
  BY <1>0, <1>2 DEF Types
<1>11. \A u \in Tasks : BaseWeight[u] \in Int
  BY WeightAssumption
<1>12. \A u \in Tasks : GetWeight(r, u) > BaseWeight[u] =>
            /\ \E n \in Mutexes : m_owner_tid'[n] = u
            /\ \E x \in Tasks \ {u} : BaseWeight[x] = GetWeight(r, u)
  <2>1. ASSUME NEW u \in Tasks, GetWeight(r, u) > BaseWeight[u]
        PROVE  /\ \E n \in Mutexes : m_owner_tid'[n] = u
               /\ \E x \in Tasks \ {u} : BaseWeight[x] = GetWeight(r, u)
    <3>1. u # t /\ GetWeight(r, u) = GetWeight(sched, u)
      BY <1>6, <1>11, <2>1 DEF Reweighted, NewWeight
    <3>2. PICK n \in Mutexes : m_owner_tid[n] = u
      BY <1>0, <2>1, <3>1 DEF BoostEndsWithOwnership
    <3>3. m_owner_tid'[n] = u
      BY <1>1, <1>10, <3>1, <3>2
    <3>4. \E x \in Tasks \ {u} : BaseWeight[x] = GetWeight(sched, u)
      BY <1>0, <2>1, <3>1 DEF BoostEndsWithOwnership
    <3> QED
      BY <3>1, <3>3, <3>4
  <2> QED
    BY <2>1
<1>13. BoostEndsWithOwnership'
  <2>1. CASE v = r
    BY <1>2, <1>12, <2>1 DEF BoostEndsWithOwnership
  <2>2. CASE Reweighted(v, r, first, f) /\ f # NO_WEIGHT
    <3>1. ASSUME NEW u \in Tasks, GetWeight(v, u) > BaseWeight[u]
          PROVE  /\ \E n \in Mutexes : m_owner_tid'[n] = u
                 /\ \E x \in Tasks \ {u} : BaseWeight[x] = GetWeight(v, u)
      <4>1. CASE u = first
        <5>1. GetWeight(v, u) = f
          BY <2>2, <4>1 DEF Reweighted, NewWeight
        <5> QED
          BY <1>5, <1>10, <2>2, <4>1, <5>1
      <4>2. CASE u # first
        <5>1. GetWeight(v, u) = GetWeight(r, u)
          BY <2>2, <4>2 DEF Reweighted
        <5> QED
          BY <1>12, <3>1, <5>1
      <4> QED
        BY <4>1, <4>2
    <3> QED
      BY <1>2, <3>1 DEF BoostEndsWithOwnership
  <2> QED
    BY <1>7, <2>1, <2>2 DEF Inherited
<1> QED
  BY <1>9, <1>13 DEF SchedInv

LEMMA SchedFreeMutexLemma ==
    ASSUME IInv, SchedInv, NEW t \in Tasks, NEW m \in Mutexes, held[t][m] > 0,
           FreeMutex(m), UNCHANGED pended
    PROVE  SchedInv'
<1> DEFINE r == ChangeWeight(sched, t, NO_WEIGHT)
<1>0. Types /\ OwnershipExact /\ SchedOK(sched, ActiveTasks) /\ BoostEndsWithOwnership
  BY DEF IInv, SchedInv
<1>1. m_owner_tid[m] = t
  BY <1>0 DEF OwnershipExact
<1>2. sched' = r /\ m_owner_tid' = [m_owner_tid EXCEPT ![m] = NONE] /\ sleep' = sleep
  BY <1>1 DEF FreeMutex, RestoreOriginal
<1>3. SchedOK(r, ActiveTasks) /\ Reweighted(r, sched, t, NO_WEIGHT)
  BY <1>0, ChangeWeightLemma DEF WeightType
<1> HIDE DEF r
<1>4. ActiveTasks' = ActiveTasks
  BY <1>2, SameActiveLemma
<1>5. \A n \in Mutexes : n # m => m_owner_tid'[n] = m_owner_tid[n]
  BY <1>0, <1>2 DEF Types
<1>6. ASSUME NEW u \in Tasks, GetWeight(r, u) > BaseWeight[u]
      PROVE  /\ \E n \in Mutexes : m_owner_tid'[n] = u
             /\ \E x \in Tasks \ {u} : BaseWeight[x] = GetWeight(r, u)
  <2>1. u # t /\ GetWeight(r, u) = GetWeight(sched, u)
    <3>1. BaseWeight[u] \in Int
      BY WeightAssumption
    <3> QED
      BY <1>3, <1>6, <3>1 DEF Reweighted, NewWeight
  <2> QED
    BY <1>0, <1>1, <1>5, <1>6, <2>1 DEF BoostEndsWithOwnership
<1>7. BoostEndsWithOwnership'
  BY <1>2, <1>6 DEF BoostEndsWithOwnership
<1> QED
  BY <1>2, <1>3, <1>4, <1>7 DEF SchedInv

(* One slot of the tick: the strategy is told of the sleep and of the wake-up, with
   the weight the task has now *)
LEMMA SchedUpdateTaskStateLemma ==
    ASSUME IInv, SchedInv, NEW t \in Tasks, UpdateTaskState(t)
    PROVE  SchedInv'
<1> DEFINE prio == GetWeight(sched, t)
           x == sched.m_strategy
           w == Weights(sched)
           A == ActiveTasks
           slept == IF t \in pended THEN OnTaskSleep(x, t, prio) ELSE x
           B == IF t \in pended THEN A \ {t} ELSE A
           woken == OnTaskWake(slept, t, prio)
<1>0. Types /\ SchedOK(sched, A) /\ BoostEndsWithOwnership
  BY DEF IInv, SchedInv
<1>1. /\ pended' = pended \ {t} /\ UNCHANGED m_owner_tid
      /\ \/ sleep[t] = "awake" /\ sched' = sched /\ sleep' = sleep
         \/ /\ sleep[t] = "asleep" /\ sched' = [sched EXCEPT !.m_strategy = slept]
            /\ sleep' = sleep
         \/ /\ sleep[t] # "awake" /\ sched' = [sched EXCEPT !.m_strategy = woken]
            /\ sleep' = [sleep EXCEPT ![t] = "awake"]
  BY DEF UpdateTaskState, mutexVars
<1>2. /\ sched \in SchedType /\ Placed(x, Tasks, A, w)
      /\ w \in [Tasks -> Priorities] /\ w[t] = prio
  BY <1>0, WeightsLemma DEF SchedOK
<1>3. t \in A <=> sleep[t] = "awake" \/ t \in pended
  BY DEF ActiveTasks, Active
<1>4. ASSUME NEW v, NEW C, Placed(v, Tasks, C, w),
             sched' = [sched EXCEPT !.m_strategy = v], ActiveTasks' = C
      PROVE  SchedInv'
  <2>1. v \in StrategyType(Tasks)
    BY <1>4 DEF Placed, StrategyOK
  <2>2. sched' \in SchedType /\ sched'.m_strategy = v /\ sched'.m_rt_weight = sched.m_rt_weight
    BY <1>2, <1>4, <2>1 DEF SchedType
  <2>3. \A u \in Tasks : GetWeight(sched', u) = GetWeight(sched, u)
    BY <2>2 DEF GetWeight
  <2>4. Weights(sched') = w
    BY <2>3 DEF Weights
  <2>5. SchedOK(sched', ActiveTasks')
    BY <1>4, <2>2, <2>4 DEF SchedOK
  <2> QED
    BY <1>1, <2>3, <2>5, SameWeightsLemma
<1>5. CASE sleep[t] = "awake" /\ sched' = sched /\ sleep' = sleep
  <2>1. ActiveTasks' = A
    BY <1>1, <1>5, SameActiveLemma
  <2> QED
    BY <1>0, <1>1, <1>5, <2>1, SameWeightsLemma
<1> HIDE DEF A, w, x, prio
<1>6. ASSUME sleep[t] # "awake"
      PROVE  Placed(slept, Tasks, B, w) /\ t \notin B /\ B \cup {t} = A \cup {t}
  <2>1. CASE t \in pended
    BY <1>2, <1>3, <2>1, OnTaskSleepLemma
  <2>2. CASE t \notin pended
    BY <1>2, <1>3, <1>6, <2>2
  <2> QED
    BY <2>1, <2>2
<1> HIDE DEF slept, B
<1>7. CASE /\ sleep[t] = "asleep" /\ sched' = [sched EXCEPT !.m_strategy = slept]
           /\ sleep' = sleep
  <2>1. ActiveTasks' = A \ {t}
    BY <1>1, <1>7 DEF ActiveTasks, Active, A
  <2>2. A \ {t} = B
    BY <1>6, <1>7
  <2> QED
    BY <1>4, <1>6, <1>7, <2>1, <2>2
<1>8. CASE /\ sleep[t] # "awake" /\ sched' = [sched EXCEPT !.m_strategy = woken]
           /\ sleep' = [sleep EXCEPT ![t] = "awake"]
  <2>1. ActiveTasks' = B \cup {t}
    <3>1. ActiveTasks' = A \cup {t}
      BY <1>0, <1>1, <1>8 DEF ActiveTasks, Active, A, Types
    <3> QED
      BY <1>6, <1>8, <3>1
  <2>2. Placed(woken, Tasks, B \cup {t}, w)
    BY <1>2, <1>6, <1>8, OnTaskWakeLemma
  <2> QED
    BY <1>4, <1>8, <2>1, <2>2
<1> QED
  BY <1>1, <1>5, <1>7, <1>8

(* The switch of a tick moves a cursor *)
LEMMA SchedSwitchContextLemma ==
    ASSUME SchedInv, SwitchContext
    PROVE  SchedInv'
<1> DEFINE x == sched.m_strategy
           w == Weights(sched)
           v == Advanced(x)
<1>1. /\ sched' = [sched EXCEPT !.m_strategy = v]
      /\ UNCHANGED <<m_owner_tid, sleep, pended>>
  BY DEF SwitchContext, mutexVars
<1>2. /\ sched \in SchedType /\ Placed(x, Tasks, ActiveTasks, w)
      /\ w \in [Tasks -> Priorities] /\ ActiveTasks \subseteq Tasks
  BY WeightsLemma DEF SchedInv, SchedOK, ActiveTasks
<1>3. Placed(v, Tasks, ActiveTasks, w)
  BY <1>2, AdvancedLemma
<1> HIDE DEF v
<1>4. v \in StrategyType(Tasks)
  BY <1>3 DEF Placed, StrategyOK
<1>5. sched' \in SchedType /\ sched'.m_strategy = v /\ sched'.m_rt_weight = sched.m_rt_weight
  BY <1>1, <1>2, <1>4 DEF SchedType
<1>6. \A u \in Tasks : GetWeight(sched', u) = GetWeight(sched, u)
  BY <1>5 DEF GetWeight
<1>7. Weights(sched') = w
  BY <1>6 DEF Weights
<1>8. ActiveTasks' = ActiveTasks
  BY <1>1, SameActiveLemma
<1>9. SchedOK(sched', ActiveTasks')
  BY <1>3, <1>5, <1>7, <1>8 DEF SchedOK
<1> QED
  BY <1>1, <1>6, <1>9, SameWeightsLemma

(* Steps that leave the weights and the strategy alone *)
LEMMA SchedSameLemma ==
    ASSUME SchedInv, UNCHANGED sched, ActiveTasks' = ActiveTasks,
           \A m \in Mutexes : m_owner_tid[m] \in Tasks => m_owner_tid'[m] = m_owner_tid[m]
    PROVE  SchedInv'
<1>1. SchedOK(sched', ActiveTasks')
  BY DEF SchedInv
<1> QED
  BY <1>1, SameWeightsLemma

LEMMA SchedTaskStepLemma ==
    ASSUME IInv, SchedInv, NEW t \in Tasks, TaskStep(t)
    PROVE  SchedInv'
<1>0. Types /\ OwnershipExact
  BY DEF IInv
<1>1. CASE Sleep(t)
  <2>1. /\ sleep' = [sleep EXCEPT ![t] = "asleep"] /\ pended' = pended \cup {t}
        /\ sleep[t] = "awake" /\ UNCHANGED <<sched, m_owner_tid>>
    BY <1>1 DEF Sleep, ScheduleSleep, InTask, Executes, mutexVars
  <2>2. ActiveTasks' = ActiveTasks
    BY <1>0, <2>1, SameActiveLemma DEF Types
  <2> QED
    BY <2>1, <2>2, SchedSameLemma
<1>2. CASE LockWaitReturns(t)
  BY <1>2, SchedLockWaitReturnsLemma
<1>3. ASSUME NEW m \in Mutexes, Unlock(t, m) PROVE SchedInv'
  <2>1. held[t][m] > 0 /\ UNCHANGED pended
    BY <1>3 DEF Unlock
  <2>2. UNCHANGED <<m_owner_tid, sched, sleep>> \/ PassOwnership(m) \/ FreeMutex(m)
    BY <1>3 DEF Unlock
  <2>3. CASE UNCHANGED <<m_owner_tid, sched, sleep>>
    <3>1. ActiveTasks' = ActiveTasks
      BY <2>1, <2>3, SameActiveLemma
    <3> QED
      BY <2>3, <3>1, SchedSameLemma
  <2> QED
    BY <2>1, <2>2, <2>3, SchedPassOwnershipLemma, SchedFreeMutexLemma
<1>4. ASSUME NEW m \in Mutexes, NEW ticks \in Timeouts, TimedLock(t, m, ticks)
      PROVE  SchedInv'
  <2>1. InTask(t) /\ (LockRecursive(t, m) \/ LockFree(t, m)
                            \/ LockWait(t, m, ticks) \/ LockBusy(t, m, ticks))
    BY <1>4 DEF TimedLock
  <2>2. ASSUME UNCHANGED <<sched, sleep, pended>>,
               \A n \in Mutexes : m_owner_tid[n] \in Tasks => m_owner_tid'[n] = m_owner_tid[n]
        PROVE  SchedInv'
    <3>1. ActiveTasks' = ActiveTasks
      BY <2>2, SameActiveLemma
    <3> QED
      BY <2>2, <3>1, SchedSameLemma
  <2>3. CASE LockRecursive(t, m) \/ LockBusy(t, m, ticks)
    BY <2>2, <2>3 DEF LockRecursive, LockBusy, mutexVars
  <2>4. CASE LockFree(t, m)
    <3>1. m_owner_tid[m] = NONE /\ m_owner_tid' = [m_owner_tid EXCEPT ![m] = t]
          /\ UNCHANGED <<sched, sleep, pended>>
      BY <1>0, <2>4 DEF LockFree, OwnershipExact
    <3>2. \A n \in Mutexes : m_owner_tid[n] \in Tasks => m_owner_tid'[n] = m_owner_tid[n]
      BY <1>0, <3>1, TaskIds DEF Types
    <3> QED
      BY <2>2, <3>1, <3>2
  <2>5. CASE LockWait(t, m, ticks)
    BY <2>1, <2>5, SchedLockWaitLemma
  <2> QED
    BY <2>1, <2>3, <2>4, <2>5
<1> QED
  BY <1>1, <1>2, <1>3, <1>4 DEF TaskStep

LEMMA SchedNextLemma ==
    ASSUME IInv, SchedInv, [Next]_vars
    PROVE  SchedInv'
<1>0. Types /\ WaitsOK
  BY DEF IInv
<1>1. ASSUME Tick \/ UNCHANGED vars PROVE SchedInv'
  <2>1. UNCHANGED <<sched, sleep, pended, m_owner_tid>>
    BY <1>1 DEF Tick, vars, mutexVars
  <2>2. ActiveTasks' = ActiveTasks
    BY <2>1, SameActiveLemma
  <2> QED
    BY <2>1, <2>2, SchedSameLemma
<1>2. ASSUME NEW t \in Tasks, UpdateSyncObjects(t) PROVE SchedInv'
  <2>1. /\ sleep' = IF t \in Expired(wait) THEN [sleep EXCEPT ![t] = "woken"] ELSE sleep
        /\ UNCHANGED <<sched, pended, m_owner_tid>>
    BY <1>2 DEF UpdateSyncObjects, mutexVars
  <2>2. t \in Expired(wait) => sleep[t] = "asleep"
    BY <1>0 DEF Expired, IsWaiting, WaitsOK, Linked, Mutexes
  <2>3. ActiveTasks' = ActiveTasks
    BY <1>0, <2>1, <2>2, SameActiveLemma DEF Types
  <2> QED
    BY <2>1, <2>3, SchedSameLemma
<1> QED
  BY <1>1, <1>2, SchedUpdateTaskStateLemma, SchedSwitchContextLemma, SchedTaskStepLemma DEF Next

(* At the start every task is active and has its own weight *)
LEMMA SchedInitLemma ==
    ASSUME Init
    PROVE  SchedInv
<1>1. ActiveTasks = Tasks
  BY DEF Init, ActiveTasks, Active
<1>2. sched = [m_rt_weight |-> [t \in Tasks |-> NO_WEIGHT],
               m_strategy  |-> Added[Cardinality(Tasks)]]
  BY DEF Init
<1>3. SchedOK(sched, ActiveTasks)
  BY <1>1, <1>2, StartLemma
<1>4. \A t \in Tasks : GetWeight(sched, t) = BaseWeight[t] /\ BaseWeight[t] \in Int
  BY <1>2, WeightAssumption DEF GetWeight
<1>5. BoostEndsWithOwnership
  BY <1>4 DEF BoostEndsWithOwnership
<1> QED
  BY <1>3, <1>5 DEF SchedInv

(* The strategy's lists and the weights agree, and boosts belong to owners, at any
   interleaving of locks, hand-overs, time-outs and ticks *)
THEOREM SchedInvariance == Spec => []SchedInv
<1>1. Init => SchedInv
  BY SchedInitLemma
<1>2. IInv /\ SchedInv /\ [Next]_vars => SchedInv'
  BY SchedNextLemma
<1> QED
  BY <1>1, <1>2, Invariance, PTL DEF Spec

(* The strategy's view of a task is never stale: each active task is in the list of
   the weight it has now, whenever its weight changed, and nowhere else *)
THEOREM QueuesAgree == Spec => []QueuesMatchWeights
<1>1. ASSUME SchedInv PROVE QueuesMatchWeights
  <2> DEFINE s == sched.m_strategy
  <2>1. /\ Placed(s, Tasks, ActiveTasks, Weights(sched))
        /\ \A t \in Tasks : Weights(sched)[t] = GetWeight(sched, t)
    BY <1>1, WeightsLemma DEF SchedInv, SchedOK
  <2>2. \A t \in Tasks : t \in ActiveTasks <=> Active(t)
    BY DEF ActiveTasks
  <2> HIDE DEF s
  <2>3. \A t \in Tasks : /\ IsLinked(s.m_sleep, t) <=> ~Active(t)
                         /\ \A p \in Priorities : IsLinked(s.m_tasks[p], t)
                                <=> Active(t) /\ p = GetWeight(sched, t)
    BY <2>1, <2>2 DEF Placed, Asleep, AtLevel
  <2>4. NoDuplicates(s.m_sleep) /\ \A p \in Priorities : LevelOK(s, p)
    BY <2>1 DEF Placed, StrategyOK, Consistent
  <2> QED
    BY <2>3, <2>4 DEF QueuesMatchWeights, LevelOK, s
<1> QED
  BY <1>1, SchedInvariance, PTL

(* A boost ends with the ownership it was lent for, and is no more than the weight
   of another task *)
THEOREM BoostsEnd == Spec => []BoostEndsWithOwnership
<1>1. SchedInv => BoostEndsWithOwnership
  BY DEF SchedInv
<1> QED
  BY <1>1, SchedInvariance, PTL

-----------------------------------------------------------------------------
(* The tick handler, the bound of the nesting, and the remaining types *)

(* The handler has told the strategy of the sleeps of all slots before idx *)
TickOK ==
    /\ \A m \in Mutexes : m_recursion_count[m] <= RECURSION_MAX
    /\ pended \subseteq Tasks /\ cpu \in Tasks \cup {NONE}
    /\ phase \in {"run", "sync", "state"} /\ idx \in 1..(Cardinality(Tasks) + 1)
    /\ phase = "state" => \A t \in pended : t >= idx

LEMMA SlotsLemma == Cardinality(Tasks) \in Nat /\ Tasks = 1..Cardinality(Tasks)
BY SlotsAssumption, FS_CardinalityType

(* The task that a switch picks *)
LEMMA PickLemma ==
    ASSUME SchedInv, ActiveTasks # {}
    PROVE  LET next == GetNext(sched.m_strategy)
           IN  /\ next \in ActiveTasks
               /\ \A t \in ActiveTasks : GetWeight(sched, t) <= GetWeight(sched, next)
<1> DEFINE next == GetNext(sched.m_strategy)
           w == Weights(sched)
<1>1. /\ Placed(sched.m_strategy, Tasks, ActiveTasks, w) /\ ActiveTasks \subseteq Tasks
      /\ w \in [Tasks -> Priorities] /\ \A t \in Tasks : w[t] = GetWeight(sched, t)
  BY WeightsLemma DEF SchedInv, SchedOK, ActiveTasks
<1> HIDE DEF w
<1>2. next \in ActiveTasks /\ \A t \in ActiveTasks : w[t] <= w[next]
  BY <1>1, TaskIds, GetNextLemma
<1> QED
  BY <1>1, <1>2

LEMMA NoPickLemma ==
    ASSUME SchedInv, ActiveTasks = {}
    PROVE  GetNext(sched.m_strategy) = NONE
<1> DEFINE w == Weights(sched)
           x == sched.m_strategy
           A == ActiveTasks
<1>1. Placed(x, Tasks, A, w) /\ A \subseteq Tasks /\ w \in [Tasks -> Priorities] /\ A = {}
  BY WeightsLemma DEF SchedInv, SchedOK, ActiveTasks
<1> HIDE DEF w, x, A
<1> QED
  BY <1>1, TaskIds, GetNextLemma DEF x

LEMMA TickNextLemma ==
    ASSUME IInv, SchedInv, TickOK, [Next]_vars
    PROVE  TickOK'
<1> DEFINE N == Cardinality(Tasks)
<1>0. Types /\ N \in Nat /\ Tasks = 1..N
  BY SlotsLemma DEF IInv
<1> HIDE DEF N
<1>1. ASSUME UNCHANGED vars PROVE TickOK'
  BY <1>1 DEF vars, mutexVars, tickVars, TickOK
<1>2. CASE Tick
  BY <1>0, <1>2 DEF Tick, mutexVars, TickOK, N
<1>3. CASE SwitchContext
  <2>1. cpu' \in Tasks \cup {NONE}
    <3>1. cpu' = GetNext(sched.m_strategy)
      BY <1>3 DEF SwitchContext
    <3> QED
      BY <3>1, PickLemma, NoPickLemma DEF ActiveTasks
  <2> QED
    BY <1>0, <1>3, <2>1 DEF SwitchContext, mutexVars, TickOK, N
<1>4. ASSUME NEW t \in Tasks, UpdateSyncObjects(t) PROVE TickOK'
  <2>1. /\ UNCHANGED <<m_recursion_count, pended, cpu>>
        /\ phase = "sync" /\ idx = t
        /\ IF t = N THEN phase' = "state" /\ idx' = 1 ELSE idx' = t + 1 /\ phase' = "sync"
    BY <1>4 DEF UpdateSyncObjects, mutexVars, N
  <2>2. idx' \in 1..(N + 1) /\ phase' \in {"run", "sync", "state"}
        /\ (phase' = "state" => \A u \in pended : u >= idx')
    BY <1>0, <2>1 DEF TickOK
  <2> QED
    BY <2>1, <2>2 DEF TickOK, N
<1>5. ASSUME NEW t \in Tasks, UpdateTaskState(t) PROVE TickOK'
  <2>1. /\ UNCHANGED <<m_recursion_count, cpu, phase>>
        /\ phase = "state" /\ idx = t /\ idx' = t + 1 /\ pended' = pended \ {t}
    BY <1>5 DEF UpdateTaskState, mutexVars
  <2>2. idx' \in 1..(N + 1) /\ \A u \in pended' : u >= idx'
    BY <1>0, <2>1 DEF TickOK
  <2> QED
    BY <2>1, <2>2 DEF TickOK, N
<1>6. ASSUME NEW t \in Tasks, TaskStep(t) PROVE TickOK'
  <2>1. phase = "run" /\ UNCHANGED tickVars
    BY <1>6 DEF TaskStep, Sleep, LockWaitReturns, Unlock, TimedLock, InTask, Executes
  <2>2. pended' \in {pended, pended \cup {t}}
    BY <1>6 DEF TaskStep, Sleep, LockWaitReturns, Unlock, TimedLock, ScheduleSleep,
                LockRecursive, LockFree, LockWait, LockBusy
  <2> DEFINE c == m_recursion_count
             Set(m, n) == m_recursion_count' = [m_recursion_count EXCEPT ![m] = n]
  <2>3. \/ UNCHANGED m_recursion_count
        \/ \E m \in Mutexes : \/ c[m] < RECURSION_MAX /\ Set(m, c[m] + 1)
                             \/ Set(m, 1) \/ Set(m, c[m] - 1) \/ Set(m, 0)
    BY <1>6 DEF TaskStep, Sleep, LockWaitReturns, Unlock, TimedLock, LockRecursive, LockFree,
                LockWait, LockBusy, PassOwnership, FreeMutex, mutexVars
  <2>4. \A m \in Mutexes : m_recursion_count'[m] <= RECURSION_MAX
    <3>1. /\ c \in [Mutexes -> Nat] /\ RECURSION_MAX \in Nat \ {0}
          /\ \A m \in Mutexes : c[m] <= RECURSION_MAX
      BY <1>0, RecursionAssumption DEF Types, TickOK
    <3>2. CASE UNCHANGED m_recursion_count
      BY <3>1, <3>2
    <3>3. ASSUME NEW m \in Mutexes, c[m] < RECURSION_MAX, Set(m, c[m] + 1)
          PROVE  \A o \in Mutexes : m_recursion_count'[o] <= RECURSION_MAX
      BY <3>1, <3>3
    <3>4. ASSUME NEW m \in Mutexes, Set(m, 1) \/ Set(m, c[m] - 1) \/ Set(m, 0)
          PROVE  \A o \in Mutexes : m_recursion_count'[o] <= RECURSION_MAX
      BY <3>1, <3>4
    <3> QED
      BY <2>3, <3>2, <3>3, <3>4
  <2> QED
    BY <2>1, <2>2, <2>4 DEF TickOK, tickVars
<1> QED
  BY <1>1, <1>2, <1>3, <1>4, <1>5, <1>6 DEF Next

THEOREM TickInvariance == Spec => []TickOK
<1>1. Init => TickOK
  BY SlotsLemma, RecursionAssumption DEF Init, TickOK
<1>2. IInv /\ SchedInv /\ TickOK /\ [Next]_vars => TickOK'
  BY TickNextLemma
<1> QED
  BY <1>1, <1>2, Invariance, SchedInvariance, PTL DEF Spec

(* Type correctness, with the bound of the recursion count *)
THEOREM TypeCorrect == Spec => []TypeOK
<1>1. ASSUME IInv, SchedInv, TickOK PROVE TypeOK
  <2>1. Types /\ OwnershipExact /\ sched \in SchedType
    BY <1>1 DEF IInv, SchedInv, SchedOK
  <2>2. m_recursion_count \in [Mutexes -> 0..RECURSION_MAX]
    BY <1>1, <2>1, RecursionAssumption DEF Types, TickOK
  <2>3. held \in [Tasks -> [Mutexes -> 0..RECURSION_MAX]]
    <3>1. ASSUME NEW t \in Tasks PROVE held[t] \in [Mutexes -> 0..RECURSION_MAX]
      <4>1. held[t] \in [Mutexes -> Nat]
        BY <2>1 DEF Types
      <4>2. ASSUME NEW m \in Mutexes PROVE held[t][m] \in 0..RECURSION_MAX
        <5>1. CASE held[t][m] > 0
          BY <2>1, <2>2, <4>1, <5>1 DEF OwnershipExact
        <5>2. CASE ~(held[t][m] > 0)
          BY <4>1, <5>2, RecursionAssumption
        <5> QED
          BY <5>1, <5>2
      <4> QED
        BY <4>1, <4>2
    <3> QED
      BY <2>1, <3>1 DEF Types
  <2>4. sched.m_rt_weight \in [Tasks -> Priorities \cup {NO_WEIGHT}]
    BY <2>1 DEF SchedType, WeightType
  <2>5. wait \in [list: [Mutexes -> Seq(Tasks)], time: [Tasks -> 0..WAIT_INFINITE],
                  timeout: [Tasks -> BOOLEAN]]
    BY <2>1 DEF Types, WaitType, WaitTypeIn, Times, Mutexes
  <2>6. call \in [Tasks -> [mutex: Mutexes, owner: Tasks] \cup {NoCall}]
    BY <2>1 DEF Types, CallType
  <2> QED
    BY <1>1, <2>1, <2>2, <2>3, <2>4, <2>5, <2>6 DEF TypeOK, Types, TickOK
<1> QED
  BY <1>1, Invariance, SchedInvariance, TickInvariance, PTL

(* At the end of a tick no sleep is left that the strategy has not heard of *)
LEMMA SwitchLemma ==
    ASSUME SchedInv, TickOK, SwitchContext
    PROVE  \A t \in Tasks : sleep[t] = "awake" =>
                /\ cpu' # NONE /\ sleep[cpu'] = "awake"
                /\ GetWeight(sched, t) <= GetWeight(sched, cpu')
<1>1. cpu' = GetNext(sched.m_strategy) /\ phase = "state" /\ idx = Cardinality(Tasks) + 1
  BY DEF SwitchContext
<1>2. pended = {}
  BY <1>1, SlotsLemma DEF TickOK
<1>3. ActiveTasks = {t \in Tasks : sleep[t] = "awake"}
  BY <1>2 DEF ActiveTasks, Active
<1>4. ASSUME ActiveTasks # {}
      PROVE  /\ cpu' \in ActiveTasks
             /\ \A t \in ActiveTasks : GetWeight(sched, t) <= GetWeight(sched, cpu')
  BY <1>1, <1>4, PickLemma
<1> QED
  BY <1>3, <1>4, TaskIds

(* "A task at priority N will never run while any task at priority > N is runnable":
   whatever was locked, handed over, boosted or timed out since the last tick, a
   tick switches to an awake task of the highest weight *)
THEOREM HighestRuns == Spec => HighestPriorityRuns
<1> DEFINE A == phase = "state" /\ phase' = "run" =>
                    \A t \in Tasks : sleep[t] = "awake" =>
                        /\ cpu' # NONE /\ sleep[cpu'] = "awake"
                        /\ GetWeight(sched, t) <= GetWeight(sched, cpu')
<1>1. ASSUME SchedInv, TickOK, Next PROVE A
  <2>1. CASE SwitchContext
    BY <1>1, <2>1, SwitchLemma
  <2>2. CASE Tick
    BY <2>2 DEF Tick
  <2>3. ASSUME NEW t \in Tasks, UpdateSyncObjects(t) \/ UpdateTaskState(t)
        PROVE  ~(phase = "state" /\ phase' = "run")
    BY <2>3 DEF UpdateSyncObjects, UpdateTaskState
  <2>4. ASSUME NEW t \in Tasks, TaskStep(t) PROVE phase = "run"
    BY <2>4 DEF TaskStep, Sleep, LockWaitReturns, Unlock, TimedLock, InTask, Executes
  <2> QED
    BY <1>1, <2>1, <2>2, <2>3, <2>4 DEF Next
<1>2. SchedInv /\ TickOK /\ [Next]_vars => [A]_vars
  BY <1>1
<1> QED
  BY <1>2, SchedInvariance, TickInvariance, PTL DEF Spec, HighestPriorityRuns
=============================================================================
