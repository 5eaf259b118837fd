---------------------------- MODULE KernelProofs ----------------------------
(***************************************************************************)
(* The safety properties of Kernel, for every number of slots and tasks    *)
(* and every set of calls, as long as no interrupt calls Suspend between   *)
(* the tick and the context switch it asked for.                           *)
(***************************************************************************)
EXTENDS Kernel, LinkedListProofs

-----------------------------------------------------------------------------
(* What the methods of SwitchStrategyRoundRobin do to its two lists and to its cursor,
   for tasks of any set S *)

(* A well-formed state of the strategy: no task twice in a list, no task in
   both, the cursor on a runnable task if there is one *)
CursorOK(s) == IF s.m_tasks = <<>> THEN s.m_prev = NONE
                                   ELSE IsLinked(s.m_tasks, s.m_prev)

StrategyType(S) == [m_tasks: Seq(S), m_sleep: Seq(S), m_prev: S \cup {NONE}]

StrategyOK(s, S) ==
    /\ s \in StrategyType(S)
    /\ NoDuplicates(s.m_tasks) /\ NoDuplicates(s.m_sleep)
    /\ CursorOK(s)

-----------------------------------------------------------------------------
(* The strategy *)

(* RemoveActive takes one task out of m_tasks and leaves the cursor on another
   one, or null if there is none *)
LEMMA RemoveActiveLemma ==
    ASSUME NEW S, NONE \notin S, NEW s, StrategyOK(s, S),
           NEW k, IsLinked(s.m_tasks, k)
    PROVE  LET r == RemoveActive(s, k)
           IN  /\ StrategyOK(r, S)
               /\ \A j : IsLinked(r.m_tasks, j) <=> IsLinked(s.m_tasks, j) /\ j # k
               /\ r.m_sleep = s.m_sleep
               /\ Len(r.m_tasks) = Len(s.m_tasks) - 1
<1> DEFINE next == LoopNext(s.m_tasks, k)
           rest == Unlink(s.m_tasks, k)
           prev == IF next # k THEN LoopPrev(rest, next) ELSE NONE
           r == RemoveActive(s, k)
<1>1. /\ s \in [m_tasks: Seq(S), m_sleep: Seq(S), m_prev: S \cup {NONE}]
      /\ s.m_tasks \in Seq(S) /\ NoDuplicates(s.m_tasks)
      /\ s.m_sleep \in Seq(S) /\ NoDuplicates(s.m_sleep)
  BY DEF StrategyOK, StrategyType
<1>2. /\ rest \in Seq(S) /\ NoDuplicates(rest) /\ Len(rest) = Len(s.m_tasks) - 1
      /\ \A j : IsLinked(rest, j) <=> IsLinked(s.m_tasks, j) /\ j # k
  BY <1>1, UnlinkLemma
<1>3. next \in S /\ IsLinked(s.m_tasks, next) /\ (next = k <=> Len(s.m_tasks) = 1)
  BY <1>1, LoopLemma
<1>4. next # k => LoopPrev(rest, next) \in S /\ IsLinked(rest, LoopPrev(rest, next))
  BY <1>2, <1>3, LoopLemma
<1>5. r = [s EXCEPT !.m_tasks = rest, !.m_prev = prev]
  BY DEF RemoveActive
<1> HIDE DEF next, rest, r
<1>6. prev \in S \cup {NONE}
  BY <1>4
<1>7. /\ r \in [m_tasks: Seq(S), m_sleep: Seq(S), m_prev: S \cup {NONE}]
      /\ r.m_tasks = rest /\ r.m_sleep = s.m_sleep /\ r.m_prev = prev
  BY <1>1, <1>2, <1>5, <1>6
<1>8. rest = <<>> <=> next = k
  <2>1. Len(s.m_tasks) \in Nat /\ (rest = <<>> <=> Len(rest) = 0)
    BY <1>1, <1>2, EmptyLemma
  <2> QED
    BY <2>1, <1>2, <1>3
<1>9. CursorOK(r)
  BY <1>4, <1>7, <1>8 DEF CursorOK
<1> QED
  BY <1>1, <1>2, <1>7, <1>9 DEF StrategyOK, StrategyType, r

(* AddActive appends to m_tasks and sets a null cursor *)
LEMMA AddActiveLemma ==
    ASSUME NEW S, NONE \notin S, NEW s, StrategyOK(s, S),
           NEW k \in S, ~IsLinked(s.m_tasks, k)
    PROVE  LET r == AddActive(s, k)
           IN  /\ StrategyOK(r, S)
               /\ \A j : IsLinked(r.m_tasks, j) <=> IsLinked(s.m_tasks, j) \/ j = k
               /\ r.m_sleep = s.m_sleep
<1> DEFINE more == Append(s.m_tasks, k)
           prev == IF s.m_prev = NONE THEN k ELSE s.m_prev
           r == AddActive(s, k)
<1>1. /\ s \in [m_tasks: Seq(S), m_sleep: Seq(S), m_prev: S \cup {NONE}]
      /\ s.m_tasks \in Seq(S) /\ NoDuplicates(s.m_tasks)
      /\ NoDuplicates(s.m_sleep)
      /\ s.m_prev \in S \cup {NONE}
      /\ s.m_prev # NONE => IsLinked(s.m_tasks, s.m_prev)
  BY DEF StrategyOK, StrategyType, CursorOK
<1>2. /\ more \in Seq(S) /\ more # <<>> /\ NoDuplicates(more)
      /\ \A j : IsLinked(more, j) <=> IsLinked(s.m_tasks, j) \/ j = k
  BY <1>1, AppendLemma
<1>3. r = [s EXCEPT !.m_tasks = more, !.m_prev = prev]
  BY DEF AddActive
<1> HIDE DEF more, r
<1>4. prev \in S /\ IsLinked(more, prev)
  BY <1>1, <1>2
<1>5. /\ r \in [m_tasks: Seq(S), m_sleep: Seq(S), m_prev: S \cup {NONE}]
      /\ r.m_tasks = more /\ r.m_sleep = s.m_sleep /\ r.m_prev = prev
  BY <1>1, <1>2, <1>3, <1>4
<1> QED
  BY <1>1, <1>2, <1>4, <1>5 DEF StrategyOK, StrategyType, CursorOK, r

(* AddTask appends to m_tasks; the cursor stays, or is the new tail *)
LEMMA AddTaskLemma ==
    ASSUME NEW S, NONE \notin S, NEW s, StrategyOK(s, S),
           NEW k \in S, ~IsLinked(s.m_tasks, k)
    PROVE  LET r == AddTask(s, k)
           IN  /\ StrategyOK(r, S)
               /\ \A j : IsLinked(r.m_tasks, j) <=> IsLinked(s.m_tasks, j) \/ j = k
               /\ r.m_sleep = s.m_sleep
<1> DEFINE more == Append(s.m_tasks, k)
           prev == IF AtTail(s) THEN k ELSE s.m_prev
           r == AddTask(s, k)
<1>1. /\ s \in [m_tasks: Seq(S), m_sleep: Seq(S), m_prev: S \cup {NONE}]
      /\ s.m_tasks \in Seq(S) /\ NoDuplicates(s.m_tasks)
      /\ NoDuplicates(s.m_sleep)
      /\ s.m_prev \in S \cup {NONE}
      /\ AtTail(s) \/ IsLinked(s.m_tasks, s.m_prev)
  BY DEF StrategyOK, StrategyType, CursorOK, AtTail
<1>2. /\ more \in Seq(S) /\ more # <<>> /\ NoDuplicates(more)
      /\ \A j : IsLinked(more, j) <=> IsLinked(s.m_tasks, j) \/ j = k
  BY <1>1, AppendLemma
<1>3. r = [s EXCEPT !.m_tasks = more, !.m_prev = prev]
  BY DEF AddTask
<1> HIDE DEF more, r
<1>4. prev \in S \cup {NONE} /\ IsLinked(more, prev)
  BY <1>1, <1>2
<1>5. /\ r \in [m_tasks: Seq(S), m_sleep: Seq(S), m_prev: S \cup {NONE}]
      /\ r.m_tasks = more /\ r.m_sleep = s.m_sleep /\ r.m_prev = prev
  BY <1>1, <1>2, <1>3, <1>4
<1> QED
  BY <1>1, <1>2, <1>4, <1>5 DEF StrategyOK, StrategyType, CursorOK, r

(* OnTaskSleep moves a task from m_tasks to m_sleep *)
LEMMA OnTaskSleepLemma ==
    ASSUME NEW S, NONE \notin S, NEW s, StrategyOK(s, S),
           NEW k \in S, IsLinked(s.m_tasks, k), ~IsLinked(s.m_sleep, k)
    PROVE  LET r == OnTaskSleep(s, k)
           IN  /\ StrategyOK(r, S)
               /\ \A j : IsLinked(r.m_tasks, j) <=> IsLinked(s.m_tasks, j) /\ j # k
               /\ \A j : IsLinked(r.m_sleep, j) <=> IsLinked(s.m_sleep, j) \/ j = k
<1> DEFINE a == RemoveActive(s, k)
           more == Append(s.m_sleep, k)
           r == OnTaskSleep(s, k)
<1>1. /\ StrategyOK(a, S) /\ a.m_sleep = s.m_sleep
      /\ \A j : IsLinked(a.m_tasks, j) <=> IsLinked(s.m_tasks, j) /\ j # k
  BY RemoveActiveLemma
<1>2. s.m_sleep \in Seq(S) /\ NoDuplicates(s.m_sleep)
  BY DEF StrategyOK, StrategyType
<1>3. /\ more \in Seq(S) /\ NoDuplicates(more)
      /\ \A j : IsLinked(more, j) <=> IsLinked(s.m_sleep, j) \/ j = k
  BY <1>2, AppendLemma
<1>4. r = [a EXCEPT !.m_sleep = more]
  BY <1>1 DEF OnTaskSleep
<1> HIDE DEF a, more, r
<1>5. /\ r \in [m_tasks: Seq(S), m_sleep: Seq(S), m_prev: S \cup {NONE}]
      /\ r.m_tasks = a.m_tasks /\ r.m_sleep = more /\ r.m_prev = a.m_prev
  BY <1>1, <1>3, <1>4 DEF StrategyOK, StrategyType
<1> QED
  BY <1>1, <1>3, <1>5 DEF StrategyOK, StrategyType, CursorOK, r

(* Taking a task out of m_sleep leaves the rest of the strategy alone *)
LEMMA UnlinkSleepLemma ==
    ASSUME NEW S, NEW s, StrategyOK(s, S), NEW k, IsLinked(s.m_sleep, k)
    PROVE  LET r == [s EXCEPT !.m_sleep = Unlink(s.m_sleep, k)]
           IN  /\ StrategyOK(r, S)
               /\ r.m_tasks = s.m_tasks
               /\ \A j : IsLinked(r.m_sleep, j) <=> IsLinked(s.m_sleep, j) /\ j # k
               /\ Len(r.m_sleep) = Len(s.m_sleep) - 1
<1> DEFINE rest == Unlink(s.m_sleep, k)
           r == [s EXCEPT !.m_sleep = rest]
<1>1. s.m_sleep \in Seq(S) /\ NoDuplicates(s.m_sleep)
  BY DEF StrategyOK, StrategyType
<1>2. /\ rest \in Seq(S) /\ NoDuplicates(rest) /\ Len(rest) = Len(s.m_sleep) - 1
      /\ \A j : IsLinked(rest, j) <=> IsLinked(s.m_sleep, j) /\ j # k
  BY <1>1, UnlinkLemma
<1> HIDE DEF rest
<1>3. /\ r \in [m_tasks: Seq(S), m_sleep: Seq(S), m_prev: S \cup {NONE}]
      /\ r.m_tasks = s.m_tasks /\ r.m_sleep = rest /\ r.m_prev = s.m_prev
  BY <1>2 DEF StrategyOK, StrategyType
<1> HIDE DEF r
<1>4. StrategyOK(r, S)
  BY <1>2, <1>3 DEF StrategyOK, StrategyType, CursorOK
<1> QED
  BY <1>2, <1>3, <1>4 DEF rest, r

(* OnTaskWake moves a task from m_sleep to m_tasks *)
LEMMA OnTaskWakeLemma ==
    ASSUME NEW S, NONE \notin S, NEW s, StrategyOK(s, S),
           NEW k \in S, IsLinked(s.m_sleep, k), ~IsLinked(s.m_tasks, k)
    PROVE  LET r == OnTaskWake(s, k)
           IN  /\ StrategyOK(r, S)
               /\ \A j : IsLinked(r.m_tasks, j) <=> IsLinked(s.m_tasks, j) \/ j = k
               /\ \A j : IsLinked(r.m_sleep, j) <=> IsLinked(s.m_sleep, j) /\ j # k
<1> DEFINE a == [s EXCEPT !.m_sleep = Unlink(s.m_sleep, k)]
           r == AddActive(a, k)
<1>1. /\ StrategyOK(a, S) /\ a.m_tasks = s.m_tasks
      /\ \A j : IsLinked(a.m_sleep, j) <=> IsLinked(s.m_sleep, j) /\ j # k
  BY UnlinkSleepLemma
<1> HIDE DEF a
<1>2. /\ StrategyOK(r, S) /\ r.m_sleep = a.m_sleep
      /\ \A j : IsLinked(r.m_tasks, j) <=> IsLinked(s.m_tasks, j) \/ j = k
  BY <1>1, AddActiveLemma
<1>3. OnTaskWake(s, k) = r
  BY DEF OnTaskWake, a
<1> QED
  BY <1>1, <1>2, <1>3

(* RemoveTask takes a task out of the list it is in; of a strategy of one task
   nothing is left *)
LEMMA RemoveTaskLemma ==
    ASSUME NEW S, NONE \notin S, NEW s, StrategyOK(s, S), NEW k,
           IsLinked(s.m_tasks, k) \/ IsLinked(s.m_sleep, k),
           ~(IsLinked(s.m_tasks, k) /\ IsLinked(s.m_sleep, k))
    PROVE  LET r == RemoveTask(s, k)
           IN  /\ StrategyOK(r, S)
               /\ \A j : IsLinked(r.m_tasks, j) <=> IsLinked(s.m_tasks, j) /\ j # k
               /\ \A j : IsLinked(r.m_sleep, j) <=> IsLinked(s.m_sleep, j) /\ j # k
               /\ GetSize(r) = GetSize(s) - 1
<1>1. Len(s.m_tasks) \in Nat /\ Len(s.m_sleep) \in Nat
  BY DEF StrategyOK, StrategyType
<1>2. CASE IsLinked(s.m_tasks, k)
  <2>1. RemoveTask(s, k) = RemoveActive(s, k)
    BY <1>2 DEF RemoveTask
  <2> DEFINE r == RemoveActive(s, k)
  <2>2. /\ StrategyOK(r, S) /\ r.m_sleep = s.m_sleep
        /\ \A j : IsLinked(r.m_tasks, j) <=> IsLinked(s.m_tasks, j) /\ j # k
        /\ Len(r.m_tasks) = Len(s.m_tasks) - 1
    BY <1>2, RemoveActiveLemma
  <2> HIDE DEF r
  <2>3. \A j : IsLinked(r.m_sleep, j) <=> IsLinked(s.m_sleep, j) /\ j # k
    BY <1>2, <2>2
  <2>4. GetSize(r) = GetSize(s) - 1
    BY <1>1, <2>2 DEF GetSize
  <2> QED
    BY <2>1, <2>2, <2>3, <2>4 DEF r
<1>3. CASE ~IsLinked(s.m_tasks, k)
  <2>1. RemoveTask(s, k) = [s EXCEPT !.m_sleep = Unlink(s.m_sleep, k)]
    BY <1>3 DEF RemoveTask
  <2> DEFINE r == [s EXCEPT !.m_sleep = Unlink(s.m_sleep, k)]
  <2>2. /\ StrategyOK(r, S) /\ r.m_tasks = s.m_tasks
        /\ \A j : IsLinked(r.m_sleep, j) <=> IsLinked(s.m_sleep, j) /\ j # k
        /\ Len(r.m_sleep) = Len(s.m_sleep) - 1
    BY <1>3, UnlinkSleepLemma
  <2> HIDE DEF r
  <2>3. \A j : IsLinked(r.m_tasks, j) <=> IsLinked(s.m_tasks, j) /\ j # k
    BY <1>3, <2>2
  <2>4. GetSize(r) = GetSize(s) - 1
    BY <1>1, <2>2 DEF GetSize
  <2> QED
    BY <2>1, <2>2, <2>3, <2>4 DEF r
<1> QED
  BY <1>2, <1>3

(* GetNext returns a runnable task if there is one, and moves only the cursor *)
LEMMA GetNextLemma ==
    ASSUME NEW S, NONE \notin S, NEW s, StrategyOK(s, S)
    PROVE  /\ StrategyOK(Advanced(s), S)
           /\ Advanced(s).m_tasks = s.m_tasks /\ Advanced(s).m_sleep = s.m_sleep
           /\ GetNext(s) = NONE <=> s.m_tasks = <<>>
           /\ GetNext(s) # NONE => GetNext(s) \in S /\ IsLinked(s.m_tasks, GetNext(s))
<1> DEFINE next == GetNext(s)
           r == Advanced(s)
<1>1. s.m_tasks \in Seq(S) /\ NoDuplicates(s.m_tasks) /\ CursorOK(s)
  BY DEF StrategyOK, StrategyType
<1>2. s.m_prev = NONE <=> s.m_tasks = <<>>
  <2>1. IsLinked(s.m_tasks, s.m_prev) => s.m_prev \in S
    BY <1>1 DEF IsLinked
  <2> QED
    BY <1>1, <2>1 DEF CursorOK
<1>3. CASE s.m_prev = NONE
  <2>1. next = NONE
    BY <1>3 DEF GetNext
  <2> QED
    BY <1>1, <1>2, <1>3, <2>1 DEF Advanced, StrategyOK, StrategyType, CursorOK
<1>4. CASE s.m_prev # NONE
  <2>1. next = LoopNext(s.m_tasks, s.m_prev)
    BY <1>4 DEF GetNext
  <2>2. next \in S /\ IsLinked(s.m_tasks, next)
    BY <1>1, <1>2, <1>4, <2>1, LoopLemma DEF CursorOK
  <2>3. r = [s EXCEPT !.m_prev = next]
    BY DEF Advanced
  <2> HIDE DEF next, r
  <2>4. /\ r \in [m_tasks: Seq(S), m_sleep: Seq(S), m_prev: S \cup {NONE}]
        /\ r.m_tasks = s.m_tasks /\ r.m_sleep = s.m_sleep /\ r.m_prev = next
    BY <2>2, <2>3 DEF StrategyOK, StrategyType
  <2>5. StrategyOK(r, S)
    BY <1>2, <1>4, <2>2, <2>4 DEF StrategyOK, StrategyType, CursorOK
  <2> QED
    BY <1>2, <1>4, <2>2, <2>4, <2>5 DEF next, r
<1> QED
  BY <1>3, <1>4

(* GetFirst returns a task of the strategy, if it has one *)
LEMMA GetFirstLemma ==
    ASSUME NEW S, NEW s, StrategyOK(s, S), GetSize(s) # 0
    PROVE  /\ GetFirst(s) \in S
           /\ IsLinked(s.m_tasks, GetFirst(s)) \/ IsLinked(s.m_sleep, GetFirst(s))
<1>1. s.m_tasks \in Seq(S) /\ s.m_sleep \in Seq(S)
  BY DEF StrategyOK, StrategyType
<1>2. \A q \in Seq(S) : q # <<>> => q[1] \in S /\ IsLinked(q, q[1])
  BY DEF IsLinked
<1>3. s.m_tasks # <<>> \/ s.m_sleep # <<>>
  <2>1. /\ s.m_tasks = <<>> <=> Len(s.m_tasks) = 0
        /\ s.m_sleep = <<>> <=> Len(s.m_sleep) = 0
    BY <1>1, EmptyLemma
  <2>2. Len(s.m_tasks) + Len(s.m_sleep) # 0
    BY DEF GetSize
  <2>3. Len(s.m_tasks) \in Nat /\ Len(s.m_sleep) \in Nat
    BY <1>1, EmptyLemma
  <2>4. \A a, b \in Nat : a + b # 0 => ~(a = 0 /\ b = 0)
    OBVIOUS
  <2> QED
    BY <2>1, <2>2, <2>3, <2>4, Zenon
<1> QED
  BY <1>1, <1>2, <1>3 DEF GetFirst

(* GetSize is zero only if nothing is linked *)
LEMMA GetSizeLemma ==
    ASSUME NEW S, NEW s, StrategyOK(s, S), GetSize(s) = 0
    PROVE  \A j : ~IsLinked(s.m_tasks, j) /\ ~IsLinked(s.m_sleep, j)
<1> DEFINE a == Len(s.m_tasks)
           b == Len(s.m_sleep)
<1>1. a \in Nat /\ b \in Nat /\ a + b = 0
  BY EmptyLemma DEF GetSize, StrategyOK, StrategyType
<1> HIDE DEF a, b
<1>2. a = 0 /\ b = 0
  BY <1>1
<1> QED
  BY <1>2 DEF IsLinked, a, b

-----------------------------------------------------------------------------
(* Every slot: what sleeps is bound, what is pending to sleep sleeps *)
SlotsOK == \A k \in Slots :
    /\ IsSleeping(k) => IsBusy(k)
    /\ "SLEEP_PENDING" \in m_state[k] => IsSleeping(k)

(* A SleepCancel under way holds a slot *)
CancelsOK == \A k \in Slots : pc[k] = "cancel" => found[k] \in Slots

(* The sleep events of the slots the handler's loop has passed are delivered *)
EventsDelivered ==
    /\ phase = "fsm" => \A k \in Slots : "SLEEP_PENDING" \notin m_state[k]
    /\ phase \in {"start", "state"} =>
        \A k \in Slots : k < idx => "SLEEP_PENDING" \notin m_state[k]

(* What the processor executes, outside the handler, in it, and when the
   context switch is pending *)
TaskExecuted(context) ==
    /\ context = m_task_now /\ IsBusy(context)
    /\ m_fsm_state \in {"SWITCHING", "WAKING"}

ExecOK ==
    /\ phase = "start" => /\ cpu = EXIT_TRAP /\ m_task_now = NONE
                          /\ \E k \in Slots : IsBusy(k)
    /\ phase = "none" /\ cpu = EXIT_TRAP => m_task_now = NONE
    /\ phase \in {"request", "state", "fsm"} => cpu # EXIT_TRAP
    /\ phase \in {"none", "request", "state", "fsm"} =>
        /\ cpu \in Slots => TaskExecuted(cpu)
        /\ cpu = SLEEP_TRAP =>
            /\ m_task_now \in Slots /\ m_fsm_state = "SLEEPING"
            /\ \/ IsBusy(m_task_now)
               \/ phase \in {"state", "fsm"} /\ \A k \in Slots : ~IsBusy(k)
    /\ phase = "none" /\ cpu = SLEEP_TRAP => strat.m_tasks = <<>>
    /\ phase = "pendsv" =>
        /\ m_stack_idle = cpu
        /\ \/ m_stack_active \in Slots /\ TaskExecuted(m_stack_active)
           \/ /\ m_stack_active = SLEEP_TRAP /\ m_fsm_state = "SLEEPING"
              /\ m_task_now \in Slots /\ IsBusy(m_task_now)
              /\ strat.m_tasks = <<>>

(* A request to add a task is on its way as long as it is not served *)
RequestsOK ==
    /\ phase \in {"request", "state", "fsm"} => ~m_request
    /\ \A k \in Slots : add_task_req[k] # NoTask =>
        /\ IsBusy(k) /\ pc[k] \in {"request", "scheduled", "added"}
        /\ pc[k] # "request" => m_request \/ (phase = "request" /\ idx <= k)
        /\ pc[k] = "added" => IsSleeping(k)

(* The inductive invariant *)
IInv ==
    /\ TypeOK
    /\ ListsConsistent
    /\ CursorIsRunnable
    /\ SlotsOK
    /\ CancelsOK
    /\ EventsDelivered
    /\ ExecOK
    /\ RequestsOK

-----------------------------------------------------------------------------
(* What the calls do to the records of the slots *)

(* The parts of the invariant about the records of the slots and the lists *)
RecordsOK ==
    /\ m_time_sleep \in [Slots -> Int]
    /\ m_state \in [Slots -> SUBSET {"SLEEP_PENDING", "REMOVE_PENDING"}]
    /\ ListsConsistent
    /\ SlotsOK

(* ScheduleSleep and ScheduleRemoval of a bound slot: a slot the strategy has as
   runnable is marked, so that the lists remain consistent before the tick *)
LEMMA MarkLemma ==
    ASSUME RecordsOK, NEW k \in Slots, IsBusy(k), NEW ticks \in Nat \ {0},
           NEW flags \in SUBSET {"REMOVE_PENDING"},
           m_state' = [m_state EXCEPT ![k] = SleepPended(k) \cup flags],
           m_time_sleep' = [m_time_sleep EXCEPT ![k] = -ticks],
           UNCHANGED <<m_user, strat>>
    PROVE  RecordsOK' /\ \A j \in Slots : IsSleeping(j) => IsSleeping(j)'
<1>1. /\ m_time_sleep' \in [Slots -> Int] /\ m_time_sleep'[k] < 0
      /\ \A j \in Slots : j # k => m_time_sleep'[j] = m_time_sleep[j]
  BY DEF RecordsOK
<1>2. SleepPended(k) \cup flags \in SUBSET {"SLEEP_PENDING", "REMOVE_PENDING"}
  BY DEF RecordsOK, SleepPended
<1>3. /\ m_state' \in [Slots -> SUBSET {"SLEEP_PENDING", "REMOVE_PENDING"}]
      /\ m_state'[k] = SleepPended(k) \cup flags
      /\ \A j \in Slots : j # k => m_state'[j] = m_state[j]
  BY <1>2 DEF RecordsOK
<1>4. "SLEEP_PENDING" \in m_state'[k]
      <=> ~IsSleeping(k) \/ "SLEEP_PENDING" \in m_state[k]
  BY <1>3 DEF SleepPended
<1>5. \A j \in Slots : IsSleeping(j)' <=> j = k \/ IsSleeping(j)
  BY <1>1 DEF IsSleeping
<1>6. \A j \in Slots : IsBusy(j)' <=> IsBusy(j)
  BY DEF IsBusy
<1>7. SlotsOK'
  BY <1>3, <1>4, <1>5, <1>6 DEF RecordsOK, SlotsOK
<1>8. ListsConsistent'
  BY <1>3, <1>4, <1>5, <1>6 DEF RecordsOK, ListsConsistent
<1> QED
  BY <1>1, <1>3, <1>5, <1>7, <1>8 DEF RecordsOK

(* ScheduleSleep leaves the strategy's lists consistent with the task records *)
LEMMA ScheduleSleepLemma ==
    ASSUME RecordsOK, NEW k \in Slots, IsBusy(k), NEW ticks \in Nat \ {0},
           ScheduleSleep(k, ticks), UNCHANGED <<m_user, strat>>
    PROVE  /\ RecordsOK' /\ IsSleeping(k)'
           /\ \A j \in Slots : IsSleeping(j) => IsSleeping(j)'
<1>1. m_state' = [m_state EXCEPT ![k] = SleepPended(k) \cup {}]
  BY DEF ScheduleSleep
<1>2. m_time_sleep' = [m_time_sleep EXCEPT ![k] = -ticks]
  BY DEF ScheduleSleep
<1>3. IsSleeping(k)'
  BY <1>2 DEF RecordsOK, IsSleeping
<1>4. {} \in SUBSET {"REMOVE_PENDING"}
  OBVIOUS
<1> QED
  BY <1>1, <1>2, <1>3, <1>4, MarkLemma

(* So does ScheduleRemoval *)
LEMMA ScheduleRemovalLemma ==
    ASSUME RecordsOK, NEW k \in Slots, IsBusy(k),
           ScheduleRemoval(k), UNCHANGED <<m_user, strat>>
    PROVE  RecordsOK' /\ \A j \in Slots : IsSleeping(j) => IsSleeping(j)'
<1>1. WAIT_INFINITE \in Nat \ {0}
  BY TimeoutAssumption DEF YIELD_TICKS
<1> QED
  BY <1>1, MarkLemma DEF ScheduleRemoval

(* Wake changes how long a slot sleeps, not that it sleeps *)
LEMMA WakeLemma ==
    ASSUME RecordsOK, NEW k \in Slots, Wake(k), UNCHANGED <<m_user, m_state, strat>>
    PROVE  RecordsOK' /\ \A j \in Slots : IsSleeping(j)' <=> IsSleeping(j)
<1>1. /\ m_time_sleep' \in [Slots -> Int]
      /\ \A j \in Slots : m_time_sleep'[j] < 0 <=> m_time_sleep[j] < 0
  BY DEF RecordsOK, Wake, IsSleeping
<1>2. \A j \in Slots : IsSleeping(j)' <=> IsSleeping(j)
  BY <1>1 DEF IsSleeping
<1>3. \A j \in Slots : IsBusy(j)' <=> IsBusy(j)
  BY DEF IsBusy
<1> QED
  BY <1>1, <1>2, <1>3 DEF RecordsOK, ListsConsistent, SlotsOK

-----------------------------------------------------------------------------
(* Steps of tasks and interrupts between ticks *)

(* nullptr and the two traps are not slots *)
LEMMA SlotsFact == NONE \notin Slots /\ SLEEP_TRAP \notin Slots /\ EXIT_TRAP \notin Slots
BY DEF NONE, Slots, SLEEP_TRAP, EXIT_TRAP

(* The task the processor executes is bound and is m_task_now *)
LEMMA RunningLemma ==
    ASSUME ExecOK, NEW k \in Slots, Running(k)
    PROVE  IsBusy(k) /\ m_task_now = k /\ phase = "none" /\ cpu = k
BY DEF ExecOK, Running, TaskExecuted

(* Outside the handler m_task_now, if there is one, is bound *)
LEMMA InterruptibleLemma ==
    ASSUME TypeOK, ExecOK, Interruptible
    PROVE  /\ m_task_now \in Slots /\ IsBusy(m_task_now)
           /\ phase = "none" => cpu # EXIT_TRAP
BY SlotsFact DEF TypeOK, ExecOK, Interruptible, TaskExecuted, Contexts

(* A step that leaves the lists, the bindings, the handler and the processor
   alone preserves the invariant if it preserves the records of the slots, the
   cancellations and the requests *)
LEMMA QuietLemma ==
    ASSUME IInv, phase \in {"none", "pendsv"},
           UNCHANGED <<m_user, strat, m_task_now, m_fsm_state, cpu, m_stack_idle,
                       m_stack_active, phase>>,
           TypeOK', RecordsOK', CancelsOK', RequestsOK'
    PROVE  IInv'
<1>1. CursorIsRunnable'
  BY DEF IInv, CursorIsRunnable
<1>2. EventsDelivered'
  BY DEF EventsDelivered
<1>3. ExecOK'
  BY DEF IInv, ExecOK, TaskExecuted, IsBusy
<1> QED
  BY <1>1, <1>2, <1>3 DEF IInv, RecordsOK

(* Type correctness of a step that changes only records of slots and program
   counters *)
LEMMA TypeLemma ==
    ASSUME TypeOK, RecordsOK',
           pc' \in [Slots -> Labels],
           found' \in [Slots -> Slots \cup {NONE}],
           UNCHANGED <<m_user, add_task_req, strat, m_request, m_task_now, m_fsm_state,
                       m_kstate, m_stack_idle, m_stack_active, m_sleep_ticks, cpu, phase,
                       idx, elapsed, sleep_ticks>>
    PROVE  TypeOK'
BY DEF TypeOK, RecordsOK

(* The invariant makes every task record well formed *)
LEMMA RecordsFact == ASSUME IInv PROVE RecordsOK
BY DEF IInv, RecordsOK, TypeOK

(* A call: slots are put to sleep or stay asleep, and no program counter moves
   but that of a task without a request *)
LEMMA CallLemma ==
    ASSUME IInv, phase \in {"none", "pendsv"},
           RecordsOK', \A j \in Slots : IsSleeping(j) => IsSleeping(j)',
           pc' \in [Slots -> Labels],
           \A j \in Slots : pc'[j] = pc[j] \/ add_task_req[j] = NoTask,
           found' \in [Slots -> Slots \cup {NONE}], CancelsOK',
           UNCHANGED <<m_user, add_task_req, strat, m_request, fsmVars, hwVars, tickVars>>
    PROVE  IInv'
<1>1. TypeOK'
  BY TypeLemma DEF IInv, fsmVars, hwVars, tickVars
<1>2. RequestsOK'
  BY DEF IInv, RequestsOK, IsBusy, tickVars
<1> QED
  BY <1>1, <1>2, QuietLemma DEF fsmVars, hwVars, tickVars

(* A task that calls the kernel from its own code has no request, and its
   program counter is the only one that moves *)
LEMMA TaskCallLemma ==
    ASSUME IInv, NEW k \in Slots, Running(k), add_task_req[k] = NoTask,
           NEW label \in Labels, Goto(k, label), label = "cancel" => found'[k] \in Slots,
           RecordsOK', \A j \in Slots : IsSleeping(j) => IsSleeping(j)',
           found' \in [Slots -> Slots \cup {NONE}],
           \A j \in Slots : j # k => found'[j] = found[j],
           UNCHANGED <<m_user, add_task_req, strat, m_request, fsmVars, hwVars, tickVars>>
    PROVE  IInv'
<1>1. /\ pc' \in [Slots -> Labels] /\ pc'[k] = label
      /\ \A j \in Slots : j # k => pc'[j] = pc[j]
  BY DEF IInv, TypeOK, Goto
<1>2. CancelsOK'
  BY <1>1 DEF IInv, CancelsOK
<1>3. phase = "none"
  BY DEF Running
<1>4. \A j \in Slots : pc'[j] = pc[j] \/ add_task_req[j] = NoTask
  BY <1>1
<1> QED
  BY <1>1, <1>2, <1>3, <1>4, CallLemma

(* A task in its own code has no request *)
LEMMA InTaskLemma ==
    ASSUME IInv, NEW k \in Slots, Running(k), pc[k] \in {"run", "busy", "cancel"}
    PROVE  add_task_req[k] = NoTask /\ IsBusy(k) /\ m_task_now = k
BY RunningLemma DEF IInv, RequestsOK

(* A step that leaves found alone keeps its part of the invariant *)
LEMMA FoundFact == ASSUME IInv, UNCHANGED found
                   PROVE  found' \in [Slots -> Slots \cup {NONE}]
BY DEF IInv, TypeOK

(* Kernel::OnTaskSleep preserves the invariant *)
LEMMA SleepStep ==
    ASSUME IInv, NEW k \in Slots, NEW ticks \in SleepTicks \cup {YIELD_TICKS},
           KernelOnTaskSleep(k, ticks)
    PROVE  IInv'
<1>1. ticks \in Nat \ {0}
  BY TimeoutAssumption DEF YIELD_TICKS
<1>2. Running(k) /\ pc[k] = "run" /\ ScheduleSleep(k, ticks) /\ Goto(k, "busy")
  BY DEF KernelOnTaskSleep, InTask
<1>3. add_task_req[k] = NoTask /\ IsBusy(k)
  BY <1>2, InTaskLemma
<1>4. RecordsOK' /\ \A j \in Slots : IsSleeping(j) => IsSleeping(j)'
  BY <1>1, <1>2, <1>3, RecordsFact, ScheduleSleepLemma DEF KernelOnTaskSleep
<1> QED
  BY <1>2, <1>3, <1>4, TaskCallLemma, FoundFact DEF KernelOnTaskSleep, Labels

(* The records of the slots are not touched *)
LEMMA UntouchedLemma ==
    ASSUME IInv, UNCHANGED <<m_user, m_time_sleep, m_state, strat>>
    PROVE  RecordsOK' /\ \A j \in Slots : IsSleeping(j)' <=> IsSleeping(j)
BY RecordsFact DEF RecordsOK, ListsConsistent, SlotsOK, IsSleeping, IsBusy

(* Kernel::OnTaskSleepUntil preserves the invariant *)
LEMMA SleepUntilStep ==
    ASSUME IInv, NEW k \in Slots, NEW delta \in SleepTicks \cup {0, WAIT_INFINITE + 1},
           OnTaskSleepUntil(k, delta)
    PROVE  IInv'
<1> DEFINE ticks == IF delta < WAIT_INFINITE THEN delta ELSE WAIT_INFINITE
<1>1. delta > 0 => ticks \in Nat \ {0}
  BY TimeoutAssumption DEF YIELD_TICKS
<1>2. Running(k) /\ pc[k] = "run" /\ Goto(k, "busy")
  BY DEF OnTaskSleepUntil, InTask
<1>3. add_task_req[k] = NoTask /\ IsBusy(k)
  BY <1>2, InTaskLemma
<1>4. RecordsOK' /\ \A j \in Slots : IsSleeping(j) => IsSleeping(j)'
  <2>1. CASE delta > 0
    <3>1. ScheduleSleep(k, ticks)
      BY <2>1 DEF OnTaskSleepUntil
    <3> HIDE DEF ticks
    <3> QED
      BY <1>1, <1>3, <2>1, <3>1, RecordsFact, ScheduleSleepLemma DEF OnTaskSleepUntil
  <2>2. CASE ~(delta > 0)
    BY <2>2, UntouchedLemma DEF OnTaskSleepUntil
  <2> QED
    BY <2>1, <2>2
<1> QED
  BY <1>2, <1>3, <1>4, TaskCallLemma, FoundFact DEF OnTaskSleepUntil, Labels

(* The return from BusyWaitWhileSleeping preserves the invariant *)
LEMMA BusyWaitStep ==
    ASSUME IInv, NEW k \in Slots, BusyWaitDone(k)
    PROVE  IInv'
<1>1. Running(k) /\ Goto(k, "run") /\ ~IsSleeping(k) /\ pc[k] \in {"busy", "added"}
  BY DEF BusyWaitDone
<1>2. add_task_req[k] = NoTask
  BY <1>1 DEF IInv, RequestsOK
<1>3. RecordsOK' /\ \A j \in Slots : IsSleeping(j) => IsSleeping(j)'
  BY UntouchedLemma DEF BusyWaitDone, slotVars
<1> QED
  BY <1>1, <1>2, <1>3, TaskCallLemma, FoundFact DEF BusyWaitDone, Labels, slotVars

(* SuspendTask preserves the invariant *)
LEMMA SuspendTaskStep ==
    ASSUME IInv, NEW k \in Slots \cup {NONE}, NEW j \in Slots, SuspendTask(k, j)
    PROVE  IInv'
<1>1. Caller(k) /\ IsBusy(j) /\ ScheduleSleep(j, WAIT_INFINITE)
  BY DEF SuspendTask
<1>2. RecordsOK' /\ \A i \in Slots : IsSleeping(i) => IsSleeping(i)'
  BY <1>1, RecordsFact, ScheduleSleepLemma, TimeoutAssumption DEF SuspendTask, YIELD_TICKS
<1>3. phase = "none"
  BY <1>1 DEF Caller, InTask, Running, InMain
<1>4. CASE j = m_task_now
  <2>1. cpu # EXIT_TRAP
    BY <1>3, <1>4, SlotsFact DEF IInv, ExecOK
  <2>2. k \in Slots /\ Running(k) /\ pc[k] = "run"
    <3>1. cpu # NONE
      BY SlotsFact DEF IInv, TypeOK, Contexts, NONE, SLEEP_TRAP, EXIT_TRAP
    <3> QED
      BY <1>1, <2>1, <3>1 DEF Caller, InMain, InTask, Running
  <2>3. add_task_req[k] = NoTask /\ Goto(k, "busy")
    BY <1>4, <2>2, InTaskLemma DEF SuspendTask, Goto
  <2> QED
    BY <1>2, <2>2, <2>3, TaskCallLemma, FoundFact DEF SuspendTask, Labels
<1>5. CASE j # m_task_now
  <2>1. pc' = pc /\ pc' \in [Slots -> Labels] /\ CancelsOK'
    BY <1>5 DEF SuspendTask, IInv, TypeOK, CancelsOK
  <2> QED
    BY <1>2, <1>3, <2>1, CallLemma, FoundFact DEF SuspendTask
<1> QED
  BY <1>4, <1>5

(* A slot is woken, by whatever caller, and nothing else happens *)
LEMMA WakeStep ==
    ASSUME IInv, phase \in {"none", "pendsv"}, NEW j \in Slots, Wake(j),
           UNCHANGED <<m_user, m_state, add_task_req, strat, m_request, fsmVars, hwVars,
                       tickVars, taskVars>>
    PROVE  IInv'
<1>1. RecordsOK' /\ \A i \in Slots : IsSleeping(i)' <=> IsSleeping(i)
  BY RecordsFact, WakeLemma
<1>2. pc' = pc /\ pc' \in [Slots -> Labels] /\ CancelsOK'
  BY DEF IInv, TypeOK, CancelsOK, taskVars
<1> QED
  BY <1>1, <1>2, CallLemma, FoundFact DEF taskVars

(* ResumeTask preserves the invariant *)
LEMMA ResumeTaskStep ==
    ASSUME IInv, NEW k \in Slots \cup {NONE}, NEW j \in Slots, ResumeTask(k, j)
    PROVE  IInv'
<1>1. phase = "none"
  BY DEF ResumeTask, Caller, InTask, Running, InMain
<1> QED
  BY <1>1, WakeStep DEF ResumeTask

(* SleepCancel of an interrupt preserves the invariant *)
LEMMA IsrSleepCancelStep ==
    ASSUME IInv, NEW j \in Slots, IsrSleepCancel(j)
    PROVE  IInv'
BY WakeStep DEF IsrSleepCancel, Interruptible

(* The look-up of SleepCancel preserves the invariant *)
LEMMA SleepCancelFindStep ==
    ASSUME IInv, NEW k \in Slots, NEW j \in Slots, SleepCancelFind(k, j)
    PROVE  IInv'
<1>1. Running(k) /\ pc[k] = "run" /\ Goto(k, "cancel")
  BY DEF SleepCancelFind, InTask
<1>2. add_task_req[k] = NoTask
  BY <1>1, InTaskLemma
<1>3. RecordsOK' /\ \A i \in Slots : IsSleeping(i) => IsSleeping(i)'
  BY UntouchedLemma DEF SleepCancelFind, slotVars
<1>4. /\ found' \in [Slots -> Slots \cup {NONE}] /\ found'[k] \in Slots
      /\ \A i \in Slots : i # k => found'[i] = found[i]
  BY DEF SleepCancelFind, IInv, TypeOK
<1> QED
  BY <1>1, <1>2, <1>3, <1>4, TaskCallLemma DEF SleepCancelFind, Labels, slotVars

(* The critical section of SleepCancel preserves it, whatever became of the slot *)
LEMMA SleepCancelWakeStep ==
    ASSUME IInv, NEW k \in Slots, SleepCancelWake(k)
    PROVE  IInv'
<1>1. Running(k) /\ pc[k] = "cancel" /\ Goto(k, "run")
  BY DEF SleepCancelWake
<1>2. add_task_req[k] = NoTask
  BY <1>1, InTaskLemma
<1>3. found[k] \in Slots
  BY <1>1 DEF IInv, CancelsOK
<1>4. RecordsOK' /\ \A i \in Slots : IsSleeping(i) => IsSleeping(i)'
  <2>1. CASE Wake(found[k])
    BY <1>3, <2>1, RecordsFact, WakeLemma DEF SleepCancelWake
  <2>2. CASE UNCHANGED m_time_sleep
    BY <2>2, UntouchedLemma DEF SleepCancelWake
  <2> QED
    BY <2>1, <2>2 DEF SleepCancelWake
<1>5. /\ found' \in [Slots -> Slots \cup {NONE}]
      /\ \A i \in Slots : i # k => found'[i] = found[i]
  BY DEF SleepCancelWake, IInv, TypeOK
<1> QED
  BY <1>1, <1>2, <1>4, <1>5, TaskCallLemma DEF SleepCancelWake, Labels

(* ScheduleTaskRemoval preserves the invariant *)
LEMMA RemovalStep ==
    ASSUME IInv, NEW k \in Slots, NEW j \in Slots, ScheduleTaskRemoval(k, j)
    PROVE  IInv'
<1>1. RecordsOK' /\ \A i \in Slots : IsSleeping(i) => IsSleeping(i)'
  BY RecordsFact, ScheduleRemovalLemma DEF ScheduleTaskRemoval
<1>2. phase = "none"
  BY DEF ScheduleTaskRemoval, InTask, Running
<1>3. pc' = pc /\ pc' \in [Slots -> Labels] /\ CancelsOK'
  BY DEF ScheduleTaskRemoval, IInv, TypeOK, CancelsOK, taskVars
<1> QED
  BY <1>1, <1>2, <1>3, CallLemma, FoundFact DEF ScheduleTaskRemoval, taskVars

(* OnTaskExit preserves the invariant *)
LEMMA ExitStep ==
    ASSUME IInv, NEW k \in Slots, OnTaskExit(k)
    PROVE  IInv'
<1>1. Running(k) /\ pc[k] = "run" /\ Goto(k, "exited")
  BY DEF OnTaskExit, InTask
<1>2. add_task_req[k] = NoTask /\ IsBusy(k)
  BY <1>1, InTaskLemma
<1>3. RecordsOK' /\ \A i \in Slots : IsSleeping(i) => IsSleeping(i)'
  BY <1>2, RecordsFact, ScheduleRemovalLemma DEF OnTaskExit
<1> QED
  BY <1>1, <1>2, <1>3, TaskCallLemma, FoundFact DEF OnTaskExit, Labels

-----------------------------------------------------------------------------
(* The three steps of RequestAddTask *)

(* The publication of an add request preserves the invariant *)
LEMMA RequestStep ==
    ASSUME IInv, NEW k \in Slots, NEW u \in UserTasks, RequestAddTask(k, u)
    PROVE  IInv'
<1>1. Running(k) /\ Goto(k, "request")
  BY DEF RequestAddTask, InTask
<1>2. IsBusy(k) /\ phase = "none"
  BY <1>1, RunningLemma DEF IInv
<1>3. /\ pc' \in [Slots -> Labels] /\ pc'[k] = "request"
      /\ \A j \in Slots : j # k => pc'[j] = pc[j]
  BY <1>1 DEF IInv, TypeOK, Goto, Labels
<1>4. RecordsOK' /\ \A j \in Slots : IsSleeping(j)' <=> IsSleeping(j)
  BY UntouchedLemma DEF RequestAddTask
<1>5. /\ add_task_req' \in [Slots -> UserTasks \cup {NoTask}]
      /\ \A j \in Slots : j # k => add_task_req'[j] = add_task_req[j]
  BY DEF RequestAddTask, IInv, TypeOK
<1>6. TypeOK'
  BY <1>3, <1>5 DEF RequestAddTask, IInv, TypeOK, fsmVars, hwVars, tickVars
<1>7. CancelsOK'
  BY <1>3 DEF RequestAddTask, IInv, CancelsOK
<1>8. RequestsOK'
  BY <1>2, <1>3, <1>4, <1>5 DEF RequestAddTask, IInv, RequestsOK, IsBusy, tickVars
<1> QED
  BY <1>2, <1>4, <1>6, <1>7, <1>8, QuietLemma DEF RequestAddTask, fsmVars, hwVars, tickVars

(* The notification of the kernel preserves the invariant *)
LEMMA ScheduleAddStep ==
    ASSUME IInv, NEW k \in Slots, ScheduleAddTask(k)
    PROVE  IInv'
<1>1. Running(k) /\ Goto(k, "scheduled") /\ pc[k] = "request" /\ m_request' = TRUE
  BY DEF ScheduleAddTask
<1>2. phase = "none"
  BY <1>1 DEF Running
<1>3. /\ pc' \in [Slots -> Labels] /\ pc'[k] = "scheduled"
      /\ \A j \in Slots : j # k => pc'[j] = pc[j]
  BY <1>1 DEF IInv, TypeOK, Goto, Labels
<1>4. RecordsOK' /\ \A j \in Slots : IsSleeping(j)' <=> IsSleeping(j)
  BY UntouchedLemma DEF ScheduleAddTask, slotVars
<1>5. TypeOK'
  BY <1>1, <1>3 DEF ScheduleAddTask, IInv, TypeOK, slotVars, fsmVars, hwVars, tickVars
<1>6. CancelsOK'
  BY <1>3 DEF ScheduleAddTask, IInv, CancelsOK
<1>7. RequestsOK'
  BY <1>1, <1>2, <1>3, <1>4
  DEF ScheduleAddTask, IInv, RequestsOK, IsBusy, slotVars, tickVars
<1> QED
  BY <1>2, <1>4, <1>5, <1>6, <1>7, QuietLemma
  DEF ScheduleAddTask, slotVars, fsmVars, hwVars, tickVars

(* The yield of RequestAddTask preserves the invariant *)
LEMMA AwaitAddStep ==
    ASSUME IInv, NEW k \in Slots, AwaitAddTask(k)
    PROVE  IInv'
<1>1. Running(k) /\ Goto(k, "added") /\ pc[k] = "scheduled"
  BY DEF AwaitAddTask
<1>2. IsBusy(k) /\ phase = "none"
  BY <1>1, RunningLemma DEF IInv
<1>3. /\ pc' \in [Slots -> Labels] /\ pc'[k] = "added"
      /\ \A j \in Slots : j # k => pc'[j] = pc[j]
  BY <1>1 DEF IInv, TypeOK, Goto, Labels
<1>4. /\ RecordsOK' /\ \A j \in Slots : IsSleeping(j) => IsSleeping(j)'
      /\ add_task_req[k] # NoTask => IsSleeping(k)'
  <2>1. CASE add_task_req[k] # NoTask
    <3>1. ScheduleSleep(k, YIELD_TICKS) /\ YIELD_TICKS \in Nat \ {0}
      BY <2>1 DEF AwaitAddTask, YIELD_TICKS
    <3> QED
      BY <1>2, <3>1, RecordsFact, ScheduleSleepLemma DEF AwaitAddTask
  <2>2. CASE add_task_req[k] = NoTask
    BY <2>2, UntouchedLemma DEF AwaitAddTask
  <2> QED
    BY <2>1, <2>2
<1>5. TypeOK'
  BY <1>3, <1>4, TypeLemma, FoundFact DEF AwaitAddTask, IInv, fsmVars, hwVars, tickVars
<1>6. CancelsOK'
  BY <1>3 DEF AwaitAddTask, IInv, CancelsOK
<1>7. RequestsOK'
  BY <1>1, <1>2, <1>3, <1>4
  DEF AwaitAddTask, IInv, RequestsOK, IsBusy, tickVars
<1> QED
  BY <1>2, <1>4, <1>5, <1>6, <1>7, QuietLemma
  DEF AwaitAddTask, fsmVars, hwVars, tickVars

-----------------------------------------------------------------------------
(* Suspend and Resume of the scheduler *)

(* OnSuspend puts the current task to sleep if it is awake *)
LEMMA OnSuspendLemma ==
    ASSUME IInv, Interruptible, NEW from, NEW to, OnSuspend(from, to),
           UNCHANGED <<m_user, strat>>
    PROVE  RecordsOK' /\ \A j \in Slots : IsSleeping(j) => IsSleeping(j)'
<1>1. m_task_now \in Slots /\ IsBusy(m_task_now)
  BY InterruptibleLemma DEF IInv
<1>2. YIELD_TICKS \in Nat \ {0}
  BY DEF YIELD_TICKS
<1>3. CASE IsSleeping(m_task_now)
  BY <1>3, UntouchedLemma DEF OnSuspend
<1>4. CASE ~IsSleeping(m_task_now)
  BY <1>1, <1>2, <1>4, RecordsFact, ScheduleSleepLemma DEF OnSuspend
<1> QED
  BY <1>3, <1>4

(* Resume preserves the invariant *)
LEMMA ResumeStep ==
    ASSUME IInv, NEW ticks \in Nat, Resume(ticks)
    PROVE  IInv'
<1>1. RecordsOK' /\ \A j \in Slots : IsSleeping(j) => IsSleeping(j)'
  BY OnSuspendLemma DEF Resume
<1>2. m_kstate' \in {"READY", "RUNNING", "SUSPENDED"} /\ m_sleep_ticks' \in Nat
  BY DEF Resume, OnSuspend, IInv, TypeOK
<1>3. TypeOK'
  BY <1>1, <1>2 DEF Resume, IInv, TypeOK, RecordsOK, tickVars, taskVars
<1>4. CancelsOK' /\ RequestsOK'
  BY <1>1 DEF Resume, IInv, CancelsOK, RequestsOK, IsBusy, tickVars, taskVars
<1> QED
  BY <1>1, <1>3, <1>4, QuietLemma DEF Resume, Interruptible, tickVars

(* A step that enters OnTick with the processor in a task or in the sleep trap *)
LEMMA EnterLemma ==
    ASSUME IInv, phase = "none", cpu # EXIT_TRAP, NEW ticks \in Nat, EnterOnTick(ticks),
           RecordsOK', \A j \in Slots : IsSleeping(j) => IsSleeping(j)',
           m_kstate' \in {"READY", "RUNNING", "SUSPENDED"},
           UNCHANGED <<m_user, add_task_req, strat, m_task_now, m_fsm_state, hwVars, taskVars>>
    PROVE  IInv'
<1>1. /\ phase' \in {"request", "state"} /\ idx' = 1 /\ m_request' = FALSE
      /\ m_request => phase' = "request"
      /\ elapsed' = ticks /\ sleep_ticks' = TICKLESS_TICKS_MAX
  BY DEF EnterOnTick
<1>2. TypeOK'
  <2>1. idx' \in 1..(TASKS_MAX + 1) /\ elapsed' \in Nat /\ sleep_ticks' \in Nat
    BY <1>1, TasksMaxAssumption, TicklessAssumption
  <2> QED
    BY <1>1, <2>1 DEF IInv, TypeOK, RecordsOK, hwVars, taskVars
<1>3. CursorIsRunnable' /\ CancelsOK'
  BY DEF IInv, CursorIsRunnable, CancelsOK, taskVars
<1>4. EventsDelivered'
  BY <1>1 DEF EventsDelivered, Slots
<1>5. ExecOK'
  BY <1>1, SlotsFact DEF IInv, ExecOK, TaskExecuted, IsBusy, hwVars
<1>6. RequestsOK'
  BY <1>1 DEF IInv, RequestsOK, IsBusy, Slots, taskVars
<1> QED
  BY <1>2, <1>3, <1>4, <1>5, <1>6 DEF IInv, RecordsOK

(* Context::Suspend preserves the invariant where no switch is pending *)
LEMMA ContextSuspendStep ==
    ASSUME IInv, Interruptible, phase = "none", ContextSuspend
    PROVE  IInv'
<1>1. RecordsOK' /\ \A j \in Slots : IsSleeping(j) => IsSleeping(j)'
  BY OnSuspendLemma DEF ContextSuspend
<1>2. cpu # EXIT_TRAP
  BY InterruptibleLemma DEF IInv
<1>3. m_kstate' \in {"READY", "RUNNING", "SUSPENDED"}
  BY DEF ContextSuspend, OnSuspend, IInv, TypeOK
<1> QED
  BY <1>1, <1>2, <1>3, EnterLemma DEF ContextSuspend

(* Suspend of a task preserves the invariant *)
LEMMA SuspendStep ==
    ASSUME IInv, NEW k \in Slots, Suspend(k)
    PROVE  IInv'
<1>1. Running(k) /\ ContextSuspend
  BY DEF Suspend, InTask
<1>2. m_task_now = k /\ phase = "none"
  BY <1>1, RunningLemma DEF IInv
<1>3. Interruptible
  BY <1>2, SlotsFact DEF Interruptible
<1> QED
  BY <1>1, <1>2, <1>3, ContextSuspendStep

(* The interrupt does not come between the tick and PendSV *)
SwitchNotInterrupted == "IsrSuspendInSwitch" \notin Calls

(* Suspend of an interrupt preserves the invariant *)
LEMMA IsrSuspendStep ==
    ASSUME IInv, SwitchNotInterrupted, IsrSuspend
    PROVE  IInv'
<1>1. phase = "none"
  BY DEF IsrSuspend, SwitchNotInterrupted, Interruptible
<1> QED
  BY <1>1, ContextSuspendStep DEF IsrSuspend

(* The entry of the tick handler preserves the invariant *)
LEMMA ProcessTickStep ==
    ASSUME IInv, ProcessTick
    PROVE  IInv'
<1>1. RecordsOK' /\ \A j \in Slots : IsSleeping(j)' <=> IsSleeping(j)
  BY UntouchedLemma DEF ProcessTick, slotVars
<1>2. m_sleep_ticks \in Nat /\ m_kstate' \in {"READY", "RUNNING", "SUSPENDED"}
  BY DEF ProcessTick, IInv, TypeOK, fsmVars
<1> QED
  BY <1>1, <1>2, EnterLemma DEF ProcessTick, slotVars, fsmVars

-----------------------------------------------------------------------------
(* Steps that change the lists *)

(* The strategy is well formed *)
LEMMA StrategyFact ==
    ASSUME IInv
    PROVE  StrategyOK(strat, Slots)
BY DEF IInv, TypeOK, ListsConsistent, CursorIsRunnable, StrategyOK, StrategyType, CursorOK

(* The strategy is empty exactly when no slot is bound *)
LEMMA SizeLemma ==
    ASSUME ListsConsistent, SlotsOK, StrategyOK(strat, Slots)
    PROVE  GetSize(strat) = 0 <=> \A k \in Slots : ~IsBusy(k)
<1>1. \A k \in Slots : IsBusy(k)
            <=> IsLinked(strat.m_tasks, k) \/ IsLinked(strat.m_sleep, k)
  BY DEF ListsConsistent
<1>2. ASSUME GetSize(strat) = 0, NEW k \in Slots PROVE ~IsBusy(k)
  BY <1>1, <1>2, GetSizeLemma
<1>3. ASSUME GetSize(strat) # 0 PROVE \E k \in Slots : IsBusy(k)
  BY <1>1, <1>3, GetFirstLemma
<1> QED
  BY <1>2, <1>3

(* The conjuncts of the invariant that make the strategy well formed *)
LEMMA StrategySplit ==
    ASSUME StrategyOK(strat, Slots)'
    PROVE  /\ strat' \in [m_tasks: Seq(Slots), m_sleep: Seq(Slots), m_prev: Slots \cup {NONE}]
           /\ NoDuplicates(strat'.m_tasks) /\ NoDuplicates(strat'.m_sleep)
           /\ CursorIsRunnable'
BY DEF StrategyOK, StrategyType, CursorOK, CursorIsRunnable

(* AllocateAndAddNewTask binds a free slot, which is awake and runnable *)
LEMMA AllocateLemma ==
    ASSUME IInv, NEW u \in UserTasks, AllocateAndAddNewTask(u),
           UNCHANGED <<m_time_sleep, m_state>>
    PROVE  /\ RecordsOK' /\ CursorIsRunnable'
           /\ strat' \in [m_tasks: Seq(Slots), m_sleep: Seq(Slots), m_prev: Slots \cup {NONE}]
           /\ m_user' \in [Slots -> UserTasks \cup {NoTask}]
           /\ pc' \in [Slots -> Labels]
           /\ \A j \in Slots : IsBusy(j) => IsBusy(j)' /\ pc'[j] = pc[j]
           /\ \A j \in Slots : pc'[j] = pc[j] \/ pc'[j] = "run"
<1>1. PICK k \in Slots : ~IsBusy(k) /\ Bind(k, u) /\ strat' = AddTask(strat, k)
  BY DEF AllocateAndAddNewTask, FirstFree
<1>2. /\ m_user' \in [Slots -> UserTasks \cup {NoTask}] /\ m_user'[k] = u
      /\ \A j \in Slots : j # k => m_user'[j] = m_user[j]
      /\ pc' \in [Slots -> Labels] /\ pc'[k] = "run"
      /\ \A j \in Slots : j # k => pc'[j] = pc[j]
  BY <1>1 DEF Bind, IInv, TypeOK, Labels
<1>3. \A j \in Slots : IsBusy(j)' <=> IsBusy(j) \/ j = k
  BY <1>2, NoTaskAssumption DEF IsBusy
<1>4. ~IsSleeping(k) /\ "SLEEP_PENDING" \notin m_state[k]
  BY <1>1 DEF IInv, SlotsOK
<1>5. ~IsLinked(strat.m_tasks, k)
  BY <1>1 DEF IInv, ListsConsistent
<1>6. /\ StrategyOK(strat, Slots)'
      /\ \A j : IsLinked(strat'.m_tasks, j) <=> IsLinked(strat.m_tasks, j) \/ j = k
      /\ strat'.m_sleep = strat.m_sleep
  BY <1>1, <1>5, StrategyFact, SlotsFact, AddTaskLemma
<1>7. \A j \in Slots : IsSleeping(j)' <=> IsSleeping(j)
  BY DEF IsSleeping
<1>8. ListsConsistent'
  BY <1>3, <1>4, <1>6, <1>7, StrategySplit DEF IInv, ListsConsistent
<1>9. SlotsOK'
  BY <1>3, <1>7 DEF IInv, SlotsOK
<1> QED
  BY <1>1, <1>2, <1>3, <1>6, <1>8, <1>9, StrategySplit DEF RecordsOK, IInv, TypeOK

(* RemoveTask of the kernel frees a bound slot and takes it out of its list *)
LEMMA RemoveLemma ==
    ASSUME IInv, NEW k \in Slots, IsBusy(k), KernelRemoveTask(k)
    PROVE  /\ RecordsOK' /\ CursorIsRunnable' /\ StrategyOK(strat, Slots)'
           /\ m_user' \in [Slots -> UserTasks \cup {NoTask}]
           /\ add_task_req' \in [Slots -> UserTasks \cup {NoTask}]
           /\ \A j \in Slots : IsBusy(j)' <=> IsBusy(j) /\ j # k
           /\ \A j \in Slots : IsSleeping(j)' <=> IsSleeping(j) /\ j # k
           /\ \A j \in Slots :
                add_task_req'[j] = IF j = k THEN NoTask ELSE add_task_req[j]
           /\ \A j \in Slots : m_state'[j] = IF j = k THEN {} ELSE m_state[j]
           /\ GetSize(strat') = GetSize(strat) - 1
<1>1. /\ m_user' \in [Slots -> UserTasks \cup {NoTask}]
      /\ \A j \in Slots : m_user'[j] = IF j = k THEN NoTask ELSE m_user[j]
      /\ add_task_req' \in [Slots -> UserTasks \cup {NoTask}]
      /\ \A j \in Slots : add_task_req'[j] = IF j = k THEN NoTask ELSE add_task_req[j]
  BY DEF KernelRemoveTask, Unbind, IInv, TypeOK
<1>2. /\ m_state' \in [Slots -> SUBSET {"SLEEP_PENDING", "REMOVE_PENDING"}]
      /\ \A j \in Slots : m_state'[j] = IF j = k THEN {} ELSE m_state[j]
      /\ m_time_sleep' \in [Slots -> Int]
      /\ \A j \in Slots : m_time_sleep'[j] = IF j = k THEN 0 ELSE m_time_sleep[j]
  BY DEF KernelRemoveTask, Unbind, IInv, TypeOK
<1>3. \A j \in Slots : IsBusy(j)' <=> IsBusy(j) /\ j # k
  BY <1>1 DEF IsBusy
<1>4. \A j \in Slots : IsSleeping(j)' <=> IsSleeping(j) /\ j # k
  BY <1>2 DEF IsSleeping
<1>5. /\ IsLinked(strat.m_tasks, k) \/ IsLinked(strat.m_sleep, k)
      /\ ~(IsLinked(strat.m_tasks, k) /\ IsLinked(strat.m_sleep, k))
  BY DEF IInv, ListsConsistent
<1>6. /\ StrategyOK(strat, Slots)'
      /\ \A j : IsLinked(strat'.m_tasks, j) <=> IsLinked(strat.m_tasks, j) /\ j # k
      /\ \A j : IsLinked(strat'.m_sleep, j) <=> IsLinked(strat.m_sleep, j) /\ j # k
      /\ GetSize(strat') = GetSize(strat) - 1
  BY <1>5, StrategyFact, SlotsFact, RemoveTaskLemma DEF KernelRemoveTask
<1>7. ListsConsistent'
  BY <1>2, <1>3, <1>4, <1>6, StrategySplit DEF IInv, ListsConsistent
<1>8. SlotsOK'
  BY <1>2, <1>3, <1>4 DEF IInv, SlotsOK
<1> QED
  BY <1>1, <1>2, <1>3, <1>4, <1>6, <1>7, <1>8, StrategySplit DEF RecordsOK

(* AddTask before Start preserves the invariant *)
LEMMA MainAddStep ==
    ASSUME IInv, NEW u \in UserTasks, MainAddTask(u)
    PROVE  IInv'
<1>1. /\ RecordsOK' /\ CursorIsRunnable'
      /\ strat' \in [m_tasks: Seq(Slots), m_sleep: Seq(Slots), m_prev: Slots \cup {NONE}]
      /\ m_user' \in [Slots -> UserTasks \cup {NoTask}]
      /\ pc' \in [Slots -> Labels]
      /\ \A j \in Slots : IsBusy(j) => IsBusy(j)' /\ pc'[j] = pc[j]
      /\ \A j \in Slots : pc'[j] = pc[j] \/ pc'[j] = "run"
  BY AllocateLemma DEF MainAddTask
<1>2. phase = "none" /\ cpu = EXIT_TRAP
  BY DEF MainAddTask, InMain
<1>3. TypeOK'
  BY <1>1 DEF MainAddTask, IInv, TypeOK, fsmVars, hwVars, tickVars
<1>4. CancelsOK'
  BY <1>1 DEF MainAddTask, IInv, CancelsOK
<1>5. EventsDelivered'
  BY <1>2 DEF MainAddTask, EventsDelivered, tickVars
<1>6. ExecOK'
  BY <1>2, SlotsFact DEF MainAddTask, IInv, ExecOK, fsmVars, hwVars, tickVars, EXIT_TRAP, SLEEP_TRAP
<1>7. RequestsOK'
  <2>1. \A j \in Slots : IsSleeping(j)' <=> IsSleeping(j)
    BY DEF MainAddTask, IsSleeping
  <2> QED
    BY <1>1, <2>1 DEF MainAddTask, IInv, RequestsOK, tickVars
<1> QED
  BY <1>1, <1>3, <1>4, <1>5, <1>6, <1>7 DEF IInv, RecordsOK

(* RemoveTask before Start preserves the invariant *)
LEMMA MainRemoveStep ==
    ASSUME IInv, NEW k \in Slots, MainRemoveTask(k)
    PROVE  IInv'
<1>1. IsBusy(k) /\ KernelRemoveTask(k) /\ phase = "none" /\ cpu = EXIT_TRAP
  BY DEF MainRemoveTask, InMain
<1>2. TypeOK'
  BY <1>1, RemoveLemma
  DEF MainRemoveTask, IInv, TypeOK, RecordsOK, StrategyOK, StrategyType, fsmVars, hwVars,
      tickVars, taskVars
<1>3. CancelsOK' /\ EventsDelivered'
  BY <1>1 DEF MainRemoveTask, IInv, CancelsOK, EventsDelivered, tickVars, taskVars
<1>4. ExecOK'
  BY <1>1, SlotsFact DEF MainRemoveTask, IInv, ExecOK, fsmVars, hwVars, tickVars, EXIT_TRAP, SLEEP_TRAP
<1>5. RequestsOK'
  BY <1>1, RemoveLemma DEF MainRemoveTask, IInv, RequestsOK, tickVars, taskVars
<1> QED
  BY <1>1, <1>2, <1>3, <1>4, <1>5, RemoveLemma DEF IInv, RecordsOK

(* Start preserves the invariant *)
LEMMA StartStep ==
    ASSUME IInv, Start
    PROVE  IInv'
<1>1. RecordsOK' /\ \A j \in Slots : IsSleeping(j)' <=> IsSleeping(j)
  BY UntouchedLemma DEF Start, slotVars
<1>2. /\ phase = "none" /\ cpu = EXIT_TRAP /\ GetSize(strat) # 0
      /\ phase' = "start" /\ idx' = 1
  BY DEF Start, InMain
<1>3. \E k \in Slots : IsBusy(k)
  BY <1>2, SizeLemma, StrategyFact DEF IInv
<1>4. TypeOK'
  <2>1. idx' \in 1..(TASKS_MAX + 1)
    BY <1>2, TasksMaxAssumption
  <2> QED
    BY <1>2, <2>1 DEF Start, IInv, TypeOK, slotVars, fsmVars, hwVars, taskVars
<1>5. CursorIsRunnable' /\ CancelsOK' /\ EventsDelivered'
  BY <1>2 DEF Start, IInv, CursorIsRunnable, CancelsOK, EventsDelivered, taskVars, Slots
<1>6. ExecOK'
  BY <1>2, <1>3 DEF Start, IInv, ExecOK, IsBusy, slotVars, fsmVars, hwVars
<1>7. RequestsOK'
  BY <1>1, <1>2 DEF Start, IInv, RequestsOK, IsBusy, slotVars, taskVars
<1> QED
  BY <1>1, <1>4, <1>5, <1>6, <1>7 DEF IInv, RecordsOK

(* The strategy is told of a pending sleep: the slot moves to m_sleep *)
LEMMA DeliverLemma ==
    ASSUME IInv, NEW k \in Slots, IsSleeping(k), "SLEEP_PENDING" \in m_state[k]
    PROVE  /\ StrategyOK(OnTaskSleep(strat, k), Slots)
           /\ \A j : IsLinked(OnTaskSleep(strat, k).m_tasks, j)
                    <=> IsLinked(strat.m_tasks, j) /\ j # k
           /\ \A j : IsLinked(OnTaskSleep(strat, k).m_sleep, j)
                    <=> IsLinked(strat.m_sleep, j) \/ j = k
<1>1. IsLinked(strat.m_tasks, k) /\ ~IsLinked(strat.m_sleep, k)
  BY DEF IInv, ListsConsistent, SlotsOK
<1> QED
  BY <1>1, StrategyFact, SlotsFact, OnTaskSleepLemma

(* One slot of the notification loop of OnStart preserves the invariant *)
LEMMA OnStartTaskStep ==
    ASSUME IInv, NEW k \in Slots, OnStartTask(k)
    PROVE  IInv'
<1>1. phase = "start" /\ phase' = "start" /\ idx = k /\ idx' = k + 1
  BY DEF OnStartTask
<1>2. \A j \in Slots : (IsSleeping(j)' <=> IsSleeping(j)) /\ (IsBusy(j)' <=> IsBusy(j))
  BY DEF OnStartTask, IsSleeping, IsBusy
<1>3. /\ m_state' \in [Slots -> SUBSET {"SLEEP_PENDING", "REMOVE_PENDING"}]
      /\ "SLEEP_PENDING" \notin m_state'[k]
      /\ \A j \in Slots : j # k => m_state'[j] = m_state[j]
  <2>1. CASE IsSleeping(k) /\ "SLEEP_PENDING" \in m_state[k]
    BY <2>1 DEF OnStartTask, IInv, TypeOK
  <2>2. CASE ~(IsSleeping(k) /\ "SLEEP_PENDING" \in m_state[k])
    BY <2>2 DEF OnStartTask, IInv, TypeOK, SlotsOK
  <2> QED
    BY <2>1, <2>2
<1>4. StrategyOK(strat, Slots)' /\ ListsConsistent'
  <2>1. CASE IsSleeping(k) /\ "SLEEP_PENDING" \in m_state[k]
    <3>1. strat' = OnTaskSleep(strat, k)
      BY <2>1 DEF OnStartTask
    <3>2. /\ StrategyOK(strat, Slots)'
          /\ \A j : IsLinked(strat'.m_tasks, j) <=> IsLinked(strat.m_tasks, j) /\ j # k
          /\ \A j : IsLinked(strat'.m_sleep, j) <=> IsLinked(strat.m_sleep, j) \/ j = k
      BY <2>1, <3>1, DeliverLemma
    <3> QED
      BY <1>2, <1>3, <2>1, <3>2, StrategySplit DEF IInv, ListsConsistent, SlotsOK
  <2>2. CASE ~(IsSleeping(k) /\ "SLEEP_PENDING" \in m_state[k])
    <3>1. UNCHANGED <<strat, m_state>>
      BY <2>2 DEF OnStartTask
    <3> QED
      BY <1>2, <3>1, StrategyFact DEF IInv, ListsConsistent
  <2> QED
    BY <2>1, <2>2
<1>5. SlotsOK'
  BY <1>2, <1>3 DEF IInv, SlotsOK
<1>6. TypeOK'
  <2>1. idx' \in 1..(TASKS_MAX + 1)
    BY <1>1, TasksMaxAssumption DEF Slots
  <2> QED
    BY <1>3, <1>4, <2>1, StrategySplit
    DEF OnStartTask, IInv, TypeOK, fsmVars, hwVars, taskVars
<1>7. EventsDelivered'
  BY <1>1, <1>3, TasksMaxAssumption DEF IInv, EventsDelivered, Slots
<1>8. CancelsOK' /\ RequestsOK'
  BY <1>1, <1>2 DEF OnStartTask, IInv, CancelsOK, RequestsOK, taskVars
<1>9. ExecOK'
  BY <1>1, <1>2 DEF OnStartTask, IInv, ExecOK, fsmVars, hwVars
<1> QED
  BY <1>4, <1>5, <1>6, <1>7, <1>8, <1>9, StrategySplit DEF IInv

(* A step that moves only the cursor, or nothing, leaves lists and records as
   they were *)
LEMMA AdvanceLemma ==
    ASSUME IInv, strat' = Advanced(strat), UNCHANGED slotVars
    PROVE  /\ RecordsOK' /\ CursorIsRunnable'
           /\ strat' \in [m_tasks: Seq(Slots), m_sleep: Seq(Slots), m_prev: Slots \cup {NONE}]
           /\ strat'.m_tasks = strat.m_tasks
           /\ \A j \in Slots : (IsSleeping(j)' <=> IsSleeping(j)) /\ (IsBusy(j)' <=> IsBusy(j))
<1>1. /\ StrategyOK(strat, Slots)' /\ strat'.m_tasks = strat.m_tasks
      /\ strat'.m_sleep = strat.m_sleep
  BY StrategyFact, SlotsFact, GetNextLemma
<1>2. \A j \in Slots : (IsSleeping(j)' <=> IsSleeping(j)) /\ (IsBusy(j)' <=> IsBusy(j))
  BY DEF slotVars, IsSleeping, IsBusy
<1>3. ListsConsistent' /\ SlotsOK'
  BY <1>1, <1>2 DEF IInv, ListsConsistent, SlotsOK, slotVars
<1> QED
  BY <1>1, <1>2, <1>3, StrategySplit DEF IInv, TypeOK, RecordsOK, slotVars

(* The task GetNext returns is bound and is a task *)
LEMMA NextLemma ==
    ASSUME IInv, GetNext(strat) # NONE
    PROVE  /\ GetNext(strat) \in Slots /\ IsBusy(GetNext(strat))
           /\ IsSleeping(GetNext(strat)) => "SLEEP_PENDING" \in m_state[GetNext(strat)]
<1>1. GetNext(strat) \in Slots /\ IsLinked(strat.m_tasks, GetNext(strat))
  BY StrategyFact, SlotsFact, GetNextLemma
<1> QED
  BY <1>1 DEF IInv, ListsConsistent

(* The task GetFirst returns is bound *)
LEMMA FirstLemma ==
    ASSUME IInv, \E k \in Slots : IsBusy(k)
    PROVE  GetFirst(strat) \in Slots /\ IsBusy(GetFirst(strat)) /\ GetSize(strat) # 0
<1>1. GetSize(strat) # 0
  BY SizeLemma, StrategyFact DEF IInv
<1>2. /\ GetFirst(strat) \in Slots
      /\ IsLinked(strat.m_tasks, GetFirst(strat)) \/ IsLinked(strat.m_sleep, GetFirst(strat))
  BY <1>1, StrategyFact, GetFirstLemma
<1> QED
  BY <1>1, <1>2 DEF IInv, ListsConsistent

(* The choice of the first context preserves the invariant *)
LEMMA OnStartStep ==
    ASSUME IInv, OnStart
    PROVE  IInv'
<1> DEFINE next == GetNext(strat)
<1>1. phase = "start" /\ phase' = "none" /\ idx' = 1 /\ UNCHANGED slotVars
  BY DEF OnStart
<1>2. \E k \in Slots : IsBusy(k)
  BY <1>1 DEF IInv, ExecOK
<1>3. /\ RecordsOK' /\ CursorIsRunnable'
      /\ strat' \in [m_tasks: Seq(Slots), m_sleep: Seq(Slots), m_prev: Slots \cup {NONE}]
      /\ strat'.m_tasks = strat.m_tasks
      /\ \A j \in Slots : (IsSleeping(j)' <=> IsSleeping(j)) /\ (IsBusy(j)' <=> IsBusy(j))
  BY AdvanceLemma DEF OnStart
<1>4. /\ m_task_now' \in Slots /\ IsBusy(m_task_now)'
      /\ cpu' = m_stack_active'
      /\ \/ cpu' = m_task_now' /\ m_fsm_state' = "SWITCHING"
         \/ cpu' = SLEEP_TRAP /\ m_fsm_state' = "SLEEPING" /\ strat'.m_tasks = <<>>
  <2>1. CASE next # NONE
    <3>1. next \in Slots /\ IsBusy(next)
      BY <2>1, NextLemma
    <3>2. m_task_now' = next /\ cpu' = next /\ m_stack_active' = next
          /\ m_fsm_state' = "SWITCHING"
      BY <2>1 DEF OnStart
    <3> HIDE DEF next
    <3> QED
      BY <1>3, <3>1, <3>2 DEF IsBusy
  <2>2. CASE next = NONE
    <3>1. strat.m_tasks = <<>>
      BY <2>2, StrategyFact, SlotsFact, GetNextLemma
    <3>2. GetFirst(strat) \in Slots /\ IsBusy(GetFirst(strat))
      BY <1>2, FirstLemma
    <3>3. m_task_now' = GetFirst(strat) /\ cpu' = SLEEP_TRAP /\ m_stack_active' = SLEEP_TRAP
          /\ m_fsm_state' = "SLEEPING"
      BY <2>2 DEF OnStart
    <3> QED
      BY <1>3, <3>1, <3>2, <3>3 DEF IsBusy
  <2> QED
    BY <2>1, <2>2
<1>5. TypeOK'
  <2>1. idx' \in 1..(TASKS_MAX + 1) /\ cpu' \in Contexts
    BY <1>1, <1>4, TasksMaxAssumption DEF Contexts
  <2>2. /\ m_fsm_state' \in {"NONE", "SWITCHING", "SLEEPING", "WAKING"}
        /\ m_stack_active' \in Contexts \cup {NONE} /\ m_task_now' \in Slots \cup {NONE}
    BY <1>4, <2>1
  <2> QED
    BY <1>1, <1>3, <2>1, <2>2 DEF OnStart, IInv, TypeOK, slotVars, taskVars
<1>6. EventsDelivered' /\ CancelsOK'
  BY <1>1 DEF OnStart, IInv, EventsDelivered, CancelsOK, taskVars
<1>7. ExecOK'
  BY <1>1, <1>4, SlotsFact DEF ExecOK, TaskExecuted, SLEEP_TRAP, EXIT_TRAP
<1>8. RequestsOK'
  BY <1>1, <1>3 DEF OnStart, IInv, RequestsOK, slotVars, taskVars
<1> QED
  BY <1>3, <1>5, <1>6, <1>7, <1>8 DEF IInv, RecordsOK

(* OnStop preserves the invariant *)
LEMMA OnStopStep ==
    ASSUME IInv, OnStop
    PROVE  IInv'
<1>1. RecordsOK' /\ \A j \in Slots : IsSleeping(j)' <=> IsSleeping(j)
  BY UntouchedLemma DEF OnStop, slotVars
<1>2. phase = "none" /\ cpu = EXIT_TRAP
  BY DEF OnStop
<1>3. TypeOK'
  BY DEF OnStop, IInv, TypeOK, slotVars, hwVars, tickVars, taskVars
<1>4. CursorIsRunnable' /\ CancelsOK' /\ EventsDelivered'
  BY <1>2 DEF OnStop, IInv, CursorIsRunnable, CancelsOK, EventsDelivered, tickVars, taskVars
<1>5. ExecOK'
  BY <1>2, SlotsFact DEF OnStop, IInv, ExecOK, hwVars, tickVars, SLEEP_TRAP, EXIT_TRAP
<1>6. RequestsOK'
  BY <1>1 DEF OnStop, IInv, RequestsOK, IsBusy, slotVars, tickVars, taskVars
<1> QED
  BY <1>1, <1>3, <1>4, <1>5, <1>6 DEF IInv, RecordsOK
-----------------------------------------------------------------------------
(* The tick handler *)

(* The handler's loops: the slot after k, or the next phase *)
LEMMA LoopStep ==
    ASSUME IInv, NEW k \in Slots, NEW next,
           idx = k,
           IF k = TASKS_MAX THEN phase' = next /\ idx' = 1
                            ELSE idx' = k + 1 /\ UNCHANGED phase
    PROVE  /\ idx' \in 1..(TASKS_MAX + 1)
           /\ phase' = next \/ phase' = phase
           /\ phase' # phase => k = TASKS_MAX /\ idx' = 1
           /\ \A j \in Slots : k < j => phase' = phase /\ idx' <= j
           /\ phase' = phase => phase = next \/ idx' = k + 1
<1>1. k \in Nat /\ TASKS_MAX \in Nat \ {0} /\ k <= TASKS_MAX /\ 1 <= k
  BY TasksMaxAssumption DEF Slots
<1>2. CASE k = TASKS_MAX
  BY <1>1, <1>2 DEF Slots
<1>3. CASE k # TASKS_MAX
  BY <1>1, <1>3 DEF Slots
<1> QED
  BY <1>2, <1>3

(* UpdateTaskRequest serves the request of one slot *)
LEMMA UpdateTaskRequestStep ==
    ASSUME IInv, NEW k \in Slots, UpdateTaskRequest(k)
    PROVE  IInv'
<1>1. phase = "request" /\ idx = k /\ UNCHANGED m_request
  BY DEF UpdateTaskRequest
<1>2. /\ idx' \in 1..(TASKS_MAX + 1)
      /\ phase' = "state" \/ phase' = "request"
      /\ phase' = "state" => idx' = 1
      /\ \A j \in Slots : k < j => phase' = "request" /\ idx' <= j
  BY <1>1, LoopStep DEF UpdateTaskRequest
<1>3. /\ RecordsOK' /\ CursorIsRunnable'
      /\ strat' \in [m_tasks: Seq(Slots), m_sleep: Seq(Slots), m_prev: Slots \cup {NONE}]
      /\ m_user' \in [Slots -> UserTasks \cup {NoTask}]
      /\ pc' \in [Slots -> Labels]
      /\ \A j \in Slots : IsBusy(j) => IsBusy(j)' /\ pc'[j] = pc[j]
      /\ \A j \in Slots : pc'[j] = pc[j] \/ pc'[j] = "run"
      /\ add_task_req' \in [Slots -> UserTasks \cup {NoTask}]
      /\ add_task_req'[k] = NoTask
      /\ \A j \in Slots : j # k => add_task_req'[j] = add_task_req[j]
  <2>1. CASE add_task_req[k] # NoTask
    <3>1. add_task_req[k] \in UserTasks
      BY <2>1 DEF IInv, TypeOK
    <3>2. /\ AllocateAndAddNewTask(add_task_req[k])
          /\ add_task_req' = [add_task_req EXCEPT ![k] = NoTask]
          /\ UNCHANGED <<m_time_sleep, m_state>>
      BY <2>1 DEF UpdateTaskRequest
    <3>3. /\ add_task_req' \in [Slots -> UserTasks \cup {NoTask}]
          /\ add_task_req'[k] = NoTask
          /\ \A j \in Slots : j # k => add_task_req'[j] = add_task_req[j]
      BY <3>2 DEF IInv, TypeOK
    <3> QED
      BY <3>1, <3>2, <3>3, AllocateLemma
  <2>2. CASE add_task_req[k] = NoTask
    <3>1. UNCHANGED <<m_user, m_time_sleep, m_state, pc, strat, add_task_req>>
      BY <2>2 DEF UpdateTaskRequest
    <3>2. RecordsOK'
      BY <3>1, UntouchedLemma
    <3> QED
      BY <2>2, <3>1, <3>2 DEF IInv, TypeOK, CursorIsRunnable, IsBusy
  <2> QED
    BY <2>1, <2>2
<1>4. TypeOK'
  BY <1>2, <1>3 DEF UpdateTaskRequest, IInv, TypeOK, RecordsOK, fsmVars, hwVars
<1>5. CancelsOK'
  BY <1>3 DEF UpdateTaskRequest, IInv, CancelsOK
<1>6. EventsDelivered'
  BY <1>2 DEF EventsDelivered, Slots
<1>7. ExecOK'
  BY <1>1, <1>2, <1>3 DEF UpdateTaskRequest, IInv, ExecOK, TaskExecuted, fsmVars, hwVars
<1>8. RequestsOK'
  <2>1. \A j \in Slots : IsSleeping(j)' <=> IsSleeping(j)
    BY DEF UpdateTaskRequest, IsSleeping
  <2>2. ~m_request
    BY <1>1 DEF IInv, RequestsOK
  <2>3. ASSUME NEW j \in Slots, add_task_req'[j] # NoTask
        PROVE  /\ IsBusy(j)' /\ pc'[j] \in {"request", "scheduled", "added"}
               /\ pc'[j] # "request" => phase' = "request" /\ idx' <= j
               /\ pc'[j] = "added" => IsSleeping(j)'
    <3>1. j # k /\ add_task_req[j] # NoTask
      BY <1>3, <2>3
    <3>2. /\ IsBusy(j) /\ pc[j] \in {"request", "scheduled", "added"}
          /\ pc[j] # "request" => k <= j
          /\ pc[j] = "added" => IsSleeping(j)
      BY <1>1, <2>2, <3>1 DEF IInv, RequestsOK
    <3>3. k <= j => k < j
      BY <3>1 DEF Slots
    <3> QED
      BY <1>2, <1>3, <2>1, <3>2, <3>3
  <2> QED
    BY <1>1, <2>2, <2>3 DEF RequestsOK
<1> QED
  BY <1>3, <1>4, <1>5, <1>6, <1>7, <1>8 DEF IInv, RecordsOK

(* The timer is set to at least one tick *)
LEMMA GetSleepTicksLemma ==
    ASSUME NEW time \in Int, NEW limit \in Nat
    PROVE  GetSleepTicks(time, limit) \in Nat
<1> DEFINE least == IF -time < limit THEN -time ELSE limit
<1>1. least \in Int
  OBVIOUS
<1> HIDE DEF least
<1>2. (IF least < 1 THEN 1 ELSE least) \in Nat
  BY <1>1
<1> QED
  BY <1>2 DEF GetSleepTicks, least

(* UpdateTaskState of a slot preserves the invariant, given what it does to the
   records and the lists: the slot's sleep event is delivered, no slot is bound,
   and the slot of a task that executes remains bound *)
LEMMA StateLemma ==
    ASSUME IInv, NEW k \in Slots, UpdateTaskState(k),
           RecordsOK', StrategyOK(strat, Slots)',
           m_user' \in [Slots -> UserTasks \cup {NoTask}],
           add_task_req' \in [Slots -> UserTasks \cup {NoTask}],
           sleep_ticks' \in Nat,
           "SLEEP_PENDING" \notin m_state'[k],
           \A j \in Slots : j # k => m_state'[j] = m_state[j],
           \A j \in Slots : add_task_req'[j] # NoTask
                => add_task_req'[j] = add_task_req[j] /\ IsBusy(j)',
           IsBusy(m_task_now) /\ m_task_now \in Slots
                => IsBusy(m_task_now)' \/ (/\ m_fsm_state = "SLEEPING"
                                            /\ \A j \in Slots : ~IsBusy(j)'),
           \A j \in Slots : IsBusy(j)' => IsBusy(j)
    PROVE  IInv'
<1>1. phase = "state" /\ idx = k /\ UNCHANGED <<m_request, fsmVars, hwVars, elapsed, taskVars>>
  BY DEF UpdateTaskState
<1>2. /\ idx' \in 1..(TASKS_MAX + 1)
      /\ phase' = "fsm" \/ phase' = "state"
      /\ phase' = "fsm" => k = TASKS_MAX
      /\ phase' = "state" => idx' = k + 1
  BY <1>1, LoopStep DEF UpdateTaskState
<1>3. TypeOK' /\ CursorIsRunnable'
  BY <1>1, <1>2, StrategySplit DEF IInv, TypeOK, RecordsOK, fsmVars, hwVars, taskVars
<1>4. CancelsOK'
  BY <1>1 DEF IInv, CancelsOK, taskVars
<1>5. EventsDelivered'
  <2>1. \A j \in Slots : j <= k => "SLEEP_PENDING" \notin m_state'[j]
    <3> TAKE j \in Slots
    <3>1. CASE j = k
      BY <3>1
    <3>2. CASE j < k
      BY <1>1, <3>2 DEF IInv, EventsDelivered, Slots
    <3> QED
      BY <3>1, <3>2 DEF Slots
  <2>2. \A j \in Slots : j <= TASKS_MAX /\ (j < k + 1 => j <= k)
    BY TasksMaxAssumption DEF Slots
  <2> QED
    BY <1>2, <2>1, <2>2 DEF EventsDelivered
<1>6. ExecOK'
  <2>1. cpu # EXIT_TRAP /\ UNCHANGED <<cpu, m_task_now, m_fsm_state>>
    BY <1>1 DEF IInv, ExecOK, fsmVars, hwVars
  <2>2. ASSUME cpu \in Slots PROVE TaskExecuted(cpu)'
    BY <1>1, <2>1, <2>2 DEF IInv, ExecOK, TaskExecuted
  <2>3. ASSUME cpu = SLEEP_TRAP
        PROVE  /\ m_task_now \in Slots /\ m_fsm_state = "SLEEPING"
               /\ IsBusy(m_task_now)' \/ \A j \in Slots : ~IsBusy(j)'
    BY <1>1, <2>3 DEF IInv, ExecOK
  <2> QED
    BY <1>2, <2>1, <2>2, <2>3 DEF ExecOK
<1>7. RequestsOK'
  <2>1. ~m_request /\ UNCHANGED <<m_request, pc>>
    BY <1>1 DEF IInv, RequestsOK, taskVars
  <2>2. \A j \in Slots : add_task_req[j] # NoTask => pc[j] = "request"
    BY <1>1, <2>1 DEF IInv, RequestsOK
  <2> QED
    BY <1>2, <2>1, <2>2 DEF RequestsOK
<1> QED
  BY <1>3, <1>4, <1>5, <1>6, <1>7 DEF IInv, RecordsOK

(* A task pending removal that is switched out is freed *)
LEMMA RemovalCase ==
    ASSUME IInv, NEW k \in Slots, UpdateTaskState(k),
           RemovalDue(k), KernelRemoveTask(k), UNCHANGED sleep_ticks
    PROVE  IInv'
<1>1. IsBusy(k)
  BY DEF RemovalDue, IInv, SlotsOK
<1>2. sleep_ticks' \in Nat
  BY DEF IInv, TypeOK
<1>3. ASSUME m_task_now \in Slots, IsBusy(m_task_now)
      PROVE  IsBusy(m_task_now)' \/ (/\ m_fsm_state = "SLEEPING"
                                      /\ \A j \in Slots : ~IsBusy(j)')
  <2>1. CASE k # m_task_now
    <3>1. m_user'[m_task_now] = m_user[m_task_now] /\ UNCHANGED m_task_now
      BY <1>3, <2>1 DEF KernelRemoveTask, Unbind, UpdateTaskState, fsmVars, IInv, TypeOK
    <3> QED
      BY <1>3, <3>1 DEF IsBusy
  <2>2. CASE GetSize(strat) = 1 /\ m_fsm_state = "SLEEPING"
    <3>1. GetSize(strat') = 0
      BY <1>1, <2>2, RemoveLemma
    <3>2. StrategyOK(strat', Slots) /\ ListsConsistent'
      BY <1>1, RemoveLemma DEF RecordsOK
    <3>3. \A j : ~IsLinked(strat'.m_tasks, j) /\ ~IsLinked(strat'.m_sleep, j)
      BY <3>1, <3>2, GetSizeLemma
    <3>4. \A j \in Slots : ~IsBusy(j)'
      BY <3>2, <3>3 DEF ListsConsistent
    <3> QED
      BY <2>2, <3>4
  <2> QED
    BY <2>1, <2>2 DEF RemovalDue
<1>4. /\ RecordsOK' /\ StrategyOK(strat, Slots)'
      /\ m_user' \in [Slots -> UserTasks \cup {NoTask}]
      /\ add_task_req' \in [Slots -> UserTasks \cup {NoTask}]
      /\ "SLEEP_PENDING" \notin m_state'[k]
      /\ \A j \in Slots : j # k => m_state'[j] = m_state[j]
  BY <1>1, RemoveLemma
<1>5. /\ \A j \in Slots : IsBusy(j)' <=> IsBusy(j) /\ j # k
      /\ \A j \in Slots :
            add_task_req'[j] = IF j = k THEN NoTask ELSE add_task_req[j]
  BY <1>1, RemoveLemma
<1>6. \A j \in Slots : add_task_req'[j] # NoTask
                => add_task_req'[j] = add_task_req[j] /\ IsBusy(j)'
  BY <1>5 DEF IInv, RequestsOK
<1>7. \A j \in Slots : IsBusy(j)' => IsBusy(j)
  BY <1>5
<1> QED
  BY <1>2, <1>3, <1>4, <1>6, <1>7, StateLemma

(* A sleep event is delivered, or was delivered before *)
LEMMA SleptLemma ==
    ASSUME IInv, NEW k \in Slots, IsSleeping(k), NEW slept,
           slept = IF SleepEventDue(k) THEN OnTaskSleep(strat, k) ELSE strat
    PROVE  /\ StrategyOK(slept, Slots)
           /\ \A j \in Slots : IsLinked(slept.m_tasks, j) <=> IsLinked(strat.m_tasks, j) /\ j # k
           /\ \A j \in Slots : IsLinked(slept.m_sleep, j) <=> IsLinked(strat.m_sleep, j) \/ j = k
<1>1. CASE SleepEventDue(k)
  BY <1>1, DeliverLemma DEF SleepEventDue
<1>2. CASE ~SleepEventDue(k)
  <2>1. IsLinked(strat.m_sleep, k) /\ ~IsLinked(strat.m_tasks, k)
    BY <1>2 DEF IInv, ListsConsistent, SlotsOK, SleepEventDue
  <2> QED
    BY <1>2, <2>1, StrategyFact
<1> QED
  BY <1>1, <1>2

(* The time of a sleeping task passes; it wakes or remains in m_sleep *)
LEMMA SleepingCase ==
    ASSUME IInv, NEW k \in Slots, UpdateTaskState(k), IsSleeping(k),
           NEW slept, NEW time,
           slept = IF SleepEventDue(k) THEN OnTaskSleep(strat, k) ELSE strat,
           time = m_time_sleep[k] + elapsed,
           m_state' = [m_state EXCEPT ![k] = m_state[k] \ {"SLEEP_PENDING"}],
           m_time_sleep' = [m_time_sleep EXCEPT ![k] = time],
           strat' = IF time >= 0 THEN OnTaskWake(slept, k) ELSE slept,
           sleep_ticks' = GetSleepTicks(time, sleep_ticks),
           UNCHANGED <<m_user, add_task_req>>
    PROVE  IInv'
<1>1. /\ StrategyOK(slept, Slots)
      /\ \A j \in Slots : IsLinked(slept.m_tasks, j) <=> IsLinked(strat.m_tasks, j) /\ j # k
      /\ \A j \in Slots : IsLinked(slept.m_sleep, j) <=> IsLinked(strat.m_sleep, j) \/ j = k
  BY SleptLemma
<1>2. time \in Int /\ sleep_ticks' \in Nat
  <2>1. m_time_sleep[k] \in Int /\ elapsed \in Nat /\ sleep_ticks \in Nat
    BY DEF IInv, TypeOK
  <2>2. time \in Int
    BY <2>1
  <2> QED
    BY <2>1, <2>2, GetSleepTicksLemma
<1>3. /\ m_state' \in [Slots -> SUBSET {"SLEEP_PENDING", "REMOVE_PENDING"}]
      /\ "SLEEP_PENDING" \notin m_state'[k]
      /\ \A j \in Slots : j # k => m_state'[j] = m_state[j]
  BY DEF IInv, TypeOK
<1>4. /\ m_time_sleep' \in [Slots -> Int] /\ m_time_sleep'[k] = time
      /\ \A j \in Slots : j # k => m_time_sleep'[j] = m_time_sleep[j]
  BY <1>2 DEF IInv, TypeOK
<1>5. /\ IsSleeping(k)' <=> ~(time >= 0)
      /\ \A j \in Slots : j # k => (IsSleeping(j)' <=> IsSleeping(j))
  BY <1>2, <1>4 DEF IsSleeping
<1>6. \A j \in Slots : IsBusy(j)' <=> IsBusy(j)
  BY DEF IsBusy
<1>7. IsBusy(k)
  BY DEF IInv, SlotsOK
<1>8. SlotsOK'
  BY <1>3, <1>5, <1>6, <1>7 DEF IInv, SlotsOK
<1>9. StrategyOK(strat', Slots) /\ ListsConsistent'
  <2>1. CASE time >= 0
    <3>1. /\ StrategyOK(strat', Slots)
          /\ \A j : IsLinked(strat'.m_tasks, j) <=> IsLinked(slept.m_tasks, j) \/ j = k
          /\ \A j : IsLinked(strat'.m_sleep, j) <=> IsLinked(slept.m_sleep, j) /\ j # k
      BY <1>1, <2>1, SlotsFact, OnTaskWakeLemma
    <3> QED
      BY <1>1, <1>3, <1>5, <1>6, <1>7, <2>1, <3>1, StrategySplit DEF IInv, ListsConsistent
  <2>2. CASE ~(time >= 0)
    <3>1. strat' = slept
      BY <2>2
    <3> QED
      BY <1>1, <1>3, <1>5, <1>6, <1>7, <2>2, <3>1, StrategySplit DEF IInv, ListsConsistent
  <2> QED
    BY <2>1, <2>2
<1>10. RecordsOK'
  BY <1>3, <1>4, <1>8, <1>9 DEF RecordsOK
<1>11. \A j \in Slots : add_task_req'[j] # NoTask
                => add_task_req'[j] = add_task_req[j] /\ IsBusy(j)'
  BY <1>6 DEF IInv, RequestsOK
<1>12. /\ m_user' \in [Slots -> UserTasks \cup {NoTask}]
       /\ add_task_req' \in [Slots -> UserTasks \cup {NoTask}]
       /\ IsBusy(m_task_now) => IsBusy(m_task_now)'
  BY DEF IInv, TypeOK, UpdateTaskState, fsmVars, IsBusy
<1> QED
  BY <1>2, <1>3, <1>6, <1>9, <1>10, <1>11, <1>12, StateLemma

(* A slot that does not sleep is passed over *)
LEMMA AwakeCase ==
    ASSUME IInv, NEW k \in Slots, UpdateTaskState(k), ~IsSleeping(k),
           sleep_ticks' = IF IsBusy(k) THEN GetSleepTicks(m_time_sleep[k], sleep_ticks)
                                       ELSE sleep_ticks,
           UNCHANGED <<slotVars, strat>>
    PROVE  IInv'
<1>1. sleep_ticks' \in Nat
  <2>1. m_time_sleep[k] \in Int /\ sleep_ticks \in Nat
    BY DEF IInv, TypeOK
  <2> QED
    BY <2>1, GetSleepTicksLemma
<1>2. RecordsOK' /\ StrategyOK(strat', Slots)
  BY UntouchedLemma, StrategyFact DEF slotVars
<1>3. \A j \in Slots : IsBusy(j)' <=> IsBusy(j)
  BY DEF slotVars, IsBusy
<1>4. "SLEEP_PENDING" \notin m_state'[k] /\ \A j \in Slots : m_state'[j] = m_state[j]
  BY DEF IInv, SlotsOK, slotVars
<1>5. \A j \in Slots : add_task_req'[j] # NoTask
                => add_task_req'[j] = add_task_req[j] /\ IsBusy(j)'
  BY <1>3 DEF IInv, RequestsOK, slotVars
<1>6. /\ m_user' \in [Slots -> UserTasks \cup {NoTask}]
      /\ add_task_req' \in [Slots -> UserTasks \cup {NoTask}]
      /\ IsBusy(m_task_now) => IsBusy(m_task_now)'
  BY DEF IInv, TypeOK, UpdateTaskState, fsmVars, slotVars, IsBusy
<1> QED
  BY <1>1, <1>2, <1>3, <1>4, <1>5, <1>6, StateLemma

(* UpdateTaskState of one slot *)
LEMMA UpdateTaskStateStep ==
    ASSUME IInv, NEW k \in Slots, UpdateTaskState(k)
    PROVE  IInv'
<1>1. CASE RemovalDue(k) /\ KernelRemoveTask(k) /\ UNCHANGED sleep_ticks
  BY <1>1, RemovalCase
<1>2. CASE /\ IsSleeping(k)
           /\ LET slept == IF SleepEventDue(k) THEN OnTaskSleep(strat, k) ELSE strat
                  time  == m_time_sleep[k] + elapsed
              IN  /\ m_state' = [m_state EXCEPT ![k] = @ \ {"SLEEP_PENDING"}]
                  /\ m_time_sleep' = [m_time_sleep EXCEPT ![k] = time]
                  /\ strat' = IF time >= 0 THEN OnTaskWake(slept, k) ELSE slept
                  /\ sleep_ticks' = GetSleepTicks(time, sleep_ticks)
           /\ UNCHANGED <<m_user, add_task_req>>
  BY <1>2, SleepingCase
<1>3. CASE /\ ~IsSleeping(k)
           /\ sleep_ticks' = IF IsBusy(k) THEN GetSleepTicks(m_time_sleep[k], sleep_ticks)
                                          ELSE sleep_ticks
           /\ UNCHANGED <<slotVars, strat>>
  BY <1>3, AwakeCase
<1> QED
  BY <1>1, <1>2, <1>3 DEF UpdateTaskState

(* The table m_fsm, read backwards *)
LEMMA FsmLemma ==
    ASSUME NEW state \in {"SWITCHING", "WAKING", "SLEEPING"},
           NEW event \in {"SWITCH", "WAKE", "SLEEP", "EXIT"}
    PROVE  /\ Fsm(state, event) \in {"NONE", "SWITCHING", "SLEEPING", "WAKING", "EXITING"}
           /\ Fsm(state, event) = "SWITCHING" => state # "SLEEPING" /\ event = "SWITCH"
           /\ Fsm(state, event) = "SLEEPING" => state # "SLEEPING" /\ event = "SLEEP"
           /\ Fsm(state, event) = "WAKING" => state = "SLEEPING" /\ event = "WAKE"
           /\ Fsm(state, event) = "EXITING" => event = "EXIT"
           /\ Fsm(state, event) = "NONE" =>
                \/ state = "SLEEPING" /\ event \in {"SLEEP", "SWITCH"}
                \/ state # "SLEEPING" /\ event = "WAKE"
<1>1. CASE state \in {"SWITCHING", "WAKING"} /\ event = "SWITCH"
  BY <1>1 DEF Fsm
<1>2. CASE state \in {"SWITCHING", "WAKING"} /\ event = "SLEEP"
  BY <1>2 DEF Fsm
<1>3. CASE state = "SLEEPING" /\ event = "WAKE"
  BY <1>3 DEF Fsm
<1>4. CASE event = "EXIT"
  BY <1>4 DEF Fsm
<1>5. CASE \/ state = "SLEEPING" /\ event \in {"SLEEP", "SWITCH"}
           \/ state # "SLEEPING" /\ event = "WAKE"
  BY <1>5 DEF Fsm
<1> QED
  BY <1>1, <1>2, <1>3, <1>4, <1>5

(* What the transition taken at the end of the tick says of the strategy and of
   the context that executes *)
LEMMA TransitionLemma ==
    ASSUME IInv, phase = "fsm"
    PROVE  /\ GetNewFsmState \in {"NONE", "SWITCHING", "SLEEPING", "WAKING", "EXITING"}
           /\ GetNewFsmState = "SWITCHING" => cpu \in Slots /\ GetNext(strat) # NONE
           /\ GetNewFsmState = "WAKING" => cpu = SLEEP_TRAP /\ GetNext(strat) # NONE
           /\ GetNewFsmState = "SLEEPING" =>
                cpu \in Slots /\ GetNext(strat) = NONE /\ GetSize(strat) # 0
           /\ GetNewFsmState = "EXITING" => GetSize(strat) = 0
           /\ GetNewFsmState = "NONE" =>
                cpu = SLEEP_TRAP /\ GetNext(strat) = NONE /\ GetSize(strat) # 0
           /\ cpu \in Slots => m_task_now = cpu
<1>1. /\ cpu \in Slots => m_fsm_state \in {"SWITCHING", "WAKING"} /\ m_task_now = cpu
      /\ cpu = SLEEP_TRAP => m_fsm_state = "SLEEPING"
      /\ cpu \in Slots \/ cpu = SLEEP_TRAP
  BY DEF IInv, TypeOK, ExecOK, TaskExecuted, Contexts
<1>2. m_fsm_state \in {"SWITCHING", "WAKING", "SLEEPING"}
  BY <1>1
<1>3. /\ FetchNextEvent \in {"SWITCH", "WAKE", "SLEEP", "EXIT"}
      /\ FetchNextEvent = "SWITCH" => GetNext(strat) # NONE /\ m_fsm_state # "SLEEPING"
      /\ FetchNextEvent = "WAKE" => GetNext(strat) # NONE /\ m_fsm_state = "SLEEPING"
      /\ FetchNextEvent = "SLEEP" => GetNext(strat) = NONE /\ GetSize(strat) # 0
      /\ FetchNextEvent = "EXIT" => GetSize(strat) = 0
  BY DEF FetchNextEvent
<1> QED
  BY <1>1, <1>2, <1>3, FsmLemma DEF GetNewFsmState

(* UpdateFsmState: the context the transition picks is a bound task, or the
   sleep trap when no task is runnable, or the exit trap *)
LEMMA UpdateFsmStateStep ==
    ASSUME IInv, UpdateFsmState
    PROVE  IInv'
<1>1. /\ phase = "fsm" /\ UNCHANGED <<slotVars, m_request, m_kstate, idx, taskVars>>
      /\ m_fsm_state' = IF GetNewFsmState \in {"NONE", "EXITING"} THEN m_fsm_state ELSE GetNewFsmState
      /\ strat' = Advanced(strat)
  BY DEF UpdateFsmState
<1>2. /\ RecordsOK' /\ CursorIsRunnable'
      /\ strat' \in [m_tasks: Seq(Slots), m_sleep: Seq(Slots), m_prev: Slots \cup {NONE}]
      /\ strat'.m_tasks = strat.m_tasks
      /\ \A j \in Slots : (IsSleeping(j)' <=> IsSleeping(j)) /\ (IsBusy(j)' <=> IsBusy(j))
  BY <1>1, AdvanceLemma
<1>3. /\ cpu \in Slots => m_task_now = cpu
      /\ cpu = SLEEP_TRAP =>
            m_task_now \in Slots /\ (IsBusy(m_task_now) \/ \A k \in Slots : ~IsBusy(k))
  BY <1>1 DEF IInv, ExecOK, TaskExecuted
<1>4. GetNext(strat) = NONE => strat'.m_tasks = <<>>
  BY <1>2, StrategyFact, SlotsFact, GetNextLemma
<1>5. GetNext(strat) # NONE => GetNext(strat) \in Slots /\ m_user'[GetNext(strat)] # NoTask
  BY <1>1, NextLemma DEF IsBusy, slotVars
<1>6. GetSize(strat) # 0 => \E k \in Slots : IsBusy(k)
  BY SizeLemma, StrategyFact DEF IInv
<1>7. GetSize(strat) # 0 => GetFirst(strat) \in Slots /\ m_user'[GetFirst(strat)] # NoTask
  BY <1>1, <1>6, FirstLemma DEF IsBusy, slotVars
<1>8. \/ /\ phase' = "none" /\ UNCHANGED <<m_stack_idle, m_stack_active>>
         /\ cpu' \in Slots /\ m_task_now' = cpu' /\ m_user'[cpu'] # NoTask
         /\ m_fsm_state' = "SWITCHING"
      \/ /\ phase' = "none" /\ UNCHANGED <<m_stack_idle, m_stack_active>>
         /\ cpu' = SLEEP_TRAP /\ m_task_now' \in Slots /\ m_user'[m_task_now'] # NoTask
         /\ m_fsm_state' = "SLEEPING" /\ strat'.m_tasks = <<>>
      \/ /\ phase' = "none" /\ m_stack_idle' = NONE /\ m_stack_active' = EXIT_TRAP
         /\ cpu' = EXIT_TRAP /\ m_task_now' = NONE /\ UNCHANGED m_fsm_state
      \/ /\ phase' = "pendsv" /\ UNCHANGED cpu /\ m_stack_idle' = cpu
         /\ m_stack_active' \in Slots /\ m_task_now' = m_stack_active'
         /\ m_user'[m_stack_active'] # NoTask
         /\ m_fsm_state' \in {"SWITCHING", "WAKING"}
      \/ /\ phase' = "pendsv" /\ UNCHANGED cpu /\ m_stack_idle' = cpu
         /\ m_stack_active' = SLEEP_TRAP
         /\ m_task_now' \in Slots /\ m_user'[m_task_now'] # NoTask
         /\ m_fsm_state' = "SLEEPING" /\ strat'.m_tasks = <<>>
  <2>1. CASE StateSwitch
    <3>1. /\ cpu \in Slots /\ GetNext(strat) # NONE /\ m_task_now' = GetNext(strat)
          /\ m_fsm_state' = "SWITCHING"
      BY <1>1, <2>1, TransitionLemma DEF StateSwitch
    <3>2. CASE m_task_now' # m_task_now
      BY <1>3, <1>5, <2>1, <3>1, <3>2 DEF StateSwitch, SwitchContext
    <3>3. CASE m_task_now' = m_task_now
      BY <1>3, <1>5, <2>1, <3>1, <3>3 DEF StateSwitch, NoSwitch
    <3> QED
      BY <3>2, <3>3
  <2>2. CASE StateWake
    <3>1. /\ cpu = SLEEP_TRAP /\ GetNext(strat) # NONE /\ m_task_now' = GetNext(strat)
          /\ m_fsm_state' = "WAKING"
      BY <1>1, <2>2, TransitionLemma DEF StateWake
    <3> QED
      BY <1>5, <2>2, <3>1 DEF StateWake, SwitchContext
  <2>3. CASE StateSleep
    <3>1. /\ cpu \in Slots /\ GetNext(strat) = NONE /\ GetSize(strat) # 0
          /\ m_task_now' = GetFirst(strat) /\ m_fsm_state' = "SLEEPING"
      BY <1>1, <2>3, TransitionLemma DEF StateSleep
    <3> QED
      BY <1>3, <1>4, <1>7, <2>3, <3>1 DEF StateSleep, SwitchContext
  <2>4. CASE StateExit
    BY <1>1, <2>4 DEF StateExit
  <2>5. CASE NoTransition
    <3>1. cpu = SLEEP_TRAP /\ GetNext(strat) = NONE /\ GetSize(strat) # 0
      BY <1>1, <2>5, TransitionLemma DEF NoTransition
    <3>2. m_task_now \in Slots /\ IsBusy(m_task_now) /\ m_fsm_state = "SLEEPING"
      BY <1>1, <1>3, <1>6, <3>1 DEF IInv, ExecOK
    <3> QED
      BY <1>1, <1>4, <2>5, <3>1, <3>2 DEF NoTransition, NoSwitch, IsBusy, slotVars
  <2> QED
    BY <2>1, <2>2, <2>3, <2>4, <2>5 DEF UpdateFsmState
<1>9. TypeOK'
  <2>1. cpu' \in Contexts /\ m_stack_idle' \in Contexts \cup {NONE}
    BY <1>8 DEF IInv, TypeOK, Contexts
  <2>2. m_stack_active' \in Contexts \cup {NONE} /\ m_task_now' \in Slots \cup {NONE}
    BY <1>8 DEF IInv, TypeOK, Contexts
  <2>3. /\ m_fsm_state' \in {"NONE", "SWITCHING", "SLEEPING", "WAKING"}
        /\ phase' \in {"none", "start", "request", "state", "fsm", "pendsv"}
    BY <1>8 DEF IInv, TypeOK
  <2>4. m_sleep_ticks' \in Nat /\ elapsed' \in Nat /\ sleep_ticks' \in Nat
    BY DEF UpdateFsmState, IInv, TypeOK
  <2> QED
    BY <1>1, <1>2, <2>1, <2>2, <2>3, <2>4 DEF IInv, TypeOK, slotVars, taskVars
<1>10. EventsDelivered' /\ CancelsOK'
  BY <1>1, <1>8 DEF IInv, EventsDelivered, CancelsOK, taskVars
<1>11. ExecOK'
  BY <1>8, SlotsFact DEF ExecOK, TaskExecuted, IsBusy, SLEEP_TRAP, EXIT_TRAP
<1>12. RequestsOK'
  BY <1>1, <1>2, <1>8 DEF IInv, RequestsOK, slotVars, taskVars
<1> QED
  BY <1>2, <1>9, <1>10, <1>11, <1>12 DEF IInv, RecordsOK

(* PendSV: the context to execute is the one UpdateFsmState picked *)
LEMMA PendSVStep ==
    ASSUME IInv, PendSV
    PROVE  IInv'
<1>1. RecordsOK' /\ \A j \in Slots : IsSleeping(j)' <=> IsSleeping(j)
  BY UntouchedLemma DEF PendSV, slotVars
<1>2. phase = "pendsv" /\ phase' = "none" /\ cpu' = m_stack_active
  BY DEF PendSV
<1>3. \/ m_stack_active \in Slots /\ TaskExecuted(m_stack_active)
      \/ /\ m_stack_active = SLEEP_TRAP /\ m_fsm_state = "SLEEPING"
         /\ m_task_now \in Slots /\ IsBusy(m_task_now)
         /\ strat.m_tasks = <<>>
  BY <1>2 DEF IInv, ExecOK
<1>4. TypeOK'
  BY <1>2, <1>3 DEF PendSV, IInv, TypeOK, Contexts, slotVars, fsmVars, taskVars
<1>5. CursorIsRunnable' /\ CancelsOK' /\ EventsDelivered'
  BY <1>2 DEF PendSV, IInv, CursorIsRunnable, CancelsOK, EventsDelivered, taskVars
<1>6. ExecOK'
  BY <1>2, <1>3, SlotsFact
  DEF PendSV, ExecOK, TaskExecuted, IsBusy, slotVars, fsmVars, SLEEP_TRAP, EXIT_TRAP
<1>7. RequestsOK'
  BY <1>1, <1>2 DEF PendSV, IInv, RequestsOK, IsBusy, slotVars, taskVars
<1> QED
  BY <1>1, <1>4, <1>5, <1>6, <1>7 DEF IInv, RecordsOK

-----------------------------------------------------------------------------
(* Init establishes the inductive invariant *)
LEMMA InitLemma ==
    ASSUME Init
    PROVE  IInv
<1>1. /\ m_user = [k \in Slots |-> NoTask] /\ m_time_sleep = [k \in Slots |-> 0]
      /\ m_state = [k \in Slots |-> {}] /\ add_task_req = [k \in Slots |-> NoTask]
      /\ pc = [k \in Slots |-> "run"] /\ found = [k \in Slots |-> NONE]
  BY DEF Init
<1>2. /\ strat.m_tasks = <<>> /\ strat.m_sleep = <<>> /\ strat.m_prev = NONE
      /\ strat \in [m_tasks: Seq(Slots), m_sleep: Seq(Slots), m_prev: Slots \cup {NONE}]
  BY DEF Init, Empty
<1>3. {} \in SUBSET {"SLEEP_PENDING", "REMOVE_PENDING"}
  OBVIOUS
<1>4. idx \in 1..(TASKS_MAX + 1)
  BY TasksMaxAssumption DEF Init
<1>5. TypeOK
  <2>1. /\ m_user \in [Slots -> UserTasks \cup {NoTask}]
        /\ add_task_req \in [Slots -> UserTasks \cup {NoTask}]
        /\ pc \in [Slots -> Labels] /\ found \in [Slots -> Slots \cup {NONE}]
    BY <1>1 DEF Labels
  <2>2. /\ m_time_sleep \in [Slots -> Int]
        /\ m_state \in [Slots -> SUBSET {"SLEEP_PENDING", "REMOVE_PENDING"}]
    BY <1>1, <1>3
  <2> QED
    BY <1>2, <1>4, <2>1, <2>2 DEF Init, TypeOK, Contexts
<1>6. \A k \in Slots : ~IsBusy(k) /\ ~IsSleeping(k) /\ m_state[k] = {}
  BY <1>1 DEF IsBusy, IsSleeping
<1>7. NoDuplicates(<<>>) /\ \A k : ~IsLinked(<<>>, k)
  BY DEF NoDuplicates, IsLinked
<1>8. ListsConsistent /\ CursorIsRunnable
  BY <1>2, <1>6, <1>7 DEF ListsConsistent, CursorIsRunnable
<1>9. SlotsOK /\ CancelsOK /\ EventsDelivered
  BY <1>1, <1>6 DEF Init, SlotsOK, CancelsOK, EventsDelivered
<1>10. ExecOK /\ RequestsOK
  BY <1>1, SlotsFact DEF Init, ExecOK, RequestsOK, EXIT_TRAP, SLEEP_TRAP
<1> QED
  BY <1>5, <1>8, <1>9, <1>10 DEF IInv

(* A step of the task in slot k preserves the inductive invariant *)
LEMMA TaskStepLemma ==
    ASSUME IInv, NEW k \in Slots, TaskStep(k)
    PROVE  IInv'
<1>1. CASE \E ticks \in SleepTicks \cup {YIELD_TICKS} : KernelOnTaskSleep(k, ticks)
  BY <1>1, SleepStep
<1>2. CASE \E delta \in SleepTicks \cup {0, WAIT_INFINITE + 1} : OnTaskSleepUntil(k, delta)
  BY <1>2, SleepUntilStep
<1>3. CASE \E j \in Slots : SuspendTask(k, j)
  BY <1>3, SuspendTaskStep
<1>4. CASE \E j \in Slots : ResumeTask(k, j)
  BY <1>4, ResumeTaskStep
<1>5. CASE \E j \in Slots : SleepCancelFind(k, j)
  BY <1>5, SleepCancelFindStep
<1>6. CASE \E j \in Slots : ScheduleTaskRemoval(k, j)
  BY <1>6, RemovalStep
<1>7. CASE \E u \in UserTasks : RequestAddTask(k, u)
  BY <1>7, RequestStep
<1>8. CASE SleepCancelWake(k)
  BY <1>8, SleepCancelWakeStep
<1>9. CASE ScheduleAddTask(k)
  BY <1>9, ScheduleAddStep
<1>10. CASE AwaitAddTask(k)
  BY <1>10, AwaitAddStep
<1>11. CASE BusyWaitDone(k)
  BY <1>11, BusyWaitStep
<1>12. CASE OnTaskExit(k)
  BY <1>12, ExitStep
<1>13. CASE Suspend(k)
  BY <1>13, SuspendStep
<1> QED
  BY <1>1, <1>2, <1>3, <1>4, <1>5, <1>6, <1>7, <1>8, <1>9, <1>10, <1>11, <1>12, <1>13
  DEF TaskStep

(* A step of the context that starts the kernel preserves it *)
LEMMA MainStepLemma ==
    ASSUME IInv, MainStep
    PROVE  IInv'
<1>1. CASE \E u \in UserTasks : MainAddTask(u)
  BY <1>1, MainAddStep
<1>2. CASE \E k \in Slots : MainRemoveTask(k)
  BY <1>2, MainRemoveStep
<1>3. CASE \E k \in Slots : OnStartTask(k)
  BY <1>3, OnStartTaskStep
<1>4. CASE \E k \in Slots : SuspendTask(NONE, k)
  BY <1>4, SuspendTaskStep
<1>5. CASE \E k \in Slots : ResumeTask(NONE, k)
  BY <1>5, ResumeTaskStep
<1>6. CASE Start
  BY <1>6, StartStep
<1>7. CASE OnStart
  BY <1>7, OnStartStep
<1>8. CASE OnStop
  BY <1>8, OnStopStep
<1> QED
  BY <1>1, <1>2, <1>3, <1>4, <1>5, <1>6, <1>7, <1>8 DEF MainStep

(* A step of the tick handler preserves it *)
LEMMA TickStepLemma ==
    ASSUME IInv, TickStep
    PROVE  IInv'
<1>1. CASE ProcessTick
  BY <1>1, ProcessTickStep
<1>2. CASE \E k \in Slots : UpdateTaskRequest(k)
  BY <1>2, UpdateTaskRequestStep
<1>3. CASE \E k \in Slots : UpdateTaskState(k)
  BY <1>3, UpdateTaskStateStep
<1>4. CASE UpdateFsmState
  BY <1>4, UpdateFsmStateStep
<1>5. CASE PendSV
  BY <1>5, PendSVStep
<1> QED
  BY <1>1, <1>2, <1>3, <1>4, <1>5 DEF TickStep

(* An interrupt preserves it, unless it suspends the kernel while a context
   switch is pending *)
LEMMA IsrStepLemma ==
    ASSUME IInv, SwitchNotInterrupted, IsrStep
    PROVE  IInv'
<1>1. CASE IsrSuspend
  BY <1>1, IsrSuspendStep
<1>2. CASE \E ticks \in {0, TICKLESS_TICKS_MAX} : Resume(ticks)
  <2>1. {0, TICKLESS_TICKS_MAX} \subseteq Nat
    BY TicklessAssumption
  <2> QED
    BY <1>2, <2>1, ResumeStep
<1>3. CASE \E k \in Slots : IsrSleepCancel(k)
  BY <1>3, IsrSleepCancelStep
<1> QED
  BY <1>1, <1>2, <1>3 DEF IsrStep

(* Every step of the system preserves the inductive invariant *)
LEMMA NextLemmaIInv ==
    ASSUME SwitchNotInterrupted, IInv, [Next]_vars
    PROVE  IInv'
<1>1. CASE UNCHANGED vars
  <2>1. UNCHANGED <<m_user, m_time_sleep, m_state, add_task_req, strat, m_request,
                    m_task_now, m_fsm_state, m_kstate>>
    BY <1>1 DEF vars, slotVars, fsmVars
  <2>2. UNCHANGED <<m_stack_idle, m_stack_active, m_sleep_ticks, cpu, phase, idx, elapsed,
                    sleep_ticks, pc, found>>
    BY <1>1 DEF vars, hwVars, tickVars, taskVars
  <2>3. RecordsOK' /\ \A j \in Slots : IsSleeping(j)' <=> IsSleeping(j)
    BY <2>1, UntouchedLemma
  <2>4. TypeOK'
    BY <2>1, <2>2 DEF IInv, TypeOK
  <2>5. CursorIsRunnable' /\ CancelsOK' /\ EventsDelivered'
    BY <2>1, <2>2 DEF IInv, CursorIsRunnable, CancelsOK, EventsDelivered
  <2>6. ExecOK'
    BY <2>1, <2>2 DEF IInv, ExecOK, TaskExecuted, IsBusy
  <2>7. RequestsOK'
    BY <2>1, <2>2, <2>3 DEF IInv, RequestsOK, IsBusy
  <2> QED
    BY <2>3, <2>4, <2>5, <2>6, <2>7 DEF IInv, RecordsOK
<1>2. CASE Next
  BY <1>2, MainStepLemma, TickStepLemma, IsrStepLemma, TaskStepLemma DEF Next
<1> QED
  BY <1>1, <1>2

(* The inductive invariant holds throughout, whatever calls the tasks and the
   interrupts make, if no interrupt suspends the kernel in a context switch *)
THEOREM Invariance == SwitchNotInterrupted /\ Spec => []IInv
<1>1. Init => IInv
  BY InitLemma
<1>2. SwitchNotInterrupted /\ IInv /\ [Next]_vars => IInv'
  BY NextLemmaIInv
<1>3. SwitchNotInterrupted => SwitchNotInterrupted'
  BY DEF SwitchNotInterrupted
<1> QED
  BY <1>1, <1>2, <1>3, PTL DEF Spec

(* Type correctness of every variable *)
THEOREM TypeCorrectness == SwitchNotInterrupted /\ Spec => []TypeOK
<1>1. IInv => TypeOK
  BY DEF IInv
<1> QED
  BY <1>1, Invariance, PTL

(* The lists of the strategy agree with the records of the kernel at every step
   of the tick handler and of the calls, so that no STK_ASSERT on the list a task
   is in ever fails *)
THEOREM ListsAgree == SwitchNotInterrupted /\ Spec => []ListsConsistent
<1>1. IInv => ListsConsistent
  BY DEF IInv
<1> QED
  BY <1>1, Invariance, PTL

(* The cursor m_prev of the round robin never dangles *)
THEOREM CursorSafe == SwitchNotInterrupted /\ Spec => []CursorIsRunnable
<1>1. IInv => CursorIsRunnable
  BY DEF IInv
<1> QED
  BY <1>1, Invariance, PTL

(* FetchNextEvent never gets a sleeping task from the strategy, whichever tasks
   were put to sleep by others before the tick *)
THEOREM NextAwake == SwitchNotInterrupted /\ Spec => []NextIsAwake
<1>1. IInv => NextIsAwake
  <2>1. SUFFICES ASSUME IInv, GetNext(strat) # NONE,
                        phase = "fsm" \/ (phase = "start" /\ idx = TASKS_MAX + 1)
                 PROVE  IsBusy(GetNext(strat)) /\ ~IsSleeping(GetNext(strat))
    BY DEF NextIsAwake
  <2>2. \A k \in Slots : k < TASKS_MAX + 1
    BY TasksMaxAssumption DEF Slots
  <2>3. \A k \in Slots : "SLEEP_PENDING" \notin m_state[k]
    BY <2>1, <2>2 DEF IInv, EventsDelivered
  <2> QED
    BY <2>1, <2>3, NextLemma
<1> QED
  BY <1>1, Invariance, PTL

(* Outside the tick handler m_task_now is the bound task that executes *)
THEOREM TaskNowRuns == SwitchNotInterrupted /\ Spec => []RunningIsTaskNow
<1>1. IInv => RunningIsTaskNow
  BY SlotsFact DEF IInv, ExecOK, TaskExecuted, RunningIsTaskNow
<1> QED
  BY <1>1, Invariance, PTL

(* The context switch saves the registers to the stack they belong to *)
THEOREM ContextSaved == SwitchNotInterrupted /\ Spec => []SavedContextIsRunning
<1>1. IInv => SavedContextIsRunning
  BY DEF IInv, ExecOK, SavedContextIsRunning
<1> QED
  BY <1>1, Invariance, PTL

(* The processor sleeps only while no task is runnable *)
THEOREM IdleOnlyWhenNothingRuns ==
    SwitchNotInterrupted /\ Spec => []SleepTrapOnlyWhenIdle
<1>1. IInv => SleepTrapOnlyWhenIdle
  BY DEF IInv, ExecOK, SleepTrapOnlyWhenIdle
<1> QED
  BY <1>1, Invariance, PTL

(* RequestAddTask returns only once its request is served *)
THEOREM AddServed == SwitchNotInterrupted /\ Spec => []AddRequestServed
<1>1. IInv => AddRequestServed
  BY DEF IInv, RequestsOK, AddRequestServed
<1> QED
  BY <1>1, Invariance, PTL

(* The calls of a running task, and the interrupts, bind and free no slot *)
LEMMA CallsBindNothing ==
    ASSUME Next
    PROVE  \/ UNCHANGED m_user
           \/ InMain
           \/ \E j \in Slots : UpdateTaskRequest(j) \/ UpdateTaskState(j)
<1>1. ASSUME NEW k \in Slots, TaskStep(k) PROVE UNCHANGED m_user
  BY <1>1
  DEF TaskStep, KernelOnTaskSleep, OnTaskSleepUntil, SuspendTask, ResumeTask,
      SleepCancelFind, ScheduleTaskRemoval, RequestAddTask, SleepCancelWake,
      ScheduleAddTask, AwaitAddTask, BusyWaitDone, OnTaskExit, Suspend, ContextSuspend,
      slotVars
<1>2. ASSUME IsrStep PROVE UNCHANGED m_user
  BY <1>2 DEF IsrStep, IsrSuspend, ContextSuspend, Resume, IsrSleepCancel
<1>3. ASSUME MainStep PROVE InMain \/ UNCHANGED m_user
  BY <1>3
  DEF MainStep, MainAddTask, MainRemoveTask, OnStartTask, SuspendTask, ResumeTask, Start,
      OnStart, OnStop, slotVars
<1>4. ASSUME ProcessTick \/ UpdateFsmState \/ PendSV PROVE UNCHANGED m_user
  BY <1>4 DEF ProcessTick, UpdateFsmState, PendSV, slotVars
<1> QED
  BY <1>1, <1>2, <1>3, <1>4 DEF Next, TickStep

(* The slot a step binds or frees is not the one that executes *)
LEMMA BindingLemma ==
    ASSUME IInv, Next, NEW k \in Slots, m_user'[k] # m_user[k]
    PROVE  cpu # k
<1>1. CASE InMain
  BY <1>1, SlotsFact DEF InMain
<1>2. ASSUME NEW j \in Slots, UpdateTaskRequest(j) PROVE cpu # k
  <2>1. AllocateAndAddNewTask(add_task_req[j]) /\ phase = "request"
    BY <1>2 DEF UpdateTaskRequest
  <2>2. PICK i \in Slots : ~IsBusy(i) /\ Bind(i, add_task_req[j])
    BY <2>1 DEF AllocateAndAddNewTask, FirstFree
  <2>3. k = i
    BY <2>2 DEF Bind, IInv, TypeOK
  <2> QED
    BY <2>1, <2>2, <2>3 DEF IInv, ExecOK, TaskExecuted
<1>3. ASSUME NEW j \in Slots, UpdateTaskState(j) PROVE cpu # k
  <2>1. RemovalDue(j) /\ Unbind(j) /\ phase = "state"
    BY <1>3 DEF UpdateTaskState, KernelRemoveTask, slotVars
  <2>2. k = j
    BY <2>1 DEF Unbind, IInv, TypeOK
  <2> QED
    BY <2>1, <2>2 DEF IInv, ExecOK, TaskExecuted, RemovalDue
<1> QED
  BY <1>1, <1>2, <1>3, CallsBindNothing

(* The slot of the executing task is never freed or bound anew *)
THEOREM ExecutingSlot == SwitchNotInterrupted /\ Spec => ExecutingSlotKept
<1>1. IInv /\ [Next]_vars
        => [\A k \in Slots : m_user'[k] # m_user[k] => cpu # k]_vars
  BY BindingLemma
<1> QED
  BY <1>1, Invariance, PTL DEF Spec, ExecutingSlotKept

-----------------------------------------------------------------------------
(* The tickless timer *)

(* A timer of n ticks is not late for the slot *)
Covered(k, n) == IF IsSleeping(k) THEN n <= -m_time_sleep[k] ELSE n = 1

(* A timer of more than one tick, which no caller of Resume has set *)
LongTimer == /\ phase \in {"none", "pendsv"} /\ m_kstate = "RUNNING"
             /\ m_sleep_ticks \in 2..TICKLESS_TICKS_MAX

(* The loop of the tick handler covers the slots it has passed; a tick of no
   duration, which sets no timer, suspends the kernel; under a long timer no task
   executes that could call the kernel, and only sleeps that were cancelled end
   before it *)
TimerInv ==
    /\ m_sleep_ticks \in Nat \ {0}
    /\ phase \in {"request", "state", "fsm"} =>
        /\ sleep_ticks \in 1..TICKLESS_TICKS_MAX
        /\ elapsed = 0 => m_kstate # "RUNNING"
    /\ phase = "state" => \A k \in Slots : k < idx /\ IsBusy(k) => Covered(k, sleep_ticks)
    /\ phase = "fsm" => \A k \in Slots : IsBusy(k) => Covered(k, sleep_ticks)
    /\ LongTimer =>
        /\ m_task_now = NONE \/ m_fsm_state \notin {"SWITCHING", "WAKING"}
        /\ \A k \in Slots : IsBusy(k) =>
            m_time_sleep[k] = -1 \/ (IsSleeping(k) /\ m_sleep_ticks <= -m_time_sleep[k])

(* No long timer, outside the handler *)
LEMMA ShortTimerLemma ==
    ASSUME phase' \notin {"request", "state", "fsm"}, m_sleep_ticks' \in Nat \ {0}, ~LongTimer'
    PROVE  TimerInv'
BY DEF TimerInv

(* The timer set by GetSleepTicks: no longer than before, and not late for the slot *)
LEMMA SleepTicksLemma ==
    ASSUME NEW time \in Int, NEW limit \in 1..TICKLESS_TICKS_MAX
    PROVE  /\ GetSleepTicks(time, limit) \in 1..TICKLESS_TICKS_MAX
           /\ GetSleepTicks(time, limit) <= limit
           /\ time < 0 => GetSleepTicks(time, limit) <= -time
           /\ time >= 0 => GetSleepTicks(time, limit) = 1
<1> DEFINE least == IF -time < limit THEN -time ELSE limit
<1>1. limit \in Nat /\ limit >= 1 /\ limit <= TICKLESS_TICKS_MAX /\ TICKLESS_TICKS_MAX \in Nat
  BY TicklessAssumption
<1>2. least \in Int /\ least <= -time /\ least <= limit
  BY <1>1
<1>3. GetSleepTicks(time, limit) = IF least < 1 THEN 1 ELSE least
  BY DEF GetSleepTicks
<1>4. time < 0 => least >= 1
  BY <1>1
<1> HIDE DEF least
<1> QED
  BY <1>1, <1>2, <1>3, <1>4

(* A call of a task: it executes, so the timer is not long *)
LEMMA TimerTaskStep ==
    ASSUME IInv, TimerInv, NEW k \in Slots, TaskStep(k)
    PROVE  TimerInv'
<1>1. Running(k)
  BY DEF TaskStep, KernelOnTaskSleep, OnTaskSleepUntil, SuspendTask, ResumeTask, Caller,
         SleepCancelFind, ScheduleTaskRemoval, RequestAddTask, SleepCancelWake,
         ScheduleAddTask, AwaitAddTask, BusyWaitDone, OnTaskExit, Suspend, InTask, NONE, Slots
<1>2. /\ phase = "none" /\ m_fsm_state \in {"SWITCHING", "WAKING"} /\ m_task_now # NONE
      /\ m_sleep_ticks \in Nat \ {0}
  BY <1>1, SlotsFact DEF IInv, ExecOK, TaskExecuted, Running, TimerInv
<1>3. ~LongTimer
  BY <1>2 DEF TimerInv
<1>4. CASE Suspend(k)
  <2>1. /\ m_kstate' # "RUNNING" /\ UNCHANGED m_sleep_ticks
        /\ phase' \in {"request", "state"} /\ idx' = 1 /\ elapsed' = 0
        /\ sleep_ticks' = TICKLESS_TICKS_MAX
    BY <1>4 DEF Suspend, ContextSuspend, OnSuspend, EnterOnTick, hwVars
  <2>2. sleep_ticks' \in 1..TICKLESS_TICKS_MAX /\ \A j \in Slots : ~(j < idx')
    BY <2>1, TicklessAssumption DEF Slots
  <2> QED
    BY <1>2, <2>1, <2>2 DEF TimerInv, LongTimer
<1>5. CASE ~Suspend(k)
  <2>1. UNCHANGED <<fsmVars, hwVars, tickVars>>
    BY <1>5
    DEF TaskStep, KernelOnTaskSleep, OnTaskSleepUntil, SuspendTask, ResumeTask,
        SleepCancelFind, ScheduleTaskRemoval, RequestAddTask, SleepCancelWake,
        ScheduleAddTask, AwaitAddTask, BusyWaitDone, OnTaskExit
  <2> QED
    BY <1>2, <1>3, <2>1, ShortTimerLemma DEF fsmVars, hwVars, tickVars, LongTimer
<1> QED
  BY <1>4, <1>5

(* Main runs before Start; OnStart sets the timer to one tick *)
LEMMA TimerMainStep ==
    ASSUME IInv, TimerInv, MainStep
    PROVE  TimerInv'
<1>0. m_sleep_ticks \in Nat \ {0}
  BY DEF TimerInv
<1>1. ASSUME InMain, UNCHANGED <<m_kstate, m_sleep_ticks>>, phase' \in {"none", "start"}
      PROVE  TimerInv'
  BY <1>0, <1>1, ShortTimerLemma DEF InMain, LongTimer
<1>2. ASSUME NEW u \in UserTasks, MainAddTask(u) PROVE TimerInv'
  BY <1>1, <1>2 DEF MainAddTask, InMain, fsmVars, hwVars, tickVars
<1>3. ASSUME NEW k \in Slots, MainRemoveTask(k) \/ SuspendTask(NONE, k) \/ ResumeTask(NONE, k)
      PROVE  TimerInv'
  <2>1. InMain /\ UNCHANGED <<fsmVars, hwVars, tickVars>>
    BY <1>3, SlotsFact, RunningLemma
    DEF MainRemoveTask, SuspendTask, ResumeTask, Caller, InTask, Running, IInv, TypeOK, Contexts,
        NONE, Slots, SLEEP_TRAP, EXIT_TRAP
  <2> QED
    BY <1>1, <2>1 DEF InMain, fsmVars, hwVars, tickVars
<1>4. ASSUME NEW k \in Slots, OnStartTask(k) PROVE TimerInv'
  BY <1>0, <1>4, ShortTimerLemma DEF OnStartTask, hwVars, LongTimer
<1>5. CASE Start
  BY <1>1, <1>5 DEF Start, fsmVars, hwVars
<1>6. CASE OnStart
  BY <1>6, ShortTimerLemma DEF OnStart, LongTimer
<1>7. CASE OnStop
  BY <1>0, <1>7, ShortTimerLemma DEF OnStop, hwVars, tickVars, LongTimer
<1> QED
  BY <1>2, <1>3, <1>4, <1>5, <1>6, <1>7 DEF MainStep

(* The interrupts *)
LEMMA TimerIsrStep ==
    ASSUME IInv, TimerInv, IsrStep
    PROVE  TimerInv'
<1>0. m_sleep_ticks \in Nat \ {0} /\ TICKLESS_TICKS_MAX \in Nat \ {0}
  BY TicklessAssumption DEF TimerInv
<1>1. CASE IsrSuspend
  <2>1. /\ m_kstate' # "RUNNING" /\ UNCHANGED m_sleep_ticks
        /\ phase' \in {"request", "state"} /\ idx' = 1 /\ elapsed' = 0
        /\ sleep_ticks' = TICKLESS_TICKS_MAX
    BY <1>1 DEF IsrSuspend, ContextSuspend, OnSuspend, EnterOnTick, hwVars
  <2>2. sleep_ticks' \in 1..TICKLESS_TICKS_MAX /\ \A j \in Slots : ~(j < idx')
    BY <1>0, <2>1 DEF Slots
  <2> QED
    BY <1>0, <2>1, <2>2 DEF TimerInv, LongTimer
<1>2. ASSUME NEW ticks \in {0, TICKLESS_TICKS_MAX}, Resume(ticks) PROVE TimerInv'
  <2>1. m_sleep_ticks' = ticks + 1 /\ phase \in {"none", "pendsv"} /\ UNCHANGED phase
    BY <1>2 DEF Resume, Interruptible, tickVars
  <2>2. m_sleep_ticks' \in Nat \ {0} /\ m_sleep_ticks' \notin 2..TICKLESS_TICKS_MAX
    BY <1>0, <2>1
  <2> QED
    BY <2>1, <2>2, ShortTimerLemma DEF LongTimer
<1>3. ASSUME NEW j \in Slots, IsrSleepCancel(j) PROVE TimerInv'
  <2>1. /\ phase \in {"none", "pendsv"} /\ m_time_sleep' = [m_time_sleep EXCEPT ![j] = -1]
        /\ UNCHANGED <<m_user, m_kstate, m_fsm_state, m_task_now, m_sleep_ticks, phase>>
    BY <1>3 DEF IsrSleepCancel, Interruptible, Wake, fsmVars, hwVars, tickVars
  <2>2. \A k \in Slots : m_time_sleep'[k] = IF k = j THEN -1 ELSE m_time_sleep[k]
    BY <2>1 DEF IInv, TypeOK
  <2> QED
    BY <2>1, <2>2 DEF TimerInv, LongTimer, IsBusy, IsSleeping
<1> QED
  BY <1>1, <1>2, <1>3 DEF IsrStep

(* A slot of the loop of UpdateTaskState: the timer becomes no longer, and covers the
   slot, if it is still bound *)
LEMMA TimerStateLemma ==
    ASSUME IInv, TimerInv, NEW k \in Slots, UpdateTaskState(k)
    PROVE  /\ sleep_ticks' \in 1..TICKLESS_TICKS_MAX /\ sleep_ticks' <= sleep_ticks
           /\ IsBusy(k)' => Covered(k, sleep_ticks)'
           /\ \A j \in Slots : j # k =>
                m_user'[j] = m_user[j] /\ m_time_sleep'[j] = m_time_sleep[j]
<1>0. /\ sleep_ticks \in 1..TICKLESS_TICKS_MAX /\ TICKLESS_TICKS_MAX \in Nat
      /\ m_user \in [Slots -> UserTasks \cup {NoTask}]
      /\ m_time_sleep \in [Slots -> Int] /\ elapsed \in Nat
  BY TicklessAssumption DEF TimerInv, UpdateTaskState, IInv, TypeOK
<1>1. CASE RemovalDue(k) /\ KernelRemoveTask(k) /\ UNCHANGED sleep_ticks
  <2>1. /\ m_user' = [m_user EXCEPT ![k] = NoTask]
        /\ m_time_sleep' = [m_time_sleep EXCEPT ![k] = 0] /\ UNCHANGED sleep_ticks
    BY <1>1 DEF KernelRemoveTask, Unbind
  <2>2. ~IsBusy(k)'
    BY <1>0, <2>1 DEF IsBusy
  <2> QED
    BY <1>0, <2>1, <2>2
<1>2. CASE /\ IsSleeping(k) /\ UNCHANGED m_user
           /\ m_time_sleep' = [m_time_sleep EXCEPT ![k] = m_time_sleep[k] + elapsed]
           /\ sleep_ticks' = GetSleepTicks(m_time_sleep[k] + elapsed, sleep_ticks)
  <2> DEFINE time == m_time_sleep[k] + elapsed
  <2>1. time \in Int /\ m_time_sleep'[k] = time
    BY <1>0, <1>2
  <2> HIDE DEF time
  <2>2. /\ sleep_ticks' \in 1..TICKLESS_TICKS_MAX /\ sleep_ticks' <= sleep_ticks
        /\ time < 0 => sleep_ticks' <= -time
        /\ time >= 0 => sleep_ticks' = 1
    BY <1>0, <1>2, <2>1, SleepTicksLemma DEF time
  <2>3. Covered(k, sleep_ticks)'
    BY <2>1, <2>2 DEF Covered, IsSleeping
  <2> QED
    BY <1>0, <1>2, <2>2, <2>3
<1>3. CASE /\ ~IsSleeping(k) /\ UNCHANGED <<m_user, m_time_sleep>>
           /\ sleep_ticks' = IF IsBusy(k) THEN GetSleepTicks(m_time_sleep[k], sleep_ticks)
                                          ELSE sleep_ticks
  <2>1. CASE IsBusy(k)
    <3>1. m_time_sleep[k] \in Int /\ m_time_sleep[k] >= 0
      BY <1>0, <1>3 DEF IsSleeping
    <3>2. sleep_ticks' = 1 /\ sleep_ticks' <= sleep_ticks
          /\ sleep_ticks' \in 1..TICKLESS_TICKS_MAX
      BY <1>0, <1>3, <2>1, <3>1, SleepTicksLemma
    <3> QED
      BY <1>3, <3>2 DEF Covered, IsSleeping
  <2>2. CASE ~IsBusy(k)
    BY <1>0, <1>3, <2>2 DEF IsBusy
  <2> QED
    BY <2>1, <2>2
<1> QED
  BY <1>1, <1>2, <1>3 DEF UpdateTaskState, slotVars

(* A shorter timer covers what a longer one does *)
LEMMA CoveredLemma ==
    ASSUME IInv, NEW j \in Slots, NEW n \in 1..TICKLESS_TICKS_MAX,
           NEW l \in 1..TICKLESS_TICKS_MAX, l <= n, Covered(j, n)
    PROVE  IF m_time_sleep[j] < 0 THEN l <= -m_time_sleep[j] ELSE l = 1
<1>1. m_time_sleep[j] \in Int /\ TICKLESS_TICKS_MAX \in Nat
  BY TicklessAssumption DEF IInv, TypeOK
<1> QED
  BY <1>1 DEF Covered, IsSleeping

LEMMA TimerUpdateTaskState ==
    ASSUME IInv, TimerInv, NEW k \in Slots, UpdateTaskState(k)
    PROVE  TimerInv'
<1>1. /\ phase = "state" /\ idx = k /\ UNCHANGED <<m_kstate, m_sleep_ticks, elapsed>>
      /\ IF k = TASKS_MAX THEN phase' = "fsm" /\ idx' = 1
                          ELSE idx' = k + 1 /\ phase' = "state"
  BY DEF UpdateTaskState, fsmVars, hwVars
<1>2. /\ sleep_ticks' \in 1..TICKLESS_TICKS_MAX /\ sleep_ticks' <= sleep_ticks
      /\ IsBusy(k)' => Covered(k, sleep_ticks)'
      /\ \A j \in Slots : j # k => m_user'[j] = m_user[j] /\ m_time_sleep'[j] = m_time_sleep[j]
  BY TimerStateLemma
<1>3. /\ sleep_ticks \in 1..TICKLESS_TICKS_MAX
      /\ \A j \in Slots : j < k /\ IsBusy(j) => Covered(j, sleep_ticks)
  BY <1>1 DEF TimerInv
<1>4. ASSUME NEW j \in Slots, j <= k, IsBusy(j)' PROVE Covered(j, sleep_ticks)'
  <2>1. CASE j = k
    BY <1>2, <1>4, <2>1
  <2>2. CASE j # k
    <3>1. j < k /\ IsBusy(j) /\ m_time_sleep'[j] = m_time_sleep[j]
      BY <1>2, <1>4, <2>2 DEF IsBusy, Slots
    <3>2. Covered(j, sleep_ticks)
      BY <1>3, <3>1
    <3>3. IF m_time_sleep[j] < 0 THEN sleep_ticks' <= -m_time_sleep[j] ELSE sleep_ticks' = 1
      BY <1>2, <1>3, <3>2, CoveredLemma
    <3> QED
      BY <3>1, <3>3 DEF Covered, IsSleeping
  <2> QED
    BY <2>1, <2>2
<1>5. phase' = "state" => \A j \in Slots : j < idx' /\ IsBusy(j)' => Covered(j, sleep_ticks)'
  <2>1. \A j \in Slots : phase' = "state" /\ j < idx' => j <= k
    BY <1>1 DEF Slots
  <2> QED
    BY <1>4, <2>1
<1>6. phase' = "fsm" => \A j \in Slots : IsBusy(j)' => Covered(j, sleep_ticks)'
  <2>1. \A j \in Slots : phase' = "fsm" => j <= k
    BY <1>1 DEF Slots
  <2> QED
    BY <1>4, <2>1
<1>7. m_sleep_ticks' \in Nat \ {0} /\ (elapsed' = 0 => m_kstate' # "RUNNING") /\ ~LongTimer'
  BY <1>1 DEF TimerInv, LongTimer
<1> QED
  BY <1>2, <1>5, <1>6, <1>7 DEF TimerInv

(* The end of the tick sets the timer.  If it is long, every bound task sleeps: the
   strategy has no task to run, and the processor goes to the sleep trap *)
LEMMA TimerUpdateFsmState ==
    ASSUME IInv, TimerInv, UpdateFsmState
    PROVE  TimerInv'
<1>1. /\ phase = "fsm" /\ phase' \in {"none", "pendsv"}
      /\ m_sleep_ticks' = IF elapsed = 0 \/ GetNewFsmState = "EXITING" THEN m_sleep_ticks
                                                                     ELSE sleep_ticks
      /\ GetNewFsmState = "EXITING" => m_task_now' = NONE
      /\ m_fsm_state' = IF GetNewFsmState \in {"NONE", "EXITING"} THEN m_fsm_state ELSE GetNewFsmState
      /\ UNCHANGED <<m_user, m_time_sleep, m_kstate>>
  BY DEF UpdateFsmState, StateSwitch, StateWake, StateSleep, StateExit, NoTransition, NoSwitch,
         SwitchContext, slotVars
<1>2. /\ sleep_ticks \in 1..TICKLESS_TICKS_MAX /\ m_sleep_ticks \in Nat \ {0}
      /\ TICKLESS_TICKS_MAX \in Nat
      /\ elapsed = 0 => m_kstate # "RUNNING"
      /\ \A k \in Slots : IsBusy(k) => Covered(k, sleep_ticks)
  BY <1>1, TicklessAssumption DEF TimerInv
<1>3. CASE elapsed = 0
  BY <1>1, <1>2, <1>3, ShortTimerLemma DEF LongTimer
<1>4. CASE GetNewFsmState = "EXITING"
  <2>1. \A k \in Slots : ~IsBusy(k)'
    BY <1>1, <1>4, TransitionLemma, SizeLemma, StrategyFact DEF IInv, IsBusy
  <2> QED
    BY <1>1, <1>2, <1>4, <2>1 DEF TimerInv
<1>5. CASE elapsed # 0 /\ GetNewFsmState # "EXITING"
  <2>1. m_sleep_ticks' = sleep_ticks /\ m_sleep_ticks' \in Nat \ {0}
    BY <1>1, <1>2, <1>5
  <2>2. CASE sleep_ticks = 1
    BY <1>1, <2>1, <2>2, ShortTimerLemma DEF LongTimer
  <2>3. CASE sleep_ticks # 1
    <3>1. \A k \in Slots : IsBusy(k) => IsSleeping(k) /\ sleep_ticks <= -m_time_sleep[k]
      BY <1>2, <2>3 DEF Covered
    <3>2. GetNext(strat) = NONE
      BY <1>1, <3>1, NextLemma DEF IInv, EventsDelivered
    <3>3. m_fsm_state' \notin {"SWITCHING", "WAKING"}
      <4>1. cpu = SLEEP_TRAP => m_fsm_state = "SLEEPING"
        BY <1>1 DEF IInv, ExecOK
      <4> QED
        BY <1>1, <1>5, <3>2, <4>1, TransitionLemma
    <3>4. \A k \in Slots : IsBusy(k)' => IsSleeping(k)' /\ m_sleep_ticks' <= -m_time_sleep'[k]
      BY <1>1, <2>1, <3>1 DEF IsBusy, IsSleeping
    <3> QED
      BY <1>1, <2>1, <3>3, <3>4 DEF TimerInv
  <2> QED
    BY <2>2, <2>3
<1> QED
  BY <1>3, <1>4, <1>5

LEMMA TimerTickStep ==
    ASSUME IInv, TimerInv, TickStep
    PROVE  TimerInv'
<1>0. m_sleep_ticks \in Nat \ {0} /\ TICKLESS_TICKS_MAX \in Nat \ {0}
  BY TicklessAssumption DEF TimerInv
<1>1. CASE ProcessTick
  <2>1. /\ phase' \in {"request", "state"} /\ idx' = 1 /\ elapsed' = m_sleep_ticks
        /\ sleep_ticks' = TICKLESS_TICKS_MAX /\ UNCHANGED m_sleep_ticks
    BY <1>1 DEF ProcessTick, EnterOnTick, hwVars
  <2>2. sleep_ticks' \in 1..TICKLESS_TICKS_MAX /\ \A j \in Slots : ~(j < idx')
    BY <1>0, <2>1 DEF Slots
  <2> QED
    BY <1>0, <2>1, <2>2 DEF TimerInv, LongTimer
<1>2. ASSUME NEW k \in Slots, UpdateTaskRequest(k) PROVE TimerInv'
  <2>1. /\ phase = "request" /\ UNCHANGED <<m_kstate, m_sleep_ticks, elapsed, sleep_ticks>>
        /\ phase' = "request" \/ (phase' = "state" /\ idx' = 1)
    BY <1>2 DEF UpdateTaskRequest, fsmVars, hwVars
  <2>2. \A j \in Slots : ~(j < 1)
    BY DEF Slots
  <2> QED
    BY <2>1, <2>2 DEF TimerInv, LongTimer
<1>3. CASE PendSV
  <2>1. phase = "pendsv" /\ phase' = "none"
        /\ UNCHANGED <<m_user, m_time_sleep, m_kstate, m_fsm_state, m_task_now, m_sleep_ticks>>
    BY <1>3 DEF PendSV, slotVars, fsmVars
  <2> QED
    BY <2>1 DEF TimerInv, LongTimer, IsBusy, IsSleeping
<1> QED
  BY <1>1, <1>2, <1>3, TimerUpdateTaskState, TimerUpdateFsmState DEF TickStep

THEOREM TimerInvariance == SwitchNotInterrupted /\ Spec => []TimerInv
<1>1. Init => TimerInv
  BY DEF Init, TimerInv, LongTimer
<1>2. IInv /\ TimerInv /\ [Next]_vars => TimerInv'
  <2>1. ASSUME IInv, TimerInv, UNCHANGED vars PROVE TimerInv'
    <3>1. UNCHANGED <<m_user, m_time_sleep, m_kstate, m_fsm_state, m_task_now, m_sleep_ticks,
                      phase, idx, elapsed, sleep_ticks>>
      BY <2>1 DEF vars, slotVars, fsmVars, hwVars, tickVars
    <3> QED
      BY <2>1, <3>1 DEF TimerInv, LongTimer, Covered, IsBusy, IsSleeping
  <2> QED
    BY <2>1, TimerTaskStep, TimerMainStep, TimerIsrStep, TimerTickStep DEF Next
<1> QED
  BY <1>1, <1>2, Invariance, PTL DEF Spec

(* Tickless: whatever calls, interrupts, suspensions and resumptions come between two
   ticks, the timer does not fire after the end of a sleep, nor later than the next
   tick while a task is runnable *)
THEOREM TimerInTime == SwitchNotInterrupted /\ Spec => []TimerNotLate
<1>1. ASSUME IInv, TimerInv PROVE TimerNotLate
  <2>1. SUFFICES ASSUME phase = "none", m_kstate = "RUNNING",
                        m_sleep_ticks <= TICKLESS_TICKS_MAX, NEW k \in Slots, IsBusy(k)
                 PROVE  \/ m_time_sleep[k] = -1
                        \/ IsSleeping(k) /\ m_sleep_ticks <= -m_time_sleep[k]
                        \/ ~IsSleeping(k) /\ m_sleep_ticks = 1
    BY DEF TimerNotLate
  <2>2. /\ m_sleep_ticks \in Nat \ {0} /\ TICKLESS_TICKS_MAX \in Nat
        /\ m_time_sleep[k] \in Int
    BY <1>1, TicklessAssumption DEF TimerInv, IInv, TypeOK
  <2>3. CASE m_sleep_ticks = 1
    BY <2>2, <2>3 DEF IsSleeping
  <2>4. CASE m_sleep_ticks # 1
    <3>1. LongTimer
      BY <2>1, <2>2, <2>4 DEF LongTimer
    <3> QED
      BY <1>1, <2>1, <3>1 DEF TimerInv
  <2> QED
    BY <2>3, <2>4
<1> QED
  BY <1>1, Invariance, TimerInvariance, PTL
=============================================================================
