------------------------------ MODULE Monotonic ------------------------------
(* SwitchStrategyMonotonic and SchedulabilityCheck (strategy/stk_strategy_monotonic.h).
   The strategy keeps the tasks sorted by their rate or by their deadline and runs the
   first that does not sleep; the check computes the worst-case response times of the
   sorted tasks.  A task is a record [id, period, deadline], its deadline being the
   time it may run in each period *)
EXTENDS Blocking, SequencesExt

MonotonicObject(type) == [kind |-> "monotonic", type |-> type, m_tasks |-> <<>>]

Key(s, k) == IF s.type = "MSS_TYPE_RATE" THEN k.period ELSE k.deadline

(* In front of the first task of a lower priority, behind those of the same *)
Sorted(s, k) ==
    LET lower == {i \in DOMAIN s.m_tasks : Key(s, k) < Key(s, s.m_tasks[i])}
    IN  InsertAt(s.m_tasks, Min(lower \cup {Len(s.m_tasks) + 1}), k)

MonoAddTask(t, c) ==
    /\ c.op = "MonoAddTask"
    /\ Set(c.o, [obj[c.o] EXCEPT !.m_tasks = Sorted(obj[c.o], c.x)])
    /\ Return(t, c, OK) /\ UNCHANGED <<wait, now>>

MonoRemoveTask(t, c) ==
    /\ c.op = "MonoRemoveTask"
    /\ Set(c.o, [obj[c.o] EXCEPT !.m_tasks = Remove(@, c.x)])
    /\ Return(t, c, OK) /\ UNCHANGED <<wait, now>>

(* The place of the first task that does not sleep, 0 if all do *)
FirstAwake(tasks, asleep) ==
    LET awake == DOMAIN tasks \ asleep
    IN  IF awake = {} THEN 0 ELSE Min(awake)

(* x is the set of the places of those that sleep *)
MonoGetNext(t, c) ==
    LET next == FirstAwake(obj[c.o].m_tasks, c.x)
    IN  /\ c.op = "MonoGetNext"
        /\ Answers(t, c, IF next = 0 THEN NULL ELSE obj[c.o].m_tasks[next].id)

MonoGetFirst(t, c) ==
    /\ c.op = "MonoGetFirst" /\ obj[c.o].m_tasks # <<>>
    /\ Answers(t, c, Head(obj[c.o].m_tasks).id)

-----------------------------------------------------------------------------
(* mutant: rounds down *)
idiv_floor(x, y) == x \div y

idiv_ceil(x, y) == (x \div y) + (IF x % y > 0 THEN 1 ELSE 0)

(* The response time of the task at i: the work of the tasks before it that comes in
   until it is done, computed again until it does not change or exceeds the period *)
Wcrt(tasks, i) ==
    LET Cx == tasks[i].deadline
        Tx == tasks[i].period
        work(w0) == Cx + MapThenSumSet(LAMBDA j : idiv_ceil(w0, tasks[j].period) * tasks[j].deadline,
                                       1..i-1)
        iterate[w0 \in Nat] ==
            LET w == work(w0) IN IF w # w0 /\ w <= Tx THEN iterate[w] ELSE w
    IN  IF i = 1 THEN Cx ELSE iterate[Cx]

(* The verdict does not look at the first task *)
CalculateWCRT(tasks) == \A i \in 2..Len(tasks) : Wcrt(tasks, i) <= tasks[i].period

(* Whole percents, of one task and of it and those before it *)
TaskLoad(k) == ((k.deadline * 100) \div k.period) % 2^16

GetTaskCpuLoad(tasks, i) == MapThenSumSet(LAMBDA j : TaskLoad(tasks[j]), 1..i) % 2^16

IsSchedulableWCRT(t, c) ==
    /\ c.op = "IsSchedulableWCRT"
    /\ obj[c.o].m_tasks # <<>>
    /\ Answers(t, c, CalculateWCRT(obj[c.o].m_tasks))

MonoStep(t, c) ==
    \/ MonoAddTask(t, c) \/ MonoRemoveTask(t, c) \/ MonoGetNext(t, c)
    \/ MonoGetFirst(t, c) \/ IsSchedulableWCRT(t, c)

-----------------------------------------------------------------------------
(* What the analysis predicts: the tasks, all released at time 0 and then with their
   periods, as GetNext runs them.  left is the work each has left in its period, first
   the time at which its first job was done, missed whether a job was not done when
   the next came *)
Released0(tasks) ==
    [left |-> [i \in DOMAIN tasks |-> tasks[i].deadline],
     first |-> [i \in DOMAIN tasks |-> 0], missed |-> FALSE]

RunTick(tasks, run, k) ==
    LET running == FirstAwake(tasks, {i \in DOMAIN tasks : run.left[i] = 0})
        left == [i \in DOMAIN tasks |-> run.left[i] - (IF i = running THEN 1 ELSE 0)]
        due == {i \in DOMAIN tasks : k % tasks[i].period = 0}
    IN  [left |-> [i \in DOMAIN tasks |-> IF i \in due THEN tasks[i].deadline ELSE left[i]],
         first |-> [i \in DOMAIN tasks |-> IF run.first[i] = 0 /\ left[i] = 0 THEN k ELSE run.first[i]],
         missed |-> run.missed \/ \E i \in due : left[i] > 0]

Hyperperiod(tasks) ==
    LET all == FoldLeft(LAMBDA p, k : p * k.period, 1, tasks)
    IN  Min({h \in 1..all : \A i \in DOMAIN tasks : h % tasks[i].period = 0})

Schedule(tasks) ==
    FoldLeft(LAMBDA run, k : RunTick(tasks, run, k), Released0(tasks),
             [k \in 1..Hyperperiod(tasks) |-> k])
=============================================================================
