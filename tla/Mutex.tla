------------------------------- MODULE Mutex -------------------------------
(***************************************************************************)
(* sync::Mutex (sync/stk_sync_mutex.h) with the priority inheritance of    *)
(* the kernel (OnInheritWeight, OnRestoreWeight of stk.h), under the       *)
(* fixed-priority strategy.                                                *)
(*                                                                         *)
(* One processor executes the task the strategy picked at the last tick;   *)
(* each method is a critical section and so one action, up to the wait.    *)
(* The tick handler first ages the waits, then looks at one slot after the *)
(* other, then picks the next task.  A task that sleeps, whether it waits  *)
(* for a mutex or just sleeps, is told to the strategy by the next tick,   *)
(* and so is its wake-up.                                                  *)
(***************************************************************************)
EXTENDS WaitQueue, FixedPriority, FiniteSets

CONSTANTS
    BaseWeight,       \* ITask::GetWeight of each task
    RECURSION_MAX,
    Timeouts          \* arguments of TimedLock

NO_WEIGHT == -1
Mutexes == SyncObjects
NoCall == <<>>

ASSUME SlotsAssumption == IsFiniteSet(Tasks) /\ Tasks = 1..Cardinality(Tasks)
ASSUME WeightAssumption == BaseWeight \in [Tasks -> 0..(MAX_PRIORITIES - 1)]
ASSUME RecursionAssumption == RECURSION_MAX \in Nat \ {0}
ASSUME TimeoutsAssumption == Timeouts \subseteq 0..WAIT_INFINITE

VARIABLES
    m_owner_tid,        \* per mutex; NONE is TID_NONE
    m_recursion_count,  \* per mutex
    sched,              \* record of m_rt_weight of each task and m_strategy
    sleep,              \* m_time_sleep of each task: "awake", "asleep", "woken" (-1)
    pended,             \* tasks with SLEEP_PENDING
    wait,               \* wait state of the mutexes
    call,               \* of each task: this and owner_tid of the TimedLock it waits in
    pc,                 \* of each task: "run", or "wait" inside TimedLock
    held,               \* locks each task made and did not undo, per mutex
    cpu,                \* the task that is executed; NONE: the handler, or the sleep trap
    phase, idx          \* progress of the tick handler, "run" outside it

mutexVars == <<m_owner_tid, m_recursion_count, held>>
tickVars == <<cpu, phase, idx>>
vars == <<mutexVars, sched, sleep, pended, wait, call, pc, tickVars>>

-----------------------------------------------------------------------------
(* Weights *)

(* KernelTask::GetWeight in a scheduling state *)
GetWeight(s, t) ==
    IF s.m_rt_weight[t] # NO_WEIGHT THEN s.m_rt_weight[t] ELSE BaseWeight[t]

(* SetCurrentWeight, and the strategy is told *)
ChangeWeight(s, t, weight) ==
    LET new == [s EXCEPT !.m_rt_weight[t] = weight]
    IN  [new EXCEPT !.m_strategy =
            OnTaskWeightChange(@, t, GetWeight(s, t), GetWeight(new, t))]

OnInheritWeight(s, t, weight) ==
    IF weight # NO_WEIGHT /\ GetWeight(s, t) < weight
    THEN ChangeWeight(s, t, weight)
    ELSE s

(* ISyncObject::FindWeightHigherThan *)
FindWeightHigherThan(waiters, comp) ==
    LET higher == {BaseWeight[waiters[i]] : i \in 1..Len(waiters)}
    IN  IF \E w \in higher : w > comp
        THEN CHOOSE w \in higher : \A v \in higher : v <= w
        ELSE NO_WEIGHT

(* OnRestoreWeight of a task, and with the mutex whose waiters may still lend
   it theirs *)
(* mutant: the boost is kept *)
RestoreKept(s, t) == s
RestoreOriginal(s, t) == ChangeWeight(s, t, NO_WEIGHT)
RestoreFromWaiters(s, t, waiters) ==
    ChangeWeight(s, t, FindWeightHigherThan(waiters, GetWeight(s, t)))

-----------------------------------------------------------------------------
(* The task that is executed *)

Executes(t) == phase = "run" /\ cpu = t /\ sleep[t] = "awake"
InTask(t) == Executes(t) /\ pc[t] = "run"

ScheduleSleep(t) ==
    /\ sleep' = [sleep EXCEPT ![t] = "asleep"]
    /\ pended' = pended \cup {t}

(* Sleep for some time *)
Sleep(t) ==
    /\ InTask(t)
    /\ ScheduleSleep(t)
    /\ UNCHANGED <<mutexVars, sched, wait, call, pc, tickVars>>

(* The four paths of TimedLock *)
(* mutant: one nesting too many *)
LockRecursiveDeeper(t, m) ==
    /\ m_recursion_count[m] # 0 /\ m_owner_tid[m] = t
    /\ m_recursion_count[m] <= RECURSION_MAX
    /\ m_recursion_count' = [m_recursion_count EXCEPT ![m] = @ + 1]
    /\ held' = [held EXCEPT ![t][m] = @ + 1]
    /\ UNCHANGED <<m_owner_tid, sched, sleep, pended, wait, call, pc>>

LockRecursive(t, m) ==
    /\ m_recursion_count[m] # 0 /\ m_owner_tid[m] = t
    /\ m_recursion_count[m] < RECURSION_MAX
    /\ m_recursion_count' = [m_recursion_count EXCEPT ![m] = @ + 1]
    /\ held' = [held EXCEPT ![t][m] = @ + 1]
    /\ UNCHANGED <<m_owner_tid, sched, sleep, pended, wait, call, pc>>

LockFree(t, m) ==
    /\ m_recursion_count[m] = 0
    /\ m_recursion_count' = [m_recursion_count EXCEPT ![m] = 1]
    /\ m_owner_tid' = [m_owner_tid EXCEPT ![m] = t]
    /\ held' = [held EXCEPT ![t][m] = 1]
    /\ UNCHANGED <<sched, sleep, pended, wait, call, pc>>

LockWait(t, m, ticks) ==
    /\ m_recursion_count[m] # 0 /\ m_owner_tid[m] # t /\ ticks # NO_WAIT
    /\ sched' = OnInheritWeight(sched, m_owner_tid[m], BaseWeight[t])
    /\ wait' = SetupWait(wait, m, t, ticks)
    /\ ScheduleSleep(t)
    /\ call' = [call EXCEPT ![t] = [mutex |-> m, owner |-> m_owner_tid[m]]]
    /\ pc' = [pc EXCEPT ![t] = "wait"]
    /\ UNCHANGED mutexVars

LockBusy(t, m, ticks) ==
    /\ m_recursion_count[m] # 0 /\ m_owner_tid[m] # t /\ ticks = NO_WAIT
    /\ UNCHANGED <<mutexVars, sched, sleep, pended, wait, call, pc>>

TimedLock(t, m, ticks) ==
    /\ InTask(t)
    /\ \/ LockRecursive(t, m) \/ LockFree(t, m)
       \/ LockWait(t, m, ticks) \/ LockBusy(t, m, ticks)
    /\ UNCHANGED tickVars

(* The wait of TimedLock is over *)
LockWaitReturns(t) ==
    /\ Executes(t) /\ pc[t] = "wait"
    /\ LET m == call[t].mutex
       IN  IF wait.timeout[t]
           THEN /\ sched' = IF call[t].owner = m_owner_tid[m]
                            THEN RestoreFromWaiters(sched, call[t].owner, wait.list[m])
                            ELSE sched
                /\ UNCHANGED held
           ELSE /\ held' = [held EXCEPT ![t][m] = 1]
                /\ UNCHANGED sched
    /\ pc' = [pc EXCEPT ![t] = "run"]
    /\ call' = [call EXCEPT ![t] = NoCall]
    /\ UNCHANGED <<m_owner_tid, m_recursion_count, sleep, pended, wait, tickVars>>

(* The last Unlock of the owner; the first waiter becomes the owner *)
PassOwnership(m) ==
    LET first == Head(wait.list[m])
    IN  /\ wait.list[m] # <<>>
        /\ m_owner_tid' = [m_owner_tid EXCEPT ![m] = first]
        /\ wait' = WakeOne(wait, m)
        /\ sleep' = [sleep EXCEPT ![first] = "woken"]
        /\ sched' = OnInheritWeight(RestoreOriginal(sched, m_owner_tid[m]), first,
                        FindWeightHigherThan(Tail(wait.list[m]), BaseWeight[first]))
        /\ UNCHANGED m_recursion_count

(* mutant: the owner is not reset *)
FreeMutexKeepsOwner(m) ==
    /\ wait.list[m] = <<>>
    /\ m_recursion_count' = [m_recursion_count EXCEPT ![m] = 0]
    /\ sched' = RestoreOriginal(sched, m_owner_tid[m])
    /\ UNCHANGED <<m_owner_tid, wait, sleep>>

FreeMutex(m) ==
    /\ wait.list[m] = <<>>
    /\ m_recursion_count' = [m_recursion_count EXCEPT ![m] = 0]
    /\ m_owner_tid' = [m_owner_tid EXCEPT ![m] = NONE]
    /\ sched' = RestoreOriginal(sched, m_owner_tid[m])
    /\ UNCHANGED <<wait, sleep>>

(* mutant: the waiters are woken and the lock is left to the first to come *)
UnlockWakesOnly(t, m) ==
    /\ InTask(t) /\ held[t][m] > 0
    /\ held' = [held EXCEPT ![t][m] = @ - 1]
    /\ \/ /\ m_recursion_count[m] > 1
          /\ m_recursion_count' = [m_recursion_count EXCEPT ![m] = @ - 1]
          /\ UNCHANGED <<m_owner_tid, sched, wait, sleep>>
       \/ /\ m_recursion_count[m] = 1
          /\ m_recursion_count' = [m_recursion_count EXCEPT ![m] = 0]
          /\ m_owner_tid' = [m_owner_tid EXCEPT ![m] = NONE]
          /\ sched' = RestoreOriginal(sched, t)
          /\ wait' = WakeOne(wait, m)
          /\ sleep' = IF wait.list[m] # <<>>
                      THEN [sleep EXCEPT ![Head(wait.list[m])] = "woken"] ELSE sleep
    /\ UNCHANGED <<pended, call, pc, tickVars>>

(* The caller has locked the mutex before *)
Unlock(t, m) ==
    /\ InTask(t) /\ held[t][m] > 0
    /\ held' = [held EXCEPT ![t][m] = @ - 1]
    /\ \/ /\ m_recursion_count[m] > 1
          /\ m_recursion_count' = [m_recursion_count EXCEPT ![m] = @ - 1]
          /\ UNCHANGED <<m_owner_tid, sched, wait, sleep>>
       \/ m_recursion_count[m] = 1 /\ (PassOwnership(m) \/ FreeMutex(m))
    /\ UNCHANGED <<pended, call, pc, tickVars>>

-----------------------------------------------------------------------------
(* The tick handler *)

Tick ==
    /\ phase = "run"
    /\ cpu' = NONE /\ phase' = "sync" /\ idx' = 1
    /\ UNCHANGED <<mutexVars, sched, sleep, pended, wait, call, pc>>

(* UpdateSyncObjects: a wait that expires wakes its task *)
UpdateSyncObjects(t) ==
    /\ phase = "sync" /\ idx = t
    /\ wait' = TickWaiter(wait, t)
    /\ sleep' = IF t \in Expired(wait) THEN [sleep EXCEPT ![t] = "woken"] ELSE sleep
    /\ IF t = Cardinality(Tasks) THEN phase' = "state" /\ idx' = 1
                                 ELSE idx' = t + 1 /\ UNCHANGED phase
    /\ UNCHANGED <<mutexVars, sched, pended, call, pc, cpu>>

(* One slot of UpdateTaskState; a sleep that is not a wait ends at any tick *)
UpdateTaskState(t) ==
    /\ phase = "state" /\ idx = t
    /\ LET prio  == GetWeight(sched, t)
           slept == IF t \in pended THEN OnTaskSleep(sched.m_strategy, t, prio)
                                    ELSE sched.m_strategy
       IN  \/ /\ sleep[t] = "awake"
              /\ UNCHANGED <<sched, sleep>>
           \/ /\ sleep[t] = "asleep"
              /\ sched' = [sched EXCEPT !.m_strategy = slept]
              /\ UNCHANGED sleep
           \/ /\ sleep[t] = "woken" \/ (sleep[t] = "asleep" /\ pc[t] = "run")
              /\ sched' = [sched EXCEPT !.m_strategy = OnTaskWake(slept, t, prio)]
              /\ sleep' = [sleep EXCEPT ![t] = "awake"]
    /\ pended' = pended \ {t}
    /\ idx' = t + 1
    /\ UNCHANGED <<mutexVars, wait, call, pc, cpu, phase>>

(* UpdateFsmState and the switch to the next task *)
SwitchContext ==
    /\ phase = "state" /\ idx = Cardinality(Tasks) + 1
    /\ cpu' = GetNext(sched.m_strategy)
    /\ sched' = [sched EXCEPT !.m_strategy = Advanced(@)]
    /\ phase' = "run" /\ idx' = 1
    /\ UNCHANGED <<mutexVars, sleep, pended, wait, call, pc>>

-----------------------------------------------------------------------------
(* AddTask of every slot in turn *)
Added[n \in 0..Cardinality(Tasks)] ==
    IF n = 0 THEN Empty ELSE AddTask(Added[n - 1], n, BaseWeight[n])

(* The kernel after Start, before the first tick *)
Init ==
    /\ m_owner_tid = [m \in Mutexes |-> NONE]
    /\ m_recursion_count = [m \in Mutexes |-> 0]
    /\ held = [t \in Tasks |-> [m \in Mutexes |-> 0]]
    /\ sched = [m_rt_weight |-> [t \in Tasks |-> NO_WEIGHT],
                m_strategy  |-> Added[Cardinality(Tasks)]]
    /\ sleep = [t \in Tasks |-> "awake"]
    /\ pended = {}
    /\ wait = NoWaiters
    /\ call = [t \in Tasks |-> NoCall]
    /\ pc = [t \in Tasks |-> "run"]
    /\ cpu = NONE /\ phase = "state" /\ idx = Cardinality(Tasks) + 1

TaskStep(t) ==
    \/ Sleep(t) \/ LockWaitReturns(t)
    \/ \E m \in Mutexes : Unlock(t, m) \/ \E ticks \in Timeouts : TimedLock(t, m, ticks)

Next ==
    \/ Tick \/ SwitchContext
    \/ \E t \in Tasks : UpdateSyncObjects(t) \/ UpdateTaskState(t) \/ TaskStep(t)

Spec == Init /\ [][Next]_vars

-----------------------------------------------------------------------------
(* Type correctness of every variable *)
TypeOK ==
    /\ m_owner_tid \in [Mutexes -> Tasks \cup {NONE}]
    /\ m_recursion_count \in [Mutexes -> 0..RECURSION_MAX]
    /\ held \in [Tasks -> [Mutexes -> 0..RECURSION_MAX]]
    /\ sched.m_rt_weight \in [Tasks -> Priorities \cup {NO_WEIGHT}]
    /\ sleep \in [Tasks -> {"awake", "asleep", "woken"}]
    /\ pended \subseteq Tasks
    /\ wait \in [list: [Mutexes -> Seq(Tasks)], time: [Tasks -> 0..WAIT_INFINITE],
                 timeout: [Tasks -> BOOLEAN]]
    /\ call \in [Tasks -> [mutex: Mutexes, owner: Tasks] \cup {NoCall}]
    /\ pc \in [Tasks -> {"run", "wait"}]
    /\ cpu \in Tasks \cup {NONE}
    /\ phase \in {"run", "sync", "state"} /\ idx \in 1..(Cardinality(Tasks) + 1)

(* The mutex agrees with its users: a task that has locked it is the owner and
   the count is its own, so that no two tasks are inside; a mutex without owner
   has the count zero (the panic of TimedLock's fast path) *)
OwnershipExact == \A m \in Mutexes :
    /\ m_recursion_count[m] = 0 <=> m_owner_tid[m] = NONE
    /\ \A t \in Tasks : held[t][m] > 0 =>
            m_owner_tid[m] = t /\ m_recursion_count[m] = held[t][m]

(* The hand-over loses nothing: a waiter that was signalled is the owner with
   count one when it returns (the panic of TimedLock's slow path), one that timed
   out is not, although both run only after the next tick; and who is still
   queued waits for another task *)
HandOver ==
    /\ \A t \in Tasks : pc[t] = "wait" /\ ~IsWaiting(wait, t) =>
        LET m == call[t].mutex
        IN  IF wait.timeout[t] THEN m_owner_tid[m] # t
            ELSE m_owner_tid[m] = t /\ m_recursion_count[m] = 1
    /\ \A m \in Mutexes : wait.list[m] # <<>> =>
        m_owner_tid[m] \in Tasks /\ ~IsLinked(wait.list[m], m_owner_tid[m])

Active(t) == sleep[t] = "awake" \/ t \in pended

(* The lists of the strategy agree with the weights, whenever a weight changes
   between a task's sleep or wake-up and the tick that tells the strategy: each
   active task is in the list of its weight, once, and nowhere else, and exactly
   the levels with tasks have their bit and a cursor *)
QueuesMatchWeights ==
    LET s == sched.m_strategy
    IN  /\ \A t \in Tasks :
            /\ IsLinked(s.m_sleep, t) <=> ~Active(t)
            /\ \A p \in Priorities : IsLinked(s.m_tasks[p], t)
                    <=> Active(t) /\ p = GetWeight(sched, t)
        /\ NoDuplicates(s.m_sleep)
        /\ \A p \in Priorities :
            /\ NoDuplicates(s.m_tasks[p])
            /\ p \in s.m_ready_bitmap <=> s.m_tasks[p] # <<>>
            /\ IF s.m_tasks[p] = <<>> THEN s.m_prev[p] = NONE
                                      ELSE IsLinked(s.m_tasks[p], s.m_prev[p])

(* "A task at priority N will never run while any task at priority > N is
   runnable": the task a tick switches to is awake, and none that is awake has a
   higher weight *)
HighestPriorityRuns ==
    [][phase = "state" /\ phase' = "run" =>
        \A t \in Tasks : sleep[t] = "awake" =>
            /\ cpu' # NONE /\ sleep[cpu'] = "awake"
            /\ GetWeight(sched, t) <= GetWeight(sched, cpu')]_vars

(* A boost does not outlive the ownership it was lent for, and is no more than
   the lender's own weight: a task whose weight is above its own owns a mutex, and
   has just the weight of another task.  (Not of a task that still waits: a waiter
   that times out under a later owner than the one it found leaves that owner its
   boost, which TimedLock withdraws only "if owner did not change".) *)
BoostEndsWithOwnership == \A t \in Tasks :
    GetWeight(sched, t) > BaseWeight[t] =>
        /\ \E m \in Mutexes : m_owner_tid[m] = t
        /\ \E u \in Tasks \ {t} : BaseWeight[u] = GetWeight(sched, t)

(* "Weight will be restored to the highest weight of the task in the wait list":
   the owner of a mutex has at least the weight of each task that waits for it *)
WaitersBoostOwner == \A m \in Mutexes : \A i \in 1..Len(wait.list[m]) :
    GetWeight(sched, m_owner_tid[m]) >= BaseWeight[wait.list[m][i]]
=============================================================================
