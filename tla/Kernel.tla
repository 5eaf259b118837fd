------------------------------- MODULE Kernel -------------------------------
(***************************************************************************)
(* stk::Kernel (stk.h) in KERNEL_DYNAMIC mode with the round-robin         *)
(* strategy, driven by the Cortex-M port.                                  *)
(*                                                                         *)
(* Tasks run until the tick interrupt preempts them; their kernel calls    *)
(* are critical sections and so single actions, and a call which reads     *)
(* shared state outside its critical section is split where it does.  The  *)
(* tick handler runs with interrupts disabled: its loops over              *)
(* m_task_storage are steps of one slot each, during which phase # "none"  *)
(* disables every other actor.  The context switch it asks for is made by  *)
(* the PendSV exception, and other interrupts may come before it.          *)
(*                                                                         *)
(* With TICKLESS_TICKS_MAX = 1 the model is the non-tickless build.        *)
(***************************************************************************)
EXTENDS RoundRobin, FiniteSets

CONSTANTS
    TASKS_MAX,           \* slots of m_task_storage
    UserTasks,           \* ITask objects the application owns
    NoTask,              \* nullptr for an ITask
    WAIT_INFINITE,       \* the largest Timeout; counted down like any other
    TICKLESS_TICKS_MAX,  \* STK_TICKLESS_TICKS_MAX
    SleepTicks,          \* arguments the tasks give to Sleep
    Calls                \* kernel calls the application makes

YIELD_TICKS == 2

ASSUME TasksMaxAssumption == TASKS_MAX \in Nat \ {0}
ASSUME NoTaskAssumption == NoTask \notin UserTasks
ASSUME TimeoutAssumption == /\ WAIT_INFINITE \in Nat
                            /\ WAIT_INFINITE >= YIELD_TICKS
                            /\ SleepTicks \subseteq 1..WAIT_INFINITE
ASSUME TicklessAssumption == TICKLESS_TICKS_MAX \in Nat \ {0}

Slots == 1..TASKS_MAX
SLEEP_TRAP == -1        \* contexts that are not a task: the sleep trap and
EXIT_TRAP  == -2        \* the exit trap, the context of Start()'s caller
Contexts == Slots \cup {SLEEP_TRAP, EXIT_TRAP}

VARIABLES
    m_user,         \* KernelTask: bound user task of each slot
    m_time_sleep,   \* KernelTask: minus the ticks left to sleep
    m_state,        \* KernelTask: set of pending flags
    add_task_req,   \* KernelTask: user task the slot's task asks to add
    strat,          \* m_strategy
    m_request,      \* REQ_ADD_TASK is pending
    m_task_now,
    m_fsm_state,
    m_kstate,
    m_stack_idle,   \* Context: stack the next PendSV saves to
    m_stack_active, \* Context: stack the next PendSV loads from
    m_sleep_ticks,  \* Context: ticks until the timer fires
    cpu,            \* context the processor executes
    phase,          \* progress of the interrupt handler, "none" outside it
    idx,            \* slot its loop is at
    elapsed,        \* elapsed_ticks of this OnTick
    sleep_ticks,    \* sleep_ticks of UpdateTaskState
    pc,             \* where the code of each slot's task is
    found           \* slot held by a SleepCancel outside its critical section

slotVars == <<m_user, m_time_sleep, m_state, add_task_req>>
fsmVars  == <<m_task_now, m_fsm_state, m_kstate>>
hwVars   == <<m_stack_idle, m_stack_active, m_sleep_ticks, cpu>>
tickVars == <<phase, idx, elapsed, sleep_ticks>>
taskVars == <<pc, found>>
vars == <<slotVars, strat, m_request, fsmVars, hwVars, tickVars, taskVars>>

-----------------------------------------------------------------------------
(* KernelTask *)

IsBusy(k) == m_user[k] # NoTask
IsSleeping(k) == m_time_sleep[k] < 0
IsPendingRemoval(k) == "REMOVE_PENDING" \in m_state[k]

(* mutant: the flag is also set for a task the strategy has in m_sleep *)
SleepPendedAlways(k) == m_state[k] \cup {"SLEEP_PENDING"}

SleepPended(k) == IF IsSleeping(k) THEN m_state[k]
                                   ELSE m_state[k] \cup {"SLEEP_PENDING"}

ScheduleSleep(k, ticks) ==
    /\ m_state' = [m_state EXCEPT ![k] = SleepPended(k)]
    /\ m_time_sleep' = [m_time_sleep EXCEPT ![k] = -ticks]

ScheduleRemoval(k) ==
    /\ m_state' = [m_state EXCEPT ![k] = SleepPended(k) \cup {"REMOVE_PENDING"}]
    /\ m_time_sleep' = [m_time_sleep EXCEPT ![k] = -WAIT_INFINITE]

Wake(k) ==
    /\ IsSleeping(k)
    /\ m_time_sleep' = [m_time_sleep EXCEPT ![k] = -1]

(* mutants: the clamp to one tick is missing; the tasks before are forgotten *)
GetSleepTicksUnclamped(time, limit) == IF -time < limit THEN -time ELSE limit
GetSleepTicksOfLast(time, limit) == IF -time < 1 THEN 1 ELSE -time

(* ticks the timer may stay silent for this task, whose sleep time is time *)
GetSleepTicks(time, limit) ==
    LET least == IF -time < limit THEN -time ELSE limit
    IN  IF least < 1 THEN 1 ELSE least

Bind(k, u) ==
    /\ m_user' = [m_user EXCEPT ![k] = u]
    /\ pc' = [pc EXCEPT ![k] = "run"]

Unbind(k) ==
    /\ m_user' = [m_user EXCEPT ![k] = NoTask]
    /\ m_state' = [m_state EXCEPT ![k] = {}]
    /\ m_time_sleep' = [m_time_sleep EXCEPT ![k] = 0]
    /\ add_task_req' = [add_task_req EXCEPT ![k] = NoTask]

(* AllocateNewTask takes the first free slot *)
FirstFree(k) == ~IsBusy(k) /\ \A j \in Slots : j < k => IsBusy(j)

(* The contract AllocateNewTask asserts: the task is not there yet, and there
   is a slot for it and for the requests made before it *)
MayAdd(u) ==
    /\ \A k \in Slots : m_user[k] # u /\ add_task_req[k] # u
    /\ Cardinality({k \in Slots : IsBusy(k)})
       + Cardinality({k \in Slots : add_task_req[k] # NoTask}) < TASKS_MAX

AllocateAndAddNewTask(u) == \E k \in Slots :
    /\ FirstFree(k)
    /\ Bind(k, u)
    /\ strat' = AddTask(strat, k)

-----------------------------------------------------------------------------
(* The context that starts the kernel *)

InMain == phase = "none" /\ cpu = EXIT_TRAP /\ m_kstate = "READY"

MainAddTask(u) ==
    /\ InMain /\ MayAdd(u)
    /\ AllocateAndAddNewTask(u)
    /\ UNCHANGED <<m_time_sleep, m_state, add_task_req, m_request, fsmVars, hwVars,
                   tickVars, found>>

KernelRemoveTask(k) == strat' = RemoveTask(strat, k) /\ Unbind(k)

MainRemoveTask(k) ==
    /\ "RemoveTask" \in Calls
    /\ InMain /\ IsBusy(k)
    /\ KernelRemoveTask(k)
    /\ UNCHANGED <<m_request, fsmVars, hwVars, tickVars, taskVars>>

(* Start, SVC_START_SCHEDULING and the notification loop of OnStart *)
Start ==
    /\ InMain
    /\ GetSize(strat) # 0
    /\ phase' = "start" /\ idx' = 1
    /\ UNCHANGED <<slotVars, strat, m_request, fsmVars, hwVars, elapsed, sleep_ticks,
                   taskVars>>

OnStartTask(k) ==
    /\ phase = "start" /\ idx = k
    /\ IF IsSleeping(k) /\ "SLEEP_PENDING" \in m_state[k]
       THEN /\ m_state' = [m_state EXCEPT ![k] = @ \ {"SLEEP_PENDING"}]
            /\ strat' = OnTaskSleep(strat, k)
       ELSE UNCHANGED <<m_state, strat>>
    /\ idx' = k + 1
    /\ UNCHANGED <<m_user, m_time_sleep, add_task_req, m_request, fsmVars, hwVars, phase,
                   elapsed, sleep_ticks, taskVars>>

(* OnStart picks the first context and the port starts the timer *)
OnStart ==
    /\ phase = "start" /\ idx = TASKS_MAX + 1
    /\ LET next == GetNext(strat)
       IN  /\ m_fsm_state' = IF next # NONE THEN "SWITCHING" ELSE "SLEEPING"
           /\ m_task_now' = IF next # NONE THEN next ELSE GetFirst(strat)
           /\ m_stack_active' = IF next # NONE THEN next ELSE SLEEP_TRAP
           /\ cpu' = m_stack_active'
    /\ strat' = Advanced(strat)
    /\ m_kstate' = "RUNNING"
    /\ m_sleep_ticks' = 1
    /\ phase' = "none" /\ idx' = 1
    /\ UNCHANGED <<slotVars, m_request, m_stack_idle, elapsed, sleep_ticks, taskVars>>

OnStop ==
    /\ phase = "none" /\ cpu = EXIT_TRAP /\ m_kstate # "READY"
    /\ m_fsm_state' = "NONE"
    /\ m_kstate' = "READY"
    /\ UNCHANGED <<slotVars, strat, m_request, m_task_now, hwVars, tickVars, taskVars>>

-----------------------------------------------------------------------------
(* The tick interrupt: OnTick, entered from SysTick or from Context::Suspend *)

(* mutant: the elapsed ticks are not handed to UpdateTasks *)
EnterOnTickWithoutTime(ticks) ==
    /\ phase' = IF m_request THEN "request" ELSE "state"
    /\ idx' = 1
    /\ elapsed' = 0 * ticks
    /\ sleep_ticks' = TICKLESS_TICKS_MAX
    /\ m_request' = FALSE

EnterOnTick(ticks) ==
    /\ phase' = IF m_request THEN "request" ELSE "state"
    /\ idx' = 1
    /\ elapsed' = ticks
    /\ sleep_ticks' = TICKLESS_TICKS_MAX
    /\ m_request' = FALSE

ProcessTick ==
    /\ phase = "none" /\ m_kstate = "RUNNING" /\ cpu # EXIT_TRAP
    /\ EnterOnTick(m_sleep_ticks)
    /\ UNCHANGED <<slotVars, strat, fsmVars, hwVars, taskVars>>

UpdateTaskRequest(k) ==
    /\ phase = "request" /\ idx = k
    /\ IF add_task_req[k] # NoTask
       THEN /\ AllocateAndAddNewTask(add_task_req[k])
            /\ add_task_req' = [add_task_req EXCEPT ![k] = NoTask]
       ELSE UNCHANGED <<m_user, pc, strat, add_task_req>>
    /\ IF k = TASKS_MAX THEN phase' = "state" /\ idx' = 1
                        ELSE idx' = k + 1 /\ UNCHANGED phase
    /\ UNCHANGED <<m_time_sleep, m_state, m_request, fsmVars, hwVars, elapsed,
                   sleep_ticks, found>>

(* mutants: the executing task is freed too; the last task is not freed *)
RemovalDueAtOnce(k) == IsSleeping(k) /\ IsPendingRemoval(k)
RemovalDueOfOthers(k) == IsSleeping(k) /\ IsPendingRemoval(k) /\ k # m_task_now

(* A task pending removal is freed once it is switched out *)
RemovalDue(k) ==
    /\ IsSleeping(k) /\ IsPendingRemoval(k)
    /\ k # m_task_now \/ (GetSize(strat) = 1 /\ m_fsm_state = "SLEEPING")

(* mutant: "only currently scheduled task can be pending to sleep" *)
SleepEventDueOfNow(k) == "SLEEP_PENDING" \in m_state[k] /\ k = m_task_now

SleepEventDue(k) == "SLEEP_PENDING" \in m_state[k]

(* One slot of the loop of UpdateTaskState *)
UpdateTaskState(k) ==
    /\ phase = "state" /\ idx = k
    /\ \/ /\ RemovalDue(k)
          /\ KernelRemoveTask(k)
          /\ UNCHANGED sleep_ticks
       \/ /\ IsSleeping(k) /\ ~RemovalDue(k)
          /\ LET slept == IF SleepEventDue(k) THEN OnTaskSleep(strat, k) ELSE strat
                 time  == m_time_sleep[k] + elapsed
             IN  /\ m_state' = [m_state EXCEPT ![k] = @ \ {"SLEEP_PENDING"}]
                 /\ m_time_sleep' = [m_time_sleep EXCEPT ![k] = time]
                 /\ strat' = IF time >= 0 THEN OnTaskWake(slept, k) ELSE slept
                 /\ sleep_ticks' = GetSleepTicks(time, sleep_ticks)
          /\ UNCHANGED <<m_user, add_task_req>>
       \/ /\ ~IsSleeping(k)
          /\ sleep_ticks' = IF IsBusy(k) THEN GetSleepTicks(m_time_sleep[k], sleep_ticks)
                                         ELSE sleep_ticks
          /\ UNCHANGED <<slotVars, strat>>
    /\ IF k = TASKS_MAX THEN phase' = "fsm" /\ idx' = 1
                        ELSE idx' = k + 1 /\ UNCHANGED phase
    /\ UNCHANGED <<m_request, fsmVars, hwVars, elapsed, taskVars>>

(* mutant: the wake event is not told from the switch event *)
FetchNextEventNoWake ==
    IF GetNext(strat) # NONE THEN "SWITCH"
    ELSE IF GetSize(strat) = 0 THEN "EXIT" ELSE "SLEEP"

FetchNextEvent ==
    IF GetNext(strat) # NONE
    THEN IF m_fsm_state = "SLEEPING" THEN "WAKE" ELSE "SWITCH"
    ELSE IF GetSize(strat) = 0 THEN "EXIT" ELSE "SLEEP"

(* m_fsm[state][event]; "NONE" is no transition *)
Fsm(state, event) ==
    CASE state \in {"SWITCHING", "WAKING"} /\ event = "SWITCH" -> "SWITCHING"
      [] state \in {"SWITCHING", "WAKING"} /\ event = "SLEEP"  -> "SLEEPING"
      [] state = "SLEEPING" /\ event = "WAKE"  -> "WAKING"
      [] state # "EXITING" /\ event = "EXIT"  -> "EXITING"
      [] OTHER -> "NONE"

GetNewFsmState == Fsm(m_fsm_state, FetchNextEvent)

SwitchContext(from, to) ==
    /\ m_stack_idle' = from
    /\ m_stack_active' = to
    /\ phase' = "pendsv"
    /\ UNCHANGED cpu

NoSwitch == phase' = "none" /\ UNCHANGED <<m_stack_idle, m_stack_active, cpu>>

(* mutant: m_task_now is not moved to the next task *)
StateSwitchStale ==
    /\ GetNewFsmState = "SWITCHING"
    /\ UNCHANGED m_task_now
    /\ IF GetNext(strat) # m_task_now THEN SwitchContext(m_task_now, GetNext(strat))
                                      ELSE NoSwitch

StateSwitch ==
    /\ GetNewFsmState = "SWITCHING"
    /\ m_task_now' = GetNext(strat)
    /\ IF m_task_now' # m_task_now THEN SwitchContext(m_task_now, m_task_now')
                                   ELSE NoSwitch

(* mutant: m_task_now is taken for the context to save *)
StateWakeFromNow ==
    /\ GetNewFsmState = "WAKING"
    /\ m_task_now' = GetNext(strat)
    /\ SwitchContext(m_task_now, m_task_now')

StateWake ==
    /\ GetNewFsmState = "WAKING"
    /\ m_task_now' = GetNext(strat)
    /\ SwitchContext(SLEEP_TRAP, m_task_now')

StateSleep ==
    /\ GetNewFsmState = "SLEEPING"
    /\ m_task_now' = GetFirst(strat)
    /\ SwitchContext(m_task_now, SLEEP_TRAP)

(* The port's Stop() loads the exit trap at once, without PendSV, and does not return:
   m_fsm_state and the timer stay as they are *)
StateExit ==
    /\ GetNewFsmState = "EXITING"
    /\ m_task_now' = NONE
    /\ m_stack_idle' = NONE
    /\ m_stack_active' = EXIT_TRAP
    /\ cpu' = EXIT_TRAP
    /\ phase' = "none"

NoTransition ==
    /\ GetNewFsmState = "NONE"
    /\ NoSwitch
    /\ UNCHANGED m_task_now

(* The end of OnTick, and the timer reload of ProcessTick *)
UpdateFsmState ==
    /\ phase = "fsm"
    /\ StateSwitch \/ StateWake \/ StateSleep \/ StateExit \/ NoTransition
    /\ m_fsm_state' = IF GetNewFsmState \in {"NONE", "EXITING"} THEN m_fsm_state ELSE GetNewFsmState
    /\ strat' = Advanced(strat)
    /\ m_sleep_ticks' = IF elapsed = 0 \/ GetNewFsmState = "EXITING" THEN m_sleep_ticks
                                                                    ELSE sleep_ticks
    /\ elapsed' = 0 /\ sleep_ticks' = 1
    /\ UNCHANGED <<slotVars, m_request, m_kstate, idx, taskVars>>

(* PendSV: the running context is saved to m_stack_idle *)
PendSV ==
    /\ phase = "pendsv"
    /\ cpu' = m_stack_active
    /\ phase' = "none"
    /\ UNCHANGED <<slotVars, strat, m_request, fsmVars, m_stack_idle, m_stack_active,
                   m_sleep_ticks, idx, elapsed, sleep_ticks, taskVars>>

-----------------------------------------------------------------------------
(* The task in slot k, in its own code *)

Running(k) == phase = "none" /\ cpu = k
InTask(k) == Running(k) /\ pc[k] = "run"
Goto(k, label) == pc' = [pc EXCEPT ![k] = label]

(* Sleep and Yield *)
KernelOnTaskSleep(k, ticks) ==
    /\ "Sleep" \in Calls
    /\ InTask(k)
    /\ ScheduleSleep(k, ticks)
    /\ Goto(k, "busy")
    /\ UNCHANGED <<m_user, add_task_req, strat, m_request, fsmVars, hwVars, tickVars, found>>

(* SleepUntil a time that is delta ticks away *)
OnTaskSleepUntil(k, delta) ==
    /\ "SleepUntil" \in Calls
    /\ InTask(k)
    /\ IF delta > 0
       THEN ScheduleSleep(k, IF delta < WAIT_INFINITE THEN delta ELSE WAIT_INFINITE)
       ELSE UNCHANGED <<m_state, m_time_sleep>>
    /\ Goto(k, "busy")
    /\ UNCHANGED <<m_user, add_task_req, strat, m_request, fsmVars, hwVars, tickVars, found>>

(* BusyWaitWhileSleeping returns, in Sleep or at the end of RequestAddTask *)
BusyWaitDone(k) ==
    /\ Running(k) /\ pc[k] \in {"busy", "added"}
    /\ ~IsSleeping(k)
    /\ Goto(k, "run")
    /\ UNCHANGED <<slotVars, strat, m_request, fsmVars, hwVars, tickVars, found>>

(* The caller of SuspendTask or ResumeTask: a task, or main before Start *)
Caller(k) == InTask(k) \/ (k = NONE /\ InMain)

SuspendTask(k, j) ==
    /\ "SuspendTask" \in Calls
    /\ Caller(k) /\ IsBusy(j) /\ ~IsSleeping(j)
    /\ ScheduleSleep(j, WAIT_INFINITE)
    /\ pc' = IF j = m_task_now THEN [pc EXCEPT ![k] = "busy"] ELSE pc
    /\ UNCHANGED <<m_user, add_task_req, strat, m_request, fsmVars, hwVars, tickVars, found>>

ResumeTask(k, j) ==
    /\ "ResumeTask" \in Calls
    /\ Caller(k) /\ IsBusy(j)
    /\ Wake(j)
    /\ UNCHANGED <<m_user, m_state, add_task_req, strat, m_request, fsmVars, hwVars,
                   tickVars, taskVars>>

(* SleepCancel looks its slot up before it enters the critical section *)
SleepCancelFind(k, j) ==
    /\ "SleepCancel" \in Calls
    /\ InTask(k) /\ IsBusy(j)
    /\ found' = [found EXCEPT ![k] = j]
    /\ Goto(k, "cancel")
    /\ UNCHANGED <<slotVars, strat, m_request, fsmVars, hwVars, tickVars>>

SleepCancelWake(k) ==
    /\ Running(k) /\ pc[k] = "cancel"
    /\ Wake(found[k]) \/ (~IsSleeping(found[k]) /\ UNCHANGED m_time_sleep)
    /\ found' = [found EXCEPT ![k] = NONE]
    /\ Goto(k, "run")
    /\ UNCHANGED <<m_user, m_state, add_task_req, strat, m_request, fsmVars, hwVars, tickVars>>

ScheduleTaskRemoval(k, j) ==
    /\ "ScheduleTaskRemoval" \in Calls
    /\ InTask(k) /\ IsBusy(j)
    /\ ScheduleRemoval(j)
    /\ UNCHANGED <<m_user, add_task_req, strat, m_request, fsmVars, hwVars, tickVars, taskVars>>

(* The task's function returns; its context then loops for ever *)
OnTaskExit(k) ==
    /\ "Exit" \in Calls
    /\ InTask(k)
    /\ ScheduleRemoval(k)
    /\ Goto(k, "exited")
    /\ UNCHANGED <<m_user, add_task_req, strat, m_request, fsmVars, hwVars, tickVars, found>>

(* RequestAddTask: publish the request, notify the kernel, yield if the
   request is not served by then *)
RequestAddTask(k, u) ==
    /\ "AddTask" \in Calls
    /\ InTask(k) /\ MayAdd(u)
    /\ add_task_req' = [add_task_req EXCEPT ![k] = u]
    /\ Goto(k, "request")
    /\ UNCHANGED <<m_user, m_time_sleep, m_state, strat, m_request, fsmVars, hwVars,
                   tickVars, found>>

ScheduleAddTask(k) ==
    /\ Running(k) /\ pc[k] = "request"
    /\ m_request' = TRUE
    /\ Goto(k, "scheduled")
    /\ UNCHANGED <<slotVars, strat, fsmVars, hwVars, tickVars, found>>

(* mutant: the request is taken for served once the kernel is notified *)
AwaitAddTaskNoYield(k) ==
    /\ Running(k) /\ pc[k] = "scheduled"
    /\ Goto(k, "added")
    /\ UNCHANGED <<slotVars, strat, m_request, fsmVars, hwVars, tickVars, found>>

AwaitAddTask(k) ==
    /\ Running(k) /\ pc[k] = "scheduled"
    /\ IF add_task_req[k] # NoTask THEN ScheduleSleep(k, YIELD_TICKS)
                                   ELSE UNCHANGED <<m_state, m_time_sleep>>
    /\ Goto(k, "added")
    /\ UNCHANGED <<m_user, add_task_req, strat, m_request, fsmVars, hwVars, tickVars, found>>

-----------------------------------------------------------------------------
(* Suspension of the scheduler, and the calls interrupts may make *)

(* OnSuspend: the kernel state is toggled and the current task yields *)
OnSuspend(from, to) ==
    /\ m_kstate' = IF m_kstate = from THEN to ELSE m_kstate
    /\ IF IsSleeping(m_task_now) THEN UNCHANGED <<m_state, m_time_sleep>>
                                 ELSE ScheduleSleep(m_task_now, YIELD_TICKS)

(* Context::Suspend stops the timer, drops a pending switch and does a tick
   of no duration *)
ContextSuspend ==
    /\ OnSuspend("RUNNING", "SUSPENDED")
    /\ EnterOnTick(0)
    /\ UNCHANGED <<m_user, add_task_req, strat, m_task_now, m_fsm_state, hwVars, taskVars>>

Suspend(k) == "Suspend" \in Calls /\ InTask(k) /\ ContextSuspend

(* Where interrupts other than the tick are handled *)
Interruptible == phase \in {"none", "pendsv"} /\ m_task_now # NONE

(* "IsrSuspendInSwitch" lets the interrupt come between the tick and PendSV *)
IsrSuspend ==
    /\ "IsrSuspend" \in Calls
    /\ Interruptible /\ (phase = "pendsv" => "IsrSuspendInSwitch" \in Calls)
    /\ ContextSuspend

Resume(ticks) ==
    /\ Interruptible /\ m_kstate = "SUSPENDED"
    /\ OnSuspend("SUSPENDED", "RUNNING")
    /\ m_sleep_ticks' = ticks + 1
    /\ UNCHANGED <<m_user, add_task_req, strat, m_request, m_task_now, m_fsm_state,
                   m_stack_idle, m_stack_active, cpu, tickVars, taskVars>>

IsrSleepCancel(j) ==
    /\ "IsrSleepCancel" \in Calls
    /\ Interruptible /\ IsBusy(j)
    /\ Wake(j)
    /\ UNCHANGED <<m_user, m_state, add_task_req, strat, m_request, fsmVars, hwVars,
                   tickVars, taskVars>>

-----------------------------------------------------------------------------
(* Initialize *)
Init ==
    /\ m_user = [k \in Slots |-> NoTask]
    /\ m_time_sleep = [k \in Slots |-> 0]
    /\ m_state = [k \in Slots |-> {}]
    /\ add_task_req = [k \in Slots |-> NoTask]
    /\ strat = Empty
    /\ m_request = FALSE
    /\ m_task_now = NONE /\ m_fsm_state = "NONE" /\ m_kstate = "READY"
    /\ m_stack_idle = NONE /\ m_stack_active = NONE
    /\ m_sleep_ticks = 1
    /\ cpu = EXIT_TRAP
    /\ phase = "none" /\ idx = 1 /\ elapsed = 0 /\ sleep_ticks = 1
    /\ pc = [k \in Slots |-> "run"]
    /\ found = [k \in Slots |-> NONE]

MainStep ==
    \/ \E u \in UserTasks : MainAddTask(u)
    \/ \E k \in Slots : MainRemoveTask(k) \/ OnStartTask(k)
    \/ \E k \in Slots : SuspendTask(NONE, k) \/ ResumeTask(NONE, k)
    \/ Start \/ OnStart \/ OnStop

TickStep ==
    \/ ProcessTick
    \/ \E k \in Slots : UpdateTaskRequest(k) \/ UpdateTaskState(k)
    \/ UpdateFsmState
    \/ PendSV

TaskStep(k) ==
    \/ \E ticks \in SleepTicks \cup {YIELD_TICKS} : KernelOnTaskSleep(k, ticks)
    \/ \E delta \in SleepTicks \cup {0, WAIT_INFINITE + 1} : OnTaskSleepUntil(k, delta)
    \/ \E j \in Slots : \/ SuspendTask(k, j) \/ ResumeTask(k, j)
                        \/ SleepCancelFind(k, j) \/ ScheduleTaskRemoval(k, j)
    \/ \E u \in UserTasks : RequestAddTask(k, u)
    \/ SleepCancelWake(k) \/ ScheduleAddTask(k) \/ AwaitAddTask(k)
    \/ BusyWaitDone(k) \/ OnTaskExit(k) \/ Suspend(k)

IsrStep ==
    \/ IsrSuspend
    \/ \E ticks \in {0, TICKLESS_TICKS_MAX} : Resume(ticks)
    \/ \E k \in Slots : IsrSleepCancel(k)

Next == MainStep \/ TickStep \/ IsrStep \/ \E k \in Slots : TaskStep(k)

Spec == Init /\ [][Next]_vars

(* The timer interrupt keeps coming and its handler runs to the end; no task is
   assumed to do anything *)
FairSpec == Spec /\ WF_vars(TickStep)

-----------------------------------------------------------------------------
Labels == {"run", "busy", "cancel", "request", "scheduled", "added", "exited"}

(* Type correctness of every variable *)
TypeOK ==
    /\ m_user \in [Slots -> UserTasks \cup {NoTask}]
    /\ m_time_sleep \in [Slots -> Int]
    /\ m_state \in [Slots -> SUBSET {"SLEEP_PENDING", "REMOVE_PENDING"}]
    /\ add_task_req \in [Slots -> UserTasks \cup {NoTask}]
    /\ strat \in [m_tasks: Seq(Slots), m_sleep: Seq(Slots), m_prev: Slots \cup {NONE}]
    /\ m_request \in BOOLEAN
    /\ m_task_now \in Slots \cup {NONE}
    /\ m_fsm_state \in {"NONE", "SWITCHING", "SLEEPING", "WAKING"}
    /\ m_kstate \in {"READY", "RUNNING", "SUSPENDED"}
    /\ m_stack_idle \in Contexts \cup {NONE}
    /\ m_stack_active \in Contexts \cup {NONE}
    /\ m_sleep_ticks \in Nat /\ elapsed \in Nat /\ sleep_ticks \in Nat
    /\ cpu \in Contexts
    /\ phase \in {"none", "start", "request", "state", "fsm", "pendsv"}
    /\ idx \in 1..(TASKS_MAX + 1)
    /\ pc \in [Slots -> Labels]
    /\ found \in [Slots -> Slots \cup {NONE}]

(* The strategy's lists agree with the kernel's task records, at every step of
   the tick handler too: a slot is linked exactly when a user task is bound to
   it, once, and it is in m_sleep exactly when it sleeps and the strategy has
   been told so.  (OnTaskSleep, OnTaskWake and RemoveTask of the strategy assert
   the list a task is in.) *)
ListsConsistent ==
    /\ NoDuplicates(strat.m_tasks) /\ NoDuplicates(strat.m_sleep)
    /\ \A k \in Slots :
        /\ IsLinked(strat.m_tasks, k)
            <=> IsBusy(k) /\ (IsSleeping(k) => "SLEEP_PENDING" \in m_state[k])
        /\ IsLinked(strat.m_sleep, k)
            <=> IsBusy(k) /\ IsSleeping(k) /\ "SLEEP_PENDING" \notin m_state[k]

(* The cursor of the round robin is a runnable task whenever there is one, so
   that GetNext neither loses the runnable tasks nor follows a stale pointer *)
CursorIsRunnable ==
    IF strat.m_tasks = <<>> THEN strat.m_prev = NONE
                            ELSE IsLinked(strat.m_tasks, strat.m_prev)

(* STK_ASSERT(!next->IsSleeping()) of FetchNextEvent: the sleep events of this
   tick, of every slot, have reached the strategy before it is asked *)
NextIsAwake ==
    (phase = "fsm" \/ (phase = "start" /\ idx = TASKS_MAX + 1)) /\ GetNext(strat) # NONE
        => IsBusy(GetNext(strat)) /\ ~IsSleeping(GetNext(strat))

(* Outside the tick handler m_task_now is the task the processor executes and
   its slot is still bound; the sleep trap and the exit trap run only in their
   FSM states.  SuspendTask, OnTaskExit and the critical sections rely on it. *)
RunningIsTaskNow ==
    phase = "none" =>
        /\ cpu \in Slots => /\ m_task_now = cpu /\ IsBusy(cpu)
                            /\ m_fsm_state \in {"SWITCHING", "WAKING"}
        /\ cpu = SLEEP_TRAP => /\ m_task_now # NONE /\ IsBusy(m_task_now)
                               /\ m_fsm_state = "SLEEPING"
        /\ cpu = EXIT_TRAP => m_task_now = NONE

(* The stack the processor executes on is neither given back to the application
   (Unbind) nor handed to another task (Bind): RemoveTask and AddTask of the tick
   handler change the binding of other slots only *)
ExecutingSlotKept ==
    [][\A k \in Slots : m_user'[k] # m_user[k] => cpu # k]_vars

(* When PendSV saves the processor's registers, it saves them to the stack of
   the context that was executing *)
SavedContextIsRunning == phase = "pendsv" => m_stack_idle = cpu

(* The processor is in the sleep trap only while no task is runnable *)
SleepTrapOnlyWhenIdle ==
    phase = "none" /\ cpu = SLEEP_TRAP => strat.m_tasks = <<>>

(* STK_ASSERT(add_task_req == nullptr) at the end of RequestAddTask: the request
   is served whatever the interleaving of its three steps with ticks, with other
   requests and with interrupts that end the yield early *)
AddRequestServed ==
    \A k \in Slots : Running(k) /\ pc[k] = "added" /\ ~IsSleeping(k)
                        => add_task_req[k] = NoTask

(* Tickless: the timer is never set beyond the end of a task's sleep, and not
   beyond one tick while a task is runnable; a sleep that was cancelled (one tick
   left) may wait for the timer, and a timer set beyond TICKLESS_TICKS_MAX was set
   so by the caller of Resume. *)
TimerNotLate ==
    phase = "none" /\ m_kstate = "RUNNING" /\ m_sleep_ticks <= TICKLESS_TICKS_MAX =>
    \A k \in Slots : IsBusy(k) =>
        \/ m_time_sleep[k] = -1
        \/ IsSleeping(k) /\ m_sleep_ticks <= -m_time_sleep[k]
        \/ ~IsSleeping(k) /\ m_sleep_ticks = 1

-----------------------------------------------------------------------------
(* Liveness *)

Runnable(k) == IsBusy(k) /\ ~IsSleeping(k) /\ m_kstate = "RUNNING"

(* "All runnable tasks receive equal CPU time regardless of creation order or
   any other factor": a task that stays runnable is executed again and again *)
NoStarvation == \A k \in Slots : <>[]Runnable(k) => []<>(cpu = k)

(* A task that sleeps is awake again, or removed, in the end *)
SleepEnds == \A k \in Slots :
    IsSleeping(k) /\ m_kstate = "RUNNING" ~> ~IsSleeping(k) \/ m_kstate # "RUNNING"

(* "The slot is freed automatically": the slot of a task that returned from its
   Run function is available to AddTask in the end *)
ExitFreesSlot == \A k \in Slots : pc[k] = "exited" /\ IsBusy(k) ~> ~IsBusy(k)
=============================================================================
