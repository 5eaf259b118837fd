# TLA+ models of SuperTinyKernel (STK)

STK is a small preemptive RTOS for single-core and multi-core microcontrollers:
a C++ template kernel (`src/stk/include/stk.h`), interchangeable scheduling
strategies, synchronization objects, a timer host and ports to Cortex-M, RISC-V
and Win32.  This directory holds TLA+ modules for its core, TLC configurations
that check them on small instances and TLAPS proofs for instances of any size.

## Inventory

| Part | State | Operations | Interacts with |
|---|---|---|---|
| Kernel (`stk.h`) | `m_task_storage` (slots: user task, sleep time, flags, requests), `m_request`, `m_task_now`, `m_fsm_state`, `m_kstate` | add, remove, suspend and resume a task, sleep, yield, cancel a sleep, wait, suspend and resume the scheduler, tick | calls the strategy, is called back by the port (OnStart, OnTick, OnTaskSleep, ...) |
| Strategies (`strategy/`) | active and sleep lists, a cursor or priority lists or dynamic weights | AddTask, RemoveTask, GetNext, OnTaskSleep, OnTaskWake, ... | called by the kernel, in its critical sections |
| Port (`src/arch/`) | stacks to save to and load from, timer reload | tick interrupt, PendSV, Suspend, Resume, Start, Stop | interrupts tasks; calls the kernel |
| Wait mechanism (`ISyncObject`, `WaitObject`) | wait list, remaining time and time-out flag of each waiter | SetupWait, WakeOne, WakeAll, Tick | the kernel's tick expires waits; waking ends the task's sleep |
| Synchronization objects (`sync/`) | owner and recursion count; counter; flag word; ring buffer; reader and writer counters | lock and unlock, wait and signal, put and get | wait mechanism; Mutex also the kernel's weights |
| Block pool (`memory/`) | free list, used count | Alloc, TimedAlloc, Free | condition variable |
| Timer host (`time/`) | active list, deadlines, command and handler queues | Start, Stop, Reset, SetPeriod, tick task, handler tasks | Pipe, EventFlags, kernel sleep |
| Interop (`interop/`) | task and thread handles with their own state, notification slots, queue sets, join state, slot tables, heap | C, CMSIS-RTOS2 and FreeRTOS calls | everything above |

What is hard to test:

* the tick interrupt comes anywhere in a task's code, and calls such as
  RequestAddTask and SleepCancel touch shared state outside critical sections;
* a switch is decided in the tick and made later, in PendSV, with other interrupts
  in between;
* a task can be put to sleep, resumed, removed or cancelled by others, so that
  sleep events, wake-ups and removals of several slots meet in one tick;
* tickless operation: ticks of any length, and a timer that has to be set to the
  first of all ends of sleep;
* a waiter that was notified, or timed out, runs only later, and others take
  what it was promised; a time-out and a notification in the same tick;
* bounds: slots all used, counters of 16 and 32 bits, infinite time-outs that are
  counted down like others.

What makes each part correct: the lists of a strategy agree with the kernel's
records, and the next task is awake; the context that is saved is the one that
ran; no slot is reused under a running task; sleeps end and requests are served;
a lock excludes, its counters are exact and no wake-up is lost; a queue loses and
duplicates nothing and no one waits for what is there; a boosted weight lasts as
long as its cause; a timer fires when due, and not after it was stopped.

The hazards, each at its source line and with the properties that cover it, are
in `PROJECT.json`.

## Modules

| Module | Models |
|---|---|
| `LinkedList` | the intrusive lists (`stk_linked_list.h`) the strategies and the wait lists use, as sequences |
| `RoundRobin` | `SwitchStrategyRoundRobin`: operators on a record of `m_tasks`, `m_sleep` and the cursor `m_prev` |
| `Kernel` | `stk::Kernel` in KERNEL_DYNAMIC mode with that strategy, and the Cortex-M port under it |
| `MCKernel` | instances of `Kernel` for TLC |
| `LinkedListProofs`, `KernelProofs` | theorems about these; the lemmas about the strategy are in `KernelProofs` |
| `WaitQueue` | `ISyncObject` and `WaitObject`: operators on a record of wait lists, remaining times and time-out flags |
| `RWMutex` | `sync::RWMutex` with its two condition variables |
| `RWLock` | what a readers-writer lock promises |
| `MCRWMutex`, `RWMutexProofs` | instances for TLC, theorems |
| `FixedPriority` | `SwitchStrategyFixedPriority`: operators on a record of the lists and cursors per priority and the bitmap |
| `WaitQueueProofs` | lemmas about the wait lists, for any owner of them |
| `Mutex` | `sync::Mutex` with the kernel's priority inheritance; composes `WaitQueue` and `FixedPriority` |
| `MCMutex`, `MutexProofs` | instances for TLC, theorems; the lemmas about the strategy are in `MutexProofs` |
| `Blocking` | calls that wait: frames, the wait loop of a method, deadlines in wrapping ticks |
| `Semaphore` | `sync::Semaphore`, `sync::Event`, and `sync::Mutex` without its weights |
| `EventFlags`, `MessageQueue`, `Pipe`, `BlockMemoryPool`, `ConditionVariable`, `SpinLock` | the classes of these names |
| `Fifo` | what a bounded first-in first-out queue promises |
| `TimerHost` | `time::TimerHost`: callers, tick task and handler tasks |
| `MemoryAllocator` | the heap and the construction of an object out of several allocations |
| `TaskHandle` | the kernel's sleep, suspend and resume, as the interfaces use them |
| `FreeRTOSQueue`, `FreeRTOSTask`, `FreeRTOSBuffer`, `FreeRTOSTimer` | the FreeRTOS interface |
| `Cmsis`, `CApi` | the CMSIS-RTOS2 and the C interface |
| `SmoothWeighted`, `Monotonic` | the weighted round robin and the rate- and deadline-monotonic strategies, with the schedulability test |
| `Interop` | composes these, from `Blocking` on, and states their properties |
| `MCInterop` | the programs (scenarios) TLC runs |
| `InteropProofs` | theorems about the native objects, the task notifications and the message buffers |
| `TimerHostProofs` | theorems about the timer host |
| `ConservationProofs` | theorems about sums: the weights of the smooth round robin, the regions of the heap |

### Kernel

Every slot of `m_task_storage` has its `m_user`, `m_time_sleep`, `m_state` and
`add_task_req`.  `cpu` is the context the processor executes: a slot, the sleep
trap, or the exit trap (the caller of `Start`).  `phase` and `idx` are the
progress of the interrupt handler.

* `MainAddTask`, `MainRemoveTask`, `Start`, `OnStartTask`, `OnStart` and `OnStop`
  are `main` before the kernel starts and after it stopped.
* `ProcessTick` enters `OnTick`; `UpdateTaskRequest(k)` and `UpdateTaskState(k)`
  are one slot each of its loops, `UpdateFsmState` is the state machine with its
  handlers (`StateSwitch`, `StateWake`, `StateSleep`, `StateExit`) and the reload of the
  timer, and `PendSV` the switch.  The handler runs with interrupts disabled, so
  that no other actor steps while it is at work; between `UpdateFsmState` and
  `PendSV` other interrupts may come.
* `KernelOnTaskSleep` (Sleep and Yield), `OnTaskSleepUntil`, `SuspendTask`,
  `ResumeTask`, `SleepCancelFind` and `SleepCancelWake`, `ScheduleTaskRemoval`,
  `OnTaskExit`, `RequestAddTask`, `ScheduleAddTask`, `AwaitAddTask`, `Suspend` are
  the calls of the task that executes.  A call in one critical section is one
  action; SleepCancel and RequestAddTask are split where the code leaves the
  section or never enters one.
* `IsrSuspend`, `Resume` and `IsrSleepCancel` are calls from interrupt handlers.

Abstractions: registers and stacks are the name of the context; `Sleep(0)`, which
does nothing, is left out; `TICKLESS_TICKS_MAX = 1` is the build without
tickless idle; the assertions AllocateNewTask makes about its caller (the task
is not there yet, a slot is free) are guards (`MayAdd`).

### RWMutex

Each method is a critical section up to the wait that leaves it.  A task that was
woken, or timed out, is no longer in a wait list; its return from the wait is a
later action (`ReadWaitReturns`, `WriteWaitReturns`), so that any other steps may come
first, as in the code, where the woken task runs once the strategy picks it.
`Tick` ages all waits at once, as `UpdateSyncObjects` does.

### Mutex

Several mutexes, used by tasks of different weight on one processor.  `cpu` is the
task the strategy picked at the last tick; only it makes calls.  `TimedLock` is four
actions for its four paths (`LockRecursive`, `LockFree`, `LockWait`, `LockBusy`) and
`LockWaitReturns` for what it does after the wait; `Unlock` is one action with the
nested case, the hand-over to the first waiter (`PassOwnership`) and the release
(`FreeMutex`).  The tick handler (`Tick`) first ages the waits, one task at a time
(`UpdateSyncObjects`), then looks at each slot (`UpdateTaskState`), where the sleep
events and wake-ups reach the strategy, then picks the next task (`SwitchContext`).
A weight that changes between a sleep or a wake-up and that tick is therefore in the
model, as it is in the code.

`sched` holds the run-time weights and the strategy's state; `OnInheritWeight` and
`OnRestoreWeight` (its two uses are `RestoreOriginal` and `RestoreFromWaiters`) tell
the strategy of every change.  `held` records the locks each task made and did not
undo; the code has no such variable, and no guard reads it but that of `Unlock`,
whose callers are the tasks that locked.

Abstractions: a sleep that is not a wait ends at any tick; a wait lasts until it is
woken or expires (the kernel's own countdown of an infinite wait is left to
the composition with `Kernel`).

### Blocking and the synchronization objects

A method of a synchronization object runs in a critical section, from its start or
from its return from a wait to its end or to its next wait; each such stretch is one
step.  A call in progress is a frame: the method `op`, the object `o`, the argument
`x`, the time-out, the local variables, and in `then` the frame of the caller.  An
action `Method(t, c)` is taken with a new frame when task `t` makes the call, and with
`c = call[t]` when the task goes on.  A method that calls another one, as the functions
of the interfaces do, goes to the frame of that method and goes on when it returns, so
that the code between two critical sections can be interrupted by anyone.
An interrupt handler is a task whose calls have `NO_WAIT`.

`Blocks`, `GivesUp` and `Proceeds` are the three ways out of the loop
`while (condition) if (!cv.Wait(cs_, ticks)) break` that all objects share.
A deadline (`CaptureDeadline`, `Remaining`) is computed in `TimeoutBits` bits, signed,
as `EventFlags` and `Pipe` do, so that the wrap of the tick count is met.

`obj` maps the names of objects to records with the fields of the class; a field
keeps the name it has in the code.  A ring buffer keeps its slots and indices
(`m_head`, `m_tail`, `m_count`); `Content` is the sequence it stands for.
`ConditionVariable` is the wait with a `Mutex`, where linking, sleeping, the release
of the mutex and the second lock are steps of their own; a task that is notified
before it sleeps is then on no list (`CvLost`).
`SpinLock` has a step for each access to the flag and to the owner.

### TimerHost

A caller reads the fields of the timer without a lock and pushes a command into
`commands`; `PushRearm`, `SetRearming` and `PushDone` are the steps around that write
for the commands that are merged.  `UpdateTime` is one round of the tick task: it looks at each active
timer, pushes those that are due into `ready`, and reads a command with the time to
the next deadline as time-out; `Execute` is `ProcessCommands`.  `ProcessTimers` is a
handler, which reads `ready`, clears the mark and calls `OnExpired`.
Times are 64-bit in the code; the model takes them modulo `2^TimeoutBits` and
`ClockInRange` stops the clock while a timer or a command is later than `MAX_LATE`, so
that differences stay unambiguous.

### The interfaces

Every function is an action with the name of the function, or an entry in a table
where a family of functions only delegates (`CApi`).  Static and dynamic creation
differ in the number of allocations (`Construct`), which may fail one by one and are
then undone.  Status codes are `OK` and `FAIL`, handles are names of
objects, priorities are numbers and go through the conversions of the code.
Notifications, queue sets, message buffers, deferred calls, join and detach are where
the interfaces have protocols of their own; these are modelled step by step, between
the native calls they are made of.

### Strategies

`SmoothWeighted` and `Monotonic` are operations on one object that a caller, which
stands for the kernel, uses in any order the kernel can.  In `Monotonic` `Wcrt` is the iteration of the code
and `Schedule` the reference: the tasks released together at time zero and run by
`GetNext` for one hyperperiod.  TLC compares the two.

### Interop

A scenario is a small program: the components it is linked with (`uses`), its objects,
the calls each of its tasks may make, in any order and number, and the `horizon` of
its clock.  `CallerMay` states what the code demands of its callers and does not
check, or asserts: tokens and blocks are given back by who has them, a mutex is
unlocked by its owner, an object is deleted when nobody uses it, a task that waits on a
synchronization object is not resumed, a member of a queue set is read by who was told
of it, a thread that has exited is not joined.  The last of these are more than the
documents of the interfaces say; they are listed under Findings.  Where `Signal` asserts that
the count is below its maximum, the signal waits for room in the model: two notifiers may be
between the value and the signal of one slot, and the second goes on when the first signal
has been taken or a task waits.

## Runs

| Run | Result | Shows |
|---|---|---|
| `kernel` | holds | all calls on two slots and three tasks: list consistency, cursor, the next task is awake, the executing task is `m_task_now`, the saved context is the executing one, the sleep trap runs only when nothing else can, add requests are served, the timer is not late, the executing slot is not rebound |
| `kernel_live` | holds | three slots, tickless: sleeps end, slots of exited tasks are freed |
| `rr_starvation` | violated | a runnable task can be passed over for ever |
| `suspend_in_switch` | violated | `Suspend` between the tick and PendSV saves a context to the wrong stack |
| `exit_cancelled` | violated | `SleepCancel` of a task that has exited leaks its slot |
| `rwmutex` | holds | exclusion (refinement of `RWLock`), exact counters, no lost wake-up of a writer, progress of writers |
| `rwmutex_timeout` | violated | readers stay blocked after the writer they gave way to timed out |
| `mutex` | holds | ownership and counts are exact, the hand-over loses nothing, the strategy's lists follow the weights, no boost outlives its ownership, a tick switches to a task of the highest weight that is awake |
| `mutex_inversion` | violated | the owner of a mutex loses the boost of a waiter that is still queued |
| `interop` | holds | more than sixty programs on the synchronization objects, the timer host, the pools, the strategies and the interfaces: see below |
| `rearm_lost` | violated | a timer stays marked as re-arming with no command queued |
| `timer_periodic` | violated | the tick task sleeps without limit while a periodic timer is active |

The properties of `interop`:

* conservation: `TokensConserved` (semaphores), `BlocksConserved` (pools),
  `HeapConserved` (creation that fails half-way, deletion), `MessageBlocksConserved` (message
  buffers), `SetTokensBacked` (handles in a queue set against elements of its members);
* no lost wake-up: `WaitersHaveCause`, `FlagsWaitersUnsatisfied`,
  `QueueWaitersHaveCause`, `NotificationsReachWaiter`, `MutexHandOver`;
* `QueueSpec`: every ring buffer, through every interface, implements `Fifo`: what leaves it
  goes in order to one task that reads, or to nobody in a reset or a deletion, which only the
  queues see that the program resets or deletes (`Resettable`);
* `SpinOwnerHasFlag`: the panic in `MakeLocked` cannot happen;
* `PendingTimersQueued` and `RearmingQueued`: a mark on a timer has the queue entry it
  stands for, through all interleavings of callers, tick task and handlers;
* `CurrentWeightsBounded`: weights of the smooth round robin do not drift: each stays within
  the sum of all weights times the number of tasks;
* `SchedulabilityExact`: the response-time test agrees with the schedule.

Bounds.  Two slots are enough for each pair of roles the kernel distinguishes (the
executing task and another; the one removed and the one added); three are used
where the order in the round robin matters.  There is a user task more than slots,
so that slots are reused.  `WAIT_INFINITE` is 4: larger than `YIELD_TICKS`, small
enough to be counted down.  Sleep times of 1 and 3 with a largest
timer value of 3 give ticks that end one sleep exactly and another one not.
Four tasks on the lock allow two waiters of each kind or a holder with three
waiters; the time-outs 0, 1 and 3 are NO_WAIT, a wait that ends at the next tick
and WAIT_INFINITE.  Three tasks of the weights 0, 1 and 2 on two mutexes are an owner,
a waiter of higher weight and one of another, nested locks of both mutexes in either
order (and so deadlocks of the tasks, which the code does not exclude; the ticks
go on), and boosts along two mutexes; `RECURSION_MAX` is 2, so that the limit is met.
The time-outs 0, 2 and 3 are NO_WAIT, a wait that outlives a tick, so that it can expire
under a later owner than the one it found, and WAIT_INFINITE.

In `interop` three tasks are a blocked one, one that may overtake it and one that
wakes them; buffers have one or two slots, so that full, empty and the wrap of each index are met;
the heap has three regions, so that each allocation of an object can be the one that fails.
`TimeoutBits = 3` and `WAIT_INFINITE = 3` make the tick count wrap within eight ticks.
`MAX_LATE = 1` lets a timer be looked at a tick late; the timer programs run for one or
two ticks, which is enough for a timer to expire, be handled and expire again, and for
every race of callers, tick task and handler.  `MAX_VALUE = 2` bounds recursion, nested kernel locks and
notification values, `configMAX_PRIORITIES = 3` makes the clamp of priorities take effect.
The weights 1, 1 and 2 have a tie and a preferred task;
periods of 2 to 4 with deadlines of 1 to 3 give sets that are schedulable and sets that are not,
and hyperperiods up to 12.  The programs may stop (all tasks waiting for ever is
a legal end of a program that never signals), hence `CHECK_DEADLOCK FALSE`.

Symmetry of the user tasks is used in `kernel` only, which has no liveness property.

Fairness.  `Kernel!FairSpec` assumes `WF_vars(TickStep)`: the timer
interrupt keeps coming, its handler runs to its end and PendSV follows, which is the
hardware's behaviour; tasks are not assumed to do anything.  `RWMutex!FairSpec`
assumes `WF_vars(Finish(t))`: a task that is awake runs in the end and who holds the
lock releases it.  Nothing is assumed of tasks that hold nothing, nor of ticks.

## Findings

* **Round robin starves** (`rr_starvation`).  `RemoveActive` moves the cursor to the
  predecessor of the task it removes, whichever task the cursor was at.  The
  sleeps and wake-ups of two tasks can keep it before the same two, and the third,
  always runnable, is never picked, against the comment of the class.
* **Suspend in a pending switch** (`suspend_in_switch`).  `Context::Suspend` drops a
  pending PendSV although the kernel has already moved `m_task_now`.
* **Cancelled exit** (`exit_cancelled`).  The removal flag is only looked at for
  sleeping tasks, and SleepCancel wakes a task that is pending removal.
* **Writer time-out** (`rwmutex_timeout`).  `TimedLock` withdraws on a time-out
  without notifying the readers that its waiting blocked.
* **Boost lost** (`mutex_inversion`).  `OnRestoreWeight` searches the wait list for a
  weight above the owner's present one, which is the boost: it finds none and
  resets the owner to its own weight, although the waiter that lent the boost is
  still queued.  A single time-out of another waiter is enough.
* **Re-arming lost** (`rearm_lost`).  `CMD_START_OR_RESET` of an active timer is executed
  without clearing `m_rearming`; every later Restart or StartOrReset is dropped and
  answered with true.
* **Periodic timer stops** (`timer_periodic`).  `UpdateTime` leaves a pending timer out
  when it computes its sleep, and the handler does not wake it; a handler slower than a
  period leaves the tick task asleep without limit.

### Further cases met while modelling

No run is about these.  Outside the programs of `interop`, by `CallerMay`, by the guard of
`Signal` or by the choice of calls:

* tasks blocked in `Get` and in `Peek` on one message queue: the Peek takes the
  notification and the Get stays blocked (`QueueWaitersHaveCause` fails);
* a message buffer reset while it is used: an envelope put between the last `TryGet` and
  `Reset` is dropped with its block (`freertos_stk.cpp:4369`);
* a task resumed while it waits on an object (`stk.h:1191`): a token is lost or made up;
* `osThreadJoin` of a thread that has exited waits for ever (`cmsis_os2_stk.cpp:1196`):
  `WaitersHaveCause` fails without the precondition in `CmsisMay`;
* a second notification of a full slot, and a give beyond a semaphore's own maximum, run into
  the assertion of `Signal` (`freertos_stk.cpp:3278`, `:2481`);
* a timer deleted with a command in the queue (`freertos_stk.cpp:2668`, `stk_c_time.cpp:226`).

In the model, without a property that forbids them:

* a boost that stays too long: a waiter of a mutex lends its weight to the owner; the owner
  unlocks, the mutex goes to another waiter, which is boosted from the list, and
  the first waiter then times out.  `TimedLock` withdraws the boost only "if owner did not
  change", so the new owner keeps a weight nobody waits with until it unlocks.  This is why
  `BoostEndsWithOwnership` speaks of the ownership and not of a waiter that is still there;

* the lost sentinel of a shutdown with a full queue, and a Stop that finds its Start still
  queued (`stk_time_timer.h:976`, `:559`);
* the late write of `m_state` in `vTaskSuspend` (`freertos_stk.cpp:1238`), the put of
  `xQueueOverwrite` that fails and is reported as done (`:1860`), the snapshot of
  `xEventGroupWaitBits` after its time-out (`:3066`), the drainer that stops after another task's
  restart (`:863`);
* the weight a task of the smooth round robin comes with: a comment says that it is "reset to 0"
  (`stk_strategy_swrrobin.h:92`), the code sets `NO_WEIGHT`, which is -1 (`stk_common.h:215`);
* priorities of CMSIS-RTOS2 that do not survive the round trip (`cmsis_os2_stk.cpp:99`: 24
  becomes 23), `osThreadTerminate`, which works only while the kernel does not run (`:1242`);
* the result of a wait with a mutex, read after the second lock has used the wait object
  again (`stk.h:1841`).

Of wider integers than the models have: time-outs of 2^31 ticks and more become negative
(`freertos_stk.cpp:338`), `xTaskDelayUntil` wraps at 32 bits against a 64-bit tick count
(`:1304`), and an infinite wait ends after 2^31-1 ticks (`stk.h:1830`).

## Proofs

All theorems hold for every value of the constants that satisfies the assumptions named
in the modules which declare them: finite sets of tasks, slots numbered from one,
`WAIT_INFINITE` positive, weights between zero and the highest priority, distinct names.

**Lists.**  `LinkedListProofs` holds what the other proofs need about linking, unlinking
and traversal, for lists of any length.  Two facts need induction over the length.
`LeastLemma` says that a non-empty set of naturals has a least element, so that a claim
about all indices is proved from a least counterexample.  `UnlinkAllLemma` uses it: the walk
over a list that unlinks the elements it is told to unlink, and steps on to the successor it
read before (as `WaitObject::Tick` may be called), leaves exactly the other elements, each once
and in their order.  `WaitQueueProofs` says who is linked, whose time-out is set and who
is woken after each operation of `WaitQueue`; the first parts of `KernelProofs` and `MutexProofs`
say what each operation of their strategy does to its lists and cursors.  For the fixed
priorities that is `Placed(s, T, A, w)`: each task of `A` is once in the list of its weight
`w` and nowhere else, the other tasks of `T` are in the sleep list, and bitmap and cursors fit.
`GetNextLemma` shows that the strategy picks a task of `A` with the highest weight.

**Kernel.**  `KernelProofs` proves, for any number of slots, set of tasks, sleep times,
tickless limit and set of calls without `IsrSuspendInSwitch` (the assumption
`SwitchNotInterrupted`, without which `SavedContextIsRunning` is false as
shown above), every invariant of the run `kernel`, and
`ExecutingSlotKept`.  None of them is inductive alone.  The inductive invariant `IInv`
adds to `TypeOK`, `ListsConsistent` and `CursorIsRunnable`:

* `SlotsOK`: a slot that sleeps is bound, and one with a sleep event to deliver sleeps;
* `CancelsOK`: a SleepCancel outside its critical section holds a slot;
* `EventsDelivered`: the slots the tick handler's loop has passed have no sleep event
  left to deliver, so that at its end the active list holds awake tasks only;
* `ExecOK`: how `cpu`, `m_task_now`, the FSM state, the stacks and the kernel state
  are related in each phase;
* `RequestsOK`: a task with an unserved request is between the steps of RequestAddTask,
  the kernel has been notified or the handler's loop has not passed its slot, and it
  sleeps if it is past the last step.

`IInv` is preserved action by action; the strategy's part rests on the lemmas about the round
robin.

`TimerNotLate` (`TimerInTime`) has an invariant of its own, `TimerInv`, on top of `IInv`.
While the handler's loop runs, the timer value it computes covers each slot it has passed
(`Covered`: the value is no more than the rest of a sleep, and one if the slot is awake).
Outside the handler a timer of more than one tick is only found when no task executes that
could start a shorter sleep (the state machine is neither switching nor waking), and the only
sleeps that end before it are those that SleepCancel cut to one tick.

**Read-write mutex.**  `RWMutexProofs` proves `CountersExact` for any finite set of tasks and
any time-outs, and that `RWMutex` implements `RWLock`.  Its inductive invariant is
`CountersType`, `CountersExact` and that no two writers, nor a reader and a writer,
hold the lock.  `WInv` adds the waits: a condition variable links a task once, and only while
it is in the loop of that variable (`WaitsOK`), and writers are linked only while the
lock is held or a writer that was woken by a notification has yet to run (`WritersOK`).  From it
follow `TypeOK` and `BlockedWriterHasCause`.  A time-out needs the care here: a tick may
unlink any number of writers, and `WritersOK` has to hold of those it leaves, which is
where the walk over the list comes in.

**Mutex.**  `MutexProofs` proves every property of the run `mutex`, for any number of tasks and
mutexes, any weights, time-outs and recursion limit.  `OwnershipExact` and `HandOver` come
from the inductive invariant `IInv`, which adds

* `WaitsOK`: a wait list holds a task once, and only while it sleeps in a `TimedLock` of
  that mutex;
* `HandOverOK`: the hand-over, in terms of who is linked;
* `OwnersHold`: the converse of `OwnershipExact`, that an owner made the locks that are
  counted unless it was handed the mutex and has not run since.  Without it a
  recursive lock could join a count that is not the caller's.

`SchedInv` is about the weights: the strategy is `Placed` with the weights of `sched` and
with the active tasks, which are those that are awake and those whose sleep the tick handler has not
yet told to the strategy (`pended`); and `BoostEndsWithOwnership`.  `QueuesMatchWeights` is
`Placed` in the words of the code.  `TickOK` says that in the second loop of the handler only
slots still to come are `pended`, so that at the switch the active tasks are the awake
ones; with `GetNextLemma` this gives `HighestPriorityRuns`, an action property.

The attempt to prove that a boosted owner has a waiter of that weight, which the run had
not refuted with shorter time-outs, led to the stuck boost described above; the property and the
bounds of the run were changed accordingly.

**Synchronization objects.**  `InteropProofs` is about programs on the native objects: any number
of tasks that call the methods of semaphores, events, mutexes, event flags, message queues,
block pools and spin locks, in any order, with any arguments and time-outs, on any
number of objects as their constructors leave them.  A program is data in `Interop`
(`Scenarios`), so the theorems have the form `Spec => [](NativeOnly => P)`, where `NativeOnly`
says that the behaviour is one of such a program.  The scenarios `tokens`, `signals`, `auto`,
`manual`, `mutex`, `flags`, `queue`, `peek`, `pool` and `spin` of `MCInterop` are.

The argument has three layers.  First, each method is shown to have a `NativeEffect`: it
writes its own object only, moves its own frame only, and either leaves (and may wake tasks
of its own lists) or parks its task in the one list its method waits in.  From this
`Shape` is inductive (`ShapeInvariance`): frames fit the kind of their object, a task is linked in one
list at most and only while it is blocked in the method of that list.  Second,
what a step does to the tasks that were woken and have not run (`OnTheWay`) is said
once for leaving, for parking, for a tick and for a step on another object; a
time-out never adds to or takes from this set.  Third come the invariants of the
kinds, each preserved method by method:

* `Sound`: nobody is linked on a semaphore with a token or on a signaled event (`Caused`), an
  owner is handed the mutex before its wait ends (`HandOver`), at most one task
  is between the flag and the owner of a spin lock (`Guarded`), and a linked waiter of event flags is
  not satisfied (`Unsatisfied`).  They give `WaitersHaveCause`, `MutexHandOver`,
  `SpinOwnerHasFlag` and `FlagsWaitersUnsatisfied`; `Shape` alone gives `TypeOK`;
* `Backed`: while a task is linked for a message (for room), there are no more messages
  (free slots) than tasks on their way to one.  It holds under `PeeksAtOnce`: a `Peek`
  that waits takes a wake-up and leaves the message, which is the case listed above.
  Scenario `queue` satisfies it, `peek` does not;
* `Conserved`: count, tokens on the way and tokens held add up to the initial count.  This speaks
  of what the tasks do with their tokens, so it needs `TokensReturned`: who takes a
  token gives it back, looks at the result and uses one semaphore (scenario `tokens`).
  `TokenCallers` is needed beside it: who has a token is not in a call for another;
* `Whole`: the free list and the blocks of the tasks are together all blocks, and their numbers
  add up to the capacity, so that no block is free twice or free and held.  It needs
  `BlocksReturned`, the same discipline for pools (scenario `pool`).

`QueuesAreFifo` is the refinement `Spec /\ NativeOnly /\ GetsRead => QueueSpec`: a message queue
of any capacity implements `Fifo`.  The invariant it needs is `Ordered`: the write index is the
read index plus the count, modulo the capacity.  `Content` is then computed slot
by slot with indices that wrap once at most (`WrapLemma`), and each method is shown to be
a `Move` of the content: one message more at the back or at the front, the oldest one less
(and in the inbox of its reader, and of nobody else), none left after a Reset of that queue,
or the same.  `GetsRead` says that the results of Get
are looked at and that a message is told from an error code.

The assumptions are `TimeoutAssumption` (`WAIT_INFINITE` is the largest signed number of
`TimeoutBits` bits, as `stk_common.h` defines it), `ResultsAssumption` (results are
told from tasks and blocks) and `TasksAssumption` (finitely many tasks, for the counts).

**Timer host.**  `TimerHostProofs` is about programs on the timer host (`TimerOnly`): the tick
task, any number of handler tasks, any number of callers of Start, Stop, Reset, SetPeriod,
Restart, StartOrReset and Shutdown, any number of timers and any capacity of the two pipes,
with handlers that make no calls of their own.  Its invariant (`MarksHaveCause`) has three
parts.  Frames, wait lists and pipes keep their shape: a frame is one of the steps of its
method, a task is linked in one list at most, and that is the list of the pipe it reads or
writes.  The write of the tick task to the queue of the handlers has no time limit, so that
it never gives up an expired timer it has marked.  And every mark has a cause: a timer that is
`m_pending` is in the queue of the handlers or carried by a task, one that is `m_rearming`
has a RESTART command in the queue, on its way there or in the tick task.
`PendingTimersQueued` and `RearmingQueued` follow; the second one, like the property, is about
programs without StartOrReset, which loses the command in the run `rearm_lost`.  The pipes
are where the care is needed: an entry of a ring that wraps stays the entry it was while others
are put behind it and taken before it.

**Smooth weighted round robin.**  `WeightsDoNotDrift` is `CurrentWeightsBounded` for any number
of tasks of any weights that are added, removed, put to sleep and woken with a boost in any order
between the choices.  A bound on a single current weight is not inductive: the choice
takes from one task what all of them gained, and a task that wakes brings its own.  The
invariant (`Within`) bounds the sum of the current weights of every set of runnable tasks, from both
sides, by a `Budget` that grows with the size of the set, each further task adding less than the one before.
What GetNext does to such a set depends on whether the chosen task is in it, and the chosen task
has at least the average.  The budget of one task is the sum of all weights times the
number of tasks; twice the sum, which is enough in small instances, is not a bound for many tasks.
Sums over sets are defined by recursion in the community modules; the lemmas
`SumSplit`, `SumPlus`, `SumLess` and `SumParts` give what is needed, each by induction over
the subsets of a finite set (`SetInduction`, from a smallest counterexample).

**Heap.**  `RegionsConserved` is `HeapConserved` for any program that makes and deletes objects of
the FreeRTOS and CMSIS interfaces (`HeapOnly`: the scenarios `frtos_heap`, `frtos_heap_buffers`
and `cmsis_heap` are such programs), with a heap of any size, any number of tasks and handles
and interleaving after every single allocation.  First, each of the functions is shown to have
one of five effects (`HeapEffect`): a step of a constructor, a step of the constructor of a message
buffer, a deletion, the deletion of a message buffer, or none.  Then each effect keeps the
balance (`HeapState`): regions of objects plus regions that constructors hold.  The invariant has to
say more than the balance: what a constructor holds is in its frame and its handle has no object
yet, a function that refuses its arguments has allocated nothing, the parts of a message buffer
own nothing themselves, and an existing object knows its parts.  `HeapOnly` also says that
a handle is made by one task; two tasks that construct an object for one handle would each
return one, and the first would be lost, in the code as in the model.

**Task notifications.**  `NotificationsNotLost`, at the end of `InteropProofs`, is
`NotificationsReachWaiter` for any number of slots and tasks (`NotifyOnly`: the scenarios
`notify_wait` and `notify_zero` are such programs, with the values 0 to 3).  Every task and interrupt may
notify every slot, with any action, through every function for it, and clear bits of its value;
one task waits for each slot, with any time-outs.  The value and the semaphore of a slot change
in different critical sections, so that neither tells of the other.  What is inductive (`Noticed`) is
that a slot with a value has a signal, or a notifier that has yet to signal, or a task on its way
with the signal it got, and that a slot with a waiter has no signal.  `NotifyOnly` asks that
the masks of the waits clear every value the notifications can leave (`Covered`): a value that stays
behind on purpose is not lost.  Programs that withdraw a signal with
xTaskNotifyStateClear, or count it down with ulTaskNotifyTake, are left to the run.

**Message buffers.**  `MessageBlocksKept`, also there, is `MessageBlocksConserved` for any number of
buffers, of any size, with any tasks and interrupts that send, receive, reset and ask (`BuffersOnly`: the
scenario `frtos_messages` is such a program).  A send takes a block in one critical section and puts
its envelope in another, and a receive gets the envelope and frees the block or puts the envelope back.
What is inductive (`BufferInv`) are the ranges and the order of the queue and of the free list, that every
envelope names a block of its pool, that who resets is alone and clears a queue that is empty,
and the balance itself: the queue has as many slots as the pool has blocks, so that who
carries a block always finds room to put its envelope back (the code does not look, `RoomLemma`).
A pool that got no storage from the heap is covered; creation and deletion are left to the run.

**Only model-checked.**  Of `Interop`: `SetTokensBacked`, about functions of the FreeRTOS interface
that go on after a method of a native object returns; `QueueSpec` and `QueueWaitersHaveCause` for
pipes; and `SchedulabilityExact`, a fixed point that is computed by recursion, of which nothing can be proved for
every input here.  The other invariants are proved for programs of the kinds described above;
for programs that go through condition variables, or reach timers and native objects through the
FreeRTOS, CMSIS-RTOS2 and C interfaces, the theorems say nothing, and the runs do.
Liveness (`SleepEnds`, `ExitFreesSlot`, `WriterProgress`) is out of the prover's reach.

## Not modelled

* Register frames, FPU, MPU and TrustZone code and the fault handlers of the Cortex-M port, and the masking of
  interrupts (a critical section is one step): machine code without state of the scheduler.
* The RISC-V and Win32 ports: the same interface as the Cortex-M port.
* The hard real-time mode of the kernel and the EDF strategy, which reads its deadlines.
* The kernel and the wait lists in one state space: an infinite wait that the kernel
  counts down to its end, the removal of a task that waits.
* In the interfaces: names, information and statistics, hooks, kernel set-up and start;
  the read-write mutex of the C interface, whose wrappers only call `RWMutex`.
* Message contents and sizes beyond what decides a branch; addresses and fragmentation
  of the heap.

## Plan

Done: the kernel with the round robin and the Cortex-M port, the wait mechanism, the
read-write mutex, the mutex with priority inheritance; all synchronization objects, the
block pool, the timer host, two more strategies and the three interfaces, composed in
`Interop`.  To come:

1. Pipes in `InteropProofs`: their chunks in `QueueSpec`, and their wake-ups (`TimerHostProofs` has
   the lemmas about the entries of a ring).
2. The interfaces in the frame of `InteropProofs`: a function of an interface parks in its own list
   or goes on to a method whose effect is known (done for the task notifications and the message
   buffers; the queue sets, `SetTokensBacked`, are next).
3. The hard real-time mode with the EDF strategy.
