----------------------------- MODULE TaskHandle -----------------------------
(***************************************************************************)
(* The kernel services the interfaces call for a task: sleep, suspend,     *)
(* resume (stk.h).                                                         *)
(*                                                                         *)
(* The object of a task handle names the task that runs it.  A task that   *)
(* sleeps or is suspended is on the list <<handle, "sleep">>, which stands *)
(* for the sleep counter of its kernel task: the counter runs down like a  *)
(* wait, but its end is not a time-out of the wait the task may be in.     *)
(***************************************************************************)
EXTENDS MemoryAllocator

SleepList(o) == <<o, "sleep">>

(* KernelTask::ScheduleSleep and Wake; m_timeout of its wait object stays *)
Sleeps(o, ticks) ==
    [wait EXCEPT !.list[SleepList(o)] = Append(@, obj[o].task), !.time[obj[o].task] = ticks]

Wakes(o) ==
    IF wait.list[SleepList(o)] = <<>> THEN wait
    ELSE [wait EXCEPT !.list[SleepList(o)] = <<>>, !.time[obj[o].task] = 0]

(* Kernel::SuspendTask does nothing to a task that sleeps or waits already *)
Suspends(o) == IF IsWaiting(wait, obj[o].task) THEN wait ELSE Sleeps(o, WAIT_INFINITE)

(* OnTaskSleep: the calling task, whose handle is o, sleeps; Awake is its return *)
SleepsFor(t, c, ticks) ==
    /\ wait' = IF ticks > 0 THEN Sleeps(c.o, ticks) ELSE wait
    /\ Goto(t, [c EXCEPT !.op = "Awake"])
    /\ UNCHANGED <<obj, ret, now>>

(* OnTaskSleepUntil the time stamp *)
SleepsUntil(t, c, timestamp) ==
    LET left == AsTimeout(timestamp - now)
    IN  IF left > 0 THEN SleepsFor(t, c, left) ELSE Refuse(t, c)

Awake(t, c) ==
    c.op = "Awake" /\ Return(t, c, OK) /\ UNCHANGED <<obj, wait, now>>
=============================================================================
