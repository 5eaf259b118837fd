------------------------- MODULE ConditionVariable -------------------------
(***************************************************************************)
(* sync::ConditionVariable (sync/stk_sync_cv.h) with a Mutex, and          *)
(* Kernel::OnTaskWait (stk.h) under it.  With a critical section as its    *)
(* mutex the wait is one step, KernelWait; with a Mutex it is not: a tick  *)
(* or an interrupt may come after SetupWait, and after ScheduleSleep.      *)
(***************************************************************************)
EXTENDS Semaphore

CvObject == [kind |-> "cv"]
CvList(o) == <<o, "list">>

(* A task that sleeps and is on no list of waiters *)
CvLost(o) == <<o, "sleep">>

(* x is the mutex, which the caller owns *)
CvWait(t, c) ==
    /\ c.op = "CvWait" /\ UNCHANGED <<obj, now>>
    /\ IF c.ticks = NO_WAIT THEN Return(t, c, FAIL) /\ UNCHANGED wait
       ELSE /\ wait' = SetupWait(wait, CvList(c.o), t, c.ticks)
            /\ Goto(t, [c EXCEPT !.op = "CvSleep"])
            /\ UNCHANGED ret

(* ScheduleSleep: the task is off the list if it was woken before it sleeps *)
Asleep(t, c) ==
    IF IsLinked(wait.list[CvList(c.o)], t) THEN wait
    ELSE [wait EXCEPT !.list[CvLost(c.o)] = Append(@, t), !.time[t] = WAIT_INFINITE]

(* ScheduleSleep and mutex->Unlock, which is left for later when a tick comes between
   the two and switches the sleeping task out *)
CvSleep(t, c) ==
    /\ c.op = "CvSleep" /\ UNCHANGED <<ret, now>>
    /\ \/ Unlocks(c.x, Asleep(t, c)) /\ Goto(t, [c EXCEPT !.op = "CvRelock"])
       \/ wait' = Asleep(t, c) /\ Goto(t, [c EXCEPT !.op = "CvUnlock"]) /\ UNCHANGED obj

CvUnlock(t, c) ==
    /\ c.op = "CvUnlock" /\ UNCHANGED <<ret, now>>
    /\ Unlocks(c.x, wait) /\ Goto(t, [c EXCEPT !.op = "CvRelock"])

CvRelock(t, c) ==
    /\ c.op = "CvRelock"
    /\ MutexLock(t, Calling([c EXCEPT !.op = "MutexLock", !.o = c.x, !.ticks = WAIT_INFINITE],
                            [c EXCEPT !.op = "CvResult"]))

(* IsTimeout of the wait object, which the wait for the mutex may have set up anew *)
CvResult(t, c) ==
    /\ c.op = "CvResult"
    /\ Return(t, c, Status(~wait.timeout[t])) /\ UNCHANGED <<obj, wait, now>>

CvNotifyOne(t, c) ==
    /\ c.op = "CvNotifyOne"
    /\ wait' = WakeOne(wait, CvList(c.o))
    /\ Return(t, c, NULL) /\ UNCHANGED <<obj, now>>

CvNotifyAll(t, c) ==
    /\ c.op = "CvNotifyAll"
    /\ wait' = WakeAll(wait, CvList(c.o))
    /\ Return(t, c, NULL) /\ UNCHANGED <<obj, now>>

CvStep(t, c) ==
    \/ CvWait(t, c) \/ CvSleep(t, c) \/ CvUnlock(t, c) \/ CvRelock(t, c) \/ CvResult(t, c)
    \/ CvNotifyOne(t, c) \/ CvNotifyAll(t, c)
=============================================================================
