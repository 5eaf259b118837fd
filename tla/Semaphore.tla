----------------------------- MODULE Semaphore -----------------------------
(* sync::Semaphore (sync/stk_sync_semaphore.h), sync::Event (sync/stk_sync_event.h)
   and sync::Mutex, the objects tasks wait on directly *)
EXTENDS Blocking

COUNT_MAX == 65534

SemaphoreObject(initial_count, max_count) ==
    [kind |-> "semaphore", m_count |-> initial_count, m_count_max |-> max_count]

(* A waiter that was signalled owns the token, which never was in m_count *)
SemaphoreWait(t, c) ==
    LET s == obj[c.o]
    IN  /\ c.op = "SemaphoreWait"
        /\ UNCHANGED now
        /\ \/ /\ ~c.blocked /\ s.m_count # 0
              /\ Set(c.o, [s EXCEPT !.m_count = @ - 1])
              /\ Return(t, c, OK) /\ UNCHANGED wait
           \/ /\ ~c.blocked /\ s.m_count = 0 /\ c.ticks # NO_WAIT
              /\ KernelWait(t, c, wait, <<c.o, "list">>, c.ticks)
              /\ UNCHANGED obj
           \/ /\ ~c.blocked /\ s.m_count = 0 /\ c.ticks = NO_WAIT
              /\ Return(t, c, FAIL) /\ UNCHANGED <<obj, wait>>
           \/ /\ c.blocked
              /\ Return(t, c, Status(~wait.timeout[t])) /\ UNCHANGED <<obj, wait>>

(* mutant: the token of a waiter is added to the count too *)
SemaphoreSignalTwice(t, c) ==
    /\ c.op = "SemaphoreSignal" /\ obj[c.o].m_count < obj[c.o].m_count_max
    /\ Set(c.o, [obj[c.o] EXCEPT !.m_count = @ + 1])
    /\ wait' = WakeOne(wait, <<c.o, "list">>)
    /\ Return(t, c, NULL) /\ UNCHANGED now

(* The assertion on m_count_max is a precondition of the caller *)
SemaphoreSignal(t, c) ==
    LET s == obj[c.o]
    IN  /\ c.op = "SemaphoreSignal"
        /\ IF wait.list[<<c.o, "list">>] = <<>>
           THEN /\ s.m_count < s.m_count_max
                /\ Set(c.o, [s EXCEPT !.m_count = @ + 1]) /\ UNCHANGED wait
           ELSE wait' = WakeOne(wait, <<c.o, "list">>) /\ UNCHANGED obj
        /\ Return(t, c, NULL) /\ UNCHANGED now

-----------------------------------------------------------------------------
EventObject(manual_reset, initial_state) ==
    [kind |-> "event", m_manual_reset |-> manual_reset, m_signaled |-> initial_state]

(* m_signaled once the waiters of a Set or Pulse are off the list:
   RemoveWaitObject resets an automatic event for a waiter that was signalled *)
AfterWake(o) == obj[o].m_manual_reset \/ wait.list[<<o, "list">>] = <<>>

Release(o) == wait' = IF obj[o].m_manual_reset THEN WakeAll(wait, <<o, "list">>)
                                               ELSE WakeOne(wait, <<o, "list">>)

(* mutant: an automatic event stays signaled after it released a waiter *)
EventSetNoReset(t, c) ==
    /\ c.op = "EventSet" /\ UNCHANGED now
    /\ Set(c.o, [obj[c.o] EXCEPT !.m_signaled = TRUE])
    /\ Release(c.o)
    /\ Return(t, c, Status(~obj[c.o].m_signaled))

EventSet(t, c) ==
    /\ c.op = "EventSet" /\ UNCHANGED now
    /\ IF obj[c.o].m_signaled
       THEN Return(t, c, FAIL) /\ UNCHANGED <<obj, wait>>
       ELSE /\ Set(c.o, [obj[c.o] EXCEPT !.m_signaled = AfterWake(c.o)])
            /\ Release(c.o)
            /\ Return(t, c, OK)

EventReset(t, c) ==
    /\ c.op = "EventReset"
    /\ Set(c.o, [obj[c.o] EXCEPT !.m_signaled = FALSE])
    /\ Return(t, c, Status(obj[c.o].m_signaled))
    /\ UNCHANGED <<wait, now>>

EventPulse(t, c) ==
    /\ c.op = "EventPulse"
    /\ Set(c.o, [obj[c.o] EXCEPT !.m_signaled = FALSE])
    /\ Release(c.o)
    /\ Return(t, c, NULL) /\ UNCHANGED now

(* Wait, and TryWait with NO_WAIT *)
EventWait(t, c) ==
    LET e == obj[c.o]
    IN  /\ c.op = "EventWait"
        /\ UNCHANGED now
        /\ \/ /\ ~c.blocked /\ e.m_signaled
              /\ Set(c.o, [e EXCEPT !.m_signaled = e.m_manual_reset])
              /\ Return(t, c, OK) /\ UNCHANGED wait
           \/ /\ ~c.blocked /\ ~e.m_signaled /\ c.ticks # NO_WAIT
              /\ KernelWait(t, c, wait, <<c.o, "list">>, c.ticks)
              /\ UNCHANGED obj
           \/ /\ ~c.blocked /\ ~e.m_signaled /\ c.ticks = NO_WAIT
              /\ Return(t, c, FAIL) /\ UNCHANGED <<obj, wait>>
           \/ /\ c.blocked
              /\ Return(t, c, Status(~wait.timeout[t])) /\ UNCHANGED <<obj, wait>>

-----------------------------------------------------------------------------
(* sync::Mutex (sync/stk_sync_mutex.h) as its callers see it; the weights that a
   waiter lends and Unlock restores are the subject of module Mutex *)
MutexObject == [kind |-> "mutex", m_owner_tid |-> NULL, m_recursion_count |-> 0]

MutexLock(t, c) ==
    LET x == obj[c.o]
    IN  /\ c.op = "MutexLock"
        /\ UNCHANGED now
        /\ \/ /\ ~c.blocked /\ (x.m_recursion_count = 0 \/ x.m_owner_tid = t)
              /\ Set(c.o, [x EXCEPT !.m_recursion_count = @ + 1, !.m_owner_tid = t])
              /\ Return(t, c, OK) /\ UNCHANGED wait
           \/ /\ ~c.blocked /\ x.m_recursion_count # 0 /\ x.m_owner_tid # t
              /\ IF c.ticks = NO_WAIT
                 THEN Return(t, c, FAIL) /\ UNCHANGED wait
                 ELSE KernelWait(t, c, wait, <<c.o, "list">>, c.ticks)
              /\ UNCHANGED obj
           \/ /\ c.blocked
              /\ Return(t, c, Status(~wait.timeout[t])) /\ UNCHANGED <<obj, wait>>

(* The mutex after its owner unlocked it: the first waiter owns it *)
Unlocked(x, waiters) ==
    CASE x.m_recursion_count > 1 -> [x EXCEPT !.m_recursion_count = @ - 1]
      [] x.m_recursion_count = 1 /\ waiters # <<>> -> [x EXCEPT !.m_owner_tid = Head(waiters)]
      [] OTHER -> [x EXCEPT !.m_recursion_count = 0, !.m_owner_tid = NULL]

(* What Unlock does to the mutex o in the wait state w *)
Unlocks(o, w) ==
    /\ Set(o, Unlocked(obj[o], w.list[<<o, "list">>]))
    /\ wait' = IF obj[o].m_recursion_count > 1 THEN w ELSE WakeOne(w, <<o, "list">>)

(* mutant: the mutex is free although a waiter was woken to own it *)
MutexUnlockFree(t, c) ==
    /\ c.op = "MutexUnlock" /\ obj[c.o].m_owner_tid = t
    /\ Set(c.o, Unlocked(obj[c.o], <<>>))
    /\ wait' = WakeOne(wait, <<c.o, "list">>)
    /\ Return(t, c, OK) /\ UNCHANGED now

(* The assertion that the caller is the owner is a precondition *)
MutexUnlock(t, c) ==
    /\ c.op = "MutexUnlock" /\ obj[c.o].m_owner_tid = t
    /\ Unlocks(c.o, wait)
    /\ Return(t, c, OK) /\ UNCHANGED now

SemaphoreStep(t, c) ==
    \/ SemaphoreWait(t, c) \/ SemaphoreSignal(t, c)
    \/ EventSet(t, c) \/ EventReset(t, c) \/ EventPulse(t, c) \/ EventWait(t, c)
    \/ MutexLock(t, c) \/ MutexUnlock(t, c)
=============================================================================
