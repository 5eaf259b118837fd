------------------------------ MODULE SpinLock ------------------------------
(* sync::SpinLock (sync/stk_sync_spinlock.h) over hw::SpinLock, the flag m_lock.
   No critical section: each access another task may come before is a step *)
EXTENDS Blocking

SpinObject == [kind |-> "spin", m_owner_tid |-> NULL, m_recursion_count |-> 0, m_lock |-> FALSE]

LockedRecursively(t, c) ==
    /\ obj[c.o].m_owner_tid = t /\ obj[c.o].m_recursion_count # 0
    /\ Set(c.o, [obj[c.o] EXCEPT !.m_recursion_count = @ + 1])
    /\ Return(t, c, OK)

SpinLockLock(t, c) ==
    /\ c.op \in {"SpinLockLock", "SpinLockTryLock"} /\ UNCHANGED <<wait, now>>
    /\ \/ LockedRecursively(t, c)
       \/ /\ obj[c.o].m_owner_tid # t
          /\ Goto(t, [c EXCEPT !.op = IF c.op = "SpinLockLock" THEN "SpinAcquire" ELSE "SpinTry"])
          /\ UNCHANGED <<obj, ret>>

(* hw::SpinLock::Lock spins until the flag is free *)
Takes(t, c) ==
    /\ ~obj[c.o].m_lock
    /\ Set(c.o, [obj[c.o] EXCEPT !.m_lock = TRUE])
    /\ Goto(t, [c EXCEPT !.op = "MakeLocked"])
    /\ UNCHANGED ret

SpinAcquire(t, c) == c.op = "SpinAcquire" /\ Takes(t, c) /\ UNCHANGED <<wait, now>>

SpinTry(t, c) ==
    /\ c.op = "SpinTry" /\ UNCHANGED <<wait, now>>
    /\ Takes(t, c) \/ (obj[c.o].m_lock /\ Return(t, c, FAIL) /\ UNCHANGED obj)

(* The kernel panics if there is an owner *)
MakeLocked(t, c) ==
    /\ c.op = "MakeLocked" /\ UNCHANGED <<wait, now>>
    /\ Set(c.o, [obj[c.o] EXCEPT !.m_owner_tid = t, !.m_recursion_count = 1])
    /\ Return(t, c, OK)

(* mutant: the flag is free before the owner is gone *)
SpinUnlockFlagFirst(t, c) ==
    /\ c.op = "SpinLockUnlock" /\ obj[c.o].m_owner_tid = t /\ UNCHANGED <<wait, now>>
    /\ IF obj[c.o].m_recursion_count > 1
       THEN /\ Set(c.o, [obj[c.o] EXCEPT !.m_recursion_count = @ - 1])
            /\ Return(t, c, OK)
       ELSE /\ Set(c.o, [obj[c.o] EXCEPT !.m_lock = FALSE])
            /\ Goto(t, [c EXCEPT !.op = "SpinRelease"])
            /\ UNCHANGED ret

SpinLockUnlock(t, c) ==
    /\ c.op = "SpinLockUnlock" /\ obj[c.o].m_owner_tid = t /\ UNCHANGED <<wait, now>>
    /\ IF obj[c.o].m_recursion_count > 1
       THEN /\ Set(c.o, [obj[c.o] EXCEPT !.m_recursion_count = @ - 1])
            /\ Return(t, c, OK)
       ELSE /\ Set(c.o, [obj[c.o] EXCEPT !.m_recursion_count = 0, !.m_owner_tid = NULL])
            /\ Goto(t, [c EXCEPT !.op = "SpinRelease"])
            /\ UNCHANGED ret

SpinRelease(t, c) ==
    /\ c.op = "SpinRelease" /\ UNCHANGED <<wait, now>>
    /\ Set(c.o, [obj[c.o] EXCEPT !.m_lock = FALSE])
    /\ Return(t, c, OK)

SpinLockStep(t, c) ==
    \/ SpinLockLock(t, c) \/ SpinAcquire(t, c) \/ SpinTry(t, c) \/ MakeLocked(t, c)
    \/ SpinLockUnlock(t, c) \/ SpinRelease(t, c)
=============================================================================
