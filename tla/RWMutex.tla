------------------------------ MODULE RWMutex ------------------------------
(***************************************************************************)
(* sync::RWMutex (sync/stk_sync_rwmutex.h) and its two condition variables *)
(* (sync/stk_sync_cv.h).                                                   *)
(*                                                                         *)
(* Every method is a critical section and so one action, up to the wait in *)
(* which the section is left; the return from the wait is another action.  *)
(* A call from an interrupt is that of a task with NO_WAIT.                *)
(***************************************************************************)
EXTENDS WaitQueue, FiniteSets

CONSTANT Timeouts    \* arguments of TimedReadLock and TimedLock

m_cv_readers == "m_cv_readers"
m_cv_writers == "m_cv_writers"

ASSUME RWMutexAssumption ==
    /\ IsFiniteSet(Tasks)
    /\ {m_cv_readers, m_cv_writers} \subseteq SyncObjects
    /\ Timeouts \subseteq 0..WAIT_INFINITE

VARIABLES
    m_readers, m_writers_waiting, m_writer_active,
    wait,           \* wait state of the condition variables
    timeout_ticks,  \* argument of the call each task is in
    pc              \* where each task is with respect to the lock

lockVars == <<m_readers, m_writers_waiting, m_writer_active>>
vars == <<lockVars, wait, timeout_ticks, pc>>

Goto(t, label) == pc' = [pc EXCEPT ![t] = label]

-----------------------------------------------------------------------------
(* The loop of TimedReadLock, entered at the call and after each wait *)
ReadLoop(t, ticks) ==
    \/ /\ ~m_writer_active /\ m_writers_waiting = 0
       /\ m_readers' = m_readers + 1
       /\ Goto(t, "reading")
       /\ UNCHANGED <<m_writers_waiting, m_writer_active, wait>>
    \/ /\ m_writer_active \/ m_writers_waiting # 0
       /\ ticks = NO_WAIT
       /\ Goto(t, "idle")
       /\ UNCHANGED <<lockVars, wait>>
    \/ /\ m_writer_active \/ m_writers_waiting # 0
       /\ ticks # NO_WAIT
       /\ wait' = SetupWait(wait, m_cv_readers, t, ticks)
       /\ Goto(t, "read wait")
       /\ UNCHANGED lockVars

TimedReadLock(t, ticks) ==
    /\ pc[t] = "idle"
    /\ timeout_ticks' = [timeout_ticks EXCEPT ![t] = ticks]
    /\ ReadLoop(t, ticks)

ReadWaitReturns(t) ==
    /\ pc[t] = "read wait" /\ ~IsWaiting(wait, t)
    /\ IF wait.timeout[t]
       THEN Goto(t, "idle") /\ UNCHANGED <<lockVars, wait>>
       ELSE ReadLoop(t, timeout_ticks[t])
    /\ UNCHANGED timeout_ticks

(* mutant: the writers are not notified *)
ReadUnlockSilently(t) ==
    /\ pc[t] = "reading"
    /\ m_readers' = m_readers - 1
    /\ Goto(t, "idle")
    /\ UNCHANGED <<m_writers_waiting, m_writer_active, wait, timeout_ticks>>

ReadUnlock(t) ==
    /\ pc[t] = "reading"
    /\ m_readers' = m_readers - 1
    /\ wait' = IF m_readers' = 0 THEN WakeOne(wait, m_cv_writers) ELSE wait
    /\ Goto(t, "idle")
    /\ UNCHANGED <<m_writers_waiting, m_writer_active, timeout_ticks>>

-----------------------------------------------------------------------------
(* The loop of TimedLock; waiting counts the writers and this one *)
(* mutant: the loop does not look for readers *)
WriteLoopOverReaders(t, ticks, waiting) ==
    \/ /\ ~m_writer_active
       /\ m_writers_waiting' = waiting - 1
       /\ m_writer_active' = TRUE
       /\ Goto(t, "writing")
       /\ UNCHANGED <<m_readers, wait>>
    \/ /\ m_writer_active /\ ticks # NO_WAIT
       /\ m_writers_waiting' = waiting
       /\ wait' = SetupWait(wait, m_cv_writers, t, ticks)
       /\ Goto(t, "write wait")
       /\ UNCHANGED <<m_readers, m_writer_active>>

WriteLoop(t, ticks, waiting) ==
    \/ /\ ~m_writer_active /\ m_readers = 0
       /\ m_writers_waiting' = waiting - 1
       /\ m_writer_active' = TRUE
       /\ Goto(t, "writing")
       /\ UNCHANGED <<m_readers, wait>>
    \/ /\ m_writer_active \/ m_readers # 0
       /\ ticks = NO_WAIT
       /\ m_writers_waiting' = waiting - 1
       /\ Goto(t, "idle")
       /\ UNCHANGED <<m_readers, m_writer_active, wait>>
    \/ /\ m_writer_active \/ m_readers # 0
       /\ ticks # NO_WAIT
       /\ m_writers_waiting' = waiting
       /\ wait' = SetupWait(wait, m_cv_writers, t, ticks)
       /\ Goto(t, "write wait")
       /\ UNCHANGED <<m_readers, m_writer_active>>

(* mutant: the call does not count itself among the waiting writers *)
TimedLockUncounted(t, ticks) ==
    /\ pc[t] = "idle"
    /\ timeout_ticks' = [timeout_ticks EXCEPT ![t] = ticks]
    /\ WriteLoop(t, ticks, m_writers_waiting)

TimedLock(t, ticks) ==
    /\ pc[t] = "idle"
    /\ timeout_ticks' = [timeout_ticks EXCEPT ![t] = ticks]
    /\ WriteLoop(t, ticks, m_writers_waiting + 1)

(* A writer that timed out withdraws; it notifies nobody *)
(* mutant: it forgets to withdraw *)
WriteWaitReturnsCounted(t) ==
    /\ pc[t] = "write wait" /\ ~IsWaiting(wait, t)
    /\ IF wait.timeout[t]
       THEN Goto(t, "idle") /\ UNCHANGED <<lockVars, wait>>
       ELSE WriteLoop(t, timeout_ticks[t], m_writers_waiting)
    /\ UNCHANGED timeout_ticks

WriteWaitReturns(t) ==
    /\ pc[t] = "write wait" /\ ~IsWaiting(wait, t)
    /\ IF wait.timeout[t]
       THEN /\ m_writers_waiting' = m_writers_waiting - 1
            /\ Goto(t, "idle")
            /\ UNCHANGED <<m_readers, m_writer_active, wait>>
       ELSE WriteLoop(t, timeout_ticks[t], m_writers_waiting)
    /\ UNCHANGED timeout_ticks

(* mutant: readers are woken first, and the writers only if there is none *)
UnlockReadersFirst(t) ==
    /\ pc[t] = "writing"
    /\ m_writer_active' = FALSE
    /\ wait' = IF wait.list[m_cv_readers] # <<>> THEN WakeAll(wait, m_cv_readers)
                                                 ELSE WakeOne(wait, m_cv_writers)
    /\ Goto(t, "idle")
    /\ UNCHANGED <<m_readers, m_writers_waiting, timeout_ticks>>

Unlock(t) ==
    /\ pc[t] = "writing"
    /\ m_writer_active' = FALSE
    /\ wait' = IF m_writers_waiting # 0 THEN WakeOne(wait, m_cv_writers)
                                        ELSE WakeAll(wait, m_cv_readers)
    /\ Goto(t, "idle")
    /\ UNCHANGED <<m_readers, m_writers_waiting, timeout_ticks>>

-----------------------------------------------------------------------------
Tick ==
    /\ \E t \in Tasks : IsWaiting(wait, t)
    /\ wait' = TickWaiters(wait)
    /\ UNCHANGED <<lockVars, timeout_ticks, pc>>

Init ==
    /\ m_readers = 0 /\ m_writers_waiting = 0 /\ m_writer_active = FALSE
    /\ wait = NoWaiters
    /\ timeout_ticks = [t \in Tasks |-> NO_WAIT]
    /\ pc = [t \in Tasks |-> "idle"]

(* The steps of a task once it is in a call or holds the lock *)
Finish(t) == \/ ReadWaitReturns(t) \/ WriteWaitReturns(t)
             \/ ReadUnlock(t) \/ Unlock(t)

Next ==
    \/ \E t \in Tasks : Finish(t)
    \/ \E t \in Tasks, ticks \in Timeouts : TimedReadLock(t, ticks) \/ TimedLock(t, ticks)
    \/ Tick

Spec == Init /\ [][Next]_vars

(* Tasks that are awake get to run, and who holds the lock releases it *)
FairSpec == Spec /\ \A t \in Tasks : WF_vars(Finish(t))

-----------------------------------------------------------------------------
At(label) == {t \in Tasks : pc[t] = label}

(* Type correctness of every variable *)
TypeOK ==
    /\ m_readers \in Nat /\ m_writers_waiting \in Nat
    /\ m_writer_active \in BOOLEAN
    /\ wait \in [list: [SyncObjects -> Seq(Tasks)], time: [Tasks -> 0..WAIT_INFINITE],
                 timeout: [Tasks -> BOOLEAN]]
    /\ timeout_ticks \in [Tasks -> 0..WAIT_INFINITE]
    /\ pc \in [Tasks -> {"idle", "read wait", "reading", "write wait", "writing"}]

(* The counters tell who holds the lock and who is on the way to write, through
   every time-out and every retry of the loops: none of the 16-bit decrements
   goes below zero *)
CountersExact ==
    /\ m_readers = Cardinality(At("reading"))
    /\ m_writers_waiting = Cardinality(At("write wait"))
    /\ m_writer_active <=> At("writing") # {}

(* The promise of the lock: the implementation refines it *)
Lock == INSTANCE RWLock WITH readers <- At("reading"), writers <- At("writing")
LockSpec == Lock!Spec

(* No writer waits for a wake-up nobody will give: while writers are linked, the
   lock is held, or a writer that was notified is on its way *)
BlockedWriterHasCause ==
    wait.list[m_cv_writers] # <<>> =>
        \/ m_writer_active \/ m_readers # 0
        \/ \E t \in At("write wait") : ~IsWaiting(wait, t) /\ ~wait.timeout[t]

(* ReadLock "blocks the calling task if a writer is currently active or if there
   are writers waiting to acquire the lock", and not otherwise *)
BlockedReaderHasCause ==
    wait.list[m_cv_readers] # <<>> => m_writer_active \/ m_writers_waiting # 0

(* Writers that wait without a time-out do not wait in vain: some writer gets the
   lock.  (Not each of them: a writer that comes at the right time overtakes the
   one that was notified.) *)
WriterProgress ==
    (\E t \in At("write wait") : timeout_ticks[t] = WAIT_INFINITE) ~> At("writing") # {}
=============================================================================
