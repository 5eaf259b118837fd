--------------------------- MODULE RWMutexProofs ---------------------------
(***************************************************************************)
(* sync::RWMutex keeps the promise of a readers-writer lock, for every     *)
(* number of tasks and all time-outs.                                      *)
(***************************************************************************)
EXTENDS RWMutex, WaitQueueProofs

Labels == {"idle", "read wait", "reading", "write wait", "writing"}

(* The part of the type invariant the argument needs *)
CountersType ==
    /\ m_readers \in Nat /\ m_writers_waiting \in Nat
    /\ m_writer_active \in BOOLEAN
    /\ pc \in [Tasks -> Labels]

(* Readers and writers exclude each other, and writers one another *)
Exclusive ==
    /\ m_writer_active => m_readers = 0
    /\ \A t, u \in At("writing") : t = u

(* The inductive invariant *)
IInv == CountersType /\ CountersExact /\ Exclusive

-----------------------------------------------------------------------------
(* Counting this writer in and out again *)
LEMMA PlusMinus == \A n \in Nat : (n + 1) - 1 = n /\ n + 1 # 0
OBVIOUS

(* The sets and the counts of the two places a task moves between *)
Moved(t, from, label) ==
    /\ pc' \in [Tasks -> Labels]
    /\ At(label)' = At(label) \cup {t}
    /\ At(from)' = At(from) \ {t}
    /\ \A l \in Labels \ {label, from} : At(l)' = At(l)
    /\ Cardinality(At(label)') = Cardinality(At(label)) + 1
    /\ Cardinality(At(from)') = Cardinality(At(from)) - 1
    /\ t \in At(from) /\ t \notin At(label)

(* A task that moves changes just these *)
LEMMA MoveLemma ==
    ASSUME CountersType, NEW t \in Tasks, NEW label \in Labels, Goto(t, label),
           NEW from \in Labels, pc[t] = from, from # label
    PROVE  Moved(t, from, label)
<1>1. /\ pc' \in [Tasks -> Labels] /\ pc'[t] = label
      /\ \A u \in Tasks : u # t => pc'[u] = pc[u]
  BY DEF CountersType, Goto
<1>2. /\ At(label)' = At(label) \cup {t} /\ t \notin At(label)
      /\ At(from)' = At(from) \ {t} /\ t \in At(from)
  BY <1>1 DEF At
<1>3. \A l \in Labels \ {label, from} : At(l)' = At(l)
  BY <1>1 DEF At
<1>4. IsFiniteSet(At(label)) /\ IsFiniteSet(At(from))
  BY RWMutexAssumption, FS_Subset DEF At
<1>5. /\ Cardinality(At(label) \cup {t}) = Cardinality(At(label)) + 1
      /\ Cardinality(At(from) \ {t}) = Cardinality(At(from)) - 1
  BY <1>2, <1>4, FS_AddElement, FS_RemoveElement
<1> QED
  BY <1>1, <1>2, <1>3, <1>5, Zenon DEF Moved

(* The counts are natural numbers, and zero only for empty places *)
LEMMA CountLemma ==
    ASSUME NEW label
    PROVE  /\ Cardinality(At(label)) \in Nat /\ Cardinality(At(label)') \in Nat
           /\ Cardinality(At(label)) = 0 <=> At(label) = {}
<1>1. IsFiniteSet(At(label)) /\ IsFiniteSet(At(label)')
  BY RWMutexAssumption, FS_Subset DEF At
<1> QED
  BY <1>1, FS_CardinalityType, FS_EmptySet

(* Exact counters are natural numbers *)
LEMMA ExactLemma ==
    ASSUME CountersExact', m_writer_active' \in BOOLEAN, pc' \in [Tasks -> Labels]
    PROVE  CountersType'
<1>1. m_readers' \in Nat /\ m_writers_waiting' \in Nat
  BY CountLemma DEF CountersExact
<1> QED
  BY <1>1 DEF CountersType

(* A step of the lock as its promise sees it *)
LockStep == Lock!Next \/ UNCHANGED <<At("reading"), At("writing")>>

(* A step that moves no task to or from the lock, and counts the waiting writers *)
LEMMA OutsideLemma ==
    ASSUME IInv, At("reading")' = At("reading"), At("writing")' = At("writing"),
           pc' \in [Tasks -> Labels],
           m_writers_waiting' = Cardinality(At("write wait")'),
           UNCHANGED <<m_readers, m_writer_active>>
    PROVE  IInv' /\ LockStep
<1>1. CountersType'
  BY CountLemma DEF IInv, CountersType
<1>2. CountersExact' /\ Exclusive'
  BY DEF IInv, CountersExact, Exclusive
<1> QED
  BY <1>1, <1>2 DEF IInv, LockStep

(* The loop of TimedReadLock *)
LEMMA ReadLoopLemma ==
    ASSUME IInv, NEW t \in Tasks, NEW ticks, pc[t] = "idle" \/ pc[t] = "read wait",
           ReadLoop(t, ticks)
    PROVE  IInv' /\ LockStep
<1>1. CASE ~m_writer_active /\ m_readers' = m_readers + 1 /\ Goto(t, "reading")
           /\ UNCHANGED <<m_writers_waiting, m_writer_active>>
  <2>1. PICK from \in {"idle", "read wait"} : pc[t] = from
    OBVIOUS
  <2>2. /\ pc' \in [Tasks -> Labels]
        /\ At("reading")' = At("reading") \cup {t} /\ t \notin At("reading")
        /\ At("write wait")' = At("write wait") /\ At("writing")' = At("writing")
        /\ Cardinality(At("reading")') = Cardinality(At("reading")) + 1
    <3>1. /\ from \in Labels /\ "reading" \in Labels /\ from # "reading"
          /\ {"write wait", "writing"} \subseteq Labels \ {"reading", from}
      BY <2>1 DEF Labels
    <3>2. CountersType /\ Goto(t, "reading")
      BY <1>1 DEF IInv
    <3>3. Moved(t, from, "reading")
      BY <2>1, <3>1, <3>2, MoveLemma
    <3> QED
      BY <3>1, <3>3, Zenon DEF Moved
  <2>3. At("writing") = {}
    BY <1>1 DEF IInv, CountersExact
  <2>4. CountersExact'
    <3>1. m_readers' = Cardinality(At("reading")')
      BY <1>1, <2>2 DEF IInv, CountersExact
    <3>2. m_writers_waiting' = Cardinality(At("write wait")')
      BY <1>1, <2>2 DEF IInv, CountersExact
    <3>3. m_writer_active' <=> At("writing")' # {}
      BY <1>1, <2>2, Zenon DEF IInv, CountersExact
    <3> QED
      BY <3>1, <3>2, <3>3 DEF CountersExact
  <2>5. CountersType'
    BY <1>1, <2>2, <2>4, ExactLemma DEF IInv, CountersType
  <2>6. Exclusive'
    BY <1>1, <2>2, <2>3 DEF Exclusive
  <2>7. Lock!AcquireRead(t)
    BY <2>2, <2>3 DEF Lock!AcquireRead
  <2> QED
    BY <2>4, <2>5, <2>6, <2>7 DEF IInv, LockStep, Lock!Next
<1>2. ASSUME NEW label \in {"idle", "read wait"}, Goto(t, label), UNCHANGED lockVars
      PROVE  IInv' /\ LockStep
  <2>1. /\ pc' \in [Tasks -> Labels] /\ At("reading")' = At("reading")
        /\ At("writing")' = At("writing") /\ At("write wait")' = At("write wait")
    <3>1. CASE pc[t] = label
      BY <1>2, <3>1 DEF Goto, At, IInv, CountersType, Labels
    <3>2. CASE pc[t] # label
      BY <1>2, <3>2 DEF Goto, At, IInv, CountersType, Labels
    <3> QED
      BY <3>1, <3>2
  <2> QED
    BY <1>2, <2>1, OutsideLemma DEF IInv, CountersExact, lockVars
<1> QED
  BY <1>1, <1>2 DEF ReadLoop

(* ReadUnlock: the last reader notifies a writer *)
LEMMA ReadUnlockLemma ==
    ASSUME IInv, NEW t \in Tasks, ReadUnlock(t)
    PROVE  IInv' /\ LockStep
<1>1. /\ pc[t] = "reading" /\ m_readers' = m_readers - 1 /\ Goto(t, "idle")
      /\ UNCHANGED <<m_writers_waiting, m_writer_active>>
  BY DEF ReadUnlock
<1>2. /\ pc' \in [Tasks -> Labels]
      /\ At("reading")' = At("reading") \ {t} /\ t \in At("reading")
      /\ At("write wait")' = At("write wait") /\ At("writing")' = At("writing")
      /\ Cardinality(At("reading")') = Cardinality(At("reading")) - 1
  <2>1. /\ "reading" \in Labels /\ "idle" \in Labels /\ "reading" # "idle"
        /\ {"write wait", "writing"} \subseteq Labels \ {"idle", "reading"}
    BY DEF Labels
  <2>2. CountersType
    BY DEF IInv
  <2>3. Moved(t, "reading", "idle")
    BY <1>1, <2>1, <2>2, MoveLemma
  <2> QED
    BY <2>1, <2>3, Zenon DEF Moved
<1>3. ~m_writer_active /\ At("writing") = {}
  <2>1. At("reading") # {}
    BY <1>2
  <2>2. m_readers # 0
    BY <2>1, CountLemma DEF IInv, CountersExact
  <2> QED
    BY <2>2 DEF IInv, CountersExact, Exclusive
<1>4. CountersExact'
  <2>1. m_readers' = Cardinality(At("reading")')
    BY <1>1, <1>2 DEF IInv, CountersExact
  <2>2. m_writers_waiting' = Cardinality(At("write wait")')
    BY <1>1, <1>2 DEF IInv, CountersExact
  <2>3. m_writer_active' <=> At("writing")' # {}
    BY <1>1, <1>2, <1>3
  <2> QED
    BY <2>1, <2>2, <2>3 DEF CountersExact
<1>5. CountersType'
  BY <1>1, <1>2, <1>4, ExactLemma DEF IInv, CountersType
<1>6. Exclusive'
  BY <1>1, <1>2, <1>3 DEF Exclusive
<1>7. Lock!ReleaseRead(t)
  BY <1>2 DEF Lock!ReleaseRead
<1> QED
  BY <1>4, <1>5, <1>6, <1>7 DEF IInv, LockStep, Lock!Next

(* A writer gives up, at its call or after a wait *)
LEMMA WithdrawLemma ==
    ASSUME IInv, NEW t \in Tasks, NEW waiting,
           \/ pc[t] = "idle" /\ waiting = m_writers_waiting + 1
           \/ pc[t] = "write wait" /\ waiting = m_writers_waiting,
           Goto(t, "idle"), m_writers_waiting' = waiting - 1,
           UNCHANGED <<m_readers, m_writer_active>>
    PROVE  IInv' /\ LockStep
<1>0. CountersType /\ m_writers_waiting = Cardinality(At("write wait"))
      /\ m_writers_waiting \in Nat
  BY DEF IInv, CountersExact, CountersType
<1>1. /\ pc' \in [Tasks -> Labels]
      /\ At("reading")' = At("reading") /\ At("writing")' = At("writing")
      /\ m_writers_waiting' = Cardinality(At("write wait")')
  <2>1. CASE pc[t] = "idle" /\ waiting = m_writers_waiting + 1
    <3>1. pc' = pc
      BY <1>0, <2>1 DEF Goto, CountersType
    <3>2. m_writers_waiting' = m_writers_waiting
      BY <1>0, <2>1, PlusMinus, Zenon
    <3> QED
      BY <1>0, <3>1, <3>2 DEF At, CountersType
  <2>2. CASE pc[t] = "write wait" /\ waiting = m_writers_waiting
    <3>1. /\ {"write wait", "idle"} \subseteq Labels /\ "write wait" # "idle"
          /\ {"reading", "writing"} \subseteq Labels \ {"idle", "write wait"}
      BY DEF Labels
    <3>m. Moved(t, "write wait", "idle")
      BY <1>0, <2>2, <3>1, MoveLemma
    <3>2. /\ pc' \in [Tasks -> Labels] /\ At("writing")' = At("writing")
          /\ At("reading")' = At("reading")
          /\ Cardinality(At("write wait")') = Cardinality(At("write wait")) - 1
      BY <3>1, <3>m, Zenon DEF Moved
    <3> QED
      BY <1>0, <2>2, <3>2, Zenon
  <2> QED
    BY <2>1, <2>2
<1> QED
  BY <1>1, OutsideLemma

(* The loop of TimedLock: waiting counts this writer, whether it comes from its
   call or from a wait *)
LEMMA WriteLoopLemma ==
    ASSUME IInv, NEW t \in Tasks, NEW ticks, NEW waiting,
           \/ pc[t] = "idle" /\ waiting = m_writers_waiting + 1
           \/ pc[t] = "write wait" /\ waiting = m_writers_waiting,
           WriteLoop(t, ticks, waiting)
    PROVE  IInv' /\ LockStep
<1>0. CountersType /\ m_writers_waiting = Cardinality(At("write wait"))
      /\ m_writers_waiting \in Nat
  BY DEF IInv, CountersExact, CountersType
<1>1. CASE /\ ~m_writer_active /\ m_readers = 0 /\ Goto(t, "writing")
           /\ m_writers_waiting' = waiting - 1 /\ m_writer_active' = TRUE
           /\ UNCHANGED m_readers
  <2>1. At("writing") = {} /\ At("reading") = {}
    BY <1>1, CountLemma DEF IInv, CountersExact
  <2>2. /\ pc' \in [Tasks -> Labels]
        /\ At("writing")' = {t} /\ At("reading")' = At("reading")
        /\ m_writers_waiting' = Cardinality(At("write wait")')
    <3>1. CASE pc[t] = "idle" /\ waiting = m_writers_waiting + 1
      <4>1. /\ {"idle", "writing"} \subseteq Labels /\ "idle" # "writing"
            /\ {"write wait", "reading"} \subseteq Labels \ {"writing", "idle"}
        BY DEF Labels
      <4>m. Moved(t, "idle", "writing")
        BY <1>0, <1>1, <3>1, <4>1, MoveLemma
      <4>2. /\ pc' \in [Tasks -> Labels] /\ At("writing")' = At("writing") \cup {t}
            /\ At("reading")' = At("reading") /\ At("write wait")' = At("write wait")
        BY <4>1, <4>m, Zenon DEF Moved
      <4>3. m_writers_waiting' = m_writers_waiting
        BY <1>0, <1>1, <3>1, PlusMinus, Zenon
      <4> QED
        BY <1>0, <2>1, <4>2, <4>3
    <3>2. CASE pc[t] = "write wait" /\ waiting = m_writers_waiting
      <4>1. /\ {"write wait", "writing"} \subseteq Labels /\ "write wait" # "writing"
            /\ "reading" \in Labels \ {"writing", "write wait"}
        BY DEF Labels
      <4>m. Moved(t, "write wait", "writing")
        BY <1>0, <1>1, <3>2, <4>1, MoveLemma
      <4>2. /\ pc' \in [Tasks -> Labels] /\ At("writing")' = At("writing") \cup {t}
            /\ At("reading")' = At("reading")
            /\ Cardinality(At("write wait")') = Cardinality(At("write wait")) - 1
        BY <4>1, <4>m, Zenon DEF Moved
      <4> QED
        BY <1>0, <1>1, <2>1, <3>2, <4>2, Zenon
    <3> QED
      BY <3>1, <3>2
  <2>3. CountersExact'
    <3>1. m_readers' = Cardinality(At("reading")')
      BY <1>1, <2>2 DEF IInv, CountersExact
    <3>2. m_writer_active' <=> At("writing")' # {}
      BY <1>1, <2>2
    <3> QED
      BY <2>2, <3>1, <3>2 DEF CountersExact
  <2>4. CountersType'
    BY <1>1, <2>2, <2>3, ExactLemma
  <2>5. Exclusive'
    BY <1>1, <2>2 DEF Exclusive
  <2>6. Lock!AcquireWrite(t)
    BY <2>1, <2>2 DEF Lock!AcquireWrite
  <2> QED
    BY <2>3, <2>4, <2>5, <2>6 DEF IInv, LockStep, Lock!Next
<1>2. CASE Goto(t, "idle") /\ m_writers_waiting' = waiting - 1
           /\ UNCHANGED <<m_readers, m_writer_active>>
  BY <1>2, WithdrawLemma
<1>3. CASE Goto(t, "write wait") /\ m_writers_waiting' = waiting
           /\ UNCHANGED <<m_readers, m_writer_active>>
  <2>1. /\ pc' \in [Tasks -> Labels]
        /\ At("reading")' = At("reading") /\ At("writing")' = At("writing")
        /\ m_writers_waiting' = Cardinality(At("write wait")')
    <3>1. CASE pc[t] = "idle" /\ waiting = m_writers_waiting + 1
      <4>1. /\ {"idle", "write wait"} \subseteq Labels /\ "idle" # "write wait"
            /\ {"writing", "reading"} \subseteq Labels \ {"write wait", "idle"}
        BY DEF Labels
      <4>m. Moved(t, "idle", "write wait")
        BY <1>0, <1>3, <3>1, <4>1, MoveLemma
      <4>2. /\ pc' \in [Tasks -> Labels] /\ At("writing")' = At("writing")
            /\ At("reading")' = At("reading")
            /\ Cardinality(At("write wait")') = Cardinality(At("write wait")) + 1
        BY <4>1, <4>m, Zenon DEF Moved
      <4> QED
        BY <1>0, <1>3, <3>1, <4>2
    <3>2. CASE pc[t] = "write wait" /\ waiting = m_writers_waiting
      <4>1. pc' = pc
        BY <1>0, <1>3, <3>2 DEF Goto, CountersType
      <4> QED
        BY <1>0, <1>3, <3>2, <4>1 DEF At, CountersType
    <3> QED
      BY <3>1, <3>2
  <2> QED
    BY <1>3, <2>1, OutsideLemma
<1> QED
  BY <1>1, <1>2, <1>3 DEF WriteLoop

(* Unlock: the writer leaves and notifies a writer, or the readers *)
LEMMA UnlockLemma ==
    ASSUME IInv, NEW t \in Tasks, Unlock(t)
    PROVE  IInv' /\ LockStep
<1>1. /\ pc[t] = "writing" /\ m_writer_active' = FALSE /\ Goto(t, "idle")
      /\ UNCHANGED <<m_readers, m_writers_waiting>>
  BY DEF Unlock
<1>2. /\ pc' \in [Tasks -> Labels]
      /\ At("writing")' = At("writing") \ {t} /\ t \in At("writing")
      /\ At("write wait")' = At("write wait") /\ At("reading")' = At("reading")
  <2>1. /\ "writing" \in Labels /\ "idle" \in Labels /\ "writing" # "idle"
        /\ {"write wait", "reading"} \subseteq Labels \ {"idle", "writing"}
    BY DEF Labels
  <2>2. CountersType
    BY DEF IInv
  <2>3. Moved(t, "writing", "idle")
    BY <1>1, <2>1, <2>2, MoveLemma
  <2> QED
    BY <2>1, <2>3, Zenon DEF Moved
<1>3. At("writing") = {t} /\ At("writing")' = {}
  BY <1>2 DEF IInv, Exclusive
<1>4. CountersExact'
  <2>1. m_readers' = Cardinality(At("reading")')
    BY <1>1, <1>2 DEF IInv, CountersExact
  <2>2. m_writers_waiting' = Cardinality(At("write wait")')
    BY <1>1, <1>2 DEF IInv, CountersExact
  <2>3. m_writer_active' <=> At("writing")' # {}
    BY <1>1, <1>3
  <2> QED
    BY <2>1, <2>2, <2>3 DEF CountersExact
<1>5. CountersType'
  BY <1>1, <1>2, <1>4, ExactLemma
<1>6. Exclusive'
  BY <1>1, <1>3 DEF Exclusive
<1>7. Lock!ReleaseWrite(t)
  BY <1>2, <1>3 DEF Lock!ReleaseWrite
<1> QED
  BY <1>4, <1>5, <1>6, <1>7 DEF IInv, LockStep, Lock!Next

(* A step that leaves the lock and the places of the tasks alone *)
LEMMA StutterLemma ==
    ASSUME IInv, UNCHANGED <<m_readers, m_writers_waiting, m_writer_active, pc>>
    PROVE  IInv' /\ LockStep
<1>1. \A l \in Labels : At(l)' = At(l)
  BY DEF At
<1>2. /\ At("reading")' = At("reading") /\ At("writing")' = At("writing")
      /\ At("write wait")' = At("write wait") /\ pc' \in [Tasks -> Labels]
  BY <1>1 DEF Labels, IInv, CountersType
<1>3. m_writers_waiting' = Cardinality(At("write wait")')
  BY <1>2 DEF IInv, CountersExact
<1> QED
  BY <1>2, <1>3, OutsideLemma

(* Every step preserves the invariant and is a step of the promise *)
LEMMA StepLemma ==
    ASSUME IInv, [Next]_vars
    PROVE  IInv' /\ LockStep
<1>1. CASE UNCHANGED vars
  BY <1>1, StutterLemma DEF vars, lockVars
<1>2. CASE Tick
  BY <1>2, StutterLemma DEF Tick, lockVars
<1>3. ASSUME NEW t \in Tasks, NEW ticks \in Timeouts, TimedReadLock(t, ticks)
      PROVE  IInv' /\ LockStep
  <2>1. (pc[t] = "idle" \/ pc[t] = "read wait") /\ ReadLoop(t, ticks)
    BY <1>3 DEF TimedReadLock
  <2> QED
    BY <2>1, ReadLoopLemma
<1>4. ASSUME NEW t \in Tasks, NEW ticks \in Timeouts, TimedLock(t, ticks)
      PROVE  IInv' /\ LockStep
  BY <1>4, WriteLoopLemma DEF TimedLock
<1>5. ASSUME NEW t \in Tasks, ReadWaitReturns(t) PROVE IInv' /\ LockStep
  <2>1. pc[t] = "read wait"
    BY <1>5 DEF ReadWaitReturns
  <2>2. CASE wait.timeout[t]
    <3>1. Goto(t, "idle") /\ UNCHANGED <<m_readers, m_writers_waiting, m_writer_active>>
      BY <1>5, <2>2 DEF ReadWaitReturns, lockVars
    <3>2. /\ {"idle", "read wait"} \subseteq Labels /\ "read wait" # "idle"
          /\ {"reading", "write wait", "writing"} \subseteq Labels \ {"idle", "read wait"}
      BY DEF Labels
    <3>3. CountersType
      BY DEF IInv
    <3>m. Moved(t, "read wait", "idle")
      BY <2>1, <3>1, <3>2, <3>3, MoveLemma
    <3>4. /\ pc' \in [Tasks -> Labels] /\ At("reading")' = At("reading")
          /\ At("writing")' = At("writing") /\ At("write wait")' = At("write wait")
      BY <3>2, <3>m, Zenon DEF Moved
    <3>5. m_writers_waiting' = Cardinality(At("write wait")')
      BY <3>1, <3>4 DEF IInv, CountersExact
    <3> QED
      BY <3>1, <3>4, <3>5, OutsideLemma
  <2>3. CASE ~wait.timeout[t]
    <3>1. (pc[t] = "idle" \/ pc[t] = "read wait") /\ ReadLoop(t, timeout_ticks[t])
      BY <1>5, <2>3 DEF ReadWaitReturns
    <3> QED
      BY <3>1, ReadLoopLemma
  <2> QED
    BY <2>2, <2>3
<1>6. ASSUME NEW t \in Tasks, WriteWaitReturns(t) PROVE IInv' /\ LockStep
  <2>1. CASE wait.timeout[t]
    BY <1>6, <2>1, WithdrawLemma DEF WriteWaitReturns
  <2>2. CASE ~wait.timeout[t]
    BY <1>6, <2>2, WriteLoopLemma DEF WriteWaitReturns
  <2> QED
    BY <2>1, <2>2
<1>7. ASSUME NEW t \in Tasks, Finish(t) PROVE IInv' /\ LockStep
  BY <1>5, <1>6, <1>7, ReadUnlockLemma, UnlockLemma DEF Finish
<1> QED
  BY <1>1, <1>2, <1>3, <1>4, <1>7 DEF Next

(* The lock is free at first *)
LEMMA InitLemma ==
    ASSUME Init
    PROVE  IInv /\ Lock!Init
<1>1. pc = [t \in Tasks |-> "idle"] /\ m_readers = 0 /\ m_writers_waiting = 0
      /\ m_writer_active = FALSE
  BY DEF Init
<1>2. At("reading") = {} /\ At("writing") = {} /\ At("write wait") = {}
  BY <1>1 DEF At
<1>3. CountersType
  BY <1>1 DEF CountersType, Labels
<1>4. CountersExact /\ Exclusive
  BY <1>1, <1>2, FS_EmptySet DEF CountersExact, Exclusive
<1> QED
  BY <1>2, <1>3, <1>4 DEF IInv, Lock!Init

(* The inductive invariant holds throughout *)
THEOREM Invariance == Spec => []IInv
<1>1. Init => IInv
  BY InitLemma
<1>2. IInv /\ [Next]_vars => IInv'
  BY StepLemma
<1> QED
  BY <1>1, <1>2, PTL DEF Spec

(* The counters m_readers, m_writers_waiting and m_writer_active are exact through
   every time-out, every retry and every call that does not wait *)
THEOREM CountersAreExact == Spec => []CountersExact
<1>1. IInv => CountersExact
  BY DEF IInv
<1> QED
  BY <1>1, Invariance, PTL

(* RWMutex implements the readers-writer lock: no writer together with a reader or
   another writer, whatever the time-outs do *)
THEOREM Refinement == Spec => LockSpec
<1>1. Init => Lock!Init
  BY InitLemma
<1>2. IInv /\ [Next]_vars => [Lock!Next]_<<At("reading"), At("writing")>>
  BY StepLemma DEF LockStep
<1> QED
  BY <1>1, <1>2, Invariance, PTL DEF Spec, LockSpec, Lock!Spec

-----------------------------------------------------------------------------
(* The condition variables *)

(* A condition variable holds tasks in the wait of its own loop *)
InLoopOf(o, t) == \/ o = m_cv_readers /\ pc[t] = "read wait"
                  \/ o = m_cv_writers /\ pc[t] = "write wait"

WaitsOK ==
    /\ wait \in WaitType /\ ListsOnce(wait)
    /\ timeout_ticks \in [Tasks -> 0..WAIT_INFINITE]
    /\ \A o \in SyncObjects, t \in Tasks : Linked(wait, o, t) => InLoopOf(o, t)

Unlinked(t) == \A o \in SyncObjects : ~Linked(wait, o, t)

(* A writer that was notified and has not run since *)
Notified(t) == pc[t] = "write wait" /\ Unlinked(t) /\ ~wait.timeout[t]

(* BlockedWriterHasCause, in terms of who is linked *)
WritersOK == (\E t \in Tasks : Linked(wait, m_cv_writers, t)) =>
    m_writer_active \/ m_readers # 0 \/ \E t \in Tasks : Notified(t)

(* The inductive invariant of the waits *)
WInv == IInv /\ WaitsOK /\ WritersOK

(* The condition variables are different sync objects *)
LEMMA CVLemma == m_cv_readers # m_cv_writers /\ {m_cv_readers, m_cv_writers} \subseteq SyncObjects
BY RWMutexAssumption DEF m_cv_readers, m_cv_writers

(* A task whose wait object is not linked moves, and nobody is linked or woken *)
LEMMA MoveWaitsLemma ==
    ASSUME WInv, NEW t \in Tasks, Unlinked(t), NEW label \in Labels, Goto(t, label),
           wait' = wait, timeout_ticks' \in [Tasks -> 0..WAIT_INFINITE]
    PROVE  /\ WaitsOK'
           /\ \A u \in Tasks : u # t => (Notified(u)' <=> Notified(u))
           /\ \A u \in Tasks : Linked(wait', m_cv_writers, u)
                                <=> Linked(wait, m_cv_writers, u)
<1>1. \A u \in Tasks : pc'[u] = IF u = t THEN label ELSE pc[u]
  BY DEF WInv, IInv, CountersType, Goto
<1>2. WaitsOK'
  <2>1. \A o \in SyncObjects, u \in Tasks : Linked(wait, o, u) => u # t /\ InLoopOf(o, u)
    BY DEF WInv, WaitsOK, Unlinked
  <2>2. \A o \in SyncObjects, u \in Tasks : Linked(wait, o, u) => InLoopOf(o, u)'
    BY <1>1, <2>1 DEF InLoopOf
  <2> QED
    BY <2>2 DEF WInv, WaitsOK
<1>3. \A u \in Tasks : u # t => (Notified(u)' <=> Notified(u))
  BY <1>1 DEF Notified, Unlinked
<1> QED
  BY <1>2, <1>3

(* A task that is linked nowhere begins a wait *)
LEMMA BeginWaitLemma ==
    ASSUME WInv, NEW t \in Tasks, Unlinked(t), NEW ticks \in Times,
           NEW o \in SyncObjects, NEW label \in Labels, Goto(t, label),
           \/ o = m_cv_readers /\ label = "read wait"
           \/ o = m_cv_writers /\ label = "write wait",
           wait' = SetupWait(wait, o, t, ticks),
           timeout_ticks' \in [Tasks -> 0..WAIT_INFINITE]
    PROVE  /\ WaitsOK'
           /\ \A u \in Tasks : u # t => (Notified(u)' <=> Notified(u))
           /\ \A q \in SyncObjects, u \in Tasks :
                Linked(wait', q, u) <=> Linked(wait, q, u) \/ (q = o /\ u = t)
<1>1. \A u \in Tasks : pc'[u] = IF u = t THEN label ELSE pc[u]
  BY DEF WInv, IInv, CountersType, Goto
<1>2. /\ wait' \in WaitType /\ ListsOnce(wait')
      /\ \A q \in SyncObjects, u \in Tasks :
            Linked(wait', q, u) <=> Linked(wait, q, u) \/ (q = o /\ u = t)
      /\ \A u \in Tasks : u # t => wait'.timeout[u] = wait.timeout[u]
  <2>1. wait \in WaitType /\ ListsOnce(wait) /\ \A q \in SyncObjects : ~Linked(wait, q, t)
    BY DEF WInv, WaitsOK, Unlinked
  <2>2. wait' \in WaitType /\ AfterSetup(wait', wait, o, t)
    BY <2>1, SetupWaitLemma
  <2> QED
    BY <2>2 DEF AfterSetup
<1>3. \A q \in SyncObjects, u \in Tasks : Linked(wait', q, u) => InLoopOf(q, u)'
  <2>1. ASSUME NEW q \in SyncObjects, NEW u \in Tasks, Linked(wait, q, u) PROVE InLoopOf(q, u)'
    <3>1. u # t /\ InLoopOf(q, u)
      BY <2>1 DEF WInv, WaitsOK, Unlinked
    <3> QED
      BY <1>1, <3>1 DEF InLoopOf
  <2>2. InLoopOf(o, t)'
    BY <1>1 DEF InLoopOf
  <2> QED
    BY <1>2, <2>1, <2>2
<1>4. WaitsOK'
  BY <1>2, <1>3 DEF WaitsOK
<1>5. \A u \in Tasks : u # t => (Notified(u)' <=> Notified(u))
  BY <1>1, <1>2 DEF Notified, Unlinked
<1> QED
  BY <1>2, <1>4, <1>5

(* The loop of TimedReadLock *)
LEMMA ReadLoopWaits ==
    ASSUME WInv, NEW t \in Tasks, Unlinked(t), pc[t] # "write wait",
           NEW ticks \in Times, ReadLoop(t, ticks),
           timeout_ticks' \in [Tasks -> 0..WAIT_INFINITE]
    PROVE  WaitsOK' /\ WritersOK'
<1>0. ~Notified(t)
  BY DEF Notified
<1>1. CASE Goto(t, "reading") /\ m_readers' = m_readers + 1 /\ wait' = wait
  <2>1. WaitsOK'
    BY <1>1, MoveWaitsLemma DEF Labels
  <2>2. m_readers' # 0
    <3>1. m_readers \in Nat
      BY DEF WInv, IInv, CountersType
    <3>2. m_readers' = m_readers + 1
      BY <1>1
    <3> QED
      BY <3>1, <3>2, PlusMinus, Zenon
  <2> QED
    BY <2>1, <2>2 DEF WritersOK
<1>2. CASE Goto(t, "idle") /\ UNCHANGED <<lockVars, wait>>
  <2>1. "idle" \in Labels
    BY DEF Labels
  <2>2. /\ WaitsOK'
        /\ \A u \in Tasks : u # t => (Notified(u)' <=> Notified(u))
        /\ \A u \in Tasks : Linked(wait', m_cv_writers, u) <=> Linked(wait, m_cv_writers, u)
    BY <1>2, <2>1, MoveWaitsLemma
  <2> QED
    BY <1>0, <1>2, <2>2 DEF WInv, WritersOK, lockVars
<1>3. CASE /\ wait' = SetupWait(wait, m_cv_readers, t, ticks)
           /\ Goto(t, "read wait") /\ UNCHANGED lockVars
  <2>1. "read wait" \in Labels
    BY DEF Labels
  <2>2. /\ WaitsOK'
        /\ \A u \in Tasks : u # t => (Notified(u)' <=> Notified(u))
        /\ \A u \in Tasks : Linked(wait', m_cv_writers, u) => Linked(wait, m_cv_writers, u)
    BY <1>3, <2>1, CVLemma, BeginWaitLemma
  <2> QED
    BY <1>0, <1>3, <2>2 DEF WInv, WritersOK, lockVars
<1> QED
  BY <1>1, <1>2, <1>3 DEF ReadLoop

(* The loop of TimedLock: a writer that does not get the lock finds it held *)
LEMMA WriteLoopWaits ==
    ASSUME WInv, NEW t \in Tasks, Unlinked(t), NEW waiting,
           NEW ticks \in Times, WriteLoop(t, ticks, waiting),
           timeout_ticks' \in [Tasks -> 0..WAIT_INFINITE]
    PROVE  WaitsOK' /\ WritersOK'
<1>1. CASE Goto(t, "writing") /\ m_writer_active' = TRUE /\ wait' = wait
  <2>1. WaitsOK'
    BY <1>1, MoveWaitsLemma DEF Labels
  <2> QED
    BY <1>1, <2>1 DEF WritersOK
<1>2. CASE /\ m_writer_active \/ m_readers # 0
           /\ Goto(t, "idle") /\ UNCHANGED <<m_readers, m_writer_active, wait>>
  <2>1. WaitsOK'
    BY <1>2, MoveWaitsLemma DEF Labels
  <2> QED
    BY <1>2, <2>1 DEF WritersOK
<1>3. CASE /\ m_writer_active \/ m_readers # 0
           /\ wait' = SetupWait(wait, m_cv_writers, t, ticks)
           /\ Goto(t, "write wait") /\ UNCHANGED <<m_readers, m_writer_active>>
  <2>1. WaitsOK'
    BY <1>3, CVLemma, BeginWaitLemma DEF Labels
  <2> QED
    BY <1>3, <2>1 DEF WritersOK
<1> QED
  BY <1>1, <1>2, <1>3 DEF WriteLoop

(* NotifyOne of the writers: the first of them is on its way *)
LEMMA NotifyWriterLemma ==
    ASSUME WInv, NEW t \in Tasks, pc[t] \in {"reading", "writing"}, Goto(t, "idle"),
           wait' = WakeOne(wait, m_cv_writers), UNCHANGED timeout_ticks
    PROVE  WaitsOK' /\ WritersOK'
<1>1. \A u \in Tasks : pc'[u] = IF u = t THEN "idle" ELSE pc[u]
  BY DEF WInv, IInv, CountersType, Goto
<1>2. Unlinked(t)
  BY DEF WInv, WaitsOK, Unlinked, InLoopOf
<1>3. CASE wait.list[m_cv_writers] = <<>>
  <2>1. wait' = wait
    BY <1>3 DEF WakeOne
  <2>2. WaitsOK'
    BY <1>2, <2>1, MoveWaitsLemma DEF Labels, WInv, WaitsOK
  <2>3. \A u \in Tasks : ~Linked(wait', m_cv_writers, u)
    BY <1>3, <2>1, CVLemma, LinkedLemma DEF WInv, WaitsOK
  <2> QED
    BY <2>2, <2>3 DEF WritersOK
<1>4. CASE wait.list[m_cv_writers] # <<>>
  <2>1. PICK h \in Tasks :
        /\ wait' \in WaitType /\ ListsOnce(wait') /\ Linked(wait, m_cv_writers, h)
        /\ \A o \in SyncObjects, u \in Tasks :
              Linked(wait', o, u) <=> Linked(wait, o, u) /\ ~(o = m_cv_writers /\ u = h)
        /\ wait'.timeout[h] = FALSE
    <3>1. wait \in WaitType /\ ListsOnce(wait) /\ m_cv_writers \in SyncObjects
      BY CVLemma DEF WInv, WaitsOK
    <3>2. /\ wait' \in WaitType
          /\ AfterWakeOne(wait', wait, m_cv_writers, Head(wait.list[m_cv_writers]))
      BY <1>4, <3>1, WakeOneLemma
    <3> QED
      BY <3>2 DEF AfterWakeOne
  <2>2. \A o \in SyncObjects, u \in Tasks : Linked(wait', o, u) => InLoopOf(o, u)'
    <3>1. ASSUME NEW o \in SyncObjects, NEW u \in Tasks, Linked(wait', o, u)
          PROVE  InLoopOf(o, u)'
      <4>1. InLoopOf(o, u)
        BY <2>1, <3>1 DEF WInv, WaitsOK
      <4> QED
        BY <1>1, <4>1 DEF InLoopOf
    <3> QED
      BY <3>1
  <2>3. WaitsOK'
    BY <2>1, <2>2 DEF WInv, WaitsOK
  <2>4. \A o \in SyncObjects : Linked(wait, o, h) => o = m_cv_writers
    BY <2>1, CVLemma DEF WInv, WaitsOK, InLoopOf
  <2>5. pc[h] = "write wait"
    BY <2>1, CVLemma DEF WInv, WaitsOK, InLoopOf
  <2>6. pc'[h] = "write wait" /\ \A o \in SyncObjects : ~Linked(wait', o, h)
    <3>1. h # t
      BY <2>5
    <3> QED
      BY <1>1, <2>1, <2>4, <2>5, <3>1
  <2>7. Notified(h)'
    BY <2>1, <2>6, Zenon DEF Notified, Unlinked
  <2> QED
    BY <2>3, <2>7 DEF WritersOK
<1> QED
  BY <1>3, <1>4

(* ReadUnlock: while readers are left, they are the cause *)
LEMMA ReadUnlockWaits ==
    ASSUME WInv, NEW t \in Tasks, ReadUnlock(t)
    PROVE  WaitsOK' /\ WritersOK'
<1>1. CASE m_readers' = 0
  BY <1>1, NotifyWriterLemma DEF ReadUnlock
<1>2. CASE m_readers' # 0
  <2>1. Unlinked(t) /\ Goto(t, "idle") /\ wait' = wait /\ UNCHANGED timeout_ticks
    BY <1>2 DEF ReadUnlock, WInv, WaitsOK, Unlinked, InLoopOf
  <2>2. WaitsOK'
    BY <2>1, MoveWaitsLemma DEF Labels, WInv, WaitsOK
  <2> QED
    BY <1>2, <2>2 DEF WritersOK
<1> QED
  BY <1>1, <1>2

(* Unlock: with no writer counted none is linked *)
LEMMA UnlockWaits ==
    ASSUME WInv, NEW t \in Tasks, Unlock(t)
    PROVE  WaitsOK' /\ WritersOK'
<1>1. CASE m_writers_waiting # 0
  BY <1>1, NotifyWriterLemma DEF Unlock
<1>2. CASE m_writers_waiting = 0
  <2>1. /\ Goto(t, "idle") /\ wait' = WakeAll(wait, m_cv_readers) /\ UNCHANGED timeout_ticks
        /\ pc[t] = "writing"
    BY <1>2 DEF Unlock
  <2>2. At("write wait") = {}
    BY <1>2, CountLemma DEF WInv, IInv, CountersExact
  <2>3. /\ wait' \in WaitType /\ ListsOnce(wait')
        /\ \A o \in SyncObjects, u \in Tasks :
                Linked(wait', o, u) <=> Linked(wait, o, u) /\ o # m_cv_readers
    BY <2>1, CVLemma, WakeAllLemma DEF WInv, WaitsOK
  <2>4. \A o \in SyncObjects, u \in Tasks : ~Linked(wait', o, u)
    BY <2>2, <2>3, CVLemma DEF WInv, WaitsOK, InLoopOf, At
  <2>5. WaitsOK'
    BY <2>1, <2>3, <2>4 DEF WInv, WaitsOK
  <2> QED
    BY <2>4, <2>5, CVLemma DEF WritersOK
<1> QED
  BY <1>1, <1>2

(* A time-out takes no notification away: who was notified is linked no more *)
LEMMA TickWaits ==
    ASSUME WInv, Tick
    PROVE  WaitsOK' /\ WritersOK'
<1>1. wait' = TickWaiters(wait) /\ UNCHANGED <<m_readers, m_writer_active, timeout_ticks, pc>>
  BY DEF Tick, lockVars
<1>2. /\ wait' \in WaitType /\ ListsOnce(wait')
      /\ \A o \in SyncObjects, u \in Tasks :
            Linked(wait', o, u) <=> Linked(wait, o, u) /\ u \notin Expired(wait)
      /\ \A u \in Tasks : wait'.timeout[u] = (wait.timeout[u] \/ u \in Expired(wait))
  BY <1>1, TickWaitersLemma DEF WInv, WaitsOK
<1>3. WaitsOK'
  BY <1>1, <1>2 DEF WInv, WaitsOK, InLoopOf
<1>4. \A u \in Tasks : Notified(u) => Notified(u)'
  <2>1. \A u \in Tasks : Unlinked(u) => u \notin Expired(wait)
    BY IsWaitingLemma DEF Expired, Unlinked
  <2> QED
    BY <1>1, <1>2, <2>1 DEF Notified, Unlinked
<1> QED
  BY <1>1, <1>2, <1>3, <1>4, CVLemma DEF WInv, WritersOK

(* Every step preserves the invariant of the waits *)
LEMMA WaitStepLemma ==
    ASSUME WInv, [Next]_vars
    PROVE  WInv'
<1>0. IInv'
  BY StepLemma DEF WInv
<1> SUFFICES WaitsOK' /\ WritersOK'
  BY <1>0 DEF WInv
<1>1. CASE UNCHANGED vars
  BY <1>1 DEF vars, lockVars, WInv, WaitsOK, WritersOK, InLoopOf, Notified, Unlinked
<1>2. CASE Tick
  BY <1>2, TickWaits
<1>3. \A t \in Tasks : pc[t] = "idle" => Unlinked(t)
  BY DEF WInv, WaitsOK, Unlinked, InLoopOf
<1>4. ASSUME NEW t \in Tasks, NEW ticks \in Timeouts, TimedReadLock(t, ticks) \/ TimedLock(t, ticks)
      PROVE  WaitsOK' /\ WritersOK'
  <2>1. ticks \in Times /\ pc[t] = "idle" /\ Unlinked(t)
    BY <1>3, <1>4, RWMutexAssumption DEF TimedReadLock, TimedLock, Times
  <2>2. timeout_ticks' \in [Tasks -> 0..WAIT_INFINITE]
    BY <1>4, <2>1 DEF TimedReadLock, TimedLock, WInv, WaitsOK, Times
  <2>3. CASE TimedReadLock(t, ticks)
    BY <2>1, <2>2, <2>3, ReadLoopWaits DEF TimedReadLock
  <2>4. CASE TimedLock(t, ticks)
    BY <2>1, <2>2, <2>4, WriteLoopWaits DEF TimedLock
  <2> QED
    BY <1>4, <2>3, <2>4
<1>5. \A t \in Tasks : ~IsWaiting(wait, t) => Unlinked(t)
  BY IsWaitingLemma DEF Unlinked
<1>6. ASSUME NEW t \in Tasks, ReadWaitReturns(t) PROVE WaitsOK' /\ WritersOK'
  <2>1. /\ Unlinked(t) /\ pc[t] # "write wait"
        /\ timeout_ticks[t] \in Times
        /\ timeout_ticks' \in [Tasks -> 0..WAIT_INFINITE]
    BY <1>5, <1>6 DEF ReadWaitReturns, WInv, WaitsOK, Times
  <2>2. CASE ~wait.timeout[t]
    BY <1>6, <2>1, <2>2, ReadLoopWaits DEF ReadWaitReturns
  <2>3. CASE wait.timeout[t]
    <3>1. Goto(t, "idle") /\ UNCHANGED <<lockVars, wait>> /\ "idle" \in Labels
      BY <1>6, <2>3 DEF ReadWaitReturns, Labels
    <3>2. /\ WaitsOK'
          /\ \A u \in Tasks : u # t => (Notified(u)' <=> Notified(u))
          /\ \A u \in Tasks : Linked(wait', m_cv_writers, u) <=> Linked(wait, m_cv_writers, u)
      BY <2>1, <3>1, MoveWaitsLemma
    <3>3. ~Notified(t)
      BY <2>1 DEF Notified
    <3> QED
      BY <3>1, <3>2, <3>3 DEF WInv, WritersOK, lockVars
  <2> QED
    BY <2>2, <2>3
<1>7. ASSUME NEW t \in Tasks, WriteWaitReturns(t) PROVE WaitsOK' /\ WritersOK'
  <2>1. /\ Unlinked(t) /\ timeout_ticks[t] \in Times
        /\ timeout_ticks' \in [Tasks -> 0..WAIT_INFINITE]
    BY <1>5, <1>7 DEF WriteWaitReturns, WInv, WaitsOK, Times
  <2>2. CASE ~wait.timeout[t]
    BY <1>7, <2>1, <2>2, WriteLoopWaits DEF WriteWaitReturns
  <2>3. CASE wait.timeout[t]
    <3>1. /\ Goto(t, "idle") /\ UNCHANGED <<m_readers, m_writer_active, wait>>
          /\ "idle" \in Labels
      BY <1>7, <2>3 DEF WriteWaitReturns, Labels
    <3>2. /\ WaitsOK'
          /\ \A u \in Tasks : u # t => (Notified(u)' <=> Notified(u))
          /\ \A u \in Tasks : Linked(wait', m_cv_writers, u) <=> Linked(wait, m_cv_writers, u)
      BY <2>1, <3>1, MoveWaitsLemma
    <3>3. ~Notified(t)
      BY <2>3 DEF Notified
    <3> QED
      BY <3>1, <3>2, <3>3 DEF WInv, WritersOK
  <2> QED
    BY <2>2, <2>3
<1>8. ASSUME NEW t \in Tasks, Finish(t) PROVE WaitsOK' /\ WritersOK'
  BY <1>6, <1>7, <1>8, ReadUnlockWaits, UnlockWaits DEF Finish
<1> QED
  BY <1>1, <1>2, <1>4, <1>8 DEF Next

(* The invariant of the waits holds throughout *)
THEOREM WaitInvariance == Spec => []WInv
<1>1. Init => WInv
  <2> SUFFICES ASSUME Init PROVE WInv
    OBVIOUS
  <2>1. IInv
    BY InitLemma
  <2>2. wait = NoWaiters /\ timeout_ticks \in [Tasks -> 0..WAIT_INFINITE]
    BY WaitAssumption DEF Init, NO_WAIT
  <2> QED
    BY <2>1, <2>2, NoWaitersLemma, CVLemma DEF WInv, WaitsOK, WritersOK
<1>2. WInv /\ [Next]_vars => WInv'
  BY WaitStepLemma
<1> QED
  BY <1>1, <1>2, PTL DEF Spec

(* Every variable keeps its type: the counters stay natural numbers and the wait
   lists hold tasks *)
THEOREM TypeCorrect == Spec => []TypeOK
<1>1. WInv => TypeOK
  BY DEF WInv, IInv, CountersType, WaitsOK, WaitType, WaitTypeIn, Times, Labels, TypeOK
<1> QED
  BY <1>1, WaitInvariance, PTL

(* No writer waits for a wake-up nobody will give: while writers are linked, the
   lock is held, or a writer that ReadUnlock or Unlock notified is on its way,
   whatever times out and whoever overtakes it *)
THEOREM NoForgottenWriter == Spec => []BlockedWriterHasCause
<1>1. WInv => BlockedWriterHasCause
  <2> SUFFICES ASSUME WInv, wait.list[m_cv_writers] # <<>>
               PROVE  \/ m_writer_active \/ m_readers # 0
                      \/ \E t \in At("write wait") : ~IsWaiting(wait, t) /\ ~wait.timeout[t]
    BY DEF BlockedWriterHasCause
  <2>1. \E t \in Tasks : Linked(wait, m_cv_writers, t)
    BY CVLemma, LinkedLemma DEF WInv, WaitsOK
  <2>2. \A t \in Tasks : Notified(t) =>
            t \in At("write wait") /\ ~IsWaiting(wait, t) /\ ~wait.timeout[t]
    BY IsWaitingLemma DEF Notified, Unlinked, At
  <2> QED
    BY <2>1, <2>2 DEF WInv, WritersOK
<1> QED
  BY <1>1, WaitInvariance, PTL
=============================================================================
