----------------------------- MODULE RoundRobin -----------------------------
(***************************************************************************)
(* SwitchStrategyRoundRobin (strategy/stk_strategy_rrobin.h).              *)
(*                                                                         *)
(* The strategy keeps two intrusive lists of kernel tasks, m_tasks (closed *)
(* loop, runnable) and m_sleep (asleep), and the cursor m_prev.  A state   *)
(* of the strategy is a record                                             *)
(*   [m_tasks |-> sequence, m_sleep |-> sequence, m_prev |-> task or NONE] *)
(* and every method of the class is an operator from states to states.     *)
(* Kernel tasks are the slots of m_task_storage, numbered from 1.          *)
(***************************************************************************)
EXTENDS LinkedList

-----------------------------------------------------------------------------
Empty == [m_tasks |-> <<>>, m_sleep |-> <<>>, m_prev |-> NONE]

(* The cursor follows the tail: it is the last entry, or null in an empty list *)
AtTail(s) ==
    IF s.m_tasks = <<>> THEN s.m_prev = NONE
                        ELSE s.m_prev = s.m_tasks[Len(s.m_tasks)]

AddTask(s, k) ==
    [s EXCEPT !.m_tasks = Append(s.m_tasks, k),
              !.m_prev  = IF AtTail(s) THEN k ELSE s.m_prev]

(* mutant: the cursor stays where it is, on a task that left the list *)
RemoveActiveStale(s, k) == [s EXCEPT !.m_tasks = Unlink(s.m_tasks, k)]

(* RemoveActive: the cursor is put in front of the removed task's successor,
   wherever it was before *)
RemoveActive(s, k) ==
    LET next == LoopNext(s.m_tasks, k)
        rest == Unlink(s.m_tasks, k)
    IN  [s EXCEPT !.m_tasks = rest,
                  !.m_prev  = IF next # k THEN LoopPrev(rest, next) ELSE NONE]

AddActive(s, k) ==
    [s EXCEPT !.m_tasks = Append(s.m_tasks, k),
              !.m_prev  = IF s.m_prev = NONE THEN k ELSE s.m_prev]

RemoveTask(s, k) ==
    IF IsLinked(s.m_tasks, k) THEN RemoveActive(s, k)
                              ELSE [s EXCEPT !.m_sleep = Unlink(s.m_sleep, k)]

OnTaskSleep(s, k) ==
    LET r == RemoveActive(s, k)
    IN  [r EXCEPT !.m_sleep = Append(r.m_sleep, k)]

OnTaskWake(s, k) ==
    AddActive([s EXCEPT !.m_sleep = Unlink(s.m_sleep, k)], k)

(* GetNext returns the task after the cursor (NONE: nothing to run) and moves
   the cursor onto it *)
GetNext(s) == IF s.m_prev = NONE THEN NONE ELSE LoopNext(s.m_tasks, s.m_prev)
Advanced(s) == [s EXCEPT !.m_prev = GetNext(s)]

GetFirst(s) == IF s.m_tasks # <<>> THEN s.m_tasks[1] ELSE s.m_sleep[1]

GetSize(s) == Len(s.m_tasks) + Len(s.m_sleep)
=============================================================================
