--------------------------- MODULE FixedPriority ---------------------------
(***************************************************************************)
(* SwitchStrategyFixedPriority (strategy/stk_strategy_fpriority.h).        *)
(*                                                                         *)
(* A state of the strategy is a record                                     *)
(*   m_tasks        : for each priority, the list of its runnable tasks    *)
(*   m_prev         : for each priority, the cursor of its round robin     *)
(*   m_sleep        : the list of the sleeping tasks                       *)
(*   m_ready_bitmap : the set of priorities whose bit is set               *)
(* and the methods are operators on states.  The priority a method reads   *)
(* from its task (GetTaskPriority) is the argument prio.                   *)
(***************************************************************************)
EXTENDS LinkedList

CONSTANT MAX_PRIORITIES

ASSUME LevelsAssumption == MAX_PRIORITIES \in Nat \ {0}

Priorities == 0..(MAX_PRIORITIES - 1)

Empty == [m_tasks |-> [p \in Priorities |-> <<>>],
          m_prev  |-> [p \in Priorities |-> NONE],
          m_sleep |-> <<>>,
          m_ready_bitmap |-> {}]

(* mutant: the bit of a level that was empty is not set *)
AddActiveUnready(s, k, prio) ==
    [s EXCEPT !.m_tasks[prio] = Append(@, k),
              !.m_prev[prio]  = IF s.m_tasks[prio] = <<>> THEN k ELSE @]

AddActive(s, k, prio) ==
    LET first == s.m_tasks[prio] = <<>>
    IN  [s EXCEPT !.m_tasks[prio] = Append(@, k),
                  !.m_prev[prio]  = IF first THEN k ELSE @,
                  !.m_ready_bitmap = IF first THEN @ \cup {prio} ELSE @]

RemoveActive(s, k, prio) ==
    LET next == LoopNext(s.m_tasks[prio], k)
        rest == Unlink(s.m_tasks[prio], k)
    IN  [s EXCEPT !.m_tasks[prio] = rest,
                  !.m_prev[prio]  = IF next # k THEN LoopPrev(rest, next)
                                                ELSE NONE,
                  !.m_ready_bitmap = IF next # k THEN @ ELSE @ \ {prio}]

(* The cursor follows the tail *)
AddTask(s, k, prio) ==
    LET level == s.m_tasks[prio]
        last  == IF level = <<>> THEN NONE ELSE level[Len(level)]
    IN  IF s.m_prev[prio] = last
        THEN [AddActive(s, k, prio) EXCEPT !.m_prev[prio] = k]
        ELSE AddActive(s, k, prio)

OnTaskSleep(s, k, prio) ==
    LET r == RemoveActive(s, k, prio)
    IN  [r EXCEPT !.m_sleep = Append(@, k)]

OnTaskWake(s, k, prio) ==
    AddActive([s EXCEPT !.m_sleep = Unlink(@, k)], k, prio)

(* mutant: a task whose priority changes stays in the list it is in *)
OnTaskWeightChangeInPlace(s, k, old_prio, prio) == s

OnTaskWeightChange(s, k, old_prio, prio) ==
    IF IsLinked(s.m_sleep, k)
    THEN s
    ELSE AddActive(RemoveActive(s, k, old_prio), k, prio)

GetHighestReadyPriority(bitmap) == CHOOSE p \in bitmap : \A q \in bitmap : q <= p

(* GetNext returns a task (NONE: nothing to run) and moves a cursor onto it *)
GetNext(s) ==
    LET prio == GetHighestReadyPriority(s.m_ready_bitmap)
    IN  IF s.m_ready_bitmap = {} THEN NONE
        ELSE LoopNext(s.m_tasks[prio], s.m_prev[prio])

Advanced(s) ==
    IF s.m_ready_bitmap = {} THEN s
    ELSE [s EXCEPT !.m_prev[GetHighestReadyPriority(s.m_ready_bitmap)] = GetNext(s)]
=============================================================================
