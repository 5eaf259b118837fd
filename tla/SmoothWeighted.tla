--------------------------- MODULE SmoothWeighted ---------------------------
(* SwitchStrategySmoothWeightedRoundRobin (strategy/stk_strategy_swrrobin.h) as an
   object whose methods the kernel calls, x being the task.  weight has the weights
   of the tasks, current the current weights of those that are runnable: the one of a
   task that sleeps is written before it is read again, and is 0 here *)
EXTENDS Blocking

NO_WEIGHT == -1

SwrrObject(weights) ==
    [kind |-> "swrr", m_tasks |-> <<>>, m_sleep |-> <<>>, m_total_weight |-> 0,
     weight |-> weights, current |-> [k \in DOMAIN weights |-> 0]]

(* mutant: a task that leaves keeps its share *)
RemoveActiveKeepsShare(s, k) == [s EXCEPT !.m_tasks = Unlink(@, k), !.current[k] = 0]

AddActive(s, k) ==
    [s EXCEPT !.m_tasks = Append(@, k), !.m_total_weight = @ + s.weight[k]]

RemoveActive(s, k) ==
    [s EXCEPT !.m_tasks = Unlink(@, k), !.m_total_weight = @ - s.weight[k], !.current[k] = 0]

SwrrAddTask(t, c) ==
    /\ c.op = "SwrrAddTask"
    /\ Set(c.o, AddActive([obj[c.o] EXCEPT !.current[c.x] = NO_WEIGHT], c.x))
    /\ Return(t, c, OK) /\ UNCHANGED <<wait, now>>

SwrrRemoveTask(t, c) ==
    /\ c.op = "SwrrRemoveTask"
    /\ Set(c.o, IF IsLinked(obj[c.o].m_tasks, c.x) THEN RemoveActive(obj[c.o], c.x)
                ELSE [obj[c.o] EXCEPT !.m_sleep = Unlink(@, c.x)])
    /\ Return(t, c, OK) /\ UNCHANGED <<wait, now>>

OnTaskSleep(t, c) ==
    /\ c.op = "OnTaskSleep"
    /\ Set(c.o, [RemoveActive(obj[c.o], c.x) EXCEPT !.m_sleep = Append(@, c.x)])
    /\ Return(t, c, OK) /\ UNCHANGED <<wait, now>>

(* A task that wakes has the weight of all the others *)
OnTaskWake(t, c) ==
    /\ c.op = "OnTaskWake"
    /\ Set(c.o, AddActive([obj[c.o] EXCEPT !.m_sleep = Unlink(@, c.x),
                                           !.current[c.x] = obj[c.o].m_total_weight], c.x))
    /\ Return(t, c, OK) /\ UNCHANGED <<wait, now>>

(* Every runnable task gains its weight, the first of the heaviest runs and pays for it *)
Candidates(s) ==
    [k \in DOMAIN s.current |->
        IF IsLinked(s.m_tasks, k) THEN s.current[k] + s.weight[k] ELSE s.current[k]]

Selected(s) ==
    LET w(i) == Candidates(s)[s.m_tasks[i]]
    IN  s.m_tasks[CHOOSE i \in DOMAIN s.m_tasks :
            \A j \in DOMAIN s.m_tasks : w(j) < w(i) \/ (w(j) = w(i) /\ i <= j)]

GetNext(t, c) ==
    LET s == obj[c.o]
    IN  /\ c.op = "GetNext" /\ UNCHANGED <<wait, now>>
        /\ IF s.m_tasks = <<>>
           THEN Return(t, c, NULL) /\ UNCHANGED obj
           ELSE /\ Set(c.o, [s EXCEPT !.current =
                                [Candidates(s) EXCEPT ![Selected(s)] = @ - s.m_total_weight]])
                /\ Return(t, c, Selected(s))

GetFirst(s) == Head(s.m_tasks \o s.m_sleep)

GetSize(s) == Len(s.m_tasks) + Len(s.m_sleep)

(* The kernel removes a task of a strategy that has one *)
SwrrGetFirst(t, c) ==
    /\ c.op = "SwrrGetFirst"
    /\ Answers(t, c, IF GetSize(obj[c.o]) = 0 THEN NULL ELSE GetFirst(obj[c.o]))

SwrrStep(t, c) ==
    \/ SwrrAddTask(t, c) \/ SwrrRemoveTask(t, c) \/ OnTaskSleep(t, c) \/ OnTaskWake(t, c)
    \/ GetNext(t, c) \/ SwrrGetFirst(t, c)
=============================================================================
