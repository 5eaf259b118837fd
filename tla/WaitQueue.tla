----------------------------- MODULE WaitQueue -----------------------------
(***************************************************************************)
(* The wait mechanism the synchronization objects share: ISyncObject and   *)
(* its list of wait objects (stk_common.h, stk_helper.h), WaitObject and   *)
(* OnTaskWait (stk.h).                                                     *)
(*                                                                         *)
(* A wait state is a record                                                *)
(*   list    : for each sync object, its m_wait_list, first waiter first   *)
(*   time    : m_time_wait of each task's wait object                      *)
(*   timeout : m_timeout of each task's wait object                        *)
(* and the methods are operators from wait states to wait states.  A task  *)
(* in OnTaskWait sleeps while its wait object is linked; once it is not,   *)
(* the task leaves BusyWaitWhileSleeping at some later time, enters the    *)
(* critical section again and reads m_timeout.                             *)
(***************************************************************************)
EXTENDS LinkedList

CONSTANTS
    Tasks,          \* tasks that use the sync objects
    SyncObjects,    \* the sync objects they wait on
    WAIT_INFINITE   \* the Timeout that m_time_wait does not count down

NO_WAIT == 0

ASSUME WaitAssumption == WAIT_INFINITE \in Nat \ {NO_WAIT}

NoWaiters ==
    [list    |-> [o \in SyncObjects |-> <<>>],
     time    |-> [t \in Tasks |-> 0],
     timeout |-> [t \in Tasks |-> FALSE]]

IsWaiting(w, t) == \E o \in SyncObjects : IsLinked(w.list[o], t)

(* WaitObject::SetupWait *)
SetupWait(w, o, t, ticks) ==
    [w EXCEPT !.list[o] = Append(@, t), !.time[t] = ticks, !.timeout[t] = FALSE]

(* ISyncObject::WakeOne and WakeAll: WaitObject::Wake(false) *)
WakeOne(w, o) ==
    IF w.list[o] = <<>>
    THEN w
    ELSE [w EXCEPT !.list[o] = Tail(@), !.time[Head(w.list[o])] = 0,
                   !.timeout[Head(w.list[o])] = FALSE]

WakeAll(w, o) ==
    [w EXCEPT !.list[o] = <<>>,
              !.time = [t \in Tasks |-> IF IsLinked(w.list[o], t) THEN 0 ELSE @[t]],
              !.timeout = [t \in Tasks |-> @[t] /\ ~IsLinked(w.list[o], t)]]

(* One tick: UpdateSyncObjects and ISyncObject::Tick.  The waiters whose time is
   over get Wake(true) *)
Expired(w) == {t \in Tasks : /\ IsWaiting(w, t)
                             /\ w.time[t] # WAIT_INFINITE /\ w.time[t] <= 1}

TickWaiters(w) ==
    [list    |-> [o \in SyncObjects |-> UnlinkAll(w.list[o], Expired(w))],
     time    |-> [t \in Tasks |->
                    CASE t \in Expired(w) -> 0
                      [] IsWaiting(w, t) /\ w.time[t] # WAIT_INFINITE /\ t \notin Expired(w)
                            -> w.time[t] - 1
                      [] OTHER -> w.time[t]],
     timeout |-> [t \in Tasks |-> w.timeout[t] \/ t \in Expired(w)]]

(* The same for one waiter at a time, as the loop of ISyncObject::Tick goes *)
TickWaiter(w, t) ==
    IF t \in Expired(w)
    THEN [list    |-> [o \in SyncObjects |-> IF IsLinked(w.list[o], t)
                            THEN Unlink(w.list[o], t) ELSE w.list[o]],
          time    |-> [w.time EXCEPT ![t] = 0],
          timeout |-> [w.timeout EXCEPT ![t] = TRUE]]
    ELSE IF IsWaiting(w, t) /\ w.time[t] # WAIT_INFINITE
    THEN [w EXCEPT !.time[t] = @ - 1]
    ELSE w
=============================================================================
