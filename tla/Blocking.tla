------------------------------ MODULE Blocking ------------------------------
(***************************************************************************)
(* Calls of the synchronization objects by tasks and interrupts.           *)
(*                                                                         *)
(* A method runs under the critical section from its start, or from its    *)
(* return from a wait, to its end or to its next wait, so that each such   *)
(* stretch is one step.  A call in progress is a frame: the method, its    *)
(* object, its arguments, its local variables and the frame of its caller, *)
(* which goes on when the method returns.  A step of the method is an      *)
(* action Method(t, c), taken with c the new frame when the call starts,   *)
(* and with c = call[t] when the task goes on.  A call from an interrupt   *)
(* is one with NO_WAIT.                                                    *)
(***************************************************************************)
EXTENDS WaitQueue, SequencesExt

CONSTANTS
    TimeoutBits,    \* width of Timeout, a signed integer
    OK, FAIL, NULL, \* results: true, false, and no value
    Unread          \* methods whose result no caller of the model looks at

ASSUME TimeoutAssumption ==
    /\ TimeoutBits \in Nat \ {0}
    /\ WAIT_INFINITE = 2^(TimeoutBits - 1) - 1
    /\ 2^TimeoutBits = 2 * (WAIT_INFINITE + 1)

(* Results are told from tasks, from the blocks of a pool and from each other *)
ASSUME ResultsAssumption ==
    /\ OK # FAIL /\ OK # NULL /\ FAIL # NULL
    /\ {OK, FAIL, NULL} \cap (Tasks \cup Nat) = {}

VARIABLES
    obj,     \* the objects: name to record of fields
    wait,    \* wait state of the objects and their condition variables
    call,    \* the frame each task executes
    ret,     \* what the last call of each task returned
    now      \* the tick count, as far as Timeout can tell

NoCall == [op |-> "none"]

Frame(op, o, x, ticks) ==
    [op |-> op, o |-> o, x |-> x, ticks |-> ticks, blocked |-> FALSE,
     deadline |-> 0, acc |-> <<>>, then |-> NoCall]

Idle(t) == call[t] = NoCall

Status(b) == IF b THEN OK ELSE FAIL

Goto(t, c) == call' = [call EXCEPT ![t] = c]

Set(o, r) == obj' = [obj EXCEPT ![o] = r]

(* An object of a class that adds the fields more to those of its base r *)
Extended(r, more) ==
    [f \in DOMAIN r \cup DOMAIN more |-> IF f \in DOMAIN r THEN r[f] ELSE more[f]]

Return(t, c, v) ==
    /\ Goto(t, c.then)
    /\ ret' = [ret EXCEPT ![t] = IF c.then = NoCall /\ c.op \in Unread THEN NULL ELSE v]

(* A call that changes nothing returns v *)
Answers(t, c, v) == Return(t, c, v) /\ UNCHANGED <<obj, wait, now>>

(* c calls d, and goes on as the frame next when d returns *)
Calling(d, next) == [d EXCEPT !.then = [next EXCEPT !.blocked = FALSE]]

-----------------------------------------------------------------------------
(* IKernelService::Wait: the frame c waits on the list cv *)
KernelWait(t, c, w, cv, ticks) ==
    /\ wait' = SetupWait(w, cv, t, ticks)
    /\ Goto(t, [c EXCEPT !.blocked = TRUE])
    /\ UNCHANGED ret

TimedOut(t, c) == c.blocked /\ wait.timeout[t]
Signalled(t, c) == c.blocked /\ ~wait.timeout[t]

(* while (condition) if (!cv.Wait(cs_, ticks)) break: the wait, the break with
   NO_WAIT or after the time-out, and the way out of the loop *)
Blocks(t, c, condition, cv, ticks) ==
    /\ condition /\ ~TimedOut(t, c) /\ ticks # NO_WAIT
    /\ KernelWait(t, c, wait, cv, ticks)

GivesUp(t, c, condition, ticks) == TimedOut(t, c) \/ (condition /\ ticks = NO_WAIT)

Proceeds(t, c, condition) == ~condition /\ ~TimedOut(t, c)

-----------------------------------------------------------------------------
(* static_cast<Timeout>(ticks) *)
AsTimeout(x) ==
    LET y == x % 2^TimeoutBits
    IN  IF y > WAIT_INFINITE THEN y - 2^TimeoutBits ELSE y

IsTimed(ticks) == ticks \notin {NO_WAIT, WAIT_INFINITE}

(* The absolute deadline of a timed wait, and what is left of it *)
Deadline(ticks) == IF IsTimed(ticks) THEN AsTimeout(now + ticks) ELSE ticks

Remaining(c) ==
    IF ~IsTimed(c.ticks)
    THEN c.deadline
    ELSE IF AsTimeout(now) >= c.deadline THEN NO_WAIT
    ELSE AsTimeout(c.deadline - AsTimeout(now))

(* The methods with a deadline read the clock before they enter the critical
   section *)
CaptureDeadline(t, c, loop) ==
    /\ Goto(t, [c EXCEPT !.op = loop, !.deadline = Deadline(c.ticks)])
    /\ UNCHANGED <<obj, wait, ret, now>>

(* Bound: a task in a loop with a deadline that is awake runs before the clock passes
   the deadline by more than a tick *)
HasDeadline(c) ==
    /\ c.op \in {"EventFlagsWaitLoop", "PipeWriteLoop", "PipeReadLoop", "PipeTriggerLoop"}
    /\ IsTimed(c.ticks)

RunsInTime(t) ==
    HasDeadline(call[t]) /\ ~IsWaiting(wait, t) =>
        (now + call[t].ticks - call[t].deadline) % 2^TimeoutBits <= call[t].ticks

(* One tick of the kernel; clock says that some method reads the tick count *)
KernelTick(clock) ==
    /\ \E t \in Tasks : ~Idle(t)
    /\ IF clock
       THEN /\ \A t \in Tasks : RunsInTime(t)
            /\ now' = (now + 1) % 2^TimeoutBits
       ELSE now' = now
    /\ wait' = TickWaiters(wait)
    /\ UNCHANGED <<obj, call, ret>>
=============================================================================
