----------------------------- MODULE TimerHost -----------------------------
(***************************************************************************)
(* time::TimerHost (time/stk_time_timer.h).  Callers push commands for the *)
(* tick task into the pipe "commands"; the tick task keeps the list of     *)
(* active timers and pushes those that expire into the pipe "ready"; the   *)
(* handler tasks call them.  The fields of a timer are read and written    *)
(* without a lock, each access a step of its own where another task may    *)
(* come between.                                                           *)
(*                                                                         *)
(* Ticks has 64 bits in the code; here a difference of two times is taken  *)
(* modulo 2^TimeoutBits, which ClockInRange keeps unambiguous.             *)
(***************************************************************************)
EXTENDS Pipe

CONSTANT MAX_LATE     \* bound on how late a timer is looked at, and a command read

(* m_timestamp is left out; handler is what OnExpired does *)
TimerObject(handler) ==
    [kind |-> "timer", m_active |-> FALSE, m_pending |-> FALSE, m_rearming |-> FALSE,
     m_deadline |-> 0, m_period |-> 0, handler |-> handler]

HostObject(handlers) == [kind |-> "host", m_active |-> <<>>, handlers |-> handlers]

Since(time) == AsTimeout(now - time)
After(ticks) == (now + ticks) % 2^TimeoutBits

(* Frame of a call on another object, made by the frame c *)
On(c, op, o, x, ticks) == [c EXCEPT !.op = op, !.o = o, !.x = x, !.ticks = ticks, !.blocked = FALSE,
                                    !.acc = <<>>]

Resume(c, op) == [c EXCEPT !.op = op, !.blocked = FALSE]

-----------------------------------------------------------------------------
(* The calls of other tasks.  o is the timer, x = [delay, period] *)
Command(c, cmd, timestamp) ==
    [cmd |-> cmd, timer |-> c.o, timestamp |-> timestamp,
     delay |-> c.x.delay, period |-> c.x.period]

(* The command goes into the pipe in a step of its own, or the call is over *)
Pushes(t, c, cmd, timestamp) ==
    /\ Goto(t, On(c, "PipeTWrite", "commands", Command(c, cmd, timestamp), NO_WAIT))
    /\ UNCHANGED <<obj, wait, ret, now>>

(* The result of the last call has been used *)
Forgets(t) == ret' = [ret EXCEPT ![t] = NULL]

TimerStart(t, c) ==
    /\ c.op = "TimerStart"
    /\ IF obj[c.o].m_active THEN Answers(t, c, OK) ELSE Pushes(t, c, "START", now)

TimerStop(t, c) ==
    /\ c.op = "TimerStop"
    /\ IF obj[c.o].m_active THEN Pushes(t, c, "STOP", 0) ELSE Answers(t, c, OK)

TimerReset(t, c) ==
    /\ c.op = "TimerReset"
    /\ IF obj[c.o].m_active /\ obj[c.o].m_period # 0
       THEN Pushes(t, c, "RESET", now) ELSE Answers(t, c, FAIL)

TimerSetPeriod(t, c) ==
    /\ c.op = "TimerSetPeriod"
    /\ IF obj[c.o].m_active /\ obj[c.o].m_period # 0 /\ c.x.period \in 1..WAIT_INFINITE
       THEN Pushes(t, c, "SET_PERIOD", 0) ELSE Answers(t, c, FAIL)

Shutdown(t, c) == c.op = "Shutdown" /\ Pushes(t, c, "SHUTDOWN", 0)

(* Restart and StartOrReset: GetTicks, then PushCommand looks at m_rearming *)
TimerRestart(t, c) ==
    /\ c.op = "TimerRestart"
    /\ Goto(t, On(c, "PushRearm", c.o, Command(c, "RESTART", now), NO_WAIT))
    /\ UNCHANGED <<obj, wait, ret, now>>

TimerStartOrReset(t, c) ==
    /\ c.op = "TimerStartOrReset"
    /\ Goto(t, On(c, "PushRearm", c.o, Command(c, "START_OR_RESET", now), NO_WAIT))
    /\ UNCHANGED <<obj, wait, ret, now>>

(* PushCommand: a timer that is being re-armed already needs no other command *)
PushRearm(t, c) ==
    /\ c.op = "PushRearm"
    /\ IF obj[c.o].m_rearming THEN Answers(t, c, OK)
       ELSE Goto(t, Resume(c, "SetRearming")) /\ UNCHANGED <<obj, wait, ret, now>>

SetRearming(t, c) ==
    /\ c.op = "SetRearming"
    /\ Set(c.o, [obj[c.o] EXCEPT !.m_rearming = TRUE])
    /\ Goto(t, Calling(On(c, "PipeTWrite", "commands", c.x, NO_WAIT), Resume(c, "PushDone")))
    /\ UNCHANGED <<wait, ret, now>>

(* mutant: a full queue leaves the mark *)
PushDoneKeep(t, c) == c.op = "PushDone" /\ Answers(t, c, ret[t])

PushDone(t, c) ==
    /\ c.op = "PushDone"
    /\ Set(c.o, IF ret[t] = FAIL THEN [obj[c.o] EXCEPT !.m_rearming = FALSE] ELSE obj[c.o])
    /\ Return(t, c, ret[t]) /\ UNCHANGED <<wait, now>>

TimerCalls(t, c) ==
    \/ TimerStart(t, c) \/ TimerStop(t, c) \/ TimerReset(t, c) \/ TimerSetPeriod(t, c)
    \/ TimerRestart(t, c) \/ TimerStartOrReset(t, c) \/ Shutdown(t, c)
    \/ PushRearm(t, c) \/ SetRearming(t, c) \/ PushDone(t, c)

-----------------------------------------------------------------------------
(* The tick task.  o is the host, ticks is next_sleep *)
ReadCommand(t, c, next_sleep) ==
    PipeTRead(t, Calling(On(c, "PipeTRead", "commands", 0, next_sleep),
                        [Resume(c, "Execute") EXCEPT !.ticks = next_sleep]))

(* UpdateTime starts with ProcessCommands(NO_WAIT) *)
ProcessCommands(t, c) ==
    /\ c.op \in {"UpdateTime", "ProcessCommands"}
    /\ ReadCommand(t, c, IF obj[c.o].m_active = <<>> THEN WAIT_INFINITE ELSE c.ticks)

NextCommand(t, c) == c.op = "NextCommand" /\ ReadCommand(t, c, c.ticks)

(* A command that arms a timer, on the timer r and the list of active ones *)
Armed(r, cmd) ==
    [r EXCEPT !.m_deadline = (cmd.timestamp + cmd.delay) % 2^TimeoutBits, !.m_period = cmd.period,
              !.m_active = TRUE, !.m_pending = FALSE]

Postponed(r, cmd) ==
    [r EXCEPT !.m_deadline = (cmd.timestamp + r.m_period) % 2^TimeoutBits, !.m_pending = FALSE]

(* The deadline and the period of a timer that is not active are not looked at *)
Stopped(r) == [r EXCEPT !.m_active = FALSE, !.m_pending = FALSE, !.m_deadline = 0, !.m_period = 0]

Relinked(list, tmr) == Append(Unlink(list, tmr), tmr)

(* The command cmd: the timer, the list and next_sleep after it *)
Effect(cmd, r, list, next_sleep) ==
    LET tmr == cmd.timer
        periodic == r.m_active /\ r.m_period # 0
    IN  CASE cmd.cmd = "START" /\ ~r.m_active ->
               <<Armed(r, cmd), Append(list, tmr), NO_WAIT>>
          [] cmd.cmd = "STOP" ->
               <<Stopped(r), IF IsLinked(list, tmr) THEN Unlink(list, tmr) ELSE list, next_sleep>>
          [] cmd.cmd = "RESET" /\ periodic ->
               <<Postponed(r, cmd), list, NO_WAIT>>
          [] cmd.cmd = "RESTART" ->
               <<[Armed(r, cmd) EXCEPT !.m_rearming = FALSE],
                 IF IsLinked(list, tmr) THEN Relinked(list, tmr) ELSE Append(list, tmr), NO_WAIT>>
          [] cmd.cmd = "START_OR_RESET" /\ ~r.m_active ->
               <<[Armed(r, cmd) EXCEPT !.m_rearming = FALSE], Append(list, tmr), NO_WAIT>>
          [] cmd.cmd = "START_OR_RESET" /\ r.m_active ->
               <<IF periodic THEN Postponed(r, cmd) ELSE r, list, NO_WAIT>>
          [] cmd.cmd = "SET_PERIOD" /\ periodic ->
               <<[r EXCEPT !.m_period = cmd.period], list, next_sleep>>
          [] OTHER -> <<r, list, next_sleep>>

(* CMD_SHUTDOWN: a null timer for each handler, as far as there is room *)
Farewell(q, n) ==
    AddAll(q, [i \in 1..Min({n, q.m_capacity - q.m_count}) |-> NULL])

(* The loop in UpdateTime goes on with the timers that are left, and then with the
   commands.  deadline is the time it started at, acc the timers it has to look at *)
Looks(c, timers) ==
    IF timers = <<>> THEN [c EXCEPT !.op = "ProcessCommands", !.deadline = 0, !.acc = <<>>]
                     ELSE [c EXCEPT !.acc = timers]

(* The command that was read, or, when there was none in time, the look at the
   timers with the tick count of now *)
Execute(t, c) ==
    /\ c.op = "Execute"
    /\ UNCHANGED now
    /\ CASE ret[t] = <<>> ->
              /\ Forgets(t)
              /\ Goto(t, Looks([Resume(c, "LookAt") EXCEPT !.ticks = WAIT_INFINITE, !.deadline = now],
                               obj[c.o].m_active))
              /\ UNCHANGED <<obj, wait>>
         [] ret[t] # <<>> /\ ret[t][1].cmd = "SHUTDOWN" ->
              /\ obj' = [obj EXCEPT !["ready"] = Farewell(@, obj[c.o].handlers),
                                    ![c.o].m_active = <<>>]
              /\ wait' = WakeAll(wait, NotEmpty("ready"))
              /\ Goto(t, c.then) /\ UNCHANGED ret
         [] OTHER ->
              LET cmd == ret[t][1]
                  e == Effect(cmd, obj[cmd.timer], obj[c.o].m_active, c.ticks)
              IN  /\ obj' = [obj EXCEPT ![cmd.timer] = e[1], ![c.o].m_active = e[2]]
                  /\ Goto(t, [Resume(c, "NextCommand") EXCEPT !.ticks = e[3]])
                  /\ Forgets(t) /\ UNCHANGED wait

(* What is left of next_sleep when the timer with the deadline counts *)
Sooner(c, deadline) ==
    LET left == AsTimeout(deadline - c.deadline)
    IN  IF left > 0 /\ left < c.ticks THEN left ELSE c.ticks

(* One timer of the loop in UpdateTime *)
LookAt(t, c) ==
    LET tmr == Head(c.acc)
        r == obj[tmr]
        rest(next_sleep) == Looks([c EXCEPT !.ticks = next_sleep], Tail(c.acc))
        diff == AsTimeout(c.deadline - r.m_deadline)
        reloaded == (r.m_deadline + r.m_period) % 2^TimeoutBits
        again == [r EXCEPT !.m_pending = TRUE, !.m_deadline = reloaded]
        once == [r EXCEPT !.m_pending = TRUE, !.m_active = FALSE, !.m_deadline = 0]
        list == Unlink(obj[c.o].m_active, tmr)
        ready(next) == Calling(On(c, "PipeTWrite", "ready", tmr, WAIT_INFINITE), next)
    IN  /\ c.op = "LookAt"
        /\ UNCHANGED <<wait, ret, now>>
        /\ CASE r.m_pending -> Goto(t, rest(c.ticks)) /\ UNCHANGED obj
             [] ~r.m_pending /\ diff < 0 ->
                  Goto(t, rest(Sooner(c, r.m_deadline))) /\ UNCHANGED obj
             [] ~r.m_pending /\ diff >= 0 /\ r.m_period # 0 ->
                  /\ Set(tmr, again)
                  /\ Goto(t, ready(rest(Sooner(c, reloaded))))
             [] OTHER ->
                  /\ obj' = [obj EXCEPT ![tmr] = once, ![c.o].m_active = list]
                  /\ Goto(t, ready(rest(c.ticks)))

TickTask(t, c) ==
    ProcessCommands(t, c) \/ NextCommand(t, c) \/ Execute(t, c) \/ LookAt(t, c)

-----------------------------------------------------------------------------
(* A handler task *)
ProcessTimers(t, c) ==
    /\ c.op = "ProcessTimers"
    /\ PipeTRead(t, Calling(On(c, "PipeTRead", "ready", 0, WAIT_INFINITE), Resume(c, "Handle")))

Handle(t, c) ==
    /\ c.op = "Handle"
    /\ UNCHANGED <<obj, wait, now>>
    /\ CASE ret[t] = <<>> \/ ret[t] = <<NULL>> -> Goto(t, c.then) /\ UNCHANGED ret
         [] ret[t] \notin {<<>>, <<NULL>>} /\ obj[ret[t][1]].m_pending ->
              Goto(t, [Resume(c, "OnExpired") EXCEPT !.x = ret[t][1]]) /\ Forgets(t)
         [] OTHER -> Goto(t, Resume(c, "ProcessTimers")) /\ Forgets(t)

(* mutant: m_pending stays *)
OnExpiredKeep(t, c) ==
    /\ c.op = "OnExpired"
    /\ Goto(t, [Resume(c, "ProcessTimers") EXCEPT !.x = 0])
    /\ UNCHANGED <<obj, wait, ret, now>>

(* m_pending is cleared, and the user's OnExpired runs; handler is the frame it runs *)
OnExpired(t, c) ==
    /\ c.op = "OnExpired"
    /\ Set(c.x, [obj[c.x] EXCEPT !.m_pending = FALSE])
    /\ Goto(t, IF obj[c.x].handler = NULL
               THEN [Resume(c, "ProcessTimers") EXCEPT !.x = 0]
               ELSE [On(c, obj[c.x].handler, c.x, 0, NO_WAIT) EXCEPT
                       !.then = [Resume(c, "ProcessTimers") EXCEPT !.x = 0]])
    /\ UNCHANGED <<wait, ret, now>>

HandlerTask(t, c) == ProcessTimers(t, c) \/ Handle(t, c) \/ OnExpired(t, c)

TimerHostStep(t, c) == TimerCalls(t, c) \/ TickTask(t, c) \/ HandlerTask(t, c)

(* Bound: time passes only while no active timer is later, and no command on its way
   to the tick task older, than MAX_LATE *)
Fresh(cmd) ==
    cmd.cmd \in {"START", "RESET", "RESTART", "START_OR_RESET"} => Since(cmd.timestamp) <= MAX_LATE

Underway(c) ==
    c.op \in {"PushRearm", "SetRearming"} \/ (c.op = "PipeTWrite" /\ c.o = "commands")

ClockInRange ==
    /\ \A o \in DOMAIN obj :
          obj[o].kind = "timer" /\ obj[o].m_active => Since(obj[o].m_deadline) <= MAX_LATE
    /\ "commands" \in DOMAIN obj =>
          \A i \in 1..obj["commands"].m_count : Fresh(Content(obj["commands"])[i])
    /\ \A t \in Tasks : call[t] # NoCall /\ Underway(call[t]) => Fresh(call[t].x)
=============================================================================
