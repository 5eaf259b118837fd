--------------------------- MODULE FreeRTOSTimer ---------------------------
(***************************************************************************)
(* The FreeRTOS interface, interop/freertos/src/freertos_stk.cpp: software *)
(* timers and the deferred calls of xTimerPendFunctionCall.                *)
(*                                                                         *)
(* The pipe "pend" is g_PendCallPipe and the timer "drainer" is            *)
(* g_PendDrainer, NoObject until EnsurePendDrainer made it.  The timer     *)
(* host exists from the start.                                             *)
(***************************************************************************)
EXTENDS TimerHost, FreeRTOSQueue

(* x = [period, reload]; frtos_period is the m_period of FrtosTimer, which hides the
   one of its base *)
FrtosTimer(x) ==
    Extended(TimerObject(NULL), [frtos_period |-> x.period, m_auto_reload |-> x.reload,
                                 m_timer_id |-> NULL])

xTimerCreate(t, c) ==
    /\ c.op = "xTimerCreate"
    /\ IF c.x.period = 0 THEN Refuse(t, c) ELSE Construct(t, c, 1, FrtosTimer(c.x))

xTimerCreateStatic(t, c) ==
    /\ c.op = "xTimerCreateStatic"
    /\ IF c.x.period = 0 THEN Refuse(t, c) ELSE Construct(t, c, 0, FrtosTimer(c.x))

NoTimes == [delay |-> 0, period |-> 0]

(* Stop of an active timer, whose result is not looked at, and then ObjFree *)
xTimerDelete(t, c) ==
    /\ c.op = "xTimerDelete"
    /\ IF obj[c.o].m_active
       THEN TimerStop(t, Calling(On(c, "TimerStop", c.o, NoTimes, NO_WAIT),
                                 Then(c, "TimerDeleted")))
       ELSE ObjFree(t, c)

TimerDeleted(t, c) == c.op = "TimerDeleted" /\ ObjFree(t, c)

(* Restart with the period p of the timer, once or again and again *)
RestartFrame(c, p) ==
    On(c, "TimerRestart", c.o,
       [delay |-> p, period |-> IF obj[c.o].m_auto_reload THEN p ELSE 0], NO_WAIT)

Starts(t, c) == TimerRestart(t, RestartFrame(c, obj[c.o].frtos_period))

StopsActive(t, c) ==
    IF obj[c.o].m_active THEN TimerStop(t, On(c, "TimerStop", c.o, NoTimes, NO_WAIT))
                         ELSE Refuse(t, c)

(* The new period is written; the task's Restart reads it back, the interrupt's does not *)
ChangesPeriod(t, c, next) ==
    IF c.x = 0 THEN Refuse(t, c)
    ELSE /\ Set(c.o, [obj[c.o] EXCEPT !.frtos_period = c.x])
         /\ Goto(t, next)
         /\ UNCHANGED <<wait, ret, now>>

xTimerStart(t, c) == c.op = "xTimerStart" /\ Starts(t, c)

xTimerStop(t, c) == c.op = "xTimerStop" /\ StopsActive(t, c)

xTimerReset(t, c) == c.op = "xTimerReset" /\ Starts(t, c)

xTimerChangePeriod(t, c) ==
    c.op = "xTimerChangePeriod" /\ ChangesPeriod(t, c, Then(c, "xTimerStart"))

xTimerStartFromISR(t, c) == c.op = "xTimerStartFromISR" /\ Starts(t, c)

xTimerStopFromISR(t, c) == c.op = "xTimerStopFromISR" /\ StopsActive(t, c)

xTimerResetFromISR(t, c) == c.op = "xTimerResetFromISR" /\ Starts(t, c)

xTimerChangePeriodFromISR(t, c) ==
    c.op = "xTimerChangePeriodFromISR" /\ ChangesPeriod(t, c, RestartFrame(c, c.x))

xTimerGetExpiryTime(t, c) ==
    /\ c.op = "xTimerGetExpiryTime"
    /\ Return(t, c, IF obj[c.o].m_active THEN obj[c.o].m_deadline ELSE 0)
    /\ UNCHANGED <<obj, wait, now>>

xTimerIsTimerActive(t, c) ==
    c.op = "xTimerIsTimerActive" /\ Answers(t, c, Status(obj[c.o].m_active))

xTimerGetPeriod(t, c) == c.op = "xTimerGetPeriod" /\ Answers(t, c, obj[c.o].frtos_period)

pvTimerGetTimerID(t, c) == c.op = "pvTimerGetTimerID" /\ Answers(t, c, obj[c.o].m_timer_id)

vTimerSetTimerID(t, c) ==
    /\ c.op = "vTimerSetTimerID"
    /\ Set(c.o, [obj[c.o] EXCEPT !.m_timer_id = c.x])
    /\ Return(t, c, OK) /\ UNCHANGED <<wait, now>>

FrtosTimerCalls(t, c) ==
    \/ xTimerCreate(t, c) \/ xTimerCreateStatic(t, c) \/ xTimerDelete(t, c)
    \/ TimerDeleted(t, c) \/ xTimerStart(t, c) \/ xTimerStop(t, c) \/ xTimerReset(t, c)
    \/ xTimerChangePeriod(t, c) \/ xTimerStartFromISR(t, c) \/ xTimerStopFromISR(t, c)
    \/ xTimerResetFromISR(t, c) \/ xTimerChangePeriodFromISR(t, c)
    \/ xTimerGetExpiryTime(t, c) \/ xTimerIsTimerActive(t, c) \/ xTimerGetPeriod(t, c)
    \/ pvTimerGetTimerID(t, c) \/ vTimerSetTimerID(t, c)

-----------------------------------------------------------------------------
(* Deferred calls.  x is the call *)
Pends(t, c, ticks, next) ==
    PipeTWrite(t, Calling(On(c, "PipeTWrite", "pend", c.x, ticks), Then(c, next)))

xTimerPendFunctionCall(t, c) ==
    /\ c.op = "xTimerPendFunctionCall"
    /\ Pends(t, c, FrtosTimeoutToStk(c.ticks), "EnsurePendDrainer")

xTimerPendFunctionCallFromISR(t, c) ==
    c.op = "xTimerPendFunctionCallFromISR" /\ Pends(t, c, NO_WAIT, "KickPendDrainerFromISR")

EachTick == [delay |-> 1, period |-> 1]

(* The result of the Restart is not looked at: Pended returns pdPASS *)
RestartsDrainer(t, c) ==
    Goto(t, Calling(On(c, "TimerRestart", "drainer", EachTick, NO_WAIT), Then(c, "Pended")))

EnsurePendDrainer(t, c) ==
    /\ c.op = "EnsurePendDrainer"
    /\ IF ret[t] = FAIL THEN Refuse(t, c)
       ELSE /\ Set("drainer", IF obj["drainer"] = NoObject THEN TimerObject("DrainPend")
                              ELSE obj["drainer"])
            /\ RestartsDrainer(t, c)
            /\ UNCHANGED <<wait, ret, now>>

KickPendDrainerFromISR(t, c) ==
    /\ c.op = "KickPendDrainerFromISR"
    /\ CASE ret[t] = FAIL -> Refuse(t, c)
         [] ret[t] # FAIL /\ obj["drainer"] = NoObject -> Answers(t, c, OK)
         [] OTHER -> RestartsDrainer(t, c) /\ UNCHANGED <<obj, wait, ret, now>>

Pended(t, c) == c.op = "Pended" /\ Answers(t, c, OK)

(* FrtosPendDrainer::OnExpired: the calls one after the other, and the Stop *)
DrainPend(t, c) ==
    /\ c.op = "DrainPend"
    /\ PipeTRead(t, Calling(On(c, "PipeTRead", "pend", 0, NO_WAIT), Then(c, "DrainedCall")))

DrainedCall(t, c) ==
    /\ c.op = "DrainedCall"
    /\ UNCHANGED <<obj, wait, ret, now>>
    /\ IF ret[t] # <<>> THEN Goto(t, Then(c, "DrainPend"))
       ELSE Goto(t, On(c, "TimerStop", "drainer", NoTimes, NO_WAIT))

PendCalls(t, c) ==
    \/ xTimerPendFunctionCall(t, c) \/ xTimerPendFunctionCallFromISR(t, c)
    \/ EnsurePendDrainer(t, c) \/ KickPendDrainerFromISR(t, c) \/ Pended(t, c)
    \/ DrainPend(t, c) \/ DrainedCall(t, c)

FreeRTOSTimerStep(t, c) == FrtosTimerCalls(t, c) \/ PendCalls(t, c)
=============================================================================
