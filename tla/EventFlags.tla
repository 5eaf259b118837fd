----------------------------- MODULE EventFlags -----------------------------
(* sync::EventFlags (sync/stk_sync_eventflags.h).  A set of flags is a TLA+ set
   of bits; ERROR_BIT is the sentinel bit that marks an error code *)
EXTENDS Blocking

ERROR_BIT == 31
ERROR_PARAMETER == {ERROR_BIT, 0}
ERROR_TIMEOUT == {ERROR_BIT, 1}

EventFlagsObject(initial_flags) == [kind |-> "flags", m_flags |-> initial_flags]

ValidFlags(flags) == flags # {} /\ ERROR_BIT \notin flags

(* options: the subset of {"all", "no clear"} *)
IsSatisfied(m_flags, flags, options) ==
    IF "all" \in options THEN flags \subseteq m_flags ELSE flags \cap m_flags # {}

(* mutant: only one waiter is woken *)
EventFlagsSetOne(t, c) ==
    /\ c.op = "EventFlagsSet" /\ UNCHANGED now
    /\ Set(c.o, [obj[c.o] EXCEPT !.m_flags = @ \cup c.x])
    /\ wait' = WakeOne(wait, <<c.o, "cv">>)
    /\ Return(t, c, obj[c.o].m_flags \cup c.x)

EventFlagsSet(t, c) ==
    /\ c.op = "EventFlagsSet" /\ UNCHANGED now
    /\ IF ValidFlags(c.x)
       THEN /\ Set(c.o, [obj[c.o] EXCEPT !.m_flags = @ \cup c.x])
            /\ wait' = WakeAll(wait, <<c.o, "cv">>)
            /\ Return(t, c, obj[c.o].m_flags \cup c.x)
       ELSE Return(t, c, ERROR_PARAMETER) /\ UNCHANGED <<obj, wait>>

EventFlagsClear(t, c) ==
    /\ c.op = "EventFlagsClear" /\ UNCHANGED <<wait, now>>
    /\ IF ValidFlags(c.x)
       THEN /\ Set(c.o, [obj[c.o] EXCEPT !.m_flags = @ \ c.x])
            /\ Return(t, c, obj[c.o].m_flags)
       ELSE Return(t, c, ERROR_PARAMETER) /\ UNCHANGED obj

EventFlagsGet(t, c) ==
    /\ c.op = "EventFlagsGet"
    /\ Return(t, c, obj[c.o].m_flags)
    /\ UNCHANGED <<obj, wait, now>>

(* Wait: x = [flags, options] *)
EventFlagsWait(t, c) ==
    /\ c.op = "EventFlagsWait"
    /\ IF ValidFlags(c.x.flags)
       THEN CaptureDeadline(t, c, "EventFlagsWaitLoop")
       ELSE Return(t, c, ERROR_PARAMETER) /\ UNCHANGED <<obj, wait, now>>

EventFlagsWaitLoop(t, c) ==
    LET e == obj[c.o]
        unsatisfied == ~IsSatisfied(e.m_flags, c.x.flags, c.x.options)
        matched == IF "all" \in c.x.options THEN c.x.flags ELSE e.m_flags \cap c.x.flags
    IN  /\ c.op = "EventFlagsWaitLoop"
        /\ UNCHANGED now
        /\ \/ /\ Blocks(t, c, unsatisfied, <<c.o, "cv">>, Remaining(c))
              /\ UNCHANGED obj
           \/ /\ GivesUp(t, c, unsatisfied, Remaining(c))
              /\ Return(t, c, ERROR_TIMEOUT) /\ UNCHANGED <<obj, wait>>
           \/ /\ Proceeds(t, c, unsatisfied)
              /\ Set(c.o, IF "no clear" \in c.x.options THEN e
                          ELSE [e EXCEPT !.m_flags = @ \ matched])
              /\ Return(t, c, matched) /\ UNCHANGED wait

EventFlagsStep(t, c) ==
    \/ EventFlagsSet(t, c) \/ EventFlagsClear(t, c) \/ EventFlagsGet(t, c)
    \/ EventFlagsWait(t, c) \/ EventFlagsWaitLoop(t, c)
=============================================================================
