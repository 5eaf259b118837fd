------------------------------- MODULE RWLock -------------------------------
(***************************************************************************)
(* What a readers-writer lock promises: any number of readers or a single  *)
(* writer hold it.                                                         *)
(***************************************************************************)
CONSTANT Tasks

VARIABLES readers, writers    \* tasks that hold the lock for reading, for writing

Init == readers = {} /\ writers = {}

AcquireRead(t) ==
    /\ t \notin readers /\ writers = {}
    /\ readers' = readers \cup {t}
    /\ UNCHANGED writers

ReleaseRead(t) ==
    /\ t \in readers
    /\ readers' = readers \ {t}
    /\ UNCHANGED writers

AcquireWrite(t) ==
    /\ readers = {} /\ writers = {}
    /\ writers' = {t}
    /\ UNCHANGED readers

ReleaseWrite(t) ==
    /\ writers = {t}
    /\ writers' = {}
    /\ UNCHANGED readers

Next == \E t \in Tasks : \/ AcquireRead(t) \/ ReleaseRead(t)
                         \/ AcquireWrite(t) \/ ReleaseWrite(t)

Spec == Init /\ [][Next]_<<readers, writers>>
=============================================================================
