-------------------------------- MODULE Fifo --------------------------------
(* What the message queue and the pipe promise: bounded sequences to which
   elements are added at the back, or one at the front, and whose oldest elements
   go, in order and once, to a task that reads *)
EXTENDS Naturals, Sequences

CONSTANT Readers

VARIABLES
    items,       \* the content of each queue
    capacity,    \* how much each queue holds
    inbox,       \* what each task has read in its last or its current call
    resettable   \* the queues that are reset or deleted

Suffix(s, n) == SubSeq(s, Len(s) - n + 1, Len(s))

(* A step in which nobody reads *)
NobodyReads == \A t \in Readers : inbox'[t] = inbox[t] \/ inbox'[t] = <<>>

Put(o) ==
    /\ Len(items'[o]) \in Len(items[o])+1..capacity[o]
    /\ \/ SubSeq(items'[o], 1, Len(items[o])) = items[o]
       \/ Tail(items'[o]) = items[o]
    /\ NobodyReads

Take(o) ==
    \E n \in 1..Len(items[o]), t \in Readers :
        /\ items'[o] = Suffix(items[o], Len(items[o]) - n)
        /\ \A u \in Readers \ {t} : inbox'[u] = inbox[u]
        /\ Len(inbox'[t]) >= n
        /\ Suffix(inbox'[t], n) = SubSeq(items[o], 1, n)

(* Reset, and the deletion of a queue *)
Clear(o) ==
    /\ o \in resettable
    /\ items'[o] = <<>>
    /\ \A p \in DOMAIN items \ {o} : capacity'[p] = capacity[p]
    /\ NobodyReads

Init == \A o \in DOMAIN items : items[o] = <<>>

Next ==
    \E o \in DOMAIN items :
        /\ Clear(o) \/ (capacity' = capacity /\ (Put(o) \/ Take(o)))
        /\ \A p \in DOMAIN items \ {o} : items'[p] = items[p]
        /\ UNCHANGED resettable

Spec == Init /\ [][Next]_items
=============================================================================
