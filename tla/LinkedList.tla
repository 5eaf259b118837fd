----------------------------- MODULE LinkedList -----------------------------
(***************************************************************************)
(* Intrusive lists (stk_linked_list.h) of kernel tasks, or of the wait     *)
(* objects of tasks.  A list is the sequence of its entries; an entry is   *)
(* in at most one list, and once.                                          *)
(***************************************************************************)
EXTENDS Integers, Sequences

(* nullptr for an entry *)
NONE == 0

Index(s, k) == CHOOSE i \in 1..Len(s) : s[i] = k

NoDuplicates(s) == \A i, j \in 1..Len(s) : s[i] = s[j] => i = j

IsLinked(s, k) == \E i \in 1..Len(s) : s[i] = k

(* DListHead::Unlink *)
Unlink(s, k) ==
    [i \in 1..(Len(s) - 1) |-> IF i < Index(s, k) THEN s[i] ELSE s[i + 1]]

(* A walk over the list that unlinks the entries of a set on its way *)
UnlinkAll(s, set) ==
    LET kept[i \in 0..Len(s)] ==
            IF i = 0 THEN <<>>
            ELSE IF s[i] \in set THEN kept[i - 1] ELSE Append(kept[i - 1], s[i])
    IN  kept[Len(s)]

(* GetNext and GetPrev of an entry of a closed loop *)
LoopNext(s, k) == IF Index(s, k) = Len(s) THEN s[1] ELSE s[Index(s, k) + 1]
LoopPrev(s, k) == IF Index(s, k) = 1 THEN s[Len(s)] ELSE s[Index(s, k) - 1]
=============================================================================
