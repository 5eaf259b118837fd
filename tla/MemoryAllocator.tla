-------------------------- MODULE MemoryAllocator --------------------------
(***************************************************************************)
(* memory::MemoryAllocator (memory/stk_memory_allocator.h) and the objects *)
(* that the FreeRTOS and CMSIS interfaces create and delete on its heap.   *)
(*                                                                         *)
(* A heap is counted in regions.  A handle whose object does not exist     *)
(* maps to NoObject; an object has the number of the regions it owns.      *)
(* Each allocation is a critical section of its own, so that the           *)
(* construction of an object is one step for each region; the frame counts *)
(* in acc the regions it holds.                                            *)
(***************************************************************************)
EXTENDS Blocking

NoObject == [kind |-> "none"]

HeapObject(capacity) ==
    [kind |-> "heap", capacity |-> capacity, allocated |-> 0, min_ever_free |-> capacity]

GetAvailable(h) == h.capacity - h.allocated

Allocated(h, n) ==
    [h EXCEPT !.allocated = @ + n, !.min_ever_free = Min({@, GetAvailable(h) - n})]
Freed(h, n) == [h EXCEPT !.allocated = @ - n]

(* The constructor of an object of n regions: ObjAlloc and the allocations it makes.
   When one fails the caller gives the object up, and with it what it holds *)
Construct(t, c, n, object) ==
    /\ UNCHANGED <<wait, now>>
    /\ CASE Len(c.acc) = n ->
              /\ Set(c.o, Extended(object, [owned |-> n]))
              /\ Return(t, c, OK)
         [] Len(c.acc) < n /\ GetAvailable(obj["heap"]) > 0 ->
              /\ Set("heap", Allocated(obj["heap"], 1))
              /\ Goto(t, [c EXCEPT !.acc = Append(@, 1)])
              /\ UNCHANGED ret
         [] OTHER ->
              /\ Set("heap", Freed(obj["heap"], Len(c.acc)))
              /\ Return(t, c, FAIL)

(* mutant: the memory of a deleted object is not given back *)
ObjFreeLeaks(t, c) ==
    Set(c.o, NoObject) /\ Return(t, c, OK) /\ UNCHANGED <<wait, now>>

(* ObjFree: the destructor, and the memory of the object if it was allocated *)
ObjFree(t, c) ==
    /\ obj' = [obj EXCEPT ![c.o] = NoObject, !["heap"] = Freed(@, obj[c.o].owned)]
    /\ Return(t, c, OK)
    /\ UNCHANGED <<wait, now>>

(* An argument check that fails *)
Refuse(t, c) == Return(t, c, FAIL) /\ UNCHANGED <<obj, wait, now>>

-----------------------------------------------------------------------------
(* The heap as the FreeRTOS application sees it *)
pvPortMalloc(t, c) ==
    /\ c.op = "pvPortMalloc"
    /\ IF c.x = 0 THEN Refuse(t, c) ELSE Construct(t, c, 1, [kind |-> "memory"])

vPortFree(t, c) == c.op = "vPortFree" /\ ObjFree(t, c)

xPortGetFreeHeapSize(t, c) ==
    c.op = "xPortGetFreeHeapSize" /\ Answers(t, c, GetAvailable(obj["heap"]))

xPortGetMinimumEverFreeHeapSize(t, c) ==
    c.op = "xPortGetMinimumEverFreeHeapSize" /\ Answers(t, c, obj["heap"].min_ever_free)

vPortGetHeapStats(t, c) ==
    /\ c.op = "vPortGetHeapStats"
    /\ Answers(t, c, [free |-> GetAvailable(obj["heap"]), least |-> obj["heap"].min_ever_free,
                      blocks |-> Min({GetAvailable(obj["heap"]), 1})])

HeapCalls(t, c) ==
    \/ pvPortMalloc(t, c) \/ vPortFree(t, c) \/ xPortGetFreeHeapSize(t, c)
    \/ xPortGetMinimumEverFreeHeapSize(t, c) \/ vPortGetHeapStats(t, c)
=============================================================================
