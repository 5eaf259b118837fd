-------------------------- MODULE BlockMemoryPool --------------------------
(* memory::BlockMemoryPool (memory/stk_memory_blockpool.h).  A block is its index
   in the storage; the free list is the sequence of its blocks *)
EXTENDS Blocking

(* The blocks in the order of their addresses *)
BuildFreeList(capacity) == [i \in 1..capacity |-> i - 1]

(* With the storage of the caller: the capacity shrinks to what it holds *)
PoolObject(capacity, fits) ==
    [kind |-> "pool", m_capacity |-> Min({capacity, fits}), m_used_count |-> 0,
     m_storage |-> TRUE, m_free_list |-> BuildFreeList(Min({capacity, fits}))]

(* With storage from the heap: a pool that got none keeps its capacity *)
HeapPoolObject(capacity, got) ==
    [PoolObject(capacity, capacity) EXCEPT !.m_storage = got,
                                           !.m_free_list = IF got THEN @ ELSE <<>>]

GetFreeCount(p) == p.m_capacity - p.m_used_count

PopFreeList(p) == [p EXCEPT !.m_free_list = Tail(@), !.m_used_count = @ + 1]

PushFreeList(p, block) == [p EXCEPT !.m_free_list = <<block>> \o @, !.m_used_count = @ - 1]

(* TimedAlloc, and Alloc and TryAlloc with their time-outs *)
PoolAlloc(t, c) ==
    LET p == obj[c.o]
        none == p.m_free_list = <<>>
    IN  /\ c.op = "PoolAlloc" /\ UNCHANGED now
        /\ \/ Blocks(t, c, none, <<c.o, "cv">>, c.ticks) /\ UNCHANGED obj
           \/ /\ GivesUp(t, c, none, c.ticks)
              /\ Return(t, c, NULL) /\ UNCHANGED <<obj, wait>>
           \/ /\ Proceeds(t, c, none)
              /\ Set(c.o, PopFreeList(p))
              /\ Return(t, c, Head(p.m_free_list)) /\ UNCHANGED wait

(* mutant: no allocator is woken *)
PoolFreeSilently(t, c) ==
    /\ c.op = "PoolFree"
    /\ c.x \in 0..obj[c.o].m_capacity-1
    /\ Set(c.o, PushFreeList(obj[c.o], c.x))
    /\ Return(t, c, OK) /\ UNCHANGED <<wait, now>>

(* Free of the block x.  A block that is free already is found by the debug build
   only; the caller frees what it got *)
PoolFree(t, c) ==
    LET p == obj[c.o]
    IN  /\ c.op = "PoolFree" /\ UNCHANGED now
        /\ IF c.x \in 0..p.m_capacity-1 /\ p.m_used_count # 0
           THEN /\ Set(c.o, PushFreeList(p, c.x))
                /\ wait' = WakeOne(wait, <<c.o, "cv">>)
                /\ Return(t, c, OK)
           ELSE Return(t, c, FAIL) /\ UNCHANGED <<obj, wait>>

PoolStep(t, c) == PoolAlloc(t, c) \/ PoolFree(t, c)
=============================================================================
