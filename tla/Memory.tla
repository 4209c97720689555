------------------------------- MODULE Memory -------------------------------
(***************************************************************************)
(* The heap driven by arbitrary callers: memory_alloc, memory_free and     *)
(* memory_test of kernel/memory.c in any order.                            *)
(***************************************************************************)
EXTENDS Heap

CONSTANTS
    Requests,       \* the sizes callers ask for
    TestSizes       \* the three sizes memory_test asks for (100, 200, 50)

\* The kernel's own callers never ask for the last three values of an
\* unsigned int, for which rounding up wraps to zero.
ASSUME RequestAssumption ==
    /\ Requests \subseteq 0..(WORD - 4)
    /\ TestSizes \in [1..3 -> 1..(WORD - 4)]

\* memory_test: three allocations, released in the order second, first, third;
\* an allocation that fails releases the ones before it.
memory_test(h) ==
    LET a == memory_alloc(h, TestSizes[1])
        b == memory_alloc(a.heap, TestSizes[2])
        c == memory_alloc(b.heap, TestSizes[3])
    IN  IF a.ptr = NULL THEN a.heap
        ELSE IF b.ptr = NULL THEN memory_free(b.heap, a.ptr)
        ELSE IF c.ptr = NULL THEN memory_free(memory_free(c.heap, a.ptr), b.ptr)
        ELSE memory_free(memory_free(memory_free(c.heap, b.ptr), a.ptr), c.ptr)

-----------------------------------------------------------------------------
(* Arbitrary callers. *)

VARIABLES
    heap,   \* [blocks, memory_used]
    held    \* the pointers callers own, with the size each was requested with

vars == <<heap, held>>

Init == heap = memory_init /\ held = [p \in {} |-> 0]

Alloc(size) ==
    LET r == memory_alloc(heap, size) IN
    /\ heap' = r.heap
    /\ held' = IF r.ptr = NULL THEN held
               ELSE [p \in DOMAIN held \cup {r.ptr} |->
                        IF p = r.ptr THEN size ELSE held[p]]

\* A caller frees a pointer it owns, the null pointer, or a pointer to a block
\* that is already free (the code returns early for the last two).
Free(ptr) ==
    /\ ptr = NULL \/ ptr - HEADER \in DOMAIN heap.blocks
    /\ heap' = memory_free(heap, ptr)
    /\ held' = [p \in DOMAIN held \ {ptr} |-> held[p]]

MemoryTest == heap' = memory_test(heap) /\ UNCHANGED held

Next == \/ \E size \in Requests : Alloc(size)
        \/ \E ptr \in 0..MEMORY_END : Free(ptr)
        \/ MemoryTest

Spec == Init /\ [][Next]_vars

-----------------------------------------------------------------------------
(* Properties. *)

\* Types of the heap and of the callers' pointers.
TypeOK ==
    /\ DOMAIN heap = {"blocks", "memory_used"}
    /\ BlockListTypeOK(heap.blocks)
    /\ heap.memory_used \in Int
    /\ DOMAIN held \subseteq MEMORY_START..MEMORY_END
    /\ held \in [DOMAIN held -> Requests]

\* The blocks of the list cover the heap range without gap or overlap: every
\* block ends where its successor's header starts, the last one at MEMORY_END.
BlocksTileHeap == Tiles(heap.blocks)

\* memory_free merges in both directions, so no two neighbouring blocks are
\* both free and a fully released heap is one block again.
Coalesced == NoFreeNeighbours(heap.blocks)

\* The sizes of the used blocks, added up in the order of their addresses.
UsedSize(B, a) == IF a \in DOMAIN B /\ B[a].used = 1 THEN B[a].size ELSE 0
SumOfUsedBlocks(B) ==
    LET upTo[a \in 0..MEMORY_END] ==
            IF a = 0 THEN 0 ELSE upTo[a - 1] + UsedSize(B, a)
    IN  upTo[MEMORY_END]

\* memory_used, kept incrementally by memory_alloc and memory_free, is the sum
\* of the sizes of the used blocks: what the "memory" command reports.
UsedIsSumOfUsedBlocks == heap.memory_used = SumOfUsedBlocks(heap.blocks)

\* Callers own exactly the used blocks, and every block is at least as large
\* as the request it was handed out for: no caller can write past its block.
HeldAreUsedBlocks == OwnUsedBlocks(held, heap)

\* memory_test, run by the kernel in any state of the heap, leaves the block
\* list and the accounting exactly as it found them.
MemoryTestRestoresHeap == memory_test(heap) = heap

\* Releasing what was just allocated restores the heap exactly, whichever
\* block was chosen and whether or not it was split.
FreeUndoesAlloc ==
    \A size \in Requests :
        LET r == memory_alloc(heap, size) IN memory_free(r.heap, r.ptr) = heap

\* No step of the allocator moves, shrinks or re-labels a block that its owner
\* still holds after the step.
HeldBlocksUntouched ==
    [][\A p \in DOMAIN held \cap DOMAIN held' :
          LET b == p - HEADER IN
          /\ b \in DOMAIN heap'.blocks
          /\ heap'.blocks[b].used = 1
          /\ heap'.blocks[b].size = heap.blocks[b].size]_vars

\* The address ranges that callers may use.
RegionsInUse ==
    {[lo |-> b + HEADER, len |-> heap.blocks[b].size] :
        b \in {c \in DOMAIN heap.blocks : heap.blocks[c].used = 1}}

Promise == INSTANCE Allocator WITH
              Lo <- MEMORY_START, Hi <- MEMORY_END, regions <- RegionsInUse

\* Every behaviour of the heap is one of the abstract allocator: each grant is
\* a fresh range inside the heap, disjoint from every range in use, and at
\* least as long as asked for; each release returns exactly one range.
ImplementsAllocator == Promise!Spec
=============================================================================
