-------------------------------- MODULE Heap --------------------------------
(***************************************************************************)
(* The kernel heap of kernel/memory.c: one address range cut into blocks   *)
(* that form a linked list in address order.  A header of HEADER bytes     *)
(* precedes every payload; pointers handed out point behind the header.    *)
(*                                                                         *)
(* The operations are operators on a heap value, so that the components    *)
(* that allocate several times within one operation (process.c, user.c)    *)
(* can chain them.                                                         *)
(***************************************************************************)
EXTENDS Integers, FiniteSets

CONSTANTS
    MEMORY_START,   \* first address of the heap (0x10000)
    MEMORY_END,     \* address behind the heap (0x100000)
    WORD            \* number of values of an unsigned int (2^32)

HEADER == 12        \* sizeof(memory_block_t)
SPLIT_SLACK == 16   \* a remainder is split off only when larger than this
NULL == 0

ASSUME LayoutAssumption ==
    /\ MEMORY_START \in Nat /\ MEMORY_END \in Nat /\ WORD \in Nat
    /\ MEMORY_START > 0
    /\ MEMORY_START + HEADER <= MEMORY_END
    /\ MEMORY_END + HEADER + SPLIT_SLACK < WORD
    /\ MEMORY_START % 4 = 0 /\ MEMORY_END % 4 = 0 /\ WORD % 4 = 0

-----------------------------------------------------------------------------
(* The list of blocks: a function from header addresses to headers. *)

Header == [size : Nat, used : {0, 1}, next : Nat]

memory_total == MEMORY_END - MEMORY_START

\* memory_init: one free block spanning the range.
memory_init ==
    [blocks |-> [b \in {MEMORY_START} |->
                    [size |-> memory_total - HEADER, used |-> 0, next |-> NULL]],
     memory_used |-> 0]

\* Mutant of Align: rounds down.
Align_Down(size) == size - (size % 4)

\* Rounding a request up to four bytes, in unsigned arithmetic.
Align(size) == LET s == (size + 3) % WORD IN s - (s % 4)

\* Mutant of Fits: does not ask whether the block is free.
Fits_UsedToo(B, n) == {b \in DOMAIN B : B[b].size >= n}

Fits(B, n) == {b \in DOMAIN B : B[b].used = 0 /\ B[b].size >= n}

\* The walk over the list keeps the first of the smallest fitting blocks; the
\* list is in address order.
IsBestFit(B, n, b) ==
    /\ b \in Fits(B, n)
    /\ \A c \in Fits(B, n) : \/ B[b].size < B[c].size
                             \/ B[b].size = B[c].size /\ b <= c

best_fit(B, n) == CHOOSE b \in DOMAIN B : IsBestFit(B, n, b)

\* Set the used flag of block b.
SetUsed(B, b, u) ==
    [x \in DOMAIN B |->
        IF x = b THEN [size |-> B[b].size, used |-> u, next |-> B[b].next] ELSE B[x]]

\* Cut block b behind n payload bytes; the remainder is a new free block.
Split(B, b, n) ==
    LET new_block == b + HEADER + n IN
    [x \in DOMAIN B \cup {new_block} |->
        IF x = new_block THEN [size |-> B[b].size - n - HEADER,
                               used |-> 0, next |-> B[b].next]
        ELSE IF x = b THEN [size |-> n, used |-> B[b].used, next |-> new_block]
        ELSE B[x]]

\* Mutant of Take: splits without asking whether the remainder is large enough.
Take_AlwaysSplit(B, b, n) == SetUsed(Split(B, b, n), b, 1)

\* The block list after block b has been taken for n bytes.
Take(B, b, n) ==
    SetUsed(IF B[b].size > n + HEADER + SPLIT_SLACK THEN Split(B, b, n) ELSE B, b, 1)

memory_alloc(h, size) ==
    LET n == Align(size)
        b == best_fit(h.blocks, n)
        T == Take(h.blocks, b, n)
    IN  IF size = 0 \/ Fits(h.blocks, n) = {}
        THEN [heap |-> h, ptr |-> NULL]
        ELSE [heap |-> [blocks |-> T,
                        memory_used |-> h.memory_used + T[b].size],
              ptr  |-> b + HEADER]

\* Mutant of Absorb: forgets the header that the merge sets free.
Absorb_HeaderForgotten(B, a, c) ==
    [x \in DOMAIN B \ {c} |->
        IF x = a THEN [size |-> B[a].size + B[c].size,
                       used |-> B[a].used, next |-> B[c].next]
        ELSE B[x]]

\* Block a swallows its list successor c, header included.
Absorb(B, a, c) ==
    [x \in DOMAIN B \ {c} |->
        IF x = a THEN [size |-> B[a].size + B[c].size + HEADER,
                       used |-> B[a].used, next |-> B[c].next]
        ELSE B[x]]

MergeNext(B, b) ==
    IF B[b].next # NULL /\ B[B[b].next].used = 0 THEN Absorb(B, b, B[b].next) ELSE B

FreePrev(B, b) == {p \in DOMAIN B : B[p].next = b /\ B[p].used = 0}

\* Mutant of MergePrev: merges forwards only.
MergePrev_Never(B, b) == B

MergePrev(B, b) ==
    IF FreePrev(B, b) = {} THEN B
    ELSE Absorb(B, CHOOSE p \in FreePrev(B, b) : TRUE, b)

\* Mutant of memory_free: subtracts the size after merging.
memory_free_LateAccounting(h, ptr) ==
    LET b == ptr - HEADER
        M == MergeNext(SetUsed(h.blocks, b, 0), b)
    IN  IF ptr = NULL \/ h.blocks[b].used = 0 THEN h
        ELSE [blocks |-> MergePrev(M, b), memory_used |-> h.memory_used - M[b].size]

memory_free(h, ptr) ==
    LET b == ptr - HEADER IN
    IF ptr = NULL \/ h.blocks[b].used = 0 THEN h
    ELSE [blocks |-> MergePrev(MergeNext(SetUsed(h.blocks, b, 0), b), b),
          memory_used |-> h.memory_used - h.blocks[b].size]

memory_get_free(h) == memory_total - h.memory_used

-----------------------------------------------------------------------------
(* What can be said about a heap. *)

BlockListTypeOK(B) ==
    /\ DOMAIN B \subseteq MEMORY_START..MEMORY_END
    /\ B \in [DOMAIN B -> Header]

BlockEnd(B, b) == b + HEADER + B[b].size

Tiles(B) ==
    /\ MEMORY_START \in DOMAIN B
    /\ \A b \in DOMAIN B : /\ BlockEnd(B, b) <= MEMORY_END
                           /\ B[b].next = IF BlockEnd(B, b) = MEMORY_END
                                          THEN NULL ELSE BlockEnd(B, b)
                           /\ B[b].next # NULL => B[b].next \in DOMAIN B
    /\ \A b, c \in DOMAIN B : b < c => BlockEnd(B, b) <= c
    /\ \A b \in DOMAIN B \ {MEMORY_START} : \E a \in DOMAIN B : B[a].next = b

NoFreeNeighbours(B) ==
    \A b \in DOMAIN B : B[b].next # NULL => B[b].used = 1 \/ B[B[b].next].used = 1

\* The owners of pointers, with the sizes they asked for, own exactly the used
\* blocks, and every block is at least as large as the request.
OwnUsedBlocks(owners, h) ==
    /\ \A p \in DOMAIN owners : /\ p - HEADER \in DOMAIN h.blocks
                                /\ h.blocks[p - HEADER].used = 1
                                /\ h.blocks[p - HEADER].size >= owners[p]
    /\ \A b \in DOMAIN h.blocks : h.blocks[b].used = 1 => b + HEADER \in DOMAIN owners
=============================================================================
