---------------------------- MODULE MemoryProofs ----------------------------
(***************************************************************************)
(* Proofs about the kernel heap and its callers, for every heap range,     *)
(* word size and set of requests that satisfies the assumptions of modules *)
(* Heap and Memory.                                                        *)
(***************************************************************************)
EXTENDS Memory, HeapProofs

\* memory_test hands back every block it took, in another order than it took
\* them, and also when it has to stop half-way.
LEMMA TestRestoresHeap ==
    ASSUME NEW h, HeapOK(h)
    PROVE  memory_test(h) = h
  <1> DEFINE a == memory_alloc(h, TestSizes[1])
             b == memory_alloc(a.heap, TestSizes[2])
             c == memory_alloc(b.heap, TestSizes[3])
  <1>1. \A i \in 1..3 : TestSizes[i] \in 0..(WORD - 4)
    BY RequestAssumption, LayoutAssumption
  <1>2. memory_test(h) =
          IF a.ptr = NULL THEN a.heap
          ELSE IF b.ptr = NULL THEN memory_free(b.heap, a.ptr)
          ELSE IF c.ptr = NULL THEN memory_free(memory_free(c.heap, a.ptr), b.ptr)
          ELSE memory_free(memory_free(memory_free(c.heap, b.ptr), a.ptr), c.ptr)
    BY DEF memory_test
  <1>3. IF a.ptr = NULL THEN a.heap = h ELSE Granted(h, a, TestSizes[1])
    BY <1>1, AllocOnHeap
  <1>4. HeapOK(a.heap)
    BY <1>3 DEF Granted
  <1> HIDE DEF a
  <1>5. IF b.ptr = NULL THEN b.heap = a.heap ELSE Granted(a.heap, b, TestSizes[2])
    BY <1>1, <1>4, AllocOnHeap
  <1>6. HeapOK(b.heap)
    BY <1>4, <1>5 DEF Granted
  <1> HIDE DEF b
  <1>7. IF c.ptr = NULL THEN c.heap = b.heap ELSE Granted(b.heap, c, TestSizes[3])
    BY <1>1, <1>6, AllocOnHeap
  <1> HIDE DEF c
  <1>8. CASE a.ptr = NULL
    BY <1>2, <1>3, <1>8
  <1>9. CASE a.ptr # NULL /\ b.ptr = NULL
    BY <1>2, <1>3, <1>5, <1>9, FreeUndoesGrant
  <1>10. CASE a.ptr # NULL /\ b.ptr # NULL /\ c.ptr = NULL
    BY <1>2, <1>3, <1>5, <1>7, <1>10, TwoGrantsBack
  <1>11. CASE a.ptr # NULL /\ b.ptr # NULL /\ c.ptr # NULL
    BY <1>2, <1>3, <1>5, <1>7, <1>11, ThreeGrantsBack
  <1> QED
    BY <1>8, <1>9, <1>10, <1>11

-----------------------------------------------------------------------------
(* The sum of the used blocks.  It is computed address by address; that the  *)
(* recursive function exists and what it gives is shown by a least           *)
(* counterexample.                                                           *)

IsUpTo(f, B, n) == f = [a \in 0..n |-> IF a = 0 THEN 0 ELSE f[a - 1] + UsedSize(B, a)]

LEMMA UpToExists ==
    ASSUME NEW B, NEW n \in Nat
    PROVE  \E f : IsUpTo(f, B, n)
  <1> DEFINE Bad == {m \in Nat : ~\E f : IsUpTo(f, B, m)}
  <1>1. SUFFICES ASSUME Bad # {} PROVE FALSE
    OBVIOUS
  <1>2. PICK m \in Bad : \A k \in Bad : m <= k
    <2>1. Bad \in SUBSET Nat
      OBVIOUS
    <2> HIDE DEF Bad
    <2> QED
      BY <1>1, <2>1, LeastNatural
  <1>3. m \in Nat /\ \A f : ~IsUpTo(f, B, m)
    OBVIOUS
  <1>4. CASE m = 0
    <2> DEFINE f == [a \in 0..0 |-> 0]
    <2>1. IsUpTo(f, B, 0)
      BY DEF IsUpTo
    <2> QED
      BY <1>3, <1>4, <2>1
  <1>5. CASE m # 0
    <2>1. m - 1 \in Nat /\ m - 1 \notin Bad
      BY <1>2, <1>3, <1>5
    <2>2. PICK f : IsUpTo(f, B, m - 1)
      BY <2>1
    <2> DEFINE g == [a \in 0..m |-> IF a = m THEN f[m - 1] + UsedSize(B, m) ELSE f[a]]
    <2>3. \A a \in 0..(m - 1) : f[a] = IF a = 0 THEN 0 ELSE f[a - 1] + UsedSize(B, a)
      BY <2>2 DEF IsUpTo
    <2>4. ASSUME NEW a \in 0..m
          PROVE  g[a] = IF a = 0 THEN 0 ELSE g[a - 1] + UsedSize(B, a)
      <3>1. CASE a = m
        <4>1. a - 1 \in 0..m /\ a - 1 # m /\ a # 0
          BY <1>3, <1>5, <3>1
        <4>2. g[a - 1] = f[m - 1]
          BY <3>1, <4>1
        <4> QED
          BY <3>1, <4>1, <4>2
      <3>2. CASE a # m
        <4>1. a \in 0..(m - 1) /\ g[a] = f[a]
          BY <1>3, <3>2
        <4>2. CASE a = 0
          BY <2>3, <4>1, <4>2
        <4>3. CASE a # 0
          <5>1. a - 1 \in 0..m /\ a - 1 # m
            BY <1>3, <3>2, <4>3
          <5>2. g[a - 1] = f[a - 1]
            BY <5>1
          <5> QED
            BY <2>3, <4>1, <4>3, <5>2
        <4> QED
          BY <4>2, <4>3
      <3> QED
        BY <3>1, <3>2
    <2>5. g = [a \in 0..m |-> g[a]]
      OBVIOUS
    <2> HIDE DEF g
    <2>6. IsUpTo(g, B, m)
      BY <2>4, <2>5 DEF IsUpTo
    <2> QED
      BY <1>3, <2>6
  <1> QED
    BY <1>4, <1>5

\* What the sum is made of.
LEMMA SumUpTo ==
    ASSUME NEW B
    PROVE  \E f : /\ f[0] = 0 /\ SumOfUsedBlocks(B) = f[MEMORY_END]
                  /\ \A a \in 1..MEMORY_END : f[a] = f[a - 1] + UsedSize(B, a)
  <1> DEFINE f == CHOOSE g : IsUpTo(g, B, MEMORY_END)
  <1>1. SumOfUsedBlocks(B) = f[MEMORY_END]
    BY DEF SumOfUsedBlocks, IsUpTo
  <1>2. IsUpTo(f, B, MEMORY_END)
    BY UpToExists, LayoutAssumption
  <1> HIDE DEF f
  <1>3. \A a \in 0..MEMORY_END : f[a] = IF a = 0 THEN 0 ELSE f[a - 1] + UsedSize(B, a)
    BY <1>2 DEF IsUpTo
  <1>4. f[0] = 0 /\ \A a \in 1..MEMORY_END : f[a] = f[a - 1] + UsedSize(B, a)
    BY <1>3, LayoutAssumption
  <1> QED
    BY <1>1, <1>4

\* Two block lists whose used blocks differ in one: so do their sums.
LEMMA SumGrows ==
    ASSUME NEW B, NEW C, NEW b \in 1..MEMORY_END, NEW n \in Int,
           UsedSize(B, b) = 0, UsedSize(C, b) = n,
           \A a \in 1..MEMORY_END : a # b => UsedSize(C, a) = UsedSize(B, a),
           \A a \in 1..MEMORY_END : UsedSize(B, a) \in Int
    PROVE  /\ SumOfUsedBlocks(B) \in Int
           /\ SumOfUsedBlocks(C) = SumOfUsedBlocks(B) + n
  <1>1. PICK f : /\ f[0] = 0 /\ SumOfUsedBlocks(B) = f[MEMORY_END]
                 /\ \A a \in 1..MEMORY_END : f[a] = f[a - 1] + UsedSize(B, a)
    BY SumUpTo
  <1>2. PICK g : /\ g[0] = 0 /\ SumOfUsedBlocks(C) = g[MEMORY_END]
                 /\ \A a \in 1..MEMORY_END : g[a] = g[a - 1] + UsedSize(C, a)
    BY SumUpTo
  <1> DEFINE Right(a) == f[a] \in Int /\ g[a] = IF a < b THEN f[a] ELSE f[a] + n
             Bad == {a \in 0..MEMORY_END : ~Right(a)}
  <1>3. ASSUME Bad # {} PROVE FALSE
    <2>1. Bad \in SUBSET Nat
      OBVIOUS
    <2>2. PICK m \in Bad : \A k \in Bad : m <= k
      <3> HIDE DEF Bad
      <3> QED
        BY <1>3, <2>1, LeastNatural
    <2>3. m \in 0..MEMORY_END /\ ~Right(m)
      OBVIOUS
    <2>4. m # 0
      BY <1>1, <1>2, <2>3
    <2>5. m \in 1..MEMORY_END /\ m - 1 \in 0..MEMORY_END /\ m - 1 \notin Bad
      <3>1. m \in 1..MEMORY_END /\ m - 1 \in 0..MEMORY_END /\ ~(m <= m - 1)
        <4> HIDE DEF Right, Bad
        <4> QED
          BY <2>3, <2>4, LayoutAssumption
      <3> HIDE DEF Bad
      <3> QED
        BY <2>2, <3>1
    <2>6. Right(m - 1)
      BY <2>5
    <2>7. /\ f[m] = f[m - 1] + UsedSize(B, m) /\ g[m] = g[m - 1] + UsedSize(C, m)
          /\ UsedSize(B, m) \in Int
      BY <1>1, <1>2, <2>5
    <2>8. CASE m = b
      <3>1. g[m - 1] = f[m - 1] /\ f[m - 1] \in Int
        BY <2>6, <2>8
      <3> QED
        BY <2>3, <2>7, <2>8, <3>1
    <2>9. CASE m # b
      <3>1. UsedSize(C, m) = UsedSize(B, m)
        BY <2>5, <2>9
      <3>2. m < b <=> m - 1 < b
        BY <2>5, <2>9
      <3> QED
        BY <2>3, <2>6, <2>7, <3>1, <3>2
    <2> QED
      BY <2>8, <2>9
  <1>4. MEMORY_END \in 0..MEMORY_END /\ ~(MEMORY_END < b)
    BY LayoutAssumption
  <1>5. Right(MEMORY_END)
    BY <1>3, <1>4
  <1> QED
    BY <1>1, <1>2, <1>4, <1>5

\* A heap of which no block is used.
LEMMA SumOfNothing ==
    ASSUME NEW B, \A a \in 1..MEMORY_END : UsedSize(B, a) = 0
    PROVE  SumOfUsedBlocks(B) = 0
  <1>1. PICK f : /\ f[0] = 0 /\ SumOfUsedBlocks(B) = f[MEMORY_END]
                 /\ \A a \in 1..MEMORY_END : f[a] = f[a - 1] + UsedSize(B, a)
    BY SumUpTo
  <1> DEFINE Bad == {a \in 0..MEMORY_END : f[a] # 0}
  <1>2. ASSUME Bad # {} PROVE FALSE
    <2>1. Bad \in SUBSET Nat
      OBVIOUS
    <2>2. PICK m \in Bad : \A k \in Bad : m <= k
      <3> HIDE DEF Bad
      <3> QED
        BY <1>2, <2>1, LeastNatural
    <2>3. m \in 1..MEMORY_END /\ f[m] # 0
      BY <1>1, <2>2
    <2>4. m - 1 \in 0..MEMORY_END /\ m - 1 \notin Bad
      <3>1. m - 1 \in 0..MEMORY_END /\ ~(m <= m - 1)
        BY <2>3, LayoutAssumption
      <3> HIDE DEF Bad
      <3> QED
        BY <2>2, <3>1
    <2>5. f[m - 1] = 0 /\ f[m] = f[m - 1] + 0
      BY <1>1, <2>3, <2>4
    <2> QED
      BY <2>3, <2>5
  <1>3. MEMORY_END \in 0..MEMORY_END
    BY LayoutAssumption
  <1> QED
    BY <1>1, <1>2, <1>3

-----------------------------------------------------------------------------
(* Invariants of the specification. *)

\* The inductive invariant: the block list is a coalesced tiling and the
\* callers own exactly its used blocks.
IInv == TypeOK /\ HeapOK(heap) /\ HeldAreUsedBlocks

LEMMA InitIInv == Init => IInv
  <1> SUFFICES ASSUME Init PROVE IInv
    OBVIOUS
  <1>1. heap = memory_init /\ held = [p \in {} |-> 0]
    BY DEF Init
  <1>2. HeapOK(heap)
    BY <1>1, FreshHeap
  <1>3. TypeOK
    BY <1>1, <1>2 DEF TypeOK, HeapOK, BlockListInv
  <1>4. HeldAreUsedBlocks
    BY <1>1, FreshHeap DEF HeldAreUsedBlocks, OwnUsedBlocks
  <1> QED
    BY <1>2, <1>3, <1>4 DEF IInv

\* TypeOK and HeapOK describe the same heap values.
LEMMA HeapOKTypes ==
    ASSUME HeapOK(heap)
    PROVE  /\ DOMAIN heap = {"blocks", "memory_used"}
           /\ BlockListTypeOK(heap.blocks) /\ heap.memory_used \in Int
  BY DEF HeapOK, BlockListInv

\* What an allocation does to heap and owners.
LEMMA AllocStep ==
    ASSUME IInv, NEW size \in Requests, Alloc(size)
    PROVE  \/ UNCHANGED vars
           \/ \E r : /\ Granted(heap, r, size) /\ heap' = r.heap /\ r.ptr # NULL
                    /\ DOMAIN held' = DOMAIN held \cup {r.ptr}
                    /\ held' = [p \in DOMAIN held \cup {r.ptr} |->
                                  IF p = r.ptr THEN size ELSE held[p]]
  <1> DEFINE r == memory_alloc(heap, size)
  <1>1. size \in 0..(WORD - 4)
    BY RequestAssumption
  <1>2. IF r.ptr = NULL THEN r.heap = heap ELSE Granted(heap, r, size)
    BY <1>1, AllocOnHeap DEF IInv
  <1>3. /\ heap' = r.heap
        /\ held' = IF r.ptr = NULL THEN held
                   ELSE [p \in DOMAIN held \cup {r.ptr} |->
                           IF p = r.ptr THEN size ELSE held[p]]
    BY DEF Alloc
  <1> HIDE DEF r
  <1> QED
    BY <1>2, <1>3 DEF vars

\* What a release does: nothing, or it takes one used block back.
LEMMA FreeStep ==
    ASSUME IInv, NEW ptr \in 0..MEMORY_END, Free(ptr)
    PROVE  \/ UNCHANGED vars
           \/ /\ ptr - HEADER \in Live(heap) /\ Freed(heap, heap', ptr - HEADER)
              /\ held' = [p \in DOMAIN held \ {ptr} |-> held[p]]
  <1>1. ptr \in Nat
    BY LayoutAssumption
  <1>2. CASE ptr = NULL \/ heap.blocks[ptr - HEADER].used = 0
    <2>1. heap' = heap
      BY <1>2 DEF Free, memory_free
    <2>2. ptr \notin DOMAIN held
      BY <1>2, LayoutAssumption DEF IInv, TypeOK, HeldAreUsedBlocks, OwnUsedBlocks, NULL
    <2>3. held' = held
      BY <2>2 DEF Free, IInv, TypeOK
    <2> QED
      BY <2>1, <2>3 DEF vars
  <1>3. CASE ~(ptr = NULL \/ heap.blocks[ptr - HEADER].used = 0)
    <2>1. ptr - HEADER \in DOMAIN heap.blocks
      BY <1>3 DEF Free
    <2>2. ptr - HEADER \in Live(heap)
      BY <1>3, <2>1 DEF Live, IInv, TypeOK, BlockListTypeOK, Header
    <2> QED
      BY <1>1, <2>2, FreePointer DEF Free, IInv
  <1> QED
    BY <1>2, <1>3

LEMMA StepIInv == IInv /\ [Next]_vars => IInv'
  <1> SUFFICES ASSUME IInv, [Next]_vars PROVE IInv'
    OBVIOUS
  <1>0. ASSUME UNCHANGED vars PROVE IInv'
    BY <1>0 DEF IInv, TypeOK, HeapOK, HeldAreUsedBlocks, OwnUsedBlocks, vars
  <1>1. ASSUME NEW size \in Requests, Alloc(size) PROVE IInv'
    <2>1. CASE UNCHANGED vars
      BY <1>0, <2>1
    <2>2. ASSUME NEW r, Granted(heap, r, size), heap' = r.heap, r.ptr # NULL,
                 DOMAIN held' = DOMAIN held \cup {r.ptr},
                 held' = [p \in DOMAIN held \cup {r.ptr} |->
                            IF p = r.ptr THEN size ELSE held[p]]
          PROVE  IInv'
      <3> DEFINE b == r.ptr - HEADER
      <3>1. /\ HeapOK(heap') /\ r.ptr \in Nat /\ b \in DOMAIN heap.blocks
            /\ Live(heap') = Live(heap) \cup {b}
            /\ heap'.blocks[b].size >= size
            /\ \A c \in Live(heap) : heap'.blocks[c] = heap.blocks[c]
        BY <2>2 DEF Granted
      <3>2. r.ptr = b + HEADER /\ r.ptr \in MEMORY_START..MEMORY_END
        <4>1. /\ b \in Nat /\ b >= MEMORY_START /\ b + HEADER <= MEMORY_END
          BY <3>1, LayoutAssumption
             DEF IInv, HeapOK, BlockListInv, BlockListTypeOK, Tiles, BlockEnd, Header, HEADER
        <4> QED
          BY <4>1, <3>1, LayoutAssumption DEF HEADER
      <3>3. TypeOK'
        <4>1. /\ DOMAIN heap' = {"blocks", "memory_used"}
              /\ BlockListTypeOK(heap'.blocks) /\ heap'.memory_used \in Int
          BY <3>1 DEF HeapOK, BlockListInv
        <4>2. /\ DOMAIN held' \subseteq MEMORY_START..MEMORY_END
              /\ held' \in [DOMAIN held' -> Requests]
          BY <2>2, <3>2 DEF IInv, TypeOK
        <4> QED
          BY <4>1, <4>2 DEF TypeOK
      <3>4. HeldAreUsedBlocks'
        <4>1. ASSUME NEW p \in DOMAIN held'
              PROVE  /\ p - HEADER \in Live(heap')
                     /\ heap'.blocks[p - HEADER].size >= held'[p]
          <5>1. CASE p = r.ptr
            BY <5>1, <2>2, <3>1
          <5>2. CASE p # r.ptr
            <6>1. /\ p \in DOMAIN held /\ held'[p] = held[p]
                  /\ p - HEADER \in Live(heap)
                  /\ heap.blocks[p - HEADER].size >= held[p]
              BY <5>2, <2>2 DEF IInv, HeldAreUsedBlocks, OwnUsedBlocks, Live
            <6> QED
              BY <6>1, <3>1
          <5> QED
            BY <5>1, <5>2
        <4>2. ASSUME NEW c \in Live(heap') PROVE c + HEADER \in DOMAIN held'
          <5>1. CASE c = b
            BY <5>1, <3>2, <2>2
          <5>2. CASE c # b
            BY <5>2, <3>1, <2>2 DEF IInv, HeldAreUsedBlocks, OwnUsedBlocks, Live
          <5> QED
            BY <5>1, <5>2
        <4> QED
          BY <4>1, <4>2 DEF HeldAreUsedBlocks, OwnUsedBlocks, Live
      <3> QED
        BY <3>1, <3>3, <3>4 DEF IInv
    <2> QED
      BY <1>1, <2>1, <2>2, AllocStep
  <1>2. ASSUME NEW ptr \in 0..MEMORY_END, Free(ptr) PROVE IInv'
    <2>1. CASE UNCHANGED vars
      BY <1>0, <2>1
    <2>2. ASSUME ptr - HEADER \in Live(heap), Freed(heap, heap', ptr - HEADER),
                 held' = [p \in DOMAIN held \ {ptr} |-> held[p]]
          PROVE  IInv'
      <3>1. /\ HeapOK(heap') /\ Live(heap') = Live(heap) \ {ptr - HEADER}
            /\ \A c \in Live(heap') : heap'.blocks[c] = heap.blocks[c]
            /\ ptr \in Nat
        BY <2>2, LayoutAssumption DEF Freed
      <3>2. \A p \in DOMAIN held : p \in Nat
        BY LayoutAssumption DEF IInv, TypeOK
      <3>3. TypeOK'
        BY <2>2, <3>1, HeapOKTypes DEF IInv, TypeOK, HeapOK, BlockListInv
      <3>4. HeldAreUsedBlocks'
        <4>1. ASSUME NEW p \in DOMAIN held'
              PROVE  /\ p - HEADER \in Live(heap')
                     /\ heap'.blocks[p - HEADER].size >= held'[p]
          <5>1. /\ p \in DOMAIN held /\ p # ptr /\ held'[p] = held[p]
                /\ p - HEADER \in Live(heap)
                /\ heap.blocks[p - HEADER].size >= held[p]
            BY <2>2 DEF IInv, HeldAreUsedBlocks, OwnUsedBlocks, Live
          <5>2. p - HEADER # ptr - HEADER
            BY <5>1, <3>1, <3>2 DEF HEADER
          <5> QED
            BY <5>1, <5>2, <3>1
        <4>2. ASSUME NEW c \in Live(heap') PROVE c + HEADER \in DOMAIN held'
          <5>1. c \in Live(heap) /\ c # ptr - HEADER /\ c \in Nat
            BY <3>1, LayoutAssumption
               DEF Live, IInv, HeapOK, BlockListInv, BlockListTypeOK
          <5>2. c + HEADER \in DOMAIN held /\ c + HEADER # ptr
            BY <5>1, <3>1 DEF IInv, HeldAreUsedBlocks, OwnUsedBlocks, Live, HEADER
          <5> QED
            BY <5>2, <2>2
        <4> QED
          BY <4>1, <4>2 DEF HeldAreUsedBlocks, OwnUsedBlocks, Live
      <3> QED
        BY <3>1, <3>3, <3>4 DEF IInv
    <2> QED
      BY <1>2, <2>1, <2>2, FreeStep
  <1>3. ASSUME MemoryTest PROVE IInv'
    <2>1. heap' = heap /\ held' = held
      BY <1>3, TestRestoresHeap DEF MemoryTest, IInv
    <2> QED
      BY <2>1, <1>0 DEF vars
  <1> QED
    BY <1>0, <1>1, <1>2, <1>3 DEF Next

THEOREM InductiveInvariant == Spec => []IInv
  BY InitIInv, StepIInv, PTL DEF Spec

\* The heap and the callers' pointers keep their types.
THEOREM TypeCorrect == Spec => []TypeOK
  <1>1. IInv => TypeOK
    BY DEF IInv
  <1> QED
    BY <1>1, InductiveInvariant, PTL

\* What a block adds to the sum.
LEMMA UsedSizes ==
    ASSUME NEW h, NEW a
    PROVE  /\ a \in Live(h) => UsedSize(h.blocks, a) = h.blocks[a].size
           /\ a \notin Live(h) => UsedSize(h.blocks, a) = 0
  <1>1. CASE a \in DOMAIN h.blocks /\ h.blocks[a].used = 1
    <2>1. a \in Live(h)
      BY <1>1 DEF Live
    <2>2. UsedSize(h.blocks, a) = h.blocks[a].size
      BY <1>1 DEF UsedSize
    <2> QED
      BY <2>1, <2>2
  <1>2. CASE ~(a \in DOMAIN h.blocks /\ h.blocks[a].used = 1)
    <2>1. a \notin Live(h)
      BY <1>2 DEF Live
    <2>2. UsedSize(h.blocks, a) = 0
      BY <1>2 DEF UsedSize
    <2> QED
      BY <2>1, <2>2
  <1> QED
    BY <1>1, <1>2

\* The sum after a block has been granted, or released.
LEMMA SumWithOneMore ==
    ASSUME NEW g, HeapOK(g), NEW h, HeapOK(h), NEW b \in DOMAIN h.blocks,
           b \notin Live(g), Live(h) = Live(g) \cup {b},
           \A c \in Live(g) : h.blocks[c] = g.blocks[c]
    PROVE  /\ SumOfUsedBlocks(g.blocks) \in Int
           /\ SumOfUsedBlocks(h.blocks) = SumOfUsedBlocks(g.blocks) + h.blocks[b].size
  <1>1. /\ b \in Live(h) /\ b \in MEMORY_START..MEMORY_END
        /\ h.blocks[b].size \in Int
    BY LiveSizes DEF HeapOK, BlockListInv, BlockListTypeOK
  <1>2. b \in 1..MEMORY_END
    BY <1>1, LayoutAssumption
  <1>3. ASSUME NEW a PROVE UsedSize(g.blocks, a) \in Int
    <2>1. CASE a \in Live(g)
      BY <2>1, UsedSizes, LiveSizes
    <2>2. CASE a \notin Live(g)
      BY <2>2, UsedSizes
    <2> QED
      BY <2>1, <2>2
  <1>4. UsedSize(g.blocks, b) = 0 /\ UsedSize(h.blocks, b) = h.blocks[b].size
    BY <1>1, UsedSizes
  <1>5. ASSUME NEW a, a # b PROVE UsedSize(h.blocks, a) = UsedSize(g.blocks, a)
    <2>1. CASE a \in Live(g)
      <3>1. a \in Live(h) /\ h.blocks[a] = g.blocks[a]
        BY <2>1
      <3> QED
        BY <2>1, <3>1, UsedSizes
    <2>2. CASE a \notin Live(g)
      BY <1>5, <2>2, UsedSizes
    <2> QED
      BY <2>1, <2>2
  <1> QED
    BY <1>1, <1>2, <1>3, <1>4, <1>5, SumGrows

\* memory_used is always the sum of the sizes of the used blocks: it does not
\* drift, however often blocks are split, merged and released.
THEOREM AccountingCorrect == Spec => []UsedIsSumOfUsedBlocks
  <1>1. Init => UsedIsSumOfUsedBlocks
    <2> SUFFICES ASSUME Init PROVE UsedIsSumOfUsedBlocks
      OBVIOUS
    <2>1. heap = memory_init /\ heap.memory_used = 0
      BY DEF Init, memory_init
    <2>2. \A a : UsedSize(heap.blocks, a) = 0
      BY <2>1, FreshHeap DEF UsedSize, Live
    <2> QED
      BY <2>1, <2>2, SumOfNothing DEF UsedIsSumOfUsedBlocks
  <1>2. IInv /\ UsedIsSumOfUsedBlocks /\ [Next]_vars => UsedIsSumOfUsedBlocks'
    <2> SUFFICES ASSUME IInv, UsedIsSumOfUsedBlocks, [Next]_vars
                 PROVE  UsedIsSumOfUsedBlocks'
      OBVIOUS
    <2>1. CASE heap' = heap
      BY <2>1 DEF UsedIsSumOfUsedBlocks
    <2>2. ASSUME NEW size \in Requests, Alloc(size) PROVE UsedIsSumOfUsedBlocks'
      <3>1. ASSUME NEW r, Granted(heap, r, size), heap' = r.heap
            PROVE  UsedIsSumOfUsedBlocks'
        <4> DEFINE b == r.ptr - HEADER
        <4>1. /\ HeapOK(heap') /\ b \notin Live(heap) /\ Live(heap') = Live(heap) \cup {b}
              /\ b \in DOMAIN heap'.blocks
              /\ \A c \in Live(heap) : heap'.blocks[c] = heap.blocks[c]
              /\ heap'.memory_used = heap.memory_used + heap'.blocks[b].size
          BY <3>1 DEF Granted, Live
        <4>2. SumOfUsedBlocks(heap'.blocks)
                = SumOfUsedBlocks(heap.blocks) + heap'.blocks[b].size
          BY <4>1, SumWithOneMore DEF IInv
        <4> QED
          BY <4>1, <4>2 DEF UsedIsSumOfUsedBlocks
      <3> QED
        BY <2>1, <2>2, <3>1, AllocStep DEF vars
    <2>3. ASSUME NEW ptr \in 0..MEMORY_END, Free(ptr) PROVE UsedIsSumOfUsedBlocks'
      <3>1. ASSUME ptr - HEADER \in Live(heap), Freed(heap, heap', ptr - HEADER)
            PROVE  UsedIsSumOfUsedBlocks'
        <4> DEFINE b == ptr - HEADER
        <4>1. /\ HeapOK(heap') /\ Live(heap') = Live(heap) \ {b}
              /\ \A c \in Live(heap') : heap.blocks[c] = heap'.blocks[c]
              /\ heap'.memory_used = heap.memory_used - heap.blocks[b].size
              /\ b \in DOMAIN heap.blocks /\ b \in Live(heap)
          BY <3>1 DEF Freed, Live
        <4>2. b \notin Live(heap') /\ Live(heap) = Live(heap') \cup {b}
          BY <4>1
        <4>3. /\ SumOfUsedBlocks(heap'.blocks) \in Int
              /\ SumOfUsedBlocks(heap.blocks)
                    = SumOfUsedBlocks(heap'.blocks) + heap.blocks[b].size
          <5> DEFINE g == heap'
          <5>1. /\ HeapOK(g) /\ HeapOK(heap) /\ b \in DOMAIN heap.blocks
                /\ b \notin Live(g) /\ Live(heap) = Live(g) \cup {b}
                /\ \A c \in Live(g) : heap.blocks[c] = g.blocks[c]
            BY <4>1, <4>2 DEF IInv
          <5> HIDE DEF g, b
          <5>2. /\ SumOfUsedBlocks(g.blocks) \in Int
                /\ SumOfUsedBlocks(heap.blocks)
                      = SumOfUsedBlocks(g.blocks) + heap.blocks[b].size
            BY <5>1, SumWithOneMore
          <5> QED
            BY <5>2 DEF g
        <4>4. heap.blocks[b].size \in Int /\ heap'.memory_used \in Int
          BY <4>1, LiveSizes DEF IInv
        <4> QED
          BY <4>1, <4>3, <4>4 DEF UsedIsSumOfUsedBlocks
      <3> QED
        BY <2>1, <2>3, <3>1, FreeStep DEF vars
    <2>4. CASE MemoryTest
      BY <2>1, <2>4, TestRestoresHeap DEF MemoryTest, IInv
    <2> QED
      BY <2>1, <2>2, <2>3, <2>4 DEF Next, vars
  <1> QED
    BY <1>1, <1>2, InductiveInvariant, PTL DEF Spec

\* In every reachable state the blocks cover the heap without gap or overlap.
THEOREM TilingCorrect == Spec => []BlocksTileHeap
  <1>1. IInv => BlocksTileHeap
    BY DEF IInv, HeapOK, BlockListInv, BlocksTileHeap
  <1> QED
    BY <1>1, InductiveInvariant, PTL

\* In every reachable state no two neighbouring blocks are free.
THEOREM CoalescingCorrect == Spec => []Coalesced
  <1>1. IInv => Coalesced
    BY DEF IInv, HeapOK, BlockListInv, Coalesced
  <1> QED
    BY <1>1, InductiveInvariant, PTL

\* Callers own exactly the used blocks, each as large as requested.
THEOREM OwnershipCorrect == Spec => []HeldAreUsedBlocks
  <1>1. IInv => HeldAreUsedBlocks
    BY DEF IInv
  <1> QED
    BY <1>1, InductiveInvariant, PTL

\* memory_test has no net effect in any reachable state.
THEOREM MemoryTestCorrect == Spec => []MemoryTestRestoresHeap
  <1>1. IInv => MemoryTestRestoresHeap
    BY TestRestoresHeap DEF IInv, MemoryTestRestoresHeap
  <1> QED
    BY <1>1, InductiveInvariant, PTL

\* Releasing an allocation at once restores the heap in any reachable state.
THEOREM FreeUndoesAllocCorrect == Spec => []FreeUndoesAlloc
  <1>1. IInv => FreeUndoesAlloc
    <2> SUFFICES ASSUME IInv, NEW size \in Requests
                 PROVE  LET r == memory_alloc(heap, size)
                        IN  memory_free(r.heap, r.ptr) = heap
      BY DEF FreeUndoesAlloc
    <2> DEFINE r == memory_alloc(heap, size)
    <2>1. IF r.ptr = NULL THEN r.heap = heap ELSE Granted(heap, r, size)
      BY RequestAssumption, AllocOnHeap DEF IInv
    <2> HIDE DEF r
    <2>2. CASE r.ptr = NULL
      BY <2>1, <2>2 DEF memory_free, r
    <2>3. CASE r.ptr # NULL
      BY <2>1, <2>3, FreeUndoesGrant DEF IInv, r
    <2> QED
      BY <2>2, <2>3
  <1> QED
    BY <1>1, InductiveInvariant, PTL

-----------------------------------------------------------------------------
(* Steps: stability of held blocks, and the abstract allocator. *)

\* A step never moves or shrinks a block that its owner keeps.
LEMMA StepKeepsHeld ==
    ASSUME IInv, [Next]_vars, NEW p \in DOMAIN held \cap DOMAIN held'
    PROVE  LET b == p - HEADER IN
           /\ b \in DOMAIN heap'.blocks /\ heap'.blocks[b].used = 1
           /\ heap'.blocks[b].size = heap.blocks[b].size
  <1> DEFINE b == p - HEADER
  <1>0. b \in Live(heap)
    BY DEF IInv, HeldAreUsedBlocks, OwnUsedBlocks, Live
  <1>1. CASE UNCHANGED vars
    BY <1>0, <1>1 DEF vars, Live
  <1>2. ASSUME NEW size \in Requests, Alloc(size), ~UNCHANGED vars
        PROVE  b \in Live(heap') /\ heap'.blocks[b] = heap.blocks[b]
    BY <1>0, <1>2, AllocStep DEF Granted
  <1>3. ASSUME NEW ptr \in 0..MEMORY_END, Free(ptr), ~UNCHANGED vars
        PROVE  b \in Live(heap') /\ heap'.blocks[b] = heap.blocks[b]
    <2>1. /\ Freed(heap, heap', ptr - HEADER)
          /\ held' = [q \in DOMAIN held \ {ptr} |-> held[q]]
      BY <1>3, FreeStep
    <2>2. p # ptr /\ p \in Nat /\ ptr \in Nat
      BY <2>1, LayoutAssumption DEF IInv, TypeOK
    <2>3. b # ptr - HEADER
      BY <2>2 DEF HEADER
    <2> QED
      BY <1>0, <2>1, <2>3 DEF Freed
  <1>4. ASSUME MemoryTest PROVE UNCHANGED vars
    BY <1>4, TestRestoresHeap DEF MemoryTest, IInv, vars
  <1> QED
    BY <1>1, <1>2, <1>3, <1>4 DEF Next, Live

\* The allocator never touches a block that stays in its owner's hands.
THEOREM HeldBlocksUntouchedCorrect == Spec => HeldBlocksUntouched
  <1>1. IInv /\ [Next]_vars =>
          [\A p \in DOMAIN held \cap DOMAIN held' :
              LET b == p - HEADER IN
              /\ b \in DOMAIN heap'.blocks
              /\ heap'.blocks[b].used = 1
              /\ heap'.blocks[b].size = heap.blocks[b].size]_vars
    BY StepKeepsHeld
  <1> QED
    BY <1>1, InductiveInvariant, PTL DEF Spec, HeldBlocksUntouched

\* The range of block b of heap h.
RangeOf(h, b) == [lo |-> b + HEADER, len |-> h.blocks[b].size]

LEMMA RegionsAreLiveRanges == RegionsInUse = {RangeOf(heap, b) : b \in Live(heap)}
  BY DEF RegionsInUse, RangeOf, Live

\* Bounds of live ranges, and their disjointness.
LEMMA LiveRanges ==
    ASSUME NEW h, HeapOK(h), NEW b \in Live(h)
    PROVE  /\ RangeOf(h, b) \in Promise!Regions
           /\ b \in Nat /\ h.blocks[b].size \in Nat
           /\ b + HEADER + h.blocks[b].size <= MEMORY_END
           /\ \A c \in Live(h) \ {b} : Promise!Disjoint(RangeOf(h, b), RangeOf(h, c))
  <1> USE LayoutAssumption DEF HEADER
  <1>1. \A x \in DOMAIN h.blocks :
          /\ x \in Nat /\ x >= MEMORY_START /\ h.blocks[x].size \in Nat
          /\ BlockEnd(h.blocks, x) = x + HEADER + h.blocks[x].size
          /\ BlockEnd(h.blocks, x) <= MEMORY_END
    BY DEF HeapOK, BlockListInv, BlockListTypeOK, Tiles, BlockEnd, Header
  <1>2. b \in DOMAIN h.blocks
    BY DEF Live
  <1>3. RangeOf(h, b) \in Promise!Regions
    BY <1>1, <1>2 DEF RangeOf, Promise!Regions
  <1>4. ASSUME NEW c \in Live(h) \ {b}
        PROVE  Promise!Disjoint(RangeOf(h, b), RangeOf(h, c))
    <2>1. c \in DOMAIN h.blocks
      BY DEF Live
    <2>2. b < c \/ c < b
      BY <1>1, <1>2, <2>1
    <2>3. b < c => BlockEnd(h.blocks, b) <= c
      BY <1>2, <2>1 DEF HeapOK, BlockListInv, Tiles
    <2>4. c < b => BlockEnd(h.blocks, c) <= b
      BY <1>2, <2>1 DEF HeapOK, BlockListInv, Tiles
    <2> QED
      BY <1>1, <1>2, <2>1, <2>2, <2>3, <2>4 DEF RangeOf, Promise!Disjoint
  <1> QED
    BY <1>1, <1>2, <1>3, <1>4

\* Every step of the heap is a grant, a release or a stutter of the abstract
\* allocator.
LEMMA StepImplementsPromise ==
    ASSUME IInv, IInv', [Next]_vars
    PROVE  [Promise!Next]_RegionsInUse
  <1>0. RegionsInUse' = {RangeOf(heap', b) : b \in Live(heap')}
    BY DEF RegionsInUse, RangeOf, Live
  <1>1. CASE UNCHANGED vars
    BY <1>1 DEF vars, RegionsInUse
  <1>2. ASSUME NEW size \in Requests, Alloc(size), ~UNCHANGED vars
        PROVE  Promise!Next
    <2>1. PICK r : Granted(heap, r, size) /\ heap' = r.heap /\ r.ptr # NULL
      BY <1>2, AllocStep
    <2> DEFINE b == r.ptr - HEADER
               x == RangeOf(heap', b)
    <2>2. /\ HeapOK(heap') /\ Live(heap') = Live(heap) \cup {b} /\ b \notin Live(heap)
          /\ b \in Live(heap') /\ heap'.blocks[b].size >= size
          /\ \A c \in Live(heap) : heap'.blocks[c] = heap.blocks[c]
      BY <2>1 DEF Granted
    <2>3. \A c \in Live(heap) : RangeOf(heap', c) = RangeOf(heap, c)
      BY <2>2 DEF RangeOf
    <2>4. RegionsInUse' = RegionsInUse \cup {x}
      BY <1>0, <2>2, <2>3, RegionsAreLiveRanges
    <2>5. /\ x \in Promise!Regions /\ x.lo = b + HEADER /\ x.len = heap'.blocks[b].size
          /\ b \in Nat /\ x.len \in Nat
          /\ x.lo + x.len <= MEMORY_END
          /\ \A c \in Live(heap) : Promise!Disjoint(x, RangeOf(heap, c))
      BY <2>2, <2>3, LiveRanges DEF RangeOf
    <2>6. x \notin RegionsInUse
      <3> SUFFICES ASSUME NEW c \in Live(heap), x = RangeOf(heap, c) PROVE FALSE
        BY RegionsAreLiveRanges
      <3>1. c \in Nat /\ x.lo = c + HEADER
        BY LiveRanges DEF RangeOf, IInv
      <3> QED
        BY <3>1, <2>2, <2>5 DEF HEADER
    <2>7. size > 0
      <3>1. size # 0
        <4> SUFFICES ASSUME size = 0 PROVE FALSE
          OBVIOUS
        <4>1. memory_alloc(heap, size) = [heap |-> heap, ptr |-> NULL]
          BY DEF memory_alloc
        <4> QED
          BY <4>1, <1>2 DEF Alloc, vars
      <3> QED
        BY <3>1, RequestAssumption, LayoutAssumption
    <2> HIDE DEF x
    <2>8. Promise!Grant(size, x)
      BY <2>2, <2>4, <2>5, <2>7, RegionsAreLiveRanges DEF Promise!Grant
    <2> QED
      BY <2>4, <2>5, <2>6, <2>8 DEF Promise!Next
  <1>3. ASSUME NEW ptr \in 0..MEMORY_END, Free(ptr), ~UNCHANGED vars
        PROVE  Promise!Next
    <2> DEFINE b == ptr - HEADER
               x == RangeOf(heap, b)
    <2>1. b \in Live(heap) /\ Freed(heap, heap', b)
      BY <1>3, FreeStep
    <2>2. /\ Live(heap') = Live(heap) \ {b}
          /\ \A c \in Live(heap') : heap'.blocks[c] = heap.blocks[c]
      BY <2>1 DEF Freed
    <2>3. \A c \in Live(heap') : RangeOf(heap', c) = RangeOf(heap, c)
      BY <2>2 DEF RangeOf
    <2>4. \A c \in Live(heap) \ {b} : RangeOf(heap, c) # x
      <3> TAKE c \in Live(heap) \ {b}
      <3>1. /\ b \in Nat /\ c \in Nat
            /\ RangeOf(heap, c).lo = c + HEADER /\ x.lo = b + HEADER
        BY <2>1, LiveRanges DEF RangeOf, IInv
      <3> QED
        BY <3>1 DEF HEADER
    <2>5. RegionsInUse' = RegionsInUse \ {x}
      BY <1>0, <2>1, <2>2, <2>3, <2>4, RegionsAreLiveRanges
    <2>6. x \in RegionsInUse
      BY <2>1, RegionsAreLiveRanges
    <2> QED
      BY <2>5, <2>6 DEF Promise!Next, Promise!Release
  <1>4. ASSUME MemoryTest PROVE UNCHANGED vars
    BY <1>4, TestRestoresHeap DEF MemoryTest, IInv, vars
  <1> QED
    BY <1>1, <1>2, <1>3, <1>4 DEF Next

\* The heap implements the abstract allocator.
THEOREM HeapImplementsAllocator == Spec => ImplementsAllocator
  <1>1. Init => Promise!Init
    BY DEF Init, memory_init, RegionsInUse, Promise!Init
  <1>2. IInv /\ IInv' /\ [Next]_vars => [Promise!Next]_RegionsInUse
    BY StepImplementsPromise
  <1> QED
    BY <1>1, <1>2, InductiveInvariant, PTL DEF Spec, ImplementsAllocator, Promise!Spec
=============================================================================
