----------------------------- MODULE HeapProofs -----------------------------
(***************************************************************************)
(* Lemmas about the operators of module Heap, for every heap range and     *)
(* word size that satisfies its assumption.                                *)
(***************************************************************************)
EXTENDS Heap, WellFoundedInduction, TLAPS

-----------------------------------------------------------------------------
(* Arithmetic and choice. *)

\* Rounding a request up to four bytes never returns less than the request,
\* as long as the addition does not wrap.
LEMMA AlignCovers ==
    ASSUME NEW n \in 0..(WORD - 4)
    PROVE  Align(n) \in Nat /\ Align(n) >= n
  <1>1. (n + 3) % WORD = n + 3
    BY LayoutAssumption, n + 3 \in 0..(WORD - 1), WORD \in Nat, SMT
  <1>2. (n + 3) % 4 \in 0..3
    BY SMT
  <1>3. Align(n) = (n + 3) - ((n + 3) % 4)
    BY <1>1 DEF Align
  <1> QED
    BY <1>2, <1>3, SMT

\* Every non-empty set of naturals has a least element.
LEMMA LeastNatural ==
    ASSUME NEW S \in SUBSET Nat, S # {}
    PROVE  \E x \in S : \A y \in S : x <= y
  <1>1. PICK x \in S : \A y \in S : ~(<<y, x>> \in OpToRel(<, Nat))
    BY NatLessThanWellFounded, WFMin
  <1>2. \A y \in S : ~(y < x)
    BY <1>1 DEF OpToRel
  <1> QED
    BY <1>2, SMT

\* Among the blocks that fit there is a first smallest one, so the walk of
\* memory_alloc ends with a block whenever some block fits.
LEMMA BestFitIsFit ==
    ASSUME NEW B, BlockListTypeOK(B), NEW n \in Nat, Fits(B, n) # {}
    PROVE  best_fit(B, n) \in Fits(B, n)
  <1> DEFINE F == Fits(B, n)
             Sizes == {B[b].size : b \in F}
  <1>1. /\ F \subseteq Nat /\ F \subseteq DOMAIN B
        /\ \A b \in F : B[b].size \in Nat
    BY LayoutAssumption DEF BlockListTypeOK, Fits, Header
  <1>2. PICK m \in Sizes : \A s \in Sizes : m <= s
    <2>1. Sizes \in SUBSET Nat /\ Sizes # {}
      BY <1>1
    <2> QED
      BY <2>1, LeastNatural
  <1> DEFINE Smallest == {b \in F : B[b].size = m}
  <1>3. PICK a \in Smallest : \A b \in Smallest : a <= b
    <2>1. Smallest \in SUBSET Nat /\ Smallest # {}
      BY <1>1, <1>2
    <2> QED
      BY <2>1, LeastNatural
  <1>4. IsBestFit(B, n, a)
    <2>1. m \in Nat /\ B[a].size = m /\ a \in F
      BY <1>1, <1>2, <1>3
    <2>2. ASSUME NEW c \in F PROVE m < B[c].size \/ (m = B[c].size /\ a <= c)
      <3>1. m <= B[c].size /\ B[c].size \in Nat
        BY <1>1, <1>2
      <3>2. CASE m = B[c].size
        BY <3>2, <1>3
      <3>3. CASE m # B[c].size
        BY <3>1, <3>3, <2>1
      <3> QED
        BY <3>2, <3>3
    <2> QED
      BY <2>1, <2>2 DEF IsBestFit
  <1> QED
    BY <1>1, <1>4 DEF best_fit, IsBestFit

-----------------------------------------------------------------------------
(* The block list: what splitting and merging preserve. *)

\* What holds of the block list between two operations.
BlockListInv(B) == BlockListTypeOK(B) /\ Tiles(B) /\ NoFreeNeighbours(B)

\* Taking a block, split or whole, keeps the list a tiling without free
\* neighbours, grants at least n bytes and changes no other block.
LEMMA TakeKeepsList ==
    ASSUME NEW B, BlockListInv(B), NEW n \in Nat, NEW b \in Fits(B, n)
    PROVE  LET T == Take(B, b, n) IN
           /\ BlockListInv(T)
           /\ b \in DOMAIN T /\ T[b].used = 1 /\ T[b].size >= n
           /\ DOMAIN B \subseteq DOMAIN T
           /\ \A c \in DOMAIN B \ {b} : T[c] = B[c]
           /\ \A c \in DOMAIN T \ DOMAIN B : T[c].used = 0
  <1> DEFINE T == Take(B, b, n)
  <1> USE LayoutAssumption DEF HEADER, SPLIT_SLACK, NULL
  <1>1. /\ b \in DOMAIN B /\ b \in Nat /\ B[b].used = 0 /\ B[b].size >= n
        /\ \A c \in DOMAIN B : /\ c \in Nat /\ c >= MEMORY_START
                                /\ B[c] \in Header
                                /\ B[c].size \in Nat /\ B[c].next \in Nat
                                /\ B[c].used \in {0, 1}
    BY DEF BlockListInv, BlockListTypeOK, Fits, Header
  <1>2. CASE B[b].size > n + HEADER + SPLIT_SLACK
    <2> DEFINE new == b + HEADER + n
               rest == [size |-> B[b].size - n - HEADER, used |-> 0, next |-> B[b].next]
    <2>1. /\ DOMAIN T = DOMAIN B \cup {new}
          /\ T[b] = [size |-> n, used |-> 1, next |-> new]
          /\ T[new] = rest
          /\ \A c \in DOMAIN B \ {b, new} : T[c] = B[c]
          /\ T = [x \in DOMAIN B \cup {new} |-> T[x]]
      BY <1>1, <1>2 DEF Take, Split, SetUsed
    <2>2. new \notin DOMAIN B /\ new < BlockEnd(B, b) /\ new > b
          /\ BlockEnd(B, b) <= MEMORY_END
      BY <1>1, <1>2 DEF BlockListInv, Tiles, BlockEnd
    <2>3. BlockListTypeOK(T)
      BY <1>1, <1>2, <2>1, <2>2 DEF BlockListTypeOK, BlockListInv, Header, BlockEnd
    <2>4. Tiles(T)
      <3>1. /\ BlockEnd(T, new) = BlockEnd(B, b) /\ BlockEnd(T, b) = new
            /\ \A c \in DOMAIN B \ {b} : BlockEnd(T, c) = BlockEnd(B, c)
            /\ \A c \in DOMAIN B : BlockEnd(B, c) \in Nat
        BY <1>1, <2>1, <2>2 DEF BlockEnd
      <3>2. ASSUME NEW c \in DOMAIN T
            PROVE  /\ BlockEnd(T, c) <= MEMORY_END
                   /\ T[c].next = IF BlockEnd(T, c) = MEMORY_END THEN NULL ELSE BlockEnd(T, c)
                   /\ T[c].next # NULL => T[c].next \in DOMAIN T
        <4>0. \A x \in DOMAIN B :
                 /\ BlockEnd(B, x) <= MEMORY_END
                 /\ B[x].next = IF BlockEnd(B, x) = MEMORY_END THEN NULL ELSE BlockEnd(B, x)
                 /\ B[x].next # NULL => B[x].next \in DOMAIN B
          BY DEF Tiles, BlockListInv
        <4>1. CASE c \in DOMAIN B \ {b}
          <5>1. T[c] = B[c] /\ BlockEnd(T, c) = BlockEnd(B, c)
            BY <4>1, <2>1, <2>2, <3>1
          <5> QED
            BY <4>0, <4>1, <5>1, <2>1
        <4>2. CASE c = b
          BY <4>2, <1>1, <2>1, <2>2, <3>1
        <4>3. CASE c = new
          BY <4>3, <1>1, <2>1, <2>2, <3>1 DEF Tiles, BlockListInv
        <4> QED
          BY <2>1, <4>1, <4>2, <4>3
      <3>3. ASSUME NEW c \in DOMAIN T, NEW d \in DOMAIN T, c < d
            PROVE  BlockEnd(T, c) <= d
        <4>1. \A x, y \in DOMAIN B : x < y => BlockEnd(B, x) <= y
          BY DEF BlockListInv, Tiles
        <4>2. CASE c # new /\ d # new
          <5>1. c \in DOMAIN B /\ d \in DOMAIN B
            BY <2>1, <4>2
          <5>2. BlockEnd(B, c) <= d
            BY <5>1, <4>1, <3>3
          <5> QED
            BY <5>1, <5>2, <1>1, <2>2, <3>1
        <4>3. CASE d = new /\ c # new
          <5>1. c \in DOMAIN B /\ ~(c > b)
            BY <2>1, <2>2, <4>1, <4>3, <3>3, <3>1, <1>1
          <5>2. CASE c = b
            BY <5>2, <4>3, <3>1, <2>2, <1>1
          <5>3. CASE c < b
            BY <5>1, <5>3, <4>1, <4>3, <3>1, <2>2, <1>1
          <5> QED
            BY <5>1, <5>2, <5>3, <1>1
        <4>4. CASE c = new
          <5>1. d \in DOMAIN B /\ d > b /\ d # new
            BY <2>1, <2>2, <4>4, <3>3, <1>1
          <5> QED
            BY <5>1, <4>1, <4>4, <3>1, <1>1
        <4> QED
          BY <4>2, <4>3, <4>4
      <3>4. ASSUME NEW d \in DOMAIN T \ {MEMORY_START}
            PROVE  \E a \in DOMAIN T : T[a].next = d
        <4>1. CASE d = new
          BY <4>1, <2>1, <1>1
        <4>2. CASE d # new
          <5>1. PICK a \in DOMAIN B : B[a].next = d
            BY <4>2, <2>1 DEF Tiles, BlockListInv
          <5>2. CASE a = b
            BY <5>1, <5>2, <2>1
          <5>3. CASE a # b
            BY <5>1, <5>3, <2>1, <2>2
          <5> QED
            BY <5>2, <5>3
        <4> QED
          BY <4>1, <4>2
      <3> QED
        BY <2>1, <3>2, <3>3, <3>4 DEF Tiles, BlockListInv
    <2>5. NoFreeNeighbours(T)
      <3>1. \A c \in DOMAIN B : B[c].next # new
        BY <2>2, <1>1 DEF Tiles, BlockListInv
      <3>2. B[b].next # NULL => B[b].next \in DOMAIN B \ {b} /\ B[B[b].next].used = 1
        BY <1>1, <2>2 DEF Tiles, NoFreeNeighbours, BlockListInv, BlockEnd
      <3>3. \A c \in DOMAIN B \ {b} : T[c] = B[c]
        BY <2>1, <2>2
      <3>4. ASSUME NEW c \in DOMAIN T, T[c].next # NULL
            PROVE  T[c].used = 1 \/ T[T[c].next].used = 1
        <4>1. CASE c = b
          BY <4>1, <2>1
        <4>2. CASE c = new
          BY <4>2, <2>1, <3>2, <3>3, <3>4
        <4>3. CASE c \in DOMAIN B \ {b}
          <5>1. B[c].next \in DOMAIN B /\ T[c] = B[c]
            BY <4>3, <3>3, <3>4 DEF Tiles, BlockListInv
          <5>2. CASE B[c].next = b
            BY <5>1, <5>2, <2>1
          <5>3. CASE B[c].next # b
            BY <5>1, <5>3, <3>3, <3>4, <4>3 DEF NoFreeNeighbours, BlockListInv
          <5> QED
            BY <5>2, <5>3
        <4> QED
          BY <2>1, <4>1, <4>2, <4>3
      <3> QED
        BY <3>4 DEF NoFreeNeighbours
    <2> QED
      BY <1>1, <2>1, <2>2, <2>3, <2>4, <2>5 DEF BlockListInv
  <1>3. CASE ~(B[b].size > n + HEADER + SPLIT_SLACK)
    <2>1. /\ DOMAIN T = DOMAIN B
          /\ T[b] = [size |-> B[b].size, used |-> 1, next |-> B[b].next]
          /\ \A c \in DOMAIN B \ {b} : T[c] = B[c]
      BY <1>1, <1>3 DEF Take, SetUsed, Header
    <2>2. \A c \in DOMAIN B : T[c].size = B[c].size /\ T[c].next = B[c].next
                              /\ (B[c].used = 1 => T[c].used = 1) /\ T[c] \in Header
      BY <1>1, <2>1 DEF Header
    <2>3. BlockListTypeOK(T)
      BY <1>3, <2>1, <2>2 DEF BlockListTypeOK, BlockListInv, Take, SetUsed
    <2>4. Tiles(T)
      BY <2>1, <2>2 DEF Tiles, BlockListInv, BlockEnd
    <2>5. NoFreeNeighbours(T)
      BY <2>1, <2>2 DEF Tiles, BlockListInv, NoFreeNeighbours
    <2> QED
      BY <1>1, <2>1, <2>2, <2>3, <2>4, <2>5 DEF BlockListInv
  <1> QED
    BY <1>2, <1>3

\* A is a tiling that differs from B only in that block a has swallowed its
\* successor.
Joined(B, a, A) ==
    /\ BlockListTypeOK(A) /\ Tiles(A)
    /\ a # B[a].next /\ DOMAIN A = DOMAIN B \ {B[a].next}
    /\ A[a].used = B[a].used /\ A[a].next = B[B[a].next].next
    /\ A[a].size = B[a].size + B[B[a].next].size + HEADER
    /\ \A x \in DOMAIN A \ {a} : A[x] = B[x]

\* Absorbing the successor of a block joins the two and nothing else.
LEMMA AbsorbKeepsTiling ==
    ASSUME NEW B, BlockListTypeOK(B), Tiles(B),
           NEW a \in DOMAIN B, B[a].next # NULL
    PROVE  Joined(B, a, Absorb(B, a, B[a].next))
  <1> DEFINE c == B[a].next
             A == Absorb(B, a, c)
  <1> USE LayoutAssumption DEF HEADER, NULL
  <1>1. /\ \A x \in DOMAIN B : /\ x \in Nat /\ x >= MEMORY_START
                                /\ B[x].size \in Nat /\ B[x].next \in Nat
                                /\ B[x].used \in {0, 1} /\ B[x] \in Header
                                /\ BlockEnd(B, x) \in Nat /\ x < BlockEnd(B, x)
    BY DEF BlockListTypeOK, Header, BlockEnd
  <1>2. /\ c \in DOMAIN B /\ c = BlockEnd(B, a) /\ c > a
    BY <1>1 DEF Tiles
  <1>3. /\ DOMAIN A = DOMAIN B \ {c}
        /\ A[a] = [size |-> B[a].size + B[c].size + HEADER,
                   used |-> B[a].used, next |-> B[c].next]
        /\ \A x \in DOMAIN A \ {a} : A[x] = B[x]
    BY <1>1, <1>2 DEF Absorb
  <1>4. BlockListTypeOK(A)
    <2>1. \A x \in DOMAIN A : A[x] \in Header
      BY <1>1, <1>2, <1>3 DEF Header
    <2> QED
      BY <2>1, <1>3 DEF BlockListTypeOK, Absorb
  <1>5. /\ BlockEnd(A, a) = BlockEnd(B, c)
        /\ \A x \in DOMAIN A \ {a} : BlockEnd(A, x) = BlockEnd(B, x)
    BY <1>1, <1>2, <1>3 DEF BlockEnd
  <1>6. ASSUME NEW x \in DOMAIN B, x # a PROVE B[x].next # c
    <2>1. CASE x < a
      BY <2>1, <1>1, <1>2 DEF Tiles
    <2>2. CASE x > a
      BY <2>2, <1>1, <1>2 DEF Tiles
    <2> QED
      BY <2>1, <2>2, <1>1, <1>6
  <1>7. Tiles(A)
    <2>1. MEMORY_START \in DOMAIN A
      BY <1>1, <1>2, <1>3 DEF Tiles
    <2>2. ASSUME NEW x \in DOMAIN A
          PROVE  /\ BlockEnd(A, x) <= MEMORY_END
                 /\ A[x].next = IF BlockEnd(A, x) = MEMORY_END THEN NULL ELSE BlockEnd(A, x)
                 /\ A[x].next # NULL => A[x].next \in DOMAIN A
      <3>1. CASE x = a
        <4>1. B[c].next # c
          BY <1>1, <1>2 DEF Tiles
        <4> QED
          BY <3>1, <4>1, <1>2, <1>3, <1>5 DEF Tiles
      <3>2. CASE x # a
        BY <3>2, <1>3, <1>5, <1>6 DEF Tiles
      <3> QED
        BY <3>1, <3>2
    <2>3. ASSUME NEW x \in DOMAIN A, NEW y \in DOMAIN A, x < y
          PROVE  BlockEnd(A, x) <= y
      <3>1. CASE x = a
        <4>1. y \in DOMAIN B /\ y # c /\ c <= y
          BY <3>1, <1>2, <1>3, <2>3 DEF Tiles
        <4>2. c < y
          BY <4>1, <1>1, <1>2
        <4> QED
          BY <3>1, <4>1, <4>2, <1>2, <1>5 DEF Tiles
      <3>2. CASE x # a
        BY <3>2, <2>3, <1>3, <1>5 DEF Tiles
      <3> QED
        BY <3>1, <3>2
    <2>4. ASSUME NEW y \in DOMAIN A \ {MEMORY_START}
          PROVE  \E x \in DOMAIN A : A[x].next = y
      <3>1. PICK x \in DOMAIN B : B[x].next = y
        BY <1>3 DEF Tiles
      <3>2. CASE x = c
        BY <3>1, <3>2, <1>2, <1>3
      <3>3. CASE x # c
        <4>1. x # a
          BY <3>1, <1>3
        <4> QED
          BY <3>1, <3>3, <4>1, <1>3
      <3> QED
        BY <3>2, <3>3
    <2> QED
      BY <2>1, <2>2, <2>3, <2>4 DEF Tiles
  <1>8. /\ a # c
        /\ A[a].used = B[a].used /\ A[a].next = B[c].next
        /\ A[a].size = B[a].size + B[c].size + HEADER
    BY <1>1, <1>2, <1>3
  <1> QED
    BY <1>3, <1>4, <1>7, <1>8 DEF Joined

\* Two blocks of a tiling never have the same successor.
LEMMA UniquePredecessor ==
    ASSUME NEW B, BlockListTypeOK(B), Tiles(B),
           NEW a \in DOMAIN B, NEW x \in DOMAIN B, x # a, B[a].next # NULL
    PROVE  B[x].next # B[a].next
  <1> USE LayoutAssumption DEF HEADER, NULL
  <1>1. \A y \in DOMAIN B : /\ y \in Nat /\ B[y].size \in Nat
                            /\ BlockEnd(B, y) \in Nat /\ y < BlockEnd(B, y)
    BY DEF BlockListTypeOK, Header, BlockEnd
  <1>2. CASE x < a
    BY <1>1, <1>2 DEF Tiles
  <1>3. CASE x > a
    BY <1>1, <1>3 DEF Tiles
  <1> QED
    BY <1>1, <1>2, <1>3

\* The block list that memory_free leaves when it releases block b.
Released(B, b) == MergePrev(MergeNext(SetUsed(B, b, 0), b), b)

\* Releasing a used block keeps the list a tiling without free neighbours;
\* every other used block stays as it was.
LEMMA ReleaseKeepsList ==
    ASSUME NEW B, BlockListInv(B), NEW b \in DOMAIN B, B[b].used = 1
    PROVE  LET R == Released(B, b) IN
           /\ BlockListInv(R)
           /\ \A x \in DOMAIN B \ {b} : B[x].used = 1 => x \in DOMAIN R /\ R[x] = B[x]
           /\ \A x \in DOMAIN R : R[x].used = 1 => x \in DOMAIN B \ {b} /\ B[x].used = 1
  <1> USE DEF NULL
  <1> DEFINE U == SetUsed(B, b, 0)
             N == MergeNext(U, b)
             R == MergePrev(N, b)
  <1>1. /\ BlockListTypeOK(B) /\ Tiles(B) /\ NoFreeNeighbours(B)
        /\ \A x \in DOMAIN B : /\ B[x] \in Header /\ B[x].size \in Nat
                                /\ B[x].next \in Nat /\ B[x].used \in {0, 1}
    BY DEF BlockListInv, BlockListTypeOK, Header
  <1>2. /\ DOMAIN U = DOMAIN B
        /\ U[b] = [size |-> B[b].size, used |-> 0, next |-> B[b].next]
        /\ \A x \in DOMAIN B \ {b} : U[x] = B[x]
    BY DEF SetUsed
  <1>3. BlockListTypeOK(U) /\ Tiles(U)
    <2>1. \A x \in DOMAIN B : /\ U[x].size = B[x].size /\ U[x].next = B[x].next
                              /\ U[x] \in Header
      BY <1>1, <1>2 DEF Header
    <2>2. BlockListTypeOK(U)
      BY <1>1, <1>2, <2>1 DEF BlockListTypeOK, SetUsed
    <2>3. Tiles(U)
      BY <1>1, <1>2, <2>1 DEF Tiles, BlockEnd
    <2> QED
      BY <2>2, <2>3
  <1>4. /\ BlockListTypeOK(N) /\ Tiles(N)
        /\ DOMAIN N \subseteq DOMAIN B /\ b \in DOMAIN N /\ N[b].used = 0
        /\ \A x \in DOMAIN N \ {b} : N[x] = B[x]
        /\ \A x \in DOMAIN B \ DOMAIN N : B[x].used = 0
        /\ N[b].next # NULL => N[b].next \in DOMAIN N \ {b} /\ N[N[b].next].used = 1
    <2>1. CASE U[b].next # NULL /\ U[U[b].next].used = 0
      <3> DEFINE c == U[b].next
      <3>1. /\ c = B[b].next
            /\ BlockListTypeOK(N) /\ Tiles(N)
            /\ b # c /\ DOMAIN N = DOMAIN U \ {c}
            /\ N[b].used = U[b].used /\ N[b].next = U[c].next
            /\ \A x \in DOMAIN N \ {b} : N[x] = U[x]
        <4>1. N = Absorb(U, b, U[b].next) /\ b \in DOMAIN U /\ U[b].next = B[b].next
          BY <1>2, <2>1 DEF MergeNext
        <4>2. Joined(U, b, N)
          BY <4>1, <1>3, <2>1, AbsorbKeepsTiling
        <4> QED
          BY <4>1, <4>2 DEF Joined
      <3>2. c \in DOMAIN B \ {b} /\ B[c].used = 0
        BY <1>1, <1>2, <2>1, <3>1 DEF Tiles
      <3>3. B[c].next # NULL => /\ B[c].next \in DOMAIN B /\ B[c].next # c
                                /\ B[B[c].next].used = 1
        BY <1>1, <3>2 DEF Tiles, NoFreeNeighbours
      <3>4. N[b].next # NULL => N[b].next \in DOMAIN N
        BY <3>1, <1>2 DEF Tiles
      <3>5. N[b].next # b
        BY <3>1, <1>2, LayoutAssumption DEF Tiles, BlockListTypeOK, BlockEnd, HEADER, Header
      <3> QED
        BY <1>1, <1>2, <3>1, <3>2, <3>3, <3>4, <3>5
    <2>2. CASE ~(U[b].next # NULL /\ U[U[b].next].used = 0)
      <3>1. N = U
        BY <2>2 DEF MergeNext
      <3>2. B[b].next # NULL => B[b].next \in DOMAIN B
        BY <1>1 DEF Tiles
      <3>3. U[b].next # b
        BY <1>2, <1>3, LayoutAssumption DEF Tiles, BlockListTypeOK, BlockEnd, HEADER, Header
      <3> QED
        BY <1>1, <1>2, <1>3, <2>2, <3>1, <3>2, <3>3
    <2> QED
      BY <2>1, <2>2
  \* Only the pair (predecessor of b, b) may consist of two free blocks.
  <1>5. ASSUME NEW x \in DOMAIN N, N[x].next # NULL, N[x].next # b
        PROVE  /\ N[x].next \in DOMAIN N
               /\ N[x].used = 1 \/ N[N[x].next].used = 1
    <2>1. N[x].next \in DOMAIN N
      BY <1>4, <1>5 DEF Tiles
    <2>2. CASE x = b
      BY <2>1, <2>2, <1>4, <1>5
    <2>3. CASE x # b
      <3>1. N[x] = B[x] /\ N[N[x].next] = B[B[x].next] /\ x \in DOMAIN B
        BY <2>1, <2>3, <1>4, <1>5
      <3> QED
        BY <3>1, <2>1, <1>1, <1>5 DEF NoFreeNeighbours
    <2> QED
      BY <2>1, <2>2, <2>3
  <1>6. CASE FreePrev(N, b) = {}
    <2>1. R = N
      BY <1>6 DEF MergePrev
    <2>2. NoFreeNeighbours(N)
      <3>1. ASSUME NEW x \in DOMAIN N, N[x].next = b PROVE N[x].used = 1
        <4>1. N[x].used \in {0, 1}
          BY <1>4 DEF BlockListTypeOK, Header
        <4> QED
          BY <1>6, <3>1, <4>1 DEF FreePrev
      <3> QED
        BY <1>5, <3>1 DEF NoFreeNeighbours
    <2> QED
      BY <2>1, <2>2, <1>4 DEF BlockListInv, Released
  <1>7. CASE FreePrev(N, b) # {}
    <2> DEFINE p == CHOOSE q \in FreePrev(N, b) : TRUE
    <2>1. p \in DOMAIN N /\ N[p].next = b /\ N[p].used = 0 /\ b # NULL
      BY <1>7, <1>4, LayoutAssumption DEF FreePrev, BlockListTypeOK
    <2>2. R = Absorb(N, p, N[p].next)
      BY <1>7, <2>1 DEF MergePrev
    <2> HIDE DEF p
    <2>3. /\ BlockListTypeOK(R) /\ Tiles(R) /\ p # b
          /\ DOMAIN R = DOMAIN N \ {b}
          /\ R[p].used = 0 /\ R[p].next = N[b].next
          /\ \A x \in DOMAIN R \ {p} : R[x] = N[x]
      <3>1. Joined(N, p, R)
        BY <1>4, <2>1, <2>2, AbsorbKeepsTiling
      <3> QED
        BY <3>1, <2>1 DEF Joined
    <2>4. NoFreeNeighbours(R)
      <3> SUFFICES ASSUME NEW x \in DOMAIN R, R[x].next # NULL
                   PROVE  R[x].used = 1 \/ R[R[x].next].used = 1
        BY DEF NoFreeNeighbours
      <3>1. R[x].next \in DOMAIN R
        BY <2>3 DEF Tiles
      <3>2. CASE x = p
        <4>1. R[x].next # p
          BY <2>1, <2>3, <3>1, <3>2, <1>4 
        <4> QED
          BY <4>1, <3>1, <3>2, <2>3, <1>4
      <3>3. CASE x # p
        <4>1. R[x] = N[x] /\ x \in DOMAIN N
          BY <3>3, <2>3
        <4>2. N[x].next # b
          BY <3>3, <4>1, <1>4, <2>1, UniquePredecessor
        <4>3. N[x].used = 1 \/ N[N[x].next].used = 1
          BY <4>1, <4>2, <1>5
        <4>4. CASE N[x].next = p
          BY <4>1, <4>3, <4>4, <2>1
        <4>5. CASE N[x].next # p
          BY <4>1, <4>3, <4>5, <3>1, <2>3
        <4> QED
          BY <4>4, <4>5
      <3> QED
        BY <3>2, <3>3
    <2>5. p \in DOMAIN B /\ B[p].used = 0
      BY <2>1, <2>3, <1>4
    <2> QED
      BY <1>4, <2>3, <2>4, <2>5 DEF BlockListInv, Released
  <1> QED
    BY <1>6, <1>7

-----------------------------------------------------------------------------
(* The two operations on the whole heap. *)

HeapOK(h) ==
    /\ h = [blocks |-> h.blocks, memory_used |-> h.memory_used]
    /\ h.memory_used \in Int
    /\ BlockListInv(h.blocks)

Live(h) == {b \in DOMAIN h.blocks : h.blocks[b].used = 1}

\* The heap after memory_init: one free block over the whole range.
LEMMA FreshHeap ==
    /\ HeapOK(memory_init) /\ Live(memory_init) = {}
    /\ DOMAIN memory_init.blocks = {MEMORY_START}
    /\ memory_init.blocks[MEMORY_START].used = 0
  <1> USE LayoutAssumption DEF HEADER, NULL, memory_total
  <1> DEFINE s == memory_total - HEADER
             B == memory_init.blocks
  <1>1. /\ memory_init = [blocks |-> B, memory_used |-> 0] /\ DOMAIN B = {MEMORY_START}
        /\ B[MEMORY_START] = [size |-> s, used |-> 0, next |-> NULL]
        /\ B = [b \in {MEMORY_START} |-> [size |-> s, used |-> 0, next |-> NULL]]
        /\ s \in Nat
    BY DEF memory_init
  <1>2. memory_init.memory_used \in Int
    BY <1>1
  <1> HIDE DEF B
  <1>3. BlockListTypeOK(B)
    BY <1>1 DEF BlockListTypeOK, Header
  <1>4. Tiles(B)
    BY <1>1 DEF Tiles, BlockEnd
  <1>5. NoFreeNeighbours(B)
    BY <1>1 DEF NoFreeNeighbours
  <1>6. HeapOK(memory_init)
    BY <1>1, <1>2, <1>3, <1>4, <1>5 DEF HeapOK, BlockListInv, B
  <1> QED
    BY <1>1, <1>6 DEF Live, B

\* r is the outcome of a successful request for size bytes from heap h.
Granted(h, r, size) ==
    LET b == r.ptr - HEADER IN
    /\ HeapOK(r.heap)
    /\ r.ptr \in Nat /\ b \in DOMAIN h.blocks \ Live(h)
    /\ Live(r.heap) = Live(h) \cup {b}
    /\ r.heap.blocks[b].size >= size
    /\ \A c \in Live(h) : r.heap.blocks[c] = h.blocks[c]
    /\ r.heap.memory_used = h.memory_used + r.heap.blocks[b].size

\* A successful allocation turns one free block into a live one that is large
\* enough; a failing one changes nothing.
LEMMA AllocOnHeap ==
    ASSUME NEW h, HeapOK(h), NEW size \in 0..(WORD - 4)
    PROVE  LET r == memory_alloc(h, size) IN
           IF r.ptr = NULL THEN r.heap = h ELSE Granted(h, r, size)
  <1> DEFINE n == Align(size)
             b == best_fit(h.blocks, n)
             T == Take(h.blocks, b, n)
             r == memory_alloc(h, size)
  <1>1. CASE size = 0 \/ Fits(h.blocks, n) = {}
    <2>1. r = [heap |-> h, ptr |-> NULL]
      BY <1>1 DEF memory_alloc
    <2> QED
      BY <2>1
  <1>2. CASE ~(size = 0 \/ Fits(h.blocks, n) = {})
    <2>1. r = [heap |-> [blocks |-> T, memory_used |-> h.memory_used + T[b].size],
               ptr |-> b + HEADER]
      BY <1>2 DEF memory_alloc
    <2>2. n \in Nat /\ n >= size
      BY AlignCovers
    <2>3. b \in Fits(h.blocks, n)
      BY <1>2, <2>2, BestFitIsFit DEF HeapOK, BlockListInv
    <2> HIDE DEF n, b
    <2>4. /\ BlockListInv(T)
          /\ b \in DOMAIN T /\ T[b].used = 1 /\ T[b].size >= n
          /\ DOMAIN h.blocks \subseteq DOMAIN T
          /\ \A c \in DOMAIN h.blocks \ {b} : T[c] = h.blocks[c]
          /\ \A c \in DOMAIN T \ DOMAIN h.blocks : T[c].used = 0
      BY <2>2, <2>3, TakeKeepsList DEF HeapOK
    <2>5. b \in DOMAIN h.blocks /\ h.blocks[b].used = 0 /\ b \in Nat
      BY <2>3, LayoutAssumption DEF Fits, HeapOK, BlockListInv, BlockListTypeOK
    <2>6. T[b].size \in Nat
      BY <2>4 DEF BlockListInv, BlockListTypeOK, Header
    <2> HIDE DEF T, r
    <2>7. /\ r.ptr - HEADER = b /\ r.ptr \in Nat /\ r.heap.blocks = T
          /\ r.heap.memory_used = h.memory_used + T[b].size
      BY <2>1, <2>5 DEF HEADER
    <2>8. HeapOK(r.heap)
      BY <2>1, <2>4, <2>6 DEF HeapOK
    <2>9. Live(r.heap) = Live(h) \cup {b}
      BY <2>4, <2>5, <2>7 DEF Live
    <2>10. Granted(h, r, size)
      BY <2>2, <2>4, <2>5, <2>6, <2>7, <2>8, <2>9 DEF Granted, Live
    <2>11. r.ptr # NULL
      BY <2>1, <2>5 DEF HEADER, NULL
    <2> QED
      BY <2>10, <2>11 DEF r
  <1> QED
    BY <1>1, <1>2

\* g is heap h after its live block b has been released.
Freed(h, g, b) ==
    /\ HeapOK(g) /\ Live(g) = Live(h) \ {b}
    /\ \A c \in Live(g) : g.blocks[c] = h.blocks[c]
    /\ g.memory_used = h.memory_used - h.blocks[b].size

\* Releasing a live block removes exactly that block from the live ones.
LEMMA FreeOnHeap ==
    ASSUME NEW h, HeapOK(h), NEW b \in Live(h)
    PROVE  Freed(h, memory_free(h, b + HEADER), b)
  <1> DEFINE g == memory_free(h, b + HEADER)
             R == Released(h.blocks, b)
  <1>1. b \in DOMAIN h.blocks /\ h.blocks[b].used = 1 /\ b \in Nat /\ h.blocks[b].size \in Nat
    BY LayoutAssumption DEF Live, HeapOK, BlockListInv, BlockListTypeOK, Header
  <1>2. (b + HEADER) - HEADER = b /\ b + HEADER # NULL
    BY <1>1 DEF HEADER, NULL
  <1>3. g = [blocks |-> R, memory_used |-> h.memory_used - h.blocks[b].size]
    BY <1>1, <1>2 DEF memory_free, Released
  <1>4. /\ BlockListInv(R)
        /\ \A x \in DOMAIN h.blocks \ {b} :
              h.blocks[x].used = 1 => x \in DOMAIN R /\ R[x] = h.blocks[x]
        /\ \A x \in DOMAIN R : R[x].used = 1 => x \in DOMAIN h.blocks \ {b}
                                                /\ h.blocks[x].used = 1
    BY <1>1, ReleaseKeepsList DEF HeapOK
  <1> HIDE DEF g, R
  <1>5. HeapOK(g)
    BY <1>1, <1>3, <1>4 DEF HeapOK
  <1>6. Live(g) = Live(h) \ {b} /\ \A c \in Live(g) : g.blocks[c] = h.blocks[c]
    BY <1>3, <1>4 DEF Live
  <1>7. g.memory_used = h.memory_used - h.blocks[b].size
    BY <1>3
  <1> QED
    BY <1>5, <1>6, <1>7 DEF g, Freed

-----------------------------------------------------------------------------
(* The canonical form of the heap. *)

\* A block list without free neighbours is determined by its used blocks: the
\* free blocks are exactly the maximal gaps between them.
LEMMA FreeBlockShared ==
    ASSUME NEW B, BlockListInv(B), NEW C, BlockListInv(C),
           \A x \in DOMAIN B : B[x].used = 1 => x \in DOMAIN C /\ C[x] = B[x],
           \A x \in DOMAIN C : C[x].used = 1 => x \in DOMAIN B /\ B[x] = C[x],
           NEW b \in DOMAIN B
    PROVE  b \in DOMAIN C /\ B[b] = C[b]
  <1> USE LayoutAssumption DEF HEADER, NULL
  <1> DEFINE TypeFacts(D) ==
        \A y \in DOMAIN D : /\ y \in Nat /\ y >= MEMORY_START
                            /\ D[y].size \in Nat /\ D[y].next \in Nat
                            /\ D[y].used \in {0, 1}
                            /\ D[y] = [size |-> D[y].size, used |-> D[y].used,
                                       next |-> D[y].next]
                            /\ BlockEnd(D, y) = y + HEADER + D[y].size
                            /\ BlockEnd(D, y) \in Nat /\ y < BlockEnd(D, y)
  <1>1. TypeFacts(B) /\ TypeFacts(C)
    BY DEF BlockListInv, BlockListTypeOK, Header, BlockEnd
  <1>2. b \in DOMAIN C
    <2>1. CASE b = MEMORY_START
      BY <2>1 DEF BlockListInv, Tiles
    <2>2. CASE b # MEMORY_START /\ B[b].used = 0
      <3>1. PICK a \in DOMAIN B : B[a].next = b
        BY <2>2 DEF BlockListInv, Tiles
      <3>2. b # NULL
        BY <1>1
      <3>3. B[a].used = 1
        BY <3>1, <3>2, <2>2 DEF BlockListInv, NoFreeNeighbours
      <3>4. a \in DOMAIN C /\ C[a].next = b
        BY <3>1, <3>3
      <3> QED
        BY <3>2, <3>4 DEF BlockListInv, Tiles
    <2>3. CASE B[b].used = 1
      BY <2>3
    <2> QED
      BY <2>1, <2>2, <2>3, <1>1
  <1>3. ASSUME B[b].used = 0 PROVE B[b].size = C[b].size /\ C[b].used = 0
    <2>1. C[b].used = 0
      BY <1>1, <1>2, <1>3
    <2>2. ~(BlockEnd(B, b) < BlockEnd(C, b))
      <3> SUFFICES ASSUME BlockEnd(B, b) < BlockEnd(C, b) PROVE FALSE
        OBVIOUS
      <3>1. /\ B[b].next = BlockEnd(B, b) /\ B[b].next # NULL /\ B[b].next \in DOMAIN B
        BY <1>1, <1>2 DEF BlockListInv, Tiles
      <3>2. B[B[b].next].used = 1
        BY <3>1, <1>3 DEF BlockListInv, NoFreeNeighbours
      <3>3. BlockEnd(B, b) \in DOMAIN C
        BY <3>1, <3>2
      <3>4. BlockEnd(C, b) <= BlockEnd(B, b)
        BY <3>3, <1>1, <1>2 DEF BlockListInv, Tiles
      <3> QED
        BY <3>4, <1>1, <1>2
    <2>3. ~(BlockEnd(C, b) < BlockEnd(B, b))
      <3> SUFFICES ASSUME BlockEnd(C, b) < BlockEnd(B, b) PROVE FALSE
        OBVIOUS
      <3>1. /\ C[b].next = BlockEnd(C, b) /\ C[b].next # NULL /\ C[b].next \in DOMAIN C
        BY <1>1, <1>2 DEF BlockListInv, Tiles
      <3>2. C[C[b].next].used = 1
        BY <3>1, <2>1, <1>2 DEF BlockListInv, NoFreeNeighbours
      <3>3. BlockEnd(C, b) \in DOMAIN B
        BY <3>1, <3>2
      <3>4. BlockEnd(B, b) <= BlockEnd(C, b)
        BY <3>3, <1>1, <1>2 DEF BlockListInv, Tiles
      <3> QED
        BY <3>4, <1>1, <1>2
    <2> QED
      BY <2>1, <2>2, <2>3, <1>1, <1>2
  <1>4. CASE B[b].used = 1
    BY <1>4
  <1>5. CASE B[b].used = 0
    <2>1. BlockEnd(B, b) = BlockEnd(C, b)
      BY <1>1, <1>2, <1>3, <1>5
    <2>2. B[b].next = C[b].next
      BY <2>1, <1>2 DEF BlockListInv, Tiles
    <2> QED
      BY <1>1, <1>2, <1>3, <1>5, <2>2
  <1> QED
    BY <1>1, <1>4, <1>5

\* Two heaps with the same live blocks have the same block list.
THEOREM HeapIsCanonical ==
    ASSUME NEW g, HeapOK(g), NEW h, HeapOK(h), Live(g) = Live(h),
           \A c \in Live(h) : g.blocks[c] = h.blocks[c]
    PROVE  g.blocks = h.blocks
  <1> DEFINE B == g.blocks
             C == h.blocks
  <1>1. BlockListInv(B) /\ BlockListInv(C)
    BY DEF HeapOK
  <1>2. /\ \A x \in DOMAIN B : B[x].used = 1 => x \in DOMAIN C /\ C[x] = B[x]
        /\ \A x \in DOMAIN C : C[x].used = 1 => x \in DOMAIN B /\ B[x] = C[x]
    BY DEF Live
  <1> HIDE DEF B, C
  <1>3. \A x \in DOMAIN B : x \in DOMAIN C /\ B[x] = C[x]
    BY <1>1, <1>2, FreeBlockShared
  <1>4. \A x \in DOMAIN C : x \in DOMAIN B
    BY <1>1, <1>2, FreeBlockShared
  <1>5. B \in [DOMAIN B -> Header] /\ C \in [DOMAIN C -> Header]
    BY <1>1 DEF BlockListInv, BlockListTypeOK
  <1>6. B = C
    BY <1>3, <1>4, <1>5
  <1> QED
    BY <1>6 DEF B, C

\* Two heaps with the same live blocks and the same accounting are equal.
LEMMA SameHeap ==
    ASSUME NEW g, HeapOK(g), NEW h, HeapOK(h), Live(g) = Live(h),
           \A c \in Live(h) : g.blocks[c] = h.blocks[c],
           g.memory_used = h.memory_used
    PROVE  g = h
  <1>1. g.blocks = h.blocks
    BY HeapIsCanonical
  <1> QED
    BY <1>1 DEF HeapOK

\* Releasing what was just allocated restores the heap.
LEMMA FreeUndoesGrant ==
    ASSUME NEW h, HeapOK(h), NEW size, NEW r, Granted(h, r, size)
    PROVE  memory_free(r.heap, r.ptr) = h
  <1> DEFINE b == r.ptr - HEADER
             g == memory_free(r.heap, r.ptr)
  <1>1. b \in Live(r.heap) /\ r.ptr = b + HEADER /\ b \notin Live(h)
    BY DEF Granted, HEADER
  <1>2. Freed(r.heap, g, b)
    BY <1>1, FreeOnHeap DEF Granted
  <1>3. r.heap.blocks[b].size \in Int /\ h.memory_used \in Int
    BY <1>1 DEF Granted, HeapOK, BlockListInv, BlockListTypeOK, Header, Live
  <1> HIDE DEF g, b
  <1>4. Live(g) = Live(h) /\ \A c \in Live(h) : g.blocks[c] = h.blocks[c]
    BY <1>1, <1>2 DEF Granted, Freed, b
  <1>5. g.memory_used = h.memory_used
    BY <1>2, <1>3 DEF Granted, Freed, b
  <1>6. g = h
    BY <1>2, <1>4, <1>5, SameHeap DEF Freed
  <1> QED
    BY <1>6 DEF g

\* Releasing through the pointer that was handed out.
LEMMA FreePointer ==
    ASSUME NEW h, HeapOK(h), NEW p \in Nat, p - HEADER \in Live(h)
    PROVE  Freed(h, memory_free(h, p), p - HEADER)
  <1>1. p = (p - HEADER) + HEADER
    BY DEF HEADER
  <1> QED
    BY <1>1, FreeOnHeap

\* The sizes of live blocks are numbers.
LEMMA LiveSizes ==
    ASSUME NEW h, HeapOK(h)
    PROVE  h.memory_used \in Int /\ \A b \in Live(h) : h.blocks[b].size \in Int
  BY DEF HeapOK, BlockListInv, BlockListTypeOK, Header, Live

\* Two grants given back in the order in which they were made.
LEMMA TwoGrantsBack ==
    ASSUME NEW h, HeapOK(h), NEW s1, NEW a, Granted(h, a, s1),
           NEW s2, NEW b, Granted(a.heap, b, s2)
    PROVE  memory_free(memory_free(b.heap, a.ptr), b.ptr) = h
  <1> DEFINE pa == a.ptr - HEADER
             pb == b.ptr - HEADER
             f == memory_free(b.heap, a.ptr)
             g == memory_free(f, b.ptr)
  <1>1. /\ HeapOK(a.heap) /\ HeapOK(b.heap) /\ a.ptr \in Nat /\ b.ptr \in Nat
        /\ pa \notin Live(h) /\ Live(a.heap) = Live(h) \cup {pa}
        /\ \A x \in Live(h) : a.heap.blocks[x] = h.blocks[x]
        /\ a.heap.memory_used = h.memory_used + a.heap.blocks[pa].size
        /\ pb \notin Live(a.heap) /\ Live(b.heap) = Live(a.heap) \cup {pb}
        /\ \A x \in Live(a.heap) : b.heap.blocks[x] = a.heap.blocks[x]
        /\ b.heap.memory_used = a.heap.memory_used + b.heap.blocks[pb].size
    BY DEF Granted
  <1>2. pa \in Live(b.heap)
    BY <1>1
  <1>3. Freed(b.heap, f, pa)
    BY <1>1, <1>2, FreePointer
  <1> HIDE DEF f
  <1>4. pb \in Live(f) /\ HeapOK(f)
    BY <1>1, <1>3 DEF Freed
  <1>5. Freed(f, g, pb)
    BY <1>1, <1>4, FreePointer
  <1>6. /\ a.heap.blocks[pa].size \in Int /\ b.heap.blocks[pb].size \in Int
        /\ h.memory_used \in Int
    BY <1>1, LiveSizes
  <1> HIDE DEF g, pa, pb
  <1>7. Live(g) = Live(h) /\ \A x \in Live(h) : g.blocks[x] = h.blocks[x]
    BY <1>1, <1>3, <1>5 DEF Freed
  <1>8. g.memory_used = h.memory_used
    BY <1>1, <1>2, <1>3, <1>4, <1>5, <1>6 DEF Freed
  <1>9. g = h
    BY <1>5, <1>7, <1>8, SameHeap DEF Freed
  <1> QED
    BY <1>9 DEF f, g

\* Three grants given back in the order second, first, third.
LEMMA ThreeGrantsBack ==
    ASSUME NEW h, HeapOK(h), NEW s1, NEW a, Granted(h, a, s1),
           NEW s2, NEW b, Granted(a.heap, b, s2),
           NEW s3, NEW c, Granted(b.heap, c, s3)
    PROVE  memory_free(memory_free(memory_free(c.heap, b.ptr), a.ptr), c.ptr) = h
  <1> DEFINE pa == a.ptr - HEADER
             pb == b.ptr - HEADER
             pc == c.ptr - HEADER
             e == memory_free(c.heap, b.ptr)
             f == memory_free(e, a.ptr)
             g == memory_free(f, c.ptr)
  <1>1. /\ HeapOK(a.heap) /\ HeapOK(b.heap) /\ HeapOK(c.heap)
        /\ a.ptr \in Nat /\ b.ptr \in Nat /\ c.ptr \in Nat
        /\ pa \notin Live(h) /\ Live(a.heap) = Live(h) \cup {pa}
        /\ \A x \in Live(h) : a.heap.blocks[x] = h.blocks[x]
        /\ a.heap.memory_used = h.memory_used + a.heap.blocks[pa].size
        /\ pb \notin Live(a.heap) /\ Live(b.heap) = Live(a.heap) \cup {pb}
        /\ \A x \in Live(a.heap) : b.heap.blocks[x] = a.heap.blocks[x]
        /\ b.heap.memory_used = a.heap.memory_used + b.heap.blocks[pb].size
        /\ pc \notin Live(b.heap) /\ Live(c.heap) = Live(b.heap) \cup {pc}
        /\ \A x \in Live(b.heap) : c.heap.blocks[x] = b.heap.blocks[x]
        /\ c.heap.memory_used = b.heap.memory_used + c.heap.blocks[pc].size
    BY DEF Granted
  <1>2. /\ a.heap.blocks[pa].size \in Int /\ b.heap.blocks[pb].size \in Int
        /\ c.heap.blocks[pc].size \in Int /\ h.memory_used \in Int
    BY <1>1, LiveSizes
  <1>3. pb \in Live(c.heap)
    BY <1>1
  <1>4. Freed(c.heap, e, pb)
    BY <1>1, <1>3, FreePointer
  <1> HIDE DEF e
  <1>5. pa \in Live(e) /\ HeapOK(e)
    BY <1>1, <1>4 DEF Freed
  <1>6. Freed(e, f, pa)
    BY <1>1, <1>5, FreePointer
  <1> HIDE DEF f
  <1>7. pc \in Live(f) /\ HeapOK(f)
    BY <1>1, <1>4, <1>6 DEF Freed
  <1>8. Freed(f, g, pc)
    BY <1>1, <1>7, FreePointer
  <1> HIDE DEF g, pa, pb, pc
  <1>9. Live(g) = Live(h) /\ \A x \in Live(h) : g.blocks[x] = h.blocks[x]
    BY <1>1, <1>4, <1>6, <1>8 DEF Freed
  <1>10. g.memory_used = h.memory_used
    BY <1>1, <1>2, <1>3, <1>4, <1>5, <1>6, <1>7, <1>8 DEF Freed
  <1>11. g = h
    BY <1>8, <1>9, <1>10, SameHeap DEF Freed
  <1> QED
    BY <1>11 DEF e, f, g
=============================================================================
