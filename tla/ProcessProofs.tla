---------------------------- MODULE ProcessProofs ----------------------------
(***************************************************************************)
(* Proofs about the process table, for every heap, every size of a process *)
(* structure, every set of stack sizes and any number of processes.        *)
(***************************************************************************)
EXTENDS Process, HeapProofs, SequenceTheorems

-----------------------------------------------------------------------------
(* Lists of distinct elements. *)

\* The least of some places is one of them.
LEMMA LeastPlace ==
    ASSUME NEW n \in Nat, NEW I \in SUBSET (1..n), I # {}
    PROVE  Min(I) \in I
  <1>1. PICK i \in I : \A j \in I : i <= j
    BY LeastNatural
  <1> QED
    BY <1>1 DEF Min

\* The scheduler's search returns NULL or a READY process of the list.
LEMMA FirstReadyFound ==
    ASSUME NEW S, NEW P, NEW list \in Seq(S)
    PROVE  \/ FirstReady(P, list) = NULL
           \/ /\ FirstReady(P, list) \in ToSet(list)
              /\ P[FirstReady(P, list)].state = READY
  <1> DEFINE I == {i \in 1..Len(list) : P[list[i]].state = READY}
  <1>1. CASE I = {}
    BY <1>1 DEF FirstReady, SelectInSeq
  <1>2. CASE I # {}
    <2>1. Len(list) \in Nat /\ DOMAIN list = 1..Len(list)
      OBVIOUS
    <2>2. Min(I) \in I
      BY <1>2, <2>1, LeastPlace
    <2> DEFINE k == Min(I)
    <2>3. FirstReady(P, list) = list[k]
      BY <1>2, <2>1, <2>2 DEF FirstReady, SelectInSeq
    <2> HIDE DEF k
    <2>4. k \in 1..Len(list) /\ P[list[k]].state = READY
      BY <2>2 DEF k
    <2> QED
      BY <2>1, <2>3, <2>4 DEF ToSet
  <1> QED
    BY <1>1, <1>2

\* A process of the list is found where it is.
LEMMA PlaceFound ==
    ASSUME NEW S, process_list \in Seq(S), NEW p \in ToSet(process_list)
    PROVE  /\ Place(p) \in 1..Len(process_list)
           /\ process_list[Place(p)] = p
  <1> DEFINE I == {i \in 1..Len(process_list) : process_list[i] = p}
  <1>1. Len(process_list) \in Nat /\ DOMAIN process_list = 1..Len(process_list)
    OBVIOUS
  <1>2. I # {}
    BY <1>1 DEF ToSet
  <1>3. Min(I) \in I
    BY <1>1, <1>2, LeastPlace
  <1>4. Place(p) = Min(I)
    BY <1>2 DEF Place, SelectInSeq
  <1> QED
    BY <1>3, <1>4

\* A new element at the end keeps the elements distinct.
LEMMA Appended ==
    ASSUME NEW S, NEW list \in Seq(S), NEW p \in S,
           IsInjective(list), p \notin ToSet(list)
    PROVE  /\ Append(list, p) \in Seq(S) /\ IsInjective(Append(list, p))
           /\ ToSet(Append(list, p)) = ToSet(list) \cup {p}
  <1> DEFINE L == Append(list, p)
             n == Len(list)
  <1>1. /\ n \in Nat /\ DOMAIN list = 1..n /\ DOMAIN L = 1..(n + 1)
        /\ L \in Seq(S) /\ L[n + 1] = p /\ \A i \in 1..n : L[i] = list[i]
    OBVIOUS
  <1> HIDE DEF L, n
  <1>2. 1..(n + 1) = (1..n) \cup {n + 1}
    BY <1>1
  <1>3. IsInjective(L)
    BY <1>1, <1>2 DEF IsInjective, ToSet
  <1>4. ToSet(L) = ToSet(list) \cup {p}
    BY <1>1, <1>2 DEF ToSet
  <1> QED
    BY <1>1, <1>3, <1>4 DEF L

\* Unlinking an element removes it and nothing else.
LEMMA Unlinked ==
    ASSUME NEW S, NEW list \in Seq(S), IsInjective(list), NEW i \in 1..Len(list)
    PROVE  /\ RemoveAt(list, i) \in Seq(S) /\ IsInjective(RemoveAt(list, i))
           /\ ToSet(RemoveAt(list, i)) = ToSet(list) \ {list[i]}
  <1> DEFINE n == Len(list)
             front == SubSeq(list, 1, i - 1)
             back == SubSeq(list, i + 1, n)
             L == RemoveAt(list, i)
  <1>1. /\ n \in Nat /\ DOMAIN list = 1..n /\ i \in 1..n
        /\ \A k \in 1..n : list[k] \in S
    OBVIOUS
  <1> HIDE DEF n
  <1>2. front \in Seq(S) /\ Len(front) = i - 1 /\ \A k \in 1..(i - 1) : front[k] = list[k]
    <2>1. \A k \in 1..(i - 1) : list[k] \in S
      BY <1>1
    <2>2. /\ front \in Seq(S)
          /\ Len(front) = IF 1 <= i - 1 THEN (i - 1) - 1 + 1 ELSE 0
          /\ \A k \in 1..((i - 1) - 1 + 1) : front[k] = list[1 + k - 1]
      BY <1>1, <2>1, SubSeqProperties
    <2> QED
      BY <1>1, <2>2
  <1>3. back \in Seq(S) /\ Len(back) = n - i /\ \A k \in 1..(n - i) : back[k] = list[i + k]
    <2>1. \A k \in (i + 1)..n : list[k] \in S
      BY <1>1
    <2>2. /\ back \in Seq(S)
          /\ Len(back) = IF i + 1 <= n THEN n - (i + 1) + 1 ELSE 0
          /\ \A k \in 1..(n - (i + 1) + 1) : back[k] = list[(i + 1) + k - 1]
      BY <1>1, <2>1, SubSeqProperties
    <2>3. n - (i + 1) + 1 = n - i /\ \A k \in 1..(n - i) : (i + 1) + k - 1 = i + k
      BY <1>1
    <2> QED
      BY <1>1, <2>2, <2>3
  <1>4. L = front \o back
    BY DEF RemoveAt, n
  <1> HIDE DEF front, back, L
  <1>5. /\ L \in Seq(S) /\ DOMAIN L = 1..(n - 1)
        /\ \A k \in 1..(n - 1) : L[k] = IF k < i THEN list[k] ELSE list[k + 1]
    <2>1. /\ L \in Seq(S) /\ Len(L) = (i - 1) + (n - i)
          /\ \A k \in 1..((i - 1) + (n - i)) :
                L[k] = IF k <= i - 1 THEN front[k] ELSE back[k - (i - 1)]
      BY <1>2, <1>3, <1>4, ConcatProperties
    <2>2. (i - 1) + (n - i) = n - 1
      BY <1>1
    <2>3. DOMAIN L = 1..(n - 1)
      BY <2>1, <2>2
    <2>4. ASSUME NEW k \in 1..(n - 1), k < i PROVE L[k] = list[k]
      BY <1>1, <1>2, <2>1, <2>2, <2>4
    <2>5. ASSUME NEW k \in 1..(n - 1), ~(k < i) PROVE L[k] = list[k + 1]
      <3>1. k - (i - 1) \in 1..(n - i) /\ i + (k - (i - 1)) = k + 1 /\ ~(k <= i - 1)
        BY <1>1, <2>5
      <3>2. back[k - (i - 1)] = list[k + 1]
        BY <1>3, <3>1
      <3> QED
        BY <2>1, <2>2, <3>1, <3>2
    <2> QED
      BY <2>1, <2>3, <2>4, <2>5
  <1>6. IsInjective(L)
    <2> SUFFICES ASSUME NEW j \in 1..(n - 1), NEW k \in 1..(n - 1), L[j] = L[k]
                 PROVE  j = k
      BY <1>5 DEF IsInjective
    <2>1. j \in 1..n /\ j + 1 \in 1..n /\ k \in 1..n /\ k + 1 \in 1..n
      BY <1>1
    <2>2. \A x, y \in 1..n : list[x] = list[y] => x = y
      BY <1>1 DEF IsInjective
    <2>3. /\ L[j] = IF j < i THEN list[j] ELSE list[j + 1]
          /\ L[k] = IF k < i THEN list[k] ELSE list[k + 1]
      BY <1>5
    <2> DEFINE x == IF j < i THEN j ELSE j + 1
               y == IF k < i THEN k ELSE k + 1
    <2>4. x \in 1..n /\ y \in 1..n /\ L[j] = list[x] /\ L[k] = list[y]
      BY <2>1, <2>3
    <2>5. x = y
      BY <2>2, <2>4
    <2> QED
      BY <1>1, <2>5
  <1>7. ToSet(L) \subseteq ToSet(list) \ {list[i]}
    <2> SUFFICES ASSUME NEW k \in 1..(n - 1)
                 PROVE  L[k] \in ToSet(list) /\ L[k] # list[i]
      BY <1>5 DEF ToSet
    <2> DEFINE x == IF k < i THEN k ELSE k + 1
    <2>1. x \in 1..n /\ x # i
      BY <1>1
    <2>2. L[k] = list[x]
      BY <1>5
    <2> HIDE DEF x
    <2>3. list[x] \in ToSet(list)
      BY <1>1, <2>1 DEF ToSet
    <2>4. list[x] # list[i]
      BY <1>1, <2>1 DEF IsInjective
    <2> QED
      BY <2>2, <2>3, <2>4
  <1>8. ASSUME NEW k \in 1..n, k # i PROVE list[k] \in ToSet(L)
    <2>1. CASE k < i
      <3>1. k \in 1..(n - 1) /\ L[k] = list[k]
        BY <1>1, <1>5, <2>1
      <3> QED
        BY <3>1, <1>5 DEF ToSet
    <2>2. CASE k > i
      <3>1. k - 1 \in 1..(n - 1) /\ L[k - 1] = list[k]
        BY <1>1, <1>5, <2>2
      <3> QED
        BY <3>1, <1>5 DEF ToSet
    <2> QED
      BY <2>1, <2>2, <1>1, <1>8
  <1>9. ToSet(list) \ {list[i]} \subseteq ToSet(L)
    BY <1>1, <1>8 DEF ToSet
  <1> QED
    BY <1>5, <1>6, <1>7, <1>9 DEF L
-----------------------------------------------------------------------------
(* The heap blocks of the process table. *)

Entry == [pid : Int, state : {READY, RUNNING}, stack : Nat, stack_size : Nat]

\* The structures and stacks of table P are live blocks of heap h, large enough
\* and no two of them the same, and every live block is one of them.
TableOwns(P, h) ==
    /\ DOMAIN P \subseteq Nat /\ P \in [DOMAIN P -> Entry]
    /\ \A p \in DOMAIN P :
          /\ p - HEADER \in Live(h) /\ h.blocks[p - HEADER].size >= PROCESS_SIZE
          /\ P[p].stack - HEADER \in Live(h)
          /\ h.blocks[P[p].stack - HEADER].size >= P[p].stack_size
    /\ \A p, q \in DOMAIN P : P[p].stack # q
    /\ \A p, q \in DOMAIN P : P[p].stack = P[q].stack => p = q
    /\ \A b \in Live(h) : b + HEADER \in DOMAIN P
                          \/ \E p \in DOMAIN P : P[p].stack = b + HEADER

\* The inductive invariant.
IInv ==
    /\ HeapOK(heap) /\ TableOwns(procs, heap)
    /\ process_list \in Seq(Nat) /\ NoDanglingProcess
    /\ next_pid \in Int /\ current_process \in Nat

\* Live blocks lie above address 0.
LEMMA LiveAddresses ==
    ASSUME NEW h, HeapOK(h)
    PROVE  \A b \in Live(h) : b \in Nat /\ b > 0 /\ h.blocks[b].size \in Nat
  BY LayoutAssumption DEF HeapOK, BlockListInv, BlockListTypeOK, Header, Live

\* A process is never at the null pointer.
LEMMA NotNull ==
    ASSUME NEW h, HeapOK(h), NEW P, TableOwns(P, h)
    PROVE  NULL \notin DOMAIN P
  <1> SUFFICES ASSUME NULL \in DOMAIN P PROVE FALSE
    OBVIOUS
  <1>1. 0 - HEADER \in Live(h)
    BY DEF TableOwns, NULL
  <1> QED
    BY <1>1, LiveAddresses DEF HEADER

\* A new process owns the two blocks it was granted.
LEMMA TableGrows ==
    ASSUME NEW h, HeapOK(h), NEW P, TableOwns(P, h), NEW size \in Nat,
           NEW a, Granted(h, a, PROCESS_SIZE), NEW s, Granted(a.heap, s, size),
           NEW pid \in Int
    PROVE  LET Q == [p \in DOMAIN P \cup {a.ptr} |->
                       IF p = a.ptr THEN [pid |-> pid, state |-> READY,
                                          stack |-> s.ptr, stack_size |-> size]
                       ELSE P[p]]
           IN  a.ptr \notin DOMAIN P /\ HeapOK(s.heap) /\ TableOwns(Q, s.heap)
  <1> DEFINE Q == [p \in DOMAIN P \cup {a.ptr} |->
                       IF p = a.ptr THEN [pid |-> pid, state |-> READY,
                                          stack |-> s.ptr, stack_size |-> size]
                       ELSE P[p]]
             pa == a.ptr - HEADER
             ps == s.ptr - HEADER
             g == s.heap
  <1>1. /\ HeapOK(g) /\ a.ptr \in Nat /\ s.ptr \in Nat
        /\ pa \notin Live(h) /\ ps \notin Live(h) /\ pa # ps
        /\ Live(g) = Live(h) \cup {pa, ps}
        /\ \A b \in Live(h) : g.blocks[b] = h.blocks[b]
        /\ g.blocks[pa].size >= PROCESS_SIZE /\ g.blocks[ps].size >= size
    BY DEF Granted
  <1> HIDE DEF g
  <1>2. a.ptr # s.ptr /\ pa + HEADER = a.ptr /\ ps + HEADER = s.ptr
    BY <1>1 DEF HEADER
  <1>3. \A p \in DOMAIN P : p # a.ptr /\ p # s.ptr /\ P[p].stack # a.ptr /\ P[p].stack # s.ptr
    BY <1>1 DEF TableOwns
  <1>4. /\ DOMAIN Q = DOMAIN P \cup {a.ptr}
        /\ Q[a.ptr] = [pid |-> pid, state |-> READY, stack |-> s.ptr, stack_size |-> size]
        /\ \A p \in DOMAIN P : Q[p] = P[p]
    BY <1>3
  <1>5. Q \in [DOMAIN Q -> Entry]
    <2>1. Q[a.ptr] \in Entry
      BY <1>1, <1>4 DEF Entry
    <2>2. \A p \in DOMAIN P : Q[p] \in Entry
      BY <1>4 DEF TableOwns
    <2> QED
      BY <1>4, <2>1, <2>2
  <1> HIDE DEF Q
  <1>6. DOMAIN Q \subseteq Nat
    BY <1>1, <1>4 DEF TableOwns
  <1>7. \A p \in DOMAIN Q :
           /\ p - HEADER \in Live(g) /\ g.blocks[p - HEADER].size >= PROCESS_SIZE
           /\ Q[p].stack - HEADER \in Live(g)
           /\ g.blocks[Q[p].stack - HEADER].size >= Q[p].stack_size
    BY <1>1, <1>4 DEF TableOwns
  <1>8. \A p, q \in DOMAIN Q : Q[p].stack # q
    BY <1>2, <1>3, <1>4 DEF TableOwns
  <1>9. \A p, q \in DOMAIN Q : Q[p].stack = Q[q].stack => p = q
    BY <1>2, <1>3, <1>4 DEF TableOwns
  <1>10. ASSUME NEW b \in Live(g)
         PROVE  b + HEADER \in DOMAIN Q \/ \E p \in DOMAIN Q : Q[p].stack = b + HEADER
    <2>1. CASE b = pa
      BY <1>2, <1>4, <2>1
    <2>2. CASE b = ps
      BY <1>2, <1>4, <2>2
    <2>3. CASE b \in Live(h)
      BY <1>4, <2>3 DEF TableOwns
    <2> QED
      BY <1>1, <2>1, <2>2, <2>3
  <1>11. TableOwns(Q, g)
    BY <1>5, <1>6, <1>7, <1>8, <1>9, <1>10 DEF TableOwns
  <1> QED
    BY <1>1, <1>3, <1>11 DEF Q, g

\* Giving stack and structure of a process back leaves the other processes
\* what they own, and nothing besides.
LEMMA TableShrinks ==
    ASSUME NEW h, HeapOK(h), NEW P, TableOwns(P, h), NEW c \in DOMAIN P
    PROVE  LET g == memory_free(memory_free(h, P[c].stack), c)
               Q == [q \in DOMAIN P \ {c} |-> P[q]]
           IN  HeapOK(g) /\ TableOwns(Q, g)
  <1> DEFINE f == memory_free(h, P[c].stack)
             g == memory_free(f, c)
             Q == [q \in DOMAIN P \ {c} |-> P[q]]
             ps == P[c].stack - HEADER
             pc == c - HEADER
  <1>1. /\ c \in Nat /\ P[c].stack \in Nat /\ ps \in Live(h) /\ pc \in Live(h)
        /\ P[c].stack # c
    BY DEF TableOwns, Entry
  <1>2. Freed(h, f, ps)
    BY <1>1, FreePointer
  <1>3. ps # pc /\ ps + HEADER = P[c].stack /\ pc + HEADER = c
    BY <1>1 DEF HEADER
  <1> HIDE DEF f
  <1>4. HeapOK(f) /\ pc \in Live(f)
    BY <1>1, <1>2, <1>3 DEF Freed
  <1>5. Freed(f, g, pc)
    BY <1>1, <1>4, FreePointer
  <1> HIDE DEF g
  <1>6. /\ HeapOK(g) /\ Live(g) = Live(h) \ {ps, pc}
        /\ \A b \in Live(g) : g.blocks[b] = h.blocks[b]
    BY <1>2, <1>5 DEF Freed
  <1>7. /\ DOMAIN Q = DOMAIN P \ {c} /\ \A q \in DOMAIN Q : Q[q] = P[q]
        /\ Q \in [DOMAIN Q -> Entry] /\ DOMAIN Q \subseteq Nat
    BY DEF TableOwns
  <1> HIDE DEF Q
  <1>8. ASSUME NEW q \in DOMAIN Q
        PROVE  /\ q - HEADER # ps /\ q - HEADER # pc
               /\ Q[q].stack - HEADER # ps /\ Q[q].stack - HEADER # pc
    <2>1. q \in Nat /\ q \in DOMAIN P /\ Q[q] = P[q] /\ P[q].stack \in Nat /\ q # c
      BY <1>7 DEF TableOwns, Entry
    <2>2. /\ q # P[c].stack /\ P[q].stack # P[c].stack /\ P[q].stack # c
      BY <2>1 DEF TableOwns
    <2> QED
      BY <1>1, <2>1, <2>2 DEF HEADER
  <1>9. \A q \in DOMAIN Q :
           /\ q - HEADER \in Live(g) /\ g.blocks[q - HEADER].size >= PROCESS_SIZE
           /\ Q[q].stack - HEADER \in Live(g)
           /\ g.blocks[Q[q].stack - HEADER].size >= Q[q].stack_size
    BY <1>6, <1>7, <1>8 DEF TableOwns
  <1>10. /\ \A p, q \in DOMAIN Q : Q[p].stack # q
         /\ \A p, q \in DOMAIN Q : Q[p].stack = Q[q].stack => p = q
    BY <1>7 DEF TableOwns
  <1>11. ASSUME NEW b \in Live(g)
         PROVE  b + HEADER \in DOMAIN Q \/ \E q \in DOMAIN Q : Q[q].stack = b + HEADER
    <2>1. b \in Live(h) /\ b # ps /\ b # pc /\ b \in Nat
      BY <1>6, LiveAddresses
    <2>2. b + HEADER # c /\ b + HEADER # P[c].stack
      BY <1>1, <2>1 DEF HEADER
    <2> QED
      BY <1>7, <2>1, <2>2 DEF TableOwns
  <1>12. TableOwns(Q, g)
    BY <1>7, <1>9, <1>10, <1>11 DEF TableOwns
  <1> QED
    BY <1>6, <1>12 DEF f, g, Q

\* A change of state touches neither structure nor stack.
LEMMA TableKeeps ==
    ASSUME NEW h, NEW P, TableOwns(P, h), NEW c \in DOMAIN P, NEW s \in {READY, RUNNING}
    PROVE  /\ TableOwns(WithState(P, c, s), h)
           /\ DOMAIN WithState(P, c, s) = DOMAIN P
           /\ WithState(P, c, s)[c].state = s
           /\ \A p \in DOMAIN P \ {c} : WithState(P, c, s)[p] = P[p]
  <1> DEFINE Q == WithState(P, c, s)
  <1>1. P[c] \in Entry /\ P \in [DOMAIN P -> Entry]
    BY DEF TableOwns
  <1>2. /\ DOMAIN Q = DOMAIN P /\ Q[c] = [P[c] EXCEPT !.state = s]
        /\ \A p \in DOMAIN P \ {c} : Q[p] = P[p]
    BY <1>1 DEF WithState
  <1>3. /\ Q[c] \in Entry /\ Q[c].state = s /\ Q[c].stack = P[c].stack
        /\ Q[c].stack_size = P[c].stack_size
    BY <1>1, <1>2 DEF Entry
  <1>4. Q \in [DOMAIN P -> Entry]
    <2>1. Q = [p \in DOMAIN P |-> Q[p]]
      BY <1>1 DEF WithState
    <2> HIDE DEF Q
    <2>2. \A p \in DOMAIN P : Q[p] \in Entry
      BY <1>1, <1>2, <1>3
    <2> QED
      BY <2>1, <2>2
  <1> HIDE DEF Q
  <1>5. \A p \in DOMAIN P : Q[p].stack = P[p].stack /\ Q[p].stack_size = P[p].stack_size
    BY <1>2, <1>3
  <1>6. TableOwns(Q, h)
    BY <1>2, <1>4, <1>5 DEF TableOwns
  <1> QED
    BY <1>2, <1>3, <1>6 DEF Q
-----------------------------------------------------------------------------
(* The operations. *)

Consistent(P, L, c) ==
    /\ ToSet(L) = DOMAIN P /\ IsInjective(L)
    /\ c # NULL => c \in DOMAIN P /\ P[c].state = RUNNING

StrandedIn(P, c) == {p \in DOMAIN P : P[p].state = RUNNING /\ p # c}

LEMMA InvariantReads ==
    /\ NoDanglingProcess <=> Consistent(procs, process_list, current_process)
    /\ Stranded = StrandedIn(procs, current_process)
  BY DEF NoDanglingProcess, Consistent, Stranded, StrandedIn

\* The same in the state after a step.
LEMMA InvariantReadsNext ==
    /\ NoDanglingProcess' <=> Consistent(procs', process_list', current_process')
    /\ Stranded' = StrandedIn(procs', current_process')
  BY DEF NoDanglingProcess, Consistent, Stranded, StrandedIn

\* Running the scheduler on a consistent table leaves it consistent, and strands
\* nobody: it dispatches only when no process is current.
LEMMA ScheduleKeeps ==
    ASSUME NEW h, HeapOK(h), NEW P, TableOwns(P, h), NEW L \in Seq(Nat), NEW c \in Nat,
           Consistent(P, L, c), Schedule(P, L, c)
    PROVE  /\ TableOwns(procs', h) /\ process_list' = L /\ current_process' \in Nat
           /\ Consistent(procs', L, current_process')
           /\ StrandedIn(procs', current_process') = StrandedIn(P, c)
  <1> DEFINE next == IF c # NULL /\ P[c].state = RUNNING THEN NULL ELSE FirstReady(P, L)
  <1>1. /\ process_list' = L
        /\ procs' = IF next = NULL THEN P ELSE WithState(P, next, RUNNING)
        /\ current_process' = IF next = NULL THEN c ELSE next
    BY DEF Schedule
  <1>2. CASE next = NULL
    BY <1>1, <1>2
  <1>3. CASE next # NULL
    <2>1. c = NULL /\ next = FirstReady(P, L)
      BY <1>3 DEF Consistent
    <2>2. next \in DOMAIN P /\ P[next].state = READY
      BY <1>3, <2>1, FirstReadyFound DEF Consistent
    <2> HIDE DEF next
    <2>3. /\ TableOwns(procs', h) /\ DOMAIN procs' = DOMAIN P
          /\ procs'[next].state = RUNNING
          /\ \A p \in DOMAIN P \ {next} : procs'[p] = P[p]
      BY <1>1, <1>3, <2>2, TableKeeps
    <2>4. current_process' = next /\ next \in Nat
      BY <1>1, <1>3, <2>2 DEF TableOwns
    <2>5. Consistent(procs', L, current_process')
      BY <2>2, <2>3, <2>4 DEF Consistent
    <2>6. NULL \notin DOMAIN P
      BY NotNull
    <2>7. StrandedIn(procs', next) = StrandedIn(P, c)
      BY <2>1, <2>2, <2>3, <2>6 DEF StrandedIn, READY, RUNNING
    <2> QED
      BY <1>1, <2>3, <2>4, <2>5, <2>7
  <1> QED
    BY <1>2, <1>3

LEMMA InitIInv == Init => IInv
  <1> SUFFICES ASSUME Init PROVE IInv
    OBVIOUS
  <1>1. /\ HeapOK(heap) /\ Live(heap) = {}
    BY FreshHeap DEF Init
  <1>2. procs = [p \in {} |-> 0] /\ process_list = <<>> /\ current_process = NULL
    BY DEF Init
  <1>3. TableOwns(procs, heap)
    BY <1>1, <1>2 DEF TableOwns
  <1>4. NoDanglingProcess
    BY <1>2 DEF NoDanglingProcess, ToSet, IsInjective
  <1> QED
    BY <1>1, <1>2, <1>3, <1>4 DEF IInv, Init, NULL

LEMMA CreateStep ==
    ASSUME IInv, NEW size \in StackSizes, process_create(size)
    PROVE  IInv' /\ Stranded' = Stranded
  <1> DEFINE a == memory_alloc(heap, PROCESS_SIZE)
             s == memory_alloc(a.heap, size)
  <1>1. PROCESS_SIZE \in 0..(WORD - 4) /\ size \in 0..(WORD - 4)
    BY ProcessAssumption, LayoutAssumption
  <1>2. IF a.ptr = NULL THEN a.heap = heap ELSE Granted(heap, a, PROCESS_SIZE)
    BY <1>1, AllocOnHeap DEF IInv
  <1>3. HeapOK(a.heap)
    BY <1>2 DEF Granted, IInv
  <1>4. \/ UNCHANGED vars
        \/ /\ a.ptr # NULL /\ s.ptr = NULL /\ heap' = memory_free(s.heap, a.ptr)
           /\ UNCHANGED <<procs, process_list, current_process, next_pid>>
        \/ /\ a.ptr # NULL /\ s.ptr # NULL
           /\ Listed(a, s, size, Append(process_list, a.ptr))
    BY DEF process_create
  <1> HIDE DEF a
  <1>5. IF s.ptr = NULL THEN s.heap = a.heap ELSE Granted(a.heap, s, size)
    BY <1>1, <1>3, AllocOnHeap
  <1> HIDE DEF s
  <1>6. CASE UNCHANGED vars
    BY <1>6 DEF vars, IInv, NoDanglingProcess, Stranded
  <1>7. CASE /\ a.ptr # NULL /\ s.ptr = NULL /\ heap' = memory_free(s.heap, a.ptr)
             /\ UNCHANGED <<procs, process_list, current_process, next_pid>>
    <2>1. heap' = heap
      BY <1>2, <1>5, <1>7, FreeUndoesGrant DEF IInv
    <2> QED
      BY <1>7, <2>1 DEF IInv, NoDanglingProcess, Stranded
  <1>8. CASE /\ a.ptr # NULL /\ s.ptr # NULL
             /\ Listed(a, s, size, Append(process_list, a.ptr))
    <2>1. /\ heap' = s.heap
          /\ procs' = [p \in DOMAIN procs \cup {a.ptr} |->
                         IF p = a.ptr THEN [pid |-> next_pid, state |-> READY,
                                            stack |-> s.ptr, stack_size |-> size]
                         ELSE procs[p]]
          /\ process_list' = Append(process_list, a.ptr)
          /\ next_pid' = next_pid + 1 /\ current_process' = current_process
      BY <1>8 DEF Listed
    <2>2. Granted(heap, a, PROCESS_SIZE) /\ Granted(a.heap, s, size) /\ size \in Nat
      BY <1>1, <1>2, <1>5, <1>8
    <2>3. a.ptr \notin DOMAIN procs /\ HeapOK(heap') /\ TableOwns(procs', heap')
      <3> DEFINE Q == [p \in DOMAIN procs \cup {a.ptr} |->
                         IF p = a.ptr THEN [pid |-> next_pid, state |-> READY,
                                            stack |-> s.ptr, stack_size |-> size]
                         ELSE procs[p]]
      <3>1. HeapOK(heap) /\ TableOwns(procs, heap) /\ next_pid \in Int
        BY DEF IInv
      <3>2. a.ptr \notin DOMAIN procs /\ HeapOK(s.heap) /\ TableOwns(Q, s.heap)
        BY <2>2, <3>1, TableGrows
      <3> QED
        BY <2>1, <3>2
    <2>4. /\ process_list' \in Seq(Nat) /\ IsInjective(process_list')
          /\ ToSet(process_list') = ToSet(process_list) \cup {a.ptr}
      <3>1. a.ptr \in Nat
        BY <2>2 DEF Granted
      <3> QED
        BY <2>1, <2>3, <3>1, Appended DEF IInv, NoDanglingProcess
    <2>5. /\ DOMAIN procs' = DOMAIN procs \cup {a.ptr}
          /\ procs'[a.ptr].state = READY
          /\ \A p \in DOMAIN procs : procs'[p] = procs[p]
      BY <2>1, <2>3
    <2>6. NoDanglingProcess'
      BY <2>1, <2>4, <2>5 DEF IInv, NoDanglingProcess
    <2>7. Stranded' = Stranded
      BY <2>1, <2>3, <2>5 DEF Stranded, READY, RUNNING
    <2> QED
      BY <2>1, <2>3, <2>4, <2>6, <2>7 DEF IInv
  <1> QED
    BY <1>4, <1>6, <1>7, <1>8

LEMMA StartStep ==
    ASSUME IInv, NEW p \in DOMAIN procs, process_start(p)
    PROVE  IInv' /\ Stranded \subseteq Stranded'
  <1>1. /\ procs[p].state = READY /\ procs' = WithState(procs, p, RUNNING)
        /\ current_process' = p
        /\ heap' = heap /\ process_list' = process_list /\ next_pid' = next_pid
    BY DEF process_start
  <1>2. /\ TableOwns(procs', heap) /\ DOMAIN procs' = DOMAIN procs
        /\ procs'[p].state = RUNNING
        /\ \A q \in DOMAIN procs \ {p} : procs'[q] = procs[q]
    BY <1>1, TableKeeps DEF IInv
  <1>3. NoDanglingProcess'
    BY <1>1, <1>2 DEF IInv, NoDanglingProcess
  <1>4. Stranded \subseteq Stranded'
    BY <1>1, <1>2 DEF Stranded, READY, RUNNING
  <1>5. p \in Nat
    BY DEF IInv, TableOwns
  <1> QED
    BY <1>1, <1>2, <1>3, <1>4, <1>5 DEF IInv

LEMMA YieldStep ==
    ASSUME IInv, process_yield
    PROVE  IInv' /\ Stranded' = Stranded
  <1> DEFINE c == current_process
             behind == SubSeq(process_list, Place(c) + 1, Len(process_list))
             after == FirstReady(procs, behind)
             next == IF after # NULL THEN after ELSE FirstReady(procs, process_list)
  <1>1. /\ c # NULL /\ next # NULL /\ next # c
        /\ procs' = WithState(WithState(procs, c, READY), next, RUNNING)
        /\ current_process' = next
        /\ heap' = heap /\ process_list' = process_list /\ next_pid' = next_pid
    BY DEF process_yield
  <1>2. /\ c \in DOMAIN procs /\ procs[c].state = RUNNING
        /\ ToSet(process_list) = DOMAIN procs /\ process_list \in Seq(Nat)
    BY <1>1 DEF IInv, NoDanglingProcess
  <1>3. behind \in Seq(Nat) /\ ToSet(behind) \subseteq ToSet(process_list)
    <2> DEFINE m == Place(c) + 1
               n == Len(process_list)
    <2>1. m \in Int /\ n \in Nat /\ m >= 1 /\ DOMAIN process_list = 1..n
      BY <1>2, PlaceFound
    <2> HIDE DEF m, n
    <2>2. \A i \in m..n : i \in DOMAIN process_list /\ process_list[i] \in Nat
      BY <1>2, <2>1
    <2>3. /\ behind \in Seq(Nat)
          /\ Len(behind) = IF m <= n THEN n - m + 1 ELSE 0
          /\ \A i \in 1..(n - m + 1) : behind[i] = process_list[m + i - 1]
      BY <2>1, <2>2, SubSeqProperties DEF m, n
    <2> HIDE DEF behind
    <2>4. ASSUME NEW i \in DOMAIN behind PROVE behind[i] \in ToSet(process_list)
      <3>1. i \in 1..(n - m + 1)
        BY <2>1, <2>3
      <3>2. m + i - 1 \in m..n
        BY <2>1, <3>1
      <3> QED
        BY <2>2, <2>3, <3>1, <3>2 DEF ToSet
    <2> QED
      BY <2>3, <2>4 DEF ToSet
  <1>4. next \in DOMAIN procs /\ procs[next].state = READY
    <2>1. CASE after # NULL
      BY <1>2, <1>3, <2>1, FirstReadyFound
    <2>2. CASE after = NULL
      BY <1>1, <1>2, <2>2, FirstReadyFound
    <2> QED
      BY <2>1, <2>2
  <1> HIDE DEF next
  <1> DEFINE Q == WithState(procs, c, READY)
  <1>5. /\ TableOwns(Q, heap) /\ DOMAIN Q = DOMAIN procs /\ Q[c].state = READY
        /\ \A p \in DOMAIN procs \ {c} : Q[p] = procs[p]
    BY <1>2, TableKeeps DEF IInv
  <1>6. procs' = WithState(Q, next, RUNNING)
    BY <1>1
  <1> HIDE DEF Q
  <1>7. /\ TableOwns(procs', heap) /\ DOMAIN procs' = DOMAIN Q
        /\ procs'[next].state = RUNNING
        /\ \A p \in DOMAIN Q \ {next} : procs'[p] = Q[p]
    <2>1. next \in DOMAIN Q /\ RUNNING \in {READY, RUNNING}
      BY <1>4, <1>5
    <2>2. /\ TableOwns(WithState(Q, next, RUNNING), heap)
          /\ DOMAIN WithState(Q, next, RUNNING) = DOMAIN Q
          /\ WithState(Q, next, RUNNING)[next].state = RUNNING
          /\ \A p \in DOMAIN Q \ {next} : WithState(Q, next, RUNNING)[p] = Q[p]
      BY <1>5, <2>1, TableKeeps
    <2> QED
      BY <1>6, <2>2
  <1>8. NoDanglingProcess'
    BY <1>1, <1>2, <1>4, <1>5, <1>7 DEF IInv, NoDanglingProcess
  <1>9. Stranded' = Stranded
    BY <1>1, <1>2, <1>4, <1>5, <1>7 DEF Stranded, READY, RUNNING
  <1>10. next \in Nat
    BY <1>4 DEF IInv, TableOwns
  <1> QED
    BY <1>1, <1>7, <1>8, <1>9, <1>10 DEF IInv

LEMMA ScheduleStep ==
    ASSUME IInv, process_schedule
    PROVE  IInv' /\ Stranded' = Stranded
  <1>1. /\ Schedule(procs, process_list, current_process)
        /\ heap' = heap /\ next_pid' = next_pid
    BY DEF process_schedule
  <1>2. Consistent(procs, process_list, current_process)
    BY InvariantReads DEF IInv
  <1>3. /\ TableOwns(procs', heap) /\ process_list' = process_list
        /\ current_process' \in Nat
        /\ Consistent(procs', process_list, current_process')
        /\ StrandedIn(procs', current_process') = StrandedIn(procs, current_process)
    BY <1>1, <1>2, ScheduleKeeps DEF IInv
  <1> QED
    BY <1>1, <1>3, InvariantReads, InvariantReadsNext DEF IInv

LEMMA ExitStep ==
    ASSUME IInv, process_exit
    PROVE  IInv' /\ Stranded' = Stranded
  <1> DEFINE c == current_process
             g == memory_free(memory_free(heap, procs[c].stack), c)
             P == Without(c)
             L == RemoveAt(process_list, Place(c))
  <1>1. /\ c # NULL /\ heap' = g /\ Schedule(P, L, NULL) /\ next_pid' = next_pid
    BY DEF process_exit
  <1>2. c \in DOMAIN procs /\ c \in ToSet(process_list) /\ process_list \in Seq(Nat)
        /\ ToSet(process_list) = DOMAIN procs /\ IsInjective(process_list)
    BY <1>1 DEF IInv, NoDanglingProcess
  <1>3. HeapOK(g) /\ TableOwns(P, g)
    BY <1>2, TableShrinks DEF IInv, Without
  <1>4. L \in Seq(Nat) /\ IsInjective(L) /\ ToSet(L) = ToSet(process_list) \ {c}
    BY <1>2, PlaceFound, Unlinked
  <1>5. DOMAIN P = DOMAIN procs \ {c} /\ \A p \in DOMAIN P : P[p] = procs[p]
    BY DEF Without
  <1> HIDE DEF g, P, L
  <1>6. Consistent(P, L, NULL) /\ NULL \in Nat
    BY <1>2, <1>4, <1>5 DEF Consistent, NULL
  <1>7. /\ TableOwns(procs', g) /\ process_list' = L /\ current_process' \in Nat
        /\ Consistent(procs', L, current_process')
        /\ StrandedIn(procs', current_process') = StrandedIn(P, NULL)
    BY <1>1, <1>3, <1>4, <1>6, ScheduleKeeps
  <1>8. NULL \notin DOMAIN procs
    BY NotNull DEF IInv
  <1>9. StrandedIn(P, NULL) = StrandedIn(procs, c)
    BY <1>5, <1>8 DEF StrandedIn
  <1> QED
    BY <1>1, <1>3, <1>4, <1>7, <1>9, InvariantReads, InvariantReadsNext DEF IInv

LEMMA StepIInv ==
    ASSUME IInv, [Next]_vars
    PROVE  /\ IInv' /\ Stranded \subseteq Stranded'
           /\ process_yield \/ process_schedule \/ process_exit \/ UNCHANGED vars
              => Stranded' = Stranded
  <1>1. ASSUME UNCHANGED vars PROVE IInv' /\ Stranded' = Stranded
    BY <1>1 DEF vars, IInv, NoDanglingProcess, Stranded
  <1>2. ASSUME NEW size \in StackSizes, process_create(size)
        PROVE  IInv' /\ Stranded' = Stranded
    BY <1>2, CreateStep
  <1>3. ASSUME NEW p \in DOMAIN procs, process_start(p)
        PROVE  IInv' /\ Stranded \subseteq Stranded'
    BY <1>3, StartStep
  <1> QED
    BY <1>1, <1>2, <1>3, YieldStep, ScheduleStep, ExitStep DEF Next

-----------------------------------------------------------------------------
(* The theorems. *)

\* The invariant is inductive.
THEOREM ProcessInvariant == Spec => []IInv
  <1>1. IInv /\ [Next]_vars => IInv'
    BY StepIInv
  <1> QED
    BY <1>1, InitIInv, PTL DEF Spec

\* The list and the current process never point to freed memory.
THEOREM NoDanglingProcessCorrect == Spec => []NoDanglingProcess
  <1>1. IInv => NoDanglingProcess
    BY DEF IInv
  <1> QED
    BY <1>1, ProcessInvariant, PTL

\* No operation, failing or not, loses or shares a heap block.
THEOREM ProcessesOwnHeapCorrect == Spec => []ProcessesOwnHeap
  <1>1. IInv => ProcessesOwnHeap
    <2> SUFFICES ASSUME IInv PROVE OwnUsedBlocks(OwnedBlocks, heap)
      BY DEF ProcessesOwnHeap
    <2> DEFINE O == OwnedBlocks
               Stacks == {procs[q].stack : q \in DOMAIN procs}
    <2>1. TableOwns(procs, heap)
      BY DEF IInv
    <2>2. /\ DOMAIN O = DOMAIN procs \cup Stacks
          /\ \A p \in DOMAIN procs : O[p] = PROCESS_SIZE
      BY DEF OwnedBlocks
    <2>3. \A q \in DOMAIN procs : O[procs[q].stack] = procs[q].stack_size
      <3> SUFFICES ASSUME NEW q \in DOMAIN procs
                   PROVE  O[procs[q].stack] = procs[q].stack_size
        OBVIOUS
      <3>1. procs[q].stack \notin DOMAIN procs
        BY <2>1 DEF TableOwns
      <3> DEFINE r == CHOOSE r \in DOMAIN procs : procs[r].stack = procs[q].stack
      <3>2. r \in DOMAIN procs /\ procs[r].stack = procs[q].stack
        OBVIOUS
      <3>3. O[procs[q].stack] = procs[r].stack_size
        BY <3>1 DEF OwnedBlocks
      <3> HIDE DEF r
      <3>4. r = q
        BY <2>1, <3>2 DEF TableOwns
      <3> QED
        BY <3>3, <3>4
    <2> HIDE DEF O
    <2>4. \A p \in DOMAIN O : /\ p - HEADER \in Live(heap)
                              /\ heap.blocks[p - HEADER].size >= O[p]
      BY <2>1, <2>2, <2>3 DEF TableOwns
    <2>5. \A b \in Live(heap) : b + HEADER \in DOMAIN O
      BY <2>1, <2>2 DEF TableOwns
    <2> QED
      BY <2>4, <2>5 DEF OwnUsedBlocks, Live, O
  <1> QED
    BY <1>1, ProcessInvariant, PTL

\* Only process_start strands a process, and a stranded process stays so.
THEOREM OnlyStartStrandsCorrect == Spec => OnlyStartStrands
  <1>1. IInv /\ [Next]_vars =>
          [/\ Stranded \subseteq Stranded'
           /\ process_yield \/ process_schedule \/ process_exit
              => Stranded' = Stranded]_vars
    BY StepIInv
  <1> QED
    BY <1>1, ProcessInvariant, PTL DEF Spec, OnlyStartStrands
=============================================================================
