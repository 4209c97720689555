---------------------------- MODULE ShellProofs -----------------------------
(***************************************************************************)
(* Proofs about the shell: about the user programs and the commands that   *)
(* use the heap, for every size of heap, table and buffer, and about the   *)
(* input line that commands are typed in, for every size of screen and     *)
(* line; whatever is typed.                                                *)
(***************************************************************************)
EXTENDS Shell, Console, HeapProofs, FiniteSetTheorems, SequenceTheorems

-----------------------------------------------------------------------------
(* The inductive invariant, and what it says of one state. *)

\* All pointers somebody still holds.
Owners(s) == Codes(s) \cup Fixed(s) \cup s.files \cup s.binaries \cup DOMAIN s.granted

\* p points to a used block of at least n bytes.
At(h, p, n) == /\ p \in Nat /\ p - HEADER \in Live(h)
               /\ h.blocks[p - HEADER].size >= n

IsUser(s) ==
    s = [heap |-> s.heap, user_programs |-> s.user_programs,
         program_count |-> s.program_count, user_stack |-> s.user_stack,
         user_heap |-> s.user_heap, files |-> s.files, binaries |-> s.binaries,
         granted |-> s.granted, next_entry |-> s.next_entry]

\* The table: unused slots are empty, used ones are counted and have names of
\* their own.
TableOK(s) ==
    /\ s.user_programs = [i \in Slots |-> s.user_programs[i]]
    /\ \A i \in Slots : s.user_programs[i].used # 1 => s.user_programs[i] = EmptySlot
    /\ s.program_count = Cardinality(UsedSlots(s))
    /\ \A i, j \in UsedSlots(s) :
          s.user_programs[i].name = s.user_programs[j].name => i = j

\* What is held is a used block of the size asked for.
HoldersOK(s) ==
    /\ \A i \in UsedSlots(s) : At(s.heap, s.user_programs[i].code, s.user_programs[i].size)
    /\ s.user_stack # 0 => At(s.heap, s.user_stack, USER_STACK_SIZE)
    /\ s.user_heap # 0 => At(s.heap, s.user_heap, USER_HEAP_SIZE)
    /\ \A p \in s.files \cup s.binaries : At(s.heap, p, MAX_FILE_SIZE)
    /\ \A p \in DOMAIN s.granted : At(s.heap, p, s.granted[p])

UserOK(s) ==
    /\ IsUser(s) /\ HeapOK(s.heap)
    /\ s.granted = [p \in DOMAIN s.granted |-> s.granted[p]]
    /\ TableOK(s) /\ HoldersOK(s) /\ Apart(s)

\* t is a state that an operation may leave behind in s.
Good(s, t) == UserOK(t) /\ Lost(t) \subseteq Lost(s)

\* Operations one after the other.
LEMMA GoodThenGood ==
    ASSUME NEW s, NEW t, NEW u, Good(s, t), Good(t, u)
    PROVE  Good(s, u)
  BY DEF Good

LEMMA NothingDone ==
    ASSUME NEW s, UserOK(s)
    PROVE  Good(s, s)
  BY DEF Good

\* The slots are finitely many.
LEMMA SlotsFinite ==
    /\ IsFiniteSet(Slots) /\ Slots \subseteq Nat
    /\ \A S \in SUBSET Slots : IsFiniteSet(S) /\ Cardinality(S) \in Nat
  <1>1. MAX_USER_PROGRAMS \in Nat
    BY ProgramAssumption
  <1>2. IsFiniteSet(Slots)
    BY <1>1, FS_Interval DEF Slots
  <1>3. Slots \subseteq Nat
    BY <1>1 DEF Slots
  <1>4. ASSUME NEW S \in SUBSET Slots PROVE IsFiniteSet(S) /\ Cardinality(S) \in Nat
    BY <1>2, FS_Subset, FS_CardinalityType
  <1> QED
    BY <1>2, <1>3, <1>4

\* The least of some slots is one of them.
LEMMA LeastSlot ==
    ASSUME NEW I \in SUBSET Slots, I # {}
    PROVE  Min(I) \in I
  <1>1. I \in SUBSET Nat
    BY SlotsFinite
  <1>2. PICK i \in I : \A j \in I : i <= j
    BY <1>1, LeastNatural
  <1> QED
    BY <1>2 DEF Min

\* The search for a name ends at a slot that has it, or there is none.
LEMMA ProgramFound ==
    ASSUME NEW s, NEW name
    PROVE  LET i == user_find_program(s, name) IN
           \/ i = -1 /\ \A j \in UsedSlots(s) : s.user_programs[j].name # name
           \/ i \in UsedSlots(s) /\ s.user_programs[i].name = name /\ i # -1
  <1> DEFINE found == {i \in UsedSlots(s) : s.user_programs[i].name = name}
  <1>1. CASE found = {}
    BY <1>1 DEF user_find_program
  <1>2. CASE found # {}
    <2>1. Min(found) \in found
      BY <1>2, LeastSlot DEF UsedSlots
    <2>2. user_find_program(s, name) = Min(found)
      BY <1>2 DEF user_find_program
    <2>3. \A i \in UsedSlots(s) : i # -1
      BY SlotsFinite DEF UsedSlots
    <2> QED
      BY <2>1, <2>2, <2>3
  <1> QED
    BY <1>1, <1>2

\* The slot that is found is an unused one.
LEMMA SlotFound ==
    ASSUME NEW s
    PROVE  FreeSlot(s) = -1 \/ FreeSlot(s) \in Slots \ UsedSlots(s)
  <1> DEFINE unused == Slots \ UsedSlots(s)
  <1>1. CASE unused # {}
    <2>1. Min(unused) \in unused
      BY <1>1, LeastSlot
    <2> QED
      BY <1>1, <2>1 DEF FreeSlot
  <1>2. CASE unused = {}
    BY <1>2 DEF FreeSlot
  <1> QED
    BY <1>1, <1>2

-----------------------------------------------------------------------------
(* What the heap's operations mean for those who hold blocks. *)

\* A block just granted is nobody's yet, and the others stay where they are.
LEMMA GrantKeepsHolders ==
    ASSUME NEW h, HeapOK(h), NEW n, NEW r, Granted(h, r, n)
    PROVE  /\ HeapOK(r.heap) /\ At(r.heap, r.ptr, n) /\ r.ptr # 0
           /\ \A p, m : At(h, p, m) => At(r.heap, p, m) /\ p # r.ptr
           /\ Live(r.heap) = Live(h) \cup {r.ptr - HEADER}
  <1> DEFINE b == r.ptr - HEADER
  <1>1. /\ HeapOK(r.heap) /\ r.ptr \in Nat
        /\ b \notin Live(h) /\ b \in DOMAIN h.blocks
        /\ Live(r.heap) = Live(h) \cup {b}
        /\ r.heap.blocks[b].size >= n
        /\ \A c \in Live(h) : r.heap.blocks[c] = h.blocks[c]
    BY DEF Granted
  <1>2. At(r.heap, r.ptr, n)
    BY <1>1 DEF At
  <1>3. b \in Nat
    BY <1>1, LayoutAssumption DEF HeapOK, BlockListInv, BlockListTypeOK
  <1>4. r.ptr # 0
    BY <1>1, <1>3 DEF HEADER
  <1>5. ASSUME NEW p, NEW m, At(h, p, m) PROVE At(r.heap, p, m) /\ p # r.ptr
    BY <1>1, <1>5 DEF At
  <1> QED
    BY <1>1, <1>2, <1>4, <1>5

\* Releasing a block leaves the others where they are.
LEMMA FreeKeepsHolders ==
    ASSUME NEW h, HeapOK(h), NEW p, NEW n, At(h, p, n)
    PROVE  LET g == memory_free(h, p) IN
           /\ HeapOK(g)
           /\ \A q, m : At(h, q, m) /\ q # p => At(g, q, m)
           /\ Live(g) = Live(h) \ {p - HEADER}
  <1> DEFINE g == memory_free(h, p)
  <1>1. p \in Nat /\ p - HEADER \in Live(h)
    BY DEF At
  <1>2. Freed(h, g, p - HEADER)
    BY <1>1, FreePointer
  <1> HIDE DEF g
  <1>3. ASSUME NEW q, NEW m, At(h, q, m), q # p PROVE At(g, q, m)
    <2>1. q \in Nat /\ q - HEADER \in Live(h) /\ h.blocks[q - HEADER].size >= m
      BY <1>3 DEF At
    <2>2. q - HEADER # p - HEADER
      BY <1>1, <1>3, <2>1 DEF HEADER
    <2> QED
      BY <1>2, <2>1, <2>2 DEF At, Freed
  <1> QED
    BY <1>2, <1>3 DEF Freed, g

\* Those who hold a block, one by one.
LEMMA HolderAt ==
    ASSUME NEW s, UserOK(s), NEW p \in Owners(s)
    PROVE  \E n : At(s.heap, p, n)
  BY DEF UserOK, HoldersOK, Owners, Codes, Fixed

\* Used blocks that are lost in t but were not in s would have to be new.
LEMMA LostFewer ==
    ASSUME NEW s, UserOK(s), NEW t,
           \A b \in Live(t.heap) : b \in Live(s.heap) \/ b + HEADER \in Owners(t),
           \A p \in Owners(s) : p \in Owners(t) \/ p - HEADER \notin Live(t.heap)
    PROVE  Lost(t) \subseteq Lost(s)
  <1>1. DOMAIN Owned(t) = Owners(t) /\ DOMAIN Owned(s) = Owners(s)
    BY DEF Owned, Owners, Codes, Fixed
  <1>2. ASSUME NEW b \in Lost(t) PROVE b \in Lost(s)
    <2>1. b \in Live(t.heap) /\ b + HEADER \notin Owners(t)
      BY <1>1, <1>2 DEF Lost, Live
    <2>2. b \in Live(s.heap)
      BY <2>1
    <2>3. b \in Nat
      BY <2>2, LayoutAssumption DEF UserOK, HeapOK, BlockListInv, BlockListTypeOK, Live
    <2>4. (b + HEADER) - HEADER = b
      BY <2>3 DEF HEADER
    <2>5. b + HEADER \notin Owners(s)
      BY <2>1, <2>4
    <2> QED
      BY <1>1, <2>2, <2>5 DEF Lost, Live
  <1> QED
    BY <1>2

\* One slot changes, with the heap and the counter.
WithSlot(s, h, c, k, slot) ==
    [s EXCEPT !.heap = h, !.program_count = c, !.user_programs[k] = slot]

LEMMA SlotChanged ==
    ASSUME NEW s, UserOK(s), NEW h, NEW c, NEW k, NEW slot, NEW t,
           t = WithSlot(s, h, c, k, slot)
    PROVE  /\ IsUser(t) /\ t.heap = h /\ t.program_count = c
           /\ t.user_programs = [i \in Slots |-> IF i = k THEN slot ELSE s.user_programs[i]]
           /\ t.user_stack = s.user_stack /\ t.user_heap = s.user_heap
           /\ t.files = s.files /\ t.binaries = s.binaries /\ t.granted = s.granted
  <1> DEFINE a == [s EXCEPT !.heap = h]
             b == [a EXCEPT !.program_count = c]
             u == [b.user_programs EXCEPT ![k] = slot]
             d == [b EXCEPT !.user_programs = u]
  <1>1. t = d
    BY DEF WithSlot
  <1>2. a = [heap |-> h, user_programs |-> s.user_programs,
             program_count |-> s.program_count,
             user_stack |-> s.user_stack, user_heap |-> s.user_heap,
             files |-> s.files, binaries |-> s.binaries, granted |-> s.granted,
             next_entry |-> s.next_entry]
    BY DEF UserOK, IsUser
  <1> HIDE DEF a
  <1>3. b = [heap |-> h, user_programs |-> s.user_programs, program_count |-> c,
             user_stack |-> s.user_stack, user_heap |-> s.user_heap,
             files |-> s.files, binaries |-> s.binaries, granted |-> s.granted,
             next_entry |-> s.next_entry]
    BY <1>2
  <1> HIDE DEF b
  <1>4. u = [i \in Slots |-> IF i = k THEN slot ELSE s.user_programs[i]]
    BY <1>3 DEF UserOK, TableOK
  <1> HIDE DEF u
  <1>5. d = [heap |-> h, user_programs |-> u, program_count |-> c,
             user_stack |-> s.user_stack, user_heap |-> s.user_heap,
             files |-> s.files, binaries |-> s.binaries, granted |-> s.granted,
             next_entry |-> s.next_entry]
    BY <1>3
  <1> HIDE DEF d
  <1>6. /\ t.heap = h /\ t.user_programs = u /\ t.program_count = c
        /\ t.user_stack = s.user_stack /\ t.user_heap = s.user_heap
        /\ t.files = s.files /\ t.binaries = s.binaries /\ t.granted = s.granted
        /\ t.next_entry = s.next_entry
    BY <1>1, <1>5
  <1>7. IsUser(t)
    BY <1>1, <1>5, <1>6 DEF IsUser
  <1> QED
    BY <1>4, <1>6, <1>7

-----------------------------------------------------------------------------
(* The operations of user.c. *)

\* Loading a program fills an unused slot and counts it, or changes nothing.
LEMMA LoadKeeps ==
    ASSUME NEW s, UserOK(s), NEW name, NEW size \in Nat
    PROVE  Good(s, user_load_program(s, name, size).user)
  <1> DEFINE r == memory_alloc(s.heap, size)
             k == FreeSlot(s)
             slot == [used |-> 1, name |-> name, code |-> r.ptr, size |-> size]
             t == [s EXCEPT !.heap = r.heap, !.program_count = @ + 1,
                            !.user_programs[k] = slot]
  <1>1. CASE \/ size = 0 \/ size > MAX_PROGRAM_SIZE
             \/ user_find_program(s, name) # -1 \/ k = -1 \/ r.ptr = NULL
    BY <1>1, NothingDone DEF user_load_program, Result
  <1>2. CASE ~(\/ size = 0 \/ size > MAX_PROGRAM_SIZE
               \/ user_find_program(s, name) # -1 \/ k = -1 \/ r.ptr = NULL)
    <2>1. user_load_program(s, name, size).user = t
      BY <1>2 DEF user_load_program, Result
    <2>2. k \in Slots /\ k \notin UsedSlots(s)
      BY <1>2, SlotFound
    <2>3. \A j \in UsedSlots(s) : s.user_programs[j].name # name
      BY <1>2, ProgramFound DEF UserOK
    <2>4. size \in 0..(WORD - 4)
      BY <1>2, ProgramAssumption, LayoutAssumption
    <2>5. Granted(s.heap, r, size)
      BY <1>2, <2>4, AllocOnHeap DEF UserOK
    <2> HIDE DEF r, k
    <2>6. /\ HeapOK(r.heap) /\ At(r.heap, r.ptr, size) /\ r.ptr # 0
          /\ \A p, m : At(s.heap, p, m) => At(r.heap, p, m) /\ p # r.ptr
          /\ Live(r.heap) = Live(s.heap) \cup {r.ptr - HEADER}
      BY <2>5, GrantKeepsHolders DEF UserOK
    <2>20. t = WithSlot(s, r.heap, s.program_count + 1, k, slot)
      BY DEF WithSlot
    <2> HIDE DEF t
    <2>7. /\ IsUser(t) /\ t.heap = r.heap /\ t.program_count = s.program_count + 1
          /\ t.user_programs = [i \in Slots |-> IF i = k THEN slot ELSE s.user_programs[i]]
          /\ t.user_stack = s.user_stack /\ t.user_heap = s.user_heap
          /\ t.files = s.files /\ t.binaries = s.binaries /\ t.granted = s.granted
      BY <2>20, SlotChanged
    <2>8. /\ slot.used = 1 /\ slot.name = name /\ slot.code = r.ptr /\ slot.size = size
      OBVIOUS
    <2> HIDE DEF slot
    <2>9. UsedSlots(t) = UsedSlots(s) \cup {k}
      BY <2>2, <2>7, <2>8 DEF UsedSlots
    <2>10. /\ \A i \in UsedSlots(s) : t.user_programs[i] = s.user_programs[i]
           /\ t.user_programs[k] = slot
      BY <2>2, <2>7 DEF UsedSlots
    <2>11. TableOK(t)
      <3>1. t.program_count = Cardinality(UsedSlots(t))
        <4>1. IsFiniteSet(UsedSlots(s))
          BY SlotsFinite DEF UsedSlots
        <4>2. Cardinality(UsedSlots(s) \cup {k}) = Cardinality(UsedSlots(s)) + 1
          BY <2>2, <4>1, FS_AddElement
        <4> QED
          BY <2>7, <2>9, <4>2 DEF UserOK, TableOK
      <3>2. \A i \in Slots : t.user_programs[i].used # 1 => t.user_programs[i] = EmptySlot
        BY <2>7, <2>8 DEF UserOK, TableOK
      <3>3. \A i, j \in UsedSlots(t) :
               t.user_programs[i].name = t.user_programs[j].name => i = j
        <4>1. \A i, j \in UsedSlots(s) : s.user_programs[i].name = s.user_programs[j].name => i = j
          BY DEF UserOK, TableOK
        <4> QED
          BY <2>3, <2>8, <2>9, <2>10, <4>1
      <3>4. t.user_programs = [i \in Slots |-> t.user_programs[i]]
        BY <2>7
      <3> QED
        BY <3>1, <3>2, <3>3, <3>4 DEF TableOK
    <2>12. HoldersOK(t)
      BY <2>6, <2>7, <2>8, <2>9, <2>10 DEF UserOK, HoldersOK
    <2>13. \A p \in Owners(s) : p # r.ptr
      BY <2>6, HolderAt
    <2>14. Codes(t) = Codes(s) \cup {r.ptr} /\ Fixed(t) = Fixed(s)
      BY <2>7, <2>8, <2>9, <2>10 DEF Codes, Fixed
    <2>15. Apart(t)
      <3>1. \A i, j \in UsedSlots(t) :
               t.user_programs[i].code = t.user_programs[j].code => i = j
        <4>1. \A i \in UsedSlots(s) : t.user_programs[i].code # r.ptr
          BY <2>10, <2>13 DEF Owners, Codes
        <4>2. t.user_programs[k].code = r.ptr
          BY <2>8, <2>10
        <4>3. \A i, j \in UsedSlots(s) :
                 t.user_programs[i].code = t.user_programs[j].code => i = j
          BY <2>10 DEF UserOK, Apart
        <4> QED
          BY <2>9, <4>1, <4>2, <4>3
      <3>2. Codes(t) \cap (Fixed(t) \cup t.files \cup t.binaries \cup DOMAIN t.granted) = {}
        BY <2>7, <2>13, <2>14 DEF UserOK, Apart, Owners
      <3> QED
        BY <2>7, <2>14, <3>1, <3>2 DEF UserOK, Apart
    <2>16. UserOK(t)
      BY <2>6, <2>7, <2>11, <2>12, <2>15 DEF UserOK
    <2>17. Owners(t) = Owners(s) \cup {r.ptr}
      BY <2>7, <2>14 DEF Owners
    <2>18. r.ptr \in Nat /\ (r.ptr - HEADER) + HEADER = r.ptr
      BY <2>6 DEF At, HEADER
    <2>19. Lost(t) \subseteq Lost(s)
      BY <2>6, <2>7, <2>17, <2>18, LostFewer
    <2> QED
      BY <2>1, <2>16, <2>19 DEF Good, t
  <1> QED
    BY <1>1, <1>2

\* Removing a program frees its block and empties its slot.
LEMMA RemoveKeeps ==
    ASSUME NEW s, UserOK(s), NEW name
    PROVE  Good(s, user_remove_program(s, name).user)
  <1> DEFINE k == user_find_program(s, name)
             p == s.user_programs[k].code
             g == memory_free(s.heap, p)
             t == [s EXCEPT !.heap = memory_free(@, p), !.program_count = @ - 1,
                            !.user_programs[k] = EmptySlot]
  <1>1. CASE k = -1
    BY <1>1, NothingDone DEF user_remove_program, Result
  <1>2. CASE k # -1
    <2>1. user_remove_program(s, name).user = t
      BY <1>2 DEF user_remove_program, Result
    <2>2. k \in UsedSlots(s)
      BY <1>2, ProgramFound
    <2> HIDE DEF k
    <2>3. At(s.heap, p, s.user_programs[k].size)
      BY <2>2 DEF UserOK, HoldersOK
    <2> HIDE DEF p
    <2>4. /\ HeapOK(g) /\ Live(g) = Live(s.heap) \ {p - HEADER}
          /\ \A q, m : At(s.heap, q, m) /\ q # p => At(g, q, m)
      BY <2>3, FreeKeepsHolders DEF UserOK
    <2>20. t = WithSlot(s, g, s.program_count - 1, k, EmptySlot)
      BY DEF WithSlot
    <2> HIDE DEF t, g
    <2>5. /\ IsUser(t) /\ t.heap = g /\ t.program_count = s.program_count - 1
          /\ t.user_programs = [i \in Slots |-> IF i = k THEN EmptySlot ELSE s.user_programs[i]]
          /\ t.user_stack = s.user_stack /\ t.user_heap = s.user_heap
          /\ t.files = s.files /\ t.binaries = s.binaries /\ t.granted = s.granted
      BY <2>20, SlotChanged
    <2>6. /\ UsedSlots(t) = UsedSlots(s) \ {k}
          /\ \A i \in UsedSlots(t) : t.user_programs[i] = s.user_programs[i]
      <3>1. EmptySlot.used # 1
        BY DEF EmptySlot
      <3>2. \A i \in Slots \ {k} : t.user_programs[i] = s.user_programs[i]
        BY <2>5
      <3>3. t.user_programs[k].used # 1
        BY <2>2, <2>5, <3>1 DEF UsedSlots
      <3> QED
        BY <2>2, <3>2, <3>3 DEF UsedSlots
    <2>7. TableOK(t)
      <3>1. t.program_count = Cardinality(UsedSlots(t))
        <4>1. IsFiniteSet(UsedSlots(s))
          BY SlotsFinite DEF UsedSlots
        <4>2. Cardinality(UsedSlots(s) \ {k}) = Cardinality(UsedSlots(s)) - 1
          BY <2>2, <4>1, FS_RemoveElement
        <4> QED
          BY <2>5, <2>6, <4>2 DEF UserOK, TableOK
      <3>2. \A i \in Slots : t.user_programs[i].used # 1 => t.user_programs[i] = EmptySlot
        BY <2>5 DEF UserOK, TableOK
      <3> QED
        BY <2>5, <2>6, <3>1, <3>2 DEF UserOK, TableOK
    <2>8. Codes(t) = Codes(s) \ {p} /\ Fixed(t) = Fixed(s) /\ p \in Codes(s)
      <3>1. \A i \in UsedSlots(s) : s.user_programs[i].code = p => i = k
        BY <2>2 DEF UserOK, Apart, p
      <3>2. p \in Codes(s)
        BY <2>2 DEF Codes, p
      <3>3. Codes(t) = Codes(s) \ {p}
        BY <2>6, <3>1 DEF Codes, p
      <3> QED
        BY <2>5, <3>2, <3>3 DEF Fixed
    <2>9. HoldersOK(t)
      <3>1. \A i \in UsedSlots(t) : s.user_programs[i].code # p
        BY <2>2, <2>6 DEF UserOK, Apart, p
      <3>2. \A q \in Fixed(s) \cup s.files \cup s.binaries \cup DOMAIN s.granted : q # p
        BY <2>8 DEF UserOK, Apart
      <3> QED
        BY <2>4, <2>5, <2>6, <3>1, <3>2 DEF UserOK, HoldersOK, Fixed
    <2>10. Apart(t)
      BY <2>5, <2>6, <2>8 DEF UserOK, Apart
    <2>11. UserOK(t)
      BY <2>4, <2>5, <2>7, <2>9, <2>10 DEF UserOK
    <2>12. \A q \in Owners(s) : q \in Owners(t) \/ q = p
      BY <2>5, <2>8 DEF Owners
    <2>13. Lost(t) \subseteq Lost(s)
      BY <2>4, <2>5, <2>12, LostFewer
    <2> QED
      BY <2>1, <2>11, <2>13 DEF Good, t
  <1> QED
    BY <1>1, <1>2

\* t has the table, the stack and the heap of s.
SameTable(s, t) ==
    /\ t.user_programs = s.user_programs /\ t.program_count = s.program_count
    /\ t.user_stack = s.user_stack /\ t.user_heap = s.user_heap

LEMMA TableKept ==
    ASSUME NEW s, UserOK(s), NEW t, SameTable(s, t)
    PROVE  /\ TableOK(t) /\ UsedSlots(t) = UsedSlots(s)
           /\ Codes(t) = Codes(s) /\ Fixed(t) = Fixed(s)
  BY DEF UserOK, TableOK, UsedSlots, Codes, Fixed, SameTable

\* A block for a file, or for a program, that somebody then holds.
LEMMA HolderAdded ==
    ASSUME NEW s, UserOK(s), NEW n, NEW r, Granted(s.heap, r, n),
           NEW t, IsUser(t), SameTable(s, t), t.heap = r.heap,
           \/ /\ n = MAX_FILE_SIZE /\ t.granted = s.granted
              /\ \/ t.files = s.files \cup {r.ptr} /\ t.binaries = s.binaries
                 \/ t.binaries = s.binaries \cup {r.ptr} /\ t.files = s.files
           \/ /\ t.files = s.files /\ t.binaries = s.binaries
              /\ t.granted = [p \in DOMAIN s.granted \cup {r.ptr} |->
                                 IF p = r.ptr THEN n ELSE s.granted[p]]
    PROVE  Good(s, t)
  <1>1. /\ HeapOK(r.heap) /\ At(r.heap, r.ptr, n) /\ r.ptr # 0
        /\ \A p, m : At(s.heap, p, m) => At(r.heap, p, m) /\ p # r.ptr
        /\ Live(r.heap) = Live(s.heap) \cup {r.ptr - HEADER}
    BY GrantKeepsHolders DEF UserOK
  <1>2. /\ TableOK(t) /\ UsedSlots(t) = UsedSlots(s)
        /\ Codes(t) = Codes(s) /\ Fixed(t) = Fixed(s)
    BY TableKept
  <1>3. \A p \in Owners(s) : p # r.ptr
    BY <1>1, HolderAt
  <1>4. Owners(t) = Owners(s) \cup {r.ptr}
    <2>1. CASE t.granted = s.granted
      BY <1>2, <2>1 DEF Owners
    <2>2. CASE /\ t.files = s.files /\ t.binaries = s.binaries
               /\ t.granted = [p \in DOMAIN s.granted \cup {r.ptr} |->
                                  IF p = r.ptr THEN n ELSE s.granted[p]]
      <3>1. DOMAIN t.granted = DOMAIN s.granted \cup {r.ptr}
        BY <2>2
      <3> QED
        BY <1>2, <2>2, <3>1 DEF Owners
    <2> QED
      BY <2>1, <2>2
  <1>5. /\ \A p \in t.files \cup t.binaries : At(t.heap, p, MAX_FILE_SIZE)
        /\ \A p \in DOMAIN t.granted : At(t.heap, p, t.granted[p])
        /\ t.granted = [p \in DOMAIN t.granted |-> t.granted[p]]
    <2>1. CASE n = MAX_FILE_SIZE /\ t.granted = s.granted
      BY <1>1, <2>1 DEF UserOK, HoldersOK
    <2>2. CASE /\ t.files = s.files /\ t.binaries = s.binaries
               /\ t.granted = [p \in DOMAIN s.granted \cup {r.ptr} |->
                                  IF p = r.ptr THEN n ELSE s.granted[p]]
      <3>1. \A p \in s.files \cup s.binaries : At(t.heap, p, MAX_FILE_SIZE)
        BY <1>1 DEF UserOK, HoldersOK
      <3>2. \A p \in DOMAIN s.granted : At(t.heap, p, s.granted[p]) /\ p # r.ptr
        BY <1>1 DEF UserOK, HoldersOK
      <3>3. \A p \in DOMAIN t.granted : At(t.heap, p, t.granted[p])
        BY <1>1, <2>2, <3>2
      <3>4. t.granted = [p \in DOMAIN t.granted |-> t.granted[p]]
        BY <2>2
      <3> QED
        BY <2>2, <3>1, <3>3, <3>4
    <2> QED
      BY <2>1, <2>2
  <1>6. HoldersOK(t)
    <2>1. \A i \in UsedSlots(t) : At(t.heap, t.user_programs[i].code, t.user_programs[i].size)
      BY <1>1, <1>2 DEF UserOK, HoldersOK, SameTable
    <2>2. /\ t.user_stack # 0 => At(t.heap, t.user_stack, USER_STACK_SIZE)
          /\ t.user_heap # 0 => At(t.heap, t.user_heap, USER_HEAP_SIZE)
      BY <1>1 DEF UserOK, HoldersOK, SameTable
    <2> QED
      BY <1>5, <2>1, <2>2 DEF HoldersOK
  <1>7. Apart(t)
    <2>1. /\ \A i, j \in UsedSlots(t) :
                t.user_programs[i].code = t.user_programs[j].code => i = j
          /\ t.user_stack # 0 => t.user_stack # t.user_heap
      BY <1>2 DEF UserOK, Apart, SameTable
    <2>2. \/ /\ t.files = s.files \cup {r.ptr} /\ t.binaries = s.binaries
             /\ DOMAIN t.granted = DOMAIN s.granted
          \/ /\ t.binaries = s.binaries \cup {r.ptr} /\ t.files = s.files
             /\ DOMAIN t.granted = DOMAIN s.granted
          \/ /\ t.files = s.files /\ t.binaries = s.binaries
             /\ DOMAIN t.granted = DOMAIN s.granted \cup {r.ptr}
      OBVIOUS
    <2> QED
      BY <1>2, <1>3, <2>1, <2>2 DEF UserOK, Apart, Owners
  <1>8. Lost(t) \subseteq Lost(s)
    <2>1. (r.ptr - HEADER) + HEADER = r.ptr
      BY <1>1 DEF At, HEADER
    <2> QED
      BY <1>1, <1>4, <2>1, LostFewer
  <1> QED
    BY <1>1, <1>2, <1>5, <1>6, <1>7, <1>8 DEF Good, UserOK

\* The block of a file, or of a program, is given back.
LEMMA HolderRemoved ==
    ASSUME NEW s, UserOK(s), NEW p, NEW t, IsUser(t), SameTable(s, t),
           t.heap = memory_free(s.heap, p), t.binaries = s.binaries,
           \/ /\ p \in s.files /\ t.files = s.files \ {p} /\ t.granted = s.granted
           \/ /\ p \in DOMAIN s.granted /\ t.files = s.files
              /\ t.granted = [q \in DOMAIN s.granted \ {p} |-> s.granted[q]]
    PROVE  Good(s, t)
  <1>1. PICK n : At(s.heap, p, n)
    BY DEF UserOK, HoldersOK
  <1>2. /\ HeapOK(t.heap) /\ Live(t.heap) = Live(s.heap) \ {p - HEADER}
        /\ \A q, m : At(s.heap, q, m) /\ q # p => At(t.heap, q, m)
    BY <1>1, FreeKeepsHolders DEF UserOK
  <1>3. /\ TableOK(t) /\ UsedSlots(t) = UsedSlots(s)
        /\ Codes(t) = Codes(s) /\ Fixed(t) = Fixed(s)
    BY TableKept
  <1>4. /\ DOMAIN t.granted \subseteq DOMAIN s.granted
        /\ \A q \in DOMAIN t.granted : t.granted[q] = s.granted[q]
        /\ t.granted = [q \in DOMAIN t.granted |-> t.granted[q]]
        /\ t.files \subseteq s.files
        /\ t.files \cup DOMAIN t.granted = (s.files \cup DOMAIN s.granted) \ {p}
    <2>1. CASE p \in s.files /\ t.files = s.files \ {p} /\ t.granted = s.granted
      BY <2>1 DEF UserOK, Apart
    <2>2. CASE /\ p \in DOMAIN s.granted /\ t.files = s.files
               /\ t.granted = [q \in DOMAIN s.granted \ {p} |-> s.granted[q]]
      <3>1. DOMAIN t.granted = DOMAIN s.granted \ {p}
        BY <2>2
      <3> QED
        BY <2>2, <3>1 DEF UserOK, Apart
    <2> QED
      BY <2>1, <2>2
  <1>5. p \in s.files \cup DOMAIN s.granted
    OBVIOUS
  <1>6. p \notin Codes(s) \cup Fixed(s) \cup s.binaries
    BY <1>5 DEF UserOK, Apart
  <1>7. HoldersOK(t)
    <2>1. \A i \in UsedSlots(t) : At(t.heap, t.user_programs[i].code, t.user_programs[i].size)
      BY <1>2, <1>3, <1>6 DEF UserOK, HoldersOK, SameTable, Codes
    <2>2. /\ t.user_stack # 0 => At(t.heap, t.user_stack, USER_STACK_SIZE)
          /\ t.user_heap # 0 => At(t.heap, t.user_heap, USER_HEAP_SIZE)
      BY <1>2, <1>6 DEF UserOK, HoldersOK, SameTable, Fixed
    <2>3. /\ \A q \in t.files \cup t.binaries : At(t.heap, q, MAX_FILE_SIZE)
          /\ \A q \in DOMAIN t.granted : At(t.heap, q, t.granted[q])
      BY <1>2, <1>4, <1>6 DEF UserOK, HoldersOK
    <2> QED
      BY <2>1, <2>2, <2>3 DEF HoldersOK
  <1>8. Apart(t)
    <2>1. /\ \A i, j \in UsedSlots(t) :
                t.user_programs[i].code = t.user_programs[j].code => i = j
          /\ t.user_stack # 0 => t.user_stack # t.user_heap
      BY <1>3 DEF UserOK, Apart, SameTable
    <2> QED
      BY <1>3, <1>4, <2>1 DEF UserOK, Apart
  <1>9. Lost(t) \subseteq Lost(s)
    <2>1. Owners(t) = Owners(s) \ {p}
      BY <1>3, <1>4, <1>6 DEF Owners
    <2> QED
      BY <1>2, <2>1, LostFewer
  <1> QED
    BY <1>2, <1>3, <1>4, <1>7, <1>8, <1>9 DEF Good, UserOK

\* An entry in the file table; the blocks do not change.
LEMMA EntryMade ==
    ASSUME NEW s, UserOK(s), NEW n
    PROVE  LET t == [s EXCEPT !.next_entry = n] IN
           /\ Good(s, t) /\ SameTable(s, t) /\ t.heap = s.heap
           /\ t.files = s.files /\ t.binaries = s.binaries /\ t.granted = s.granted
  <1> DEFINE t == [s EXCEPT !.next_entry = n]
  <1>1. t = [heap |-> s.heap, user_programs |-> s.user_programs,
             program_count |-> s.program_count,
             user_stack |-> s.user_stack, user_heap |-> s.user_heap,
             files |-> s.files, binaries |-> s.binaries, granted |-> s.granted,
             next_entry |-> n]
    BY DEF UserOK, IsUser
  <1> HIDE DEF t
  <1>2. /\ t.heap = s.heap /\ SameTable(s, t) /\ t.next_entry = n
        /\ t.files = s.files /\ t.binaries = s.binaries /\ t.granted = s.granted
    BY <1>1 DEF SameTable
  <1>3. IsUser(t)
    BY <1>1, <1>2 DEF IsUser, SameTable
  <1>4. /\ TableOK(t) /\ UsedSlots(t) = UsedSlots(s)
        /\ Codes(t) = Codes(s) /\ Fixed(t) = Fixed(s)
    BY <1>2, TableKept
  <1>5. HoldersOK(t) /\ Apart(t)
    BY <1>2, <1>4 DEF UserOK, HoldersOK, Apart, SameTable
  <1>6. Lost(t) \subseteq Lost(s)
    BY <1>2, <1>4, LostFewer DEF Owners
  <1>7. UserOK(t)
    BY <1>2, <1>3, <1>4, <1>5 DEF UserOK
  <1>8. Good(s, t)
    BY <1>6, <1>7 DEF Good
  <1> QED
    BY <1>2, <1>8 DEF t

LEMMA MkdirKeeps ==
    ASSUME NEW s, UserOK(s)
    PROVE  Good(s, MkdirEntry(s))
  BY EntryMade, NothingDone DEF MkdirEntry

\* A file takes an entry and, when the heap has one, a buffer.
LEMMA TouchKeeps ==
    ASSUME NEW s, UserOK(s), NEW in \in {"files", "binaries"}
    PROVE  Good(s, filesystem_touch(s, in)) /\ SameTable(s, filesystem_touch(s, in))
  <1> DEFINE r == memory_alloc(s.heap, MAX_FILE_SIZE)
             e == [s EXCEPT !.next_entry = @ + 1]
             t == filesystem_touch(s, in)
  <1>1. CASE s.next_entry >= MAX_ENTRIES
    BY <1>1, NothingDone DEF filesystem_touch, SameTable
  <1>2. Good(s, e) /\ SameTable(s, e)
    BY EntryMade
  <1>3. CASE ~(s.next_entry >= MAX_ENTRIES) /\ r.ptr = NULL
    BY <1>2, <1>3 DEF filesystem_touch
  <1>4. CASE ~(s.next_entry >= MAX_ENTRIES) /\ r.ptr # NULL
    <2>1. UserOK(e) /\ e.heap = s.heap /\ IsUser(e)
      BY <1>2, EntryMade DEF Good, UserOK
    <2>2. Granted(e.heap, r, MAX_FILE_SIZE)
      BY <1>4, <2>1, AllocOnHeap, ProgramAssumption DEF UserOK
    <2> HIDE DEF r
    <2>3. CASE in = "files"
      <3> DEFINE a == [e EXCEPT !.heap = r.heap]
                 u == [a EXCEPT !.files = a.files \cup {r.ptr}]
      <3>1. t = u
        BY <1>4, <2>3 DEF filesystem_touch, r
      <3> HIDE DEF e
      <3>2. a = [heap |-> r.heap, user_programs |-> e.user_programs,
                 program_count |-> e.program_count,
                 user_stack |-> e.user_stack, user_heap |-> e.user_heap,
                 files |-> e.files, binaries |-> e.binaries, granted |-> e.granted,
                 next_entry |-> e.next_entry]
        BY <2>1 DEF IsUser
      <3> HIDE DEF a
      <3>3. u = [heap |-> r.heap, user_programs |-> e.user_programs,
                 program_count |-> e.program_count,
                 user_stack |-> e.user_stack, user_heap |-> e.user_heap,
                 files |-> e.files \cup {r.ptr}, binaries |-> e.binaries,
                 granted |-> e.granted, next_entry |-> e.next_entry]
        BY <3>2
      <3> HIDE DEF u
      <3>4. IsUser(u) /\ SameTable(e, u) /\ u.heap = r.heap /\ u.granted = e.granted
            /\ u.files = e.files \cup {r.ptr} /\ u.binaries = e.binaries
        BY <3>3 DEF IsUser, SameTable
      <3>5. Good(e, u)
        BY <2>1, <2>2, <3>4, HolderAdded
      <3> QED
        BY <1>2, <3>1, <3>4, <3>5, GoodThenGood DEF e, SameTable
    <2>4. CASE in = "binaries"
      <3> DEFINE a == [e EXCEPT !.heap = r.heap]
                 u == [a EXCEPT !.binaries = a.binaries \cup {r.ptr}]
      <3>1. t = u
        BY <1>4, <2>4 DEF filesystem_touch, r
      <3> HIDE DEF e
      <3>2. a = [heap |-> r.heap, user_programs |-> e.user_programs,
                 program_count |-> e.program_count,
                 user_stack |-> e.user_stack, user_heap |-> e.user_heap,
                 files |-> e.files, binaries |-> e.binaries, granted |-> e.granted,
                 next_entry |-> e.next_entry]
        BY <2>1 DEF IsUser
      <3> HIDE DEF a
      <3>3. u = [heap |-> r.heap, user_programs |-> e.user_programs,
                 program_count |-> e.program_count,
                 user_stack |-> e.user_stack, user_heap |-> e.user_heap,
                 files |-> e.files, binaries |-> e.binaries \cup {r.ptr},
                 granted |-> e.granted, next_entry |-> e.next_entry]
        BY <3>2
      <3> HIDE DEF u
      <3>4. IsUser(u) /\ SameTable(e, u) /\ u.heap = r.heap /\ u.granted = e.granted
            /\ u.files = e.files /\ u.binaries = e.binaries \cup {r.ptr}
        BY <3>3 DEF IsUser, SameTable
      <3>5. Good(e, u)
        BY <2>1, <2>2, <3>4, HolderAdded
      <3> QED
        BY <1>2, <3>1, <3>4, <3>5, GoodThenGood DEF e, SameTable
    <2> QED
      BY <2>3, <2>4
  <1> QED
    BY <1>1, <1>3, <1>4

\* A program's block is granted and released.
LEMMA MallocKeeps ==
    ASSUME NEW s, UserOK(s), NEW size \in 0..(WORD - 4)
    PROVE  Good(s, SYS_MALLOC(s, size))
  <1> DEFINE r == memory_alloc(s.heap, size)
             G == [p \in DOMAIN s.granted \cup {r.ptr} |->
                      IF p = r.ptr THEN size ELSE s.granted[p]]
             a == [s EXCEPT !.heap = r.heap]
             t == [a EXCEPT !.granted = G]
  <1>1. CASE r.ptr = NULL
    BY <1>1, NothingDone DEF SYS_MALLOC
  <1>2. CASE r.ptr # NULL
    <2>1. Granted(s.heap, r, size)
      BY <1>2, AllocOnHeap DEF UserOK
    <2>2. a = [heap |-> r.heap, user_programs |-> s.user_programs,
               program_count |-> s.program_count,
               user_stack |-> s.user_stack, user_heap |-> s.user_heap,
               files |-> s.files, binaries |-> s.binaries, granted |-> s.granted,
               next_entry |-> s.next_entry]
      BY DEF UserOK, IsUser
    <2>3. SYS_MALLOC(s, size) = t
      <3>1. a.granted = s.granted
        BY <2>2
      <3>2. [a EXCEPT !.granted = [p \in DOMAIN a.granted \cup {r.ptr} |->
                                      IF p = r.ptr THEN size ELSE a.granted[p]]] = t
        <4> HIDE DEF a
        <4> QED
          BY <3>1
      <3>3. SYS_MALLOC(s, size)
              = [a EXCEPT !.granted = [p \in DOMAIN a.granted \cup {r.ptr} |->
                                          IF p = r.ptr THEN size ELSE a.granted[p]]]
        BY <1>2 DEF SYS_MALLOC
      <3> QED
        BY <3>2, <3>3
    <2>4. G = [p \in DOMAIN s.granted \cup {r.ptr} |->
                  IF p = r.ptr THEN size ELSE s.granted[p]]
      OBVIOUS
    <2> HIDE DEF a, r, G
    <2>5. t = [heap |-> r.heap, user_programs |-> s.user_programs,
               program_count |-> s.program_count,
               user_stack |-> s.user_stack, user_heap |-> s.user_heap,
               files |-> s.files, binaries |-> s.binaries, granted |-> G,
               next_entry |-> s.next_entry]
      BY <2>2
    <2> HIDE DEF t
    <2>6. /\ IsUser(t) /\ SameTable(s, t) /\ t.heap = r.heap
          /\ t.files = s.files /\ t.binaries = s.binaries /\ t.granted = G
      BY <2>5 DEF IsUser, SameTable
    <2>7. t.granted = [p \in DOMAIN s.granted \cup {r.ptr} |->
                          IF p = r.ptr THEN size ELSE s.granted[p]]
      BY <2>4, <2>6
    <2> HIDE DEF G
    <2>8. Good(s, t)
      BY <2>1, <2>6, <2>7, HolderAdded
    <2> QED
      BY <2>3, <2>8
  <1> QED
    BY <1>1, <1>2

LEMMA FreeKeeps ==
    ASSUME NEW s, UserOK(s), NEW ptr \in DOMAIN s.granted
    PROVE  Good(s, SYS_FREE(s, ptr))
  <1> DEFINE h == memory_free(s.heap, ptr)
             G == [p \in DOMAIN s.granted \ {ptr} |-> s.granted[p]]
             a == [s EXCEPT !.heap = h]
             t == [a EXCEPT !.granted = G]
  <1>1. a = [heap |-> h, user_programs |-> s.user_programs,
             program_count |-> s.program_count,
             user_stack |-> s.user_stack, user_heap |-> s.user_heap,
             files |-> s.files, binaries |-> s.binaries, granted |-> s.granted,
             next_entry |-> s.next_entry]
    BY DEF UserOK, IsUser
  <1>2. SYS_FREE(s, ptr) = t
    <2>1. a.granted = s.granted
      BY <1>1
    <2>2. [a EXCEPT !.granted = [p \in DOMAIN a.granted \ {ptr} |-> a.granted[p]]] = t
      <3> HIDE DEF a
      <3> QED
        BY <2>1
    <2>3. SYS_FREE(s, ptr)
            = [a EXCEPT !.granted = [p \in DOMAIN a.granted \ {ptr} |-> a.granted[p]]]
      BY DEF SYS_FREE
    <2> QED
      BY <2>2, <2>3
  <1>3. G = [p \in DOMAIN s.granted \ {ptr} |-> s.granted[p]]
    OBVIOUS
  <1> HIDE DEF a, G
  <1>4. t = [heap |-> h, user_programs |-> s.user_programs,
             program_count |-> s.program_count,
             user_stack |-> s.user_stack, user_heap |-> s.user_heap,
             files |-> s.files, binaries |-> s.binaries, granted |-> G,
             next_entry |-> s.next_entry]
    BY <1>1
  <1> HIDE DEF t
  <1>5. /\ IsUser(t) /\ SameTable(s, t) /\ t.heap = h
        /\ t.files = s.files /\ t.binaries = s.binaries /\ t.granted = G
    BY <1>4 DEF IsUser, SameTable
  <1>6. Good(s, t)
    BY <1>3, <1>5, HolderRemoved
  <1> QED
    BY <1>2, <1>6

\* Removing a file gives back its buffer.
LEMMA RmKeeps ==
    ASSUME NEW s, UserOK(s), NEW b \in s.files
    PROVE  Good(s, [s EXCEPT !.heap = memory_free(@, b), !.files = @ \ {b}])
  <1> DEFINE h == memory_free(s.heap, b)
             a == [s EXCEPT !.heap = h]
             t == [a EXCEPT !.files = a.files \ {b}]
  <1>1. [s EXCEPT !.heap = memory_free(@, b), !.files = @ \ {b}] = t
    OBVIOUS
  <1>2. a = [heap |-> h, user_programs |-> s.user_programs,
             program_count |-> s.program_count,
             user_stack |-> s.user_stack, user_heap |-> s.user_heap,
             files |-> s.files, binaries |-> s.binaries, granted |-> s.granted,
             next_entry |-> s.next_entry]
    BY DEF UserOK, IsUser
  <1> HIDE DEF a
  <1>3. t = [heap |-> h, user_programs |-> s.user_programs,
             program_count |-> s.program_count,
             user_stack |-> s.user_stack, user_heap |-> s.user_heap,
             files |-> s.files \ {b}, binaries |-> s.binaries, granted |-> s.granted,
             next_entry |-> s.next_entry]
    BY <1>2
  <1> HIDE DEF t
  <1>4. /\ IsUser(t) /\ SameTable(s, t) /\ t.heap = h
        /\ t.files = s.files \ {b} /\ t.binaries = s.binaries /\ t.granted = s.granted
    BY <1>3 DEF IsUser, SameTable
  <1>5. Good(s, t)
    BY <1>4, HolderRemoved
  <1> QED
    BY <1>1, <1>5

\* Running a program leaves the heap as it was, whether the block is had or not.
LEMMA RunChangesNothing ==
    ASSUME NEW s, UserOK(s), NEW name
    PROVE  user_run_program(s, name).user = s
  <1> DEFINE r == memory_alloc(s.heap, RunSize)
  <1>1. CASE \/ user_find_program(s, name) = -1 \/ name # "test" \/ r.ptr = NULL
    BY <1>1 DEF user_run_program, Result
  <1>2. CASE user_find_program(s, name) # -1 /\ name = "test" /\ r.ptr # NULL
    <2>1. Granted(s.heap, r, RunSize)
      BY <1>2, AllocOnHeap, ProgramAssumption DEF UserOK
    <2>2. memory_free(r.heap, r.ptr) = s.heap
      <3> HIDE DEF r
      <3> QED
        BY <2>1, FreeUndoesGrant DEF UserOK
    <2>3. user_run_program(s, name).user = [s EXCEPT !.heap = memory_free(r.heap, r.ptr)]
      BY <1>2 DEF user_run_program, Result
    <2>4. [s EXCEPT !.heap = s.heap] = s
      BY DEF UserOK, IsUser
    <2> HIDE DEF r
    <2> QED
      BY <2>2, <2>3, <2>4
  <1> QED
    BY <1>1, <1>2

\* Writing a file in a directory may make one for which there is no path.
LEMMA WriteKeeps ==
    ASSUME NEW s, UserOK(s), NEW exists
    PROVE  Good(s, WriteInDirectory(s, exists))
  BY TouchKeeps, NothingDone DEF WriteInDirectory

LEMMA CompileKeeps ==
    ASSUME NEW s, UserOK(s), NEW name, NEW size \in Nat, NEW exists
    PROVE  Good(s, user_compile_and_load(s, name, size, exists).user)
  <1> DEFINE t == WriteInDirectory(s, exists)
  <1>1. Good(s, t)
    BY WriteKeeps
  <1> HIDE DEF t
  <1>2. Good(t, user_load_program(t, name, size).user)
    BY <1>1, LoadKeeps DEF Good
  <1> QED
    BY <1>1, <1>2, GoodThenGood DEF user_compile_and_load, t

-----------------------------------------------------------------------------
(* Start-up.  That the recursive functions of the loops exist, and what they *)
(* keep, is shown by a least counterexample.                                 *)

\* The state after n files, as a function of n.
IsFilesMade(f, s, n) ==
    f = [k \in 0..n |-> IF k = 0 THEN s ELSE filesystem_touch(f[k - 1], "binaries")]

LEMMA FilesMadeExists ==
    ASSUME NEW s, NEW n \in Nat
    PROVE  \E f : IsFilesMade(f, s, n)
  <1> DEFINE Bad == {m \in Nat : ~\E f : IsFilesMade(f, s, m)}
  <1>1. SUFFICES ASSUME Bad # {} PROVE FALSE
    OBVIOUS
  <1>2. PICK m \in Bad : \A k \in Bad : m <= k
    <2>1. Bad \in SUBSET Nat
      OBVIOUS
    <2> HIDE DEF Bad
    <2> QED
      BY <1>1, <2>1, LeastNatural
  <1>3. m \in Nat /\ \A f : ~IsFilesMade(f, s, m)
    OBVIOUS
  <1>4. CASE m = 0
    <2> DEFINE f == [k \in 0..0 |-> s]
    <2>1. IsFilesMade(f, s, 0)
      BY DEF IsFilesMade
    <2> QED
      BY <1>3, <1>4, <2>1
  <1>5. CASE m # 0
    <2>1. m - 1 \in Nat /\ m - 1 \notin Bad
      BY <1>2, <1>3, <1>5
    <2>2. PICK f : IsFilesMade(f, s, m - 1)
      BY <2>1
    <2> DEFINE g == [k \in 0..m |-> IF k = m THEN filesystem_touch(f[m - 1], "binaries")
                                            ELSE f[k]]
    <2>3. \A k \in 0..(m - 1) :
             f[k] = IF k = 0 THEN s ELSE filesystem_touch(f[k - 1], "binaries")
      BY <2>2 DEF IsFilesMade
    <2>4. ASSUME NEW k \in 0..m
          PROVE  g[k] = IF k = 0 THEN s ELSE filesystem_touch(g[k - 1], "binaries")
      <3>1. CASE k = m
        <4>1. m # 0 /\ m - 1 \in 0..m /\ m - 1 # m
          BY <1>3, <1>5
        <4>2. g[m - 1] = f[m - 1]
          BY <4>1
        <4>3. g[m] = filesystem_touch(f[m - 1], "binaries")
          BY <1>3
        <4> QED
          BY <3>1, <4>1, <4>2, <4>3
      <3>2. CASE k # m
        <4>1. k \in 0..(m - 1) /\ g[k] = f[k]
          BY <1>3, <3>2
        <4>2. CASE k = 0
          BY <2>3, <4>1, <4>2
        <4>3. CASE k # 0
          <5>1. k - 1 \in 0..m /\ k - 1 # m
            BY <1>3, <3>2, <4>3
          <5>2. g[k - 1] = f[k - 1]
            BY <5>1
          <5> QED
            BY <2>3, <4>1, <4>3, <5>2
        <4> QED
          BY <4>2, <4>3
      <3> QED
        BY <3>1, <3>2
    <2>5. g = [k \in 0..m |-> g[k]]
      OBVIOUS
    <2> HIDE DEF g
    <2>6. IsFilesMade(g, s, m)
      BY <2>4, <2>5 DEF IsFilesMade
    <2> QED
      BY <1>3, <2>6
  <1> QED
    BY <1>4, <1>5

\* However many files are made, and whichever of them fails for want of memory,
\* the blocks keep their holders.
LEMMA FilesMadeKeep ==
    ASSUME NEW s, UserOK(s), NEW n \in Nat
    PROVE  Good(s, FilesMade(s, n)) /\ SameTable(s, FilesMade(s, n))
  <1> DEFINE after == CHOOSE f : IsFilesMade(f, s, n)
  <1>1. FilesMade(s, n) = after[n]
    BY DEF FilesMade, IsFilesMade
  <1>2. IsFilesMade(after, s, n)
    BY FilesMadeExists
  <1> HIDE DEF after
  <1>3. \A k \in 0..n :
           after[k] = IF k = 0 THEN s ELSE filesystem_touch(after[k - 1], "binaries")
    BY <1>2 DEF IsFilesMade
  <1> DEFINE Bad == {k \in 0..n : ~(Good(s, after[k]) /\ SameTable(s, after[k]))}
  <1>4. ASSUME Bad # {} PROVE FALSE
    <2>1. Bad \in SUBSET Nat
      OBVIOUS
    <2>2. PICK m \in Bad : \A k \in Bad : m <= k
      <3> HIDE DEF Bad
      <3> QED
        BY <1>4, <2>1, LeastNatural
    <2>3. m \in 0..n /\ ~(Good(s, after[m]) /\ SameTable(s, after[m]))
      BY <2>2
    <2>4. m # 0
      BY <1>3, <2>3, NothingDone DEF SameTable
    <2>5. m - 1 \in 0..n /\ m - 1 \notin Bad
      BY <2>2, <2>3, <2>4
    <2>6. Good(s, after[m - 1]) /\ SameTable(s, after[m - 1])
      BY <2>5
    <2>7. after[m] = filesystem_touch(after[m - 1], "binaries")
      BY <1>3, <2>3, <2>4
    <2>8. /\ Good(after[m - 1], after[m]) /\ SameTable(after[m - 1], after[m])
      BY <2>6, <2>7, TouchKeeps DEF Good
    <2>9. Good(s, after[m]) /\ SameTable(s, after[m])
      BY <2>6, <2>8, GoodThenGood DEF SameTable
    <2> QED
      BY <2>3, <2>9
  <1>5. n \in 0..n
    OBVIOUS
  <1> QED
    BY <1>1, <1>4, <1>5

\* The state after n demo programs, as a function of n.
IsDemosLoaded(f, s, n) ==
    f = [k \in 0..n |->
            IF k = 0 THEN s
            ELSE user_compile_and_load(f[k - 1], Demos[k].name, Demos[k].size, 0).user]

LEMMA DemosLoadedExists ==
    ASSUME NEW s, NEW n \in Nat
    PROVE  \E f : IsDemosLoaded(f, s, n)
  <1> DEFINE Next1(t, k) == user_compile_and_load(t, Demos[k].name, Demos[k].size, 0).user
             Bad == {m \in Nat : ~\E f : IsDemosLoaded(f, s, m)}
  <1>1. SUFFICES ASSUME Bad # {} PROVE FALSE
    OBVIOUS
  <1>2. PICK m \in Bad : \A k \in Bad : m <= k
    <2>1. Bad \in SUBSET Nat
      OBVIOUS
    <2> HIDE DEF Bad
    <2> QED
      BY <1>1, <2>1, LeastNatural
  <1>3. m \in Nat /\ \A f : ~IsDemosLoaded(f, s, m)
    OBVIOUS
  <1>4. CASE m = 0
    <2> DEFINE f == [k \in 0..0 |-> s]
    <2>1. IsDemosLoaded(f, s, 0)
      BY DEF IsDemosLoaded
    <2> QED
      BY <1>3, <1>4, <2>1
  <1>5. CASE m # 0
    <2>1. m - 1 \in Nat /\ m - 1 \notin Bad
      BY <1>2, <1>3, <1>5
    <2>2. PICK f : IsDemosLoaded(f, s, m - 1)
      BY <2>1
    <2> DEFINE g == [k \in 0..m |-> IF k = m THEN Next1(f[m - 1], m) ELSE f[k]]
    <2>3. \A k \in 0..(m - 1) : f[k] = IF k = 0 THEN s ELSE Next1(f[k - 1], k)
      BY <2>2 DEF IsDemosLoaded
    <2>4. ASSUME NEW k \in 0..m
          PROVE  g[k] = IF k = 0 THEN s ELSE Next1(g[k - 1], k)
      <3>1. CASE k = m
        <4>1. m # 0 /\ m - 1 \in 0..m /\ m - 1 # m
          BY <1>3, <1>5
        <4>2. g[m - 1] = f[m - 1]
          BY <4>1
        <4>3. g[m] = Next1(f[m - 1], m)
          BY <1>3
        <4> QED
          BY <3>1, <4>1, <4>2, <4>3
      <3>2. CASE k # m
        <4>1. k \in 0..(m - 1) /\ g[k] = f[k]
          BY <1>3, <3>2
        <4>2. CASE k = 0
          BY <2>3, <4>1, <4>2
        <4>3. CASE k # 0
          <5>1. k - 1 \in 0..m /\ k - 1 # m
            BY <1>3, <3>2, <4>3
          <5>2. g[k - 1] = f[k - 1]
            BY <5>1
          <5> QED
            BY <2>3, <4>1, <4>3, <5>2
        <4> QED
          BY <4>2, <4>3
      <3> QED
        BY <3>1, <3>2
    <2>5. g = [k \in 0..m |-> g[k]]
      OBVIOUS
    <2> HIDE DEF g
    <2>6. IsDemosLoaded(g, s, m)
      BY <2>4, <2>5 DEF IsDemosLoaded
    <2> QED
      BY <1>3, <2>6
  <1> QED
    BY <1>4, <1>5

\* The demo programs: what one of them finds no room for, the next may.
LEMMA DemosKeep ==
    ASSUME NEW s, UserOK(s)
    PROVE  Good(s, user_create_demo_programs(s))
  <1> DEFINE n == Len(Demos)
             after == CHOOSE f : IsDemosLoaded(f, s, n)
  <1>1. user_create_demo_programs(s) = after[n]
    BY DEF user_create_demo_programs, IsDemosLoaded
  <1>2. n \in Nat /\ \A k \in 1..n : Demos[k].size \in Nat
    <2> DEFINE D == [name : STRING, size : Nat]
    <2>1. Demos \in Seq(D)
      BY ProgramAssumption
    <2>2. \A d \in D : d.size \in Nat
      OBVIOUS
    <2> HIDE DEF D
    <2>3. Len(Demos) \in Nat /\ \A k \in 1..Len(Demos) : Demos[k] \in D
      BY <2>1
    <2> QED
      BY <2>2, <2>3
  <1>3. IsDemosLoaded(after, s, n)
    BY <1>2, DemosLoadedExists
  <1> HIDE DEF after, n
  <1>4. \A k \in 0..n :
           after[k] = IF k = 0 THEN s
                      ELSE user_compile_and_load(after[k - 1], Demos[k].name,
                                                 Demos[k].size, 0).user
    BY <1>3 DEF IsDemosLoaded
  <1> DEFINE Bad == {k \in 0..n : ~Good(s, after[k])}
  <1>5. ASSUME Bad # {} PROVE FALSE
    <2>1. Bad \in SUBSET Nat
      OBVIOUS
    <2>2. PICK m \in Bad : \A k \in Bad : m <= k
      <3> HIDE DEF Bad
      <3> QED
        BY <1>5, <2>1, LeastNatural
    <2>3. m \in 0..n /\ ~Good(s, after[m])
      BY <2>2
    <2>4. m # 0
      BY <1>4, <2>3, NothingDone
    <2>5. m - 1 \in 0..n /\ m - 1 \notin Bad /\ m \in 1..n
      BY <1>2, <2>2, <2>3, <2>4
    <2>6. Good(s, after[m - 1])
      BY <2>5
    <2>7. after[m] = user_compile_and_load(after[m - 1], Demos[m].name,
                                           Demos[m].size, 0).user
      BY <1>4, <2>3, <2>4
    <2>8. Good(after[m - 1], after[m])
      BY <1>2, <2>5, <2>6, <2>7, CompileKeeps DEF Good
    <2>9. Good(s, after[m])
      BY <2>6, <2>8, GoodThenGood
    <2> QED
      BY <2>3, <2>9
  <1>6. n \in 0..n
    BY <1>2
  <1> QED
    BY <1>1, <1>5, <1>6

\* The kernel with nothing in it.
LEMMA SwitchedOnOK ==
    /\ UserOK(SwitchedOn)
    /\ SwitchedOn.user_stack = 0 /\ SwitchedOn.user_heap = 0
  <1> DEFINE s == SwitchedOn
             table == [i \in Slots |-> EmptySlot]
             none == [p \in {} |-> 0]
             n == EntriesAtBoot - BuffersAtBoot
  <1>1. s = [heap |-> memory_init, user_programs |-> table, program_count |-> 0,
             user_stack |-> 0, user_heap |-> 0, files |-> {}, binaries |-> {},
             granted |-> none, next_entry |-> n]
    BY DEF SwitchedOn, NULL
  <1>2. DOMAIN none = {} /\ none = [p \in DOMAIN none |-> none[p]]
    OBVIOUS
  <1>3. table = [i \in Slots |-> table[i]] /\ \A i \in Slots : table[i] = EmptySlot
    OBVIOUS
  <1> HIDE DEF s, table, none, n
  <1>4. /\ IsUser(s) /\ s.heap = memory_init /\ s.user_programs = table
        /\ s.program_count = 0 /\ s.user_stack = 0 /\ s.user_heap = 0
        /\ s.files = {} /\ s.binaries = {} /\ s.granted = none
    BY <1>1 DEF IsUser
  <1>5. UsedSlots(s) = {}
    <2>1. EmptySlot.used = 0
      BY DEF EmptySlot
    <2> QED
      BY <1>3, <1>4, <2>1 DEF UsedSlots
  <1>6. TableOK(s)
    BY <1>3, <1>4, <1>5, FS_EmptySet DEF TableOK
  <1>7. HoldersOK(s) /\ Apart(s)
    BY <1>2, <1>4, <1>5 DEF HoldersOK, Apart, Codes, Fixed
  <1> QED
    BY <1>2, <1>4, <1>6, <1>7, FreshHeap DEF UserOK, s

\* A request, whether it is met or not, leaves the holders what they hold.
LEMMA AllocForHolders ==
    ASSUME NEW h, HeapOK(h), NEW size \in 0..(WORD - 4)
    PROVE  LET r == memory_alloc(h, size) IN
           /\ HeapOK(r.heap) /\ (r.ptr # 0 => At(r.heap, r.ptr, size))
           /\ \A p, m : At(h, p, m) => At(r.heap, p, m) /\ p # r.ptr
  <1> DEFINE r == memory_alloc(h, size)
  <1>1. IF r.ptr = NULL THEN r.heap = h ELSE Granted(h, r, size)
    BY AllocOnHeap
  <1> HIDE DEF r
  <1>2. CASE r.ptr = 0
    <2>1. ASSUME NEW p, NEW m, At(h, p, m) PROVE p # 0
      BY <2>1, LayoutAssumption
         DEF At, Live, HeapOK, BlockListInv, BlockListTypeOK, HEADER
    <2> QED
      BY <1>1, <1>2, <2>1 DEF NULL, r
  <1>3. CASE r.ptr # 0
    BY <1>1, <1>3, GrantKeepsHolders DEF NULL, r
  <1> QED
    BY <1>2, <1>3

\* user_init, whichever of its two blocks is refused.
LEMMA UserInitKeeps ==
    ASSUME NEW s, UserOK(s), s.user_stack = 0, s.user_heap = 0
    PROVE  UserOK(user_init(s))
  <1> DEFINE stack == memory_alloc(s.heap, USER_STACK_SIZE)
             uheap == memory_alloc(stack.heap, USER_HEAP_SIZE)
             a == [s EXCEPT !.heap = uheap.heap]
             b == [a EXCEPT !.user_stack = stack.ptr]
             t == [b EXCEPT !.user_heap = uheap.ptr]
  <1>1. user_init(s) = IF stack.ptr = NULL \/ uheap.ptr = NULL THEN t
                       ELSE user_load_builtin_programs(t)
    BY DEF user_init
  <1>2. /\ HeapOK(stack.heap)
        /\ stack.ptr # 0 => At(stack.heap, stack.ptr, USER_STACK_SIZE)
        /\ \A p, m : At(s.heap, p, m) => At(stack.heap, p, m) /\ p # stack.ptr
    BY AllocForHolders, ProgramAssumption DEF UserOK
  <1> HIDE DEF stack
  <1>3. /\ HeapOK(uheap.heap)
        /\ uheap.ptr # 0 => At(uheap.heap, uheap.ptr, USER_HEAP_SIZE)
        /\ \A p, m : At(stack.heap, p, m) => At(uheap.heap, p, m) /\ p # uheap.ptr
    BY <1>2, AllocForHolders, ProgramAssumption
  <1> HIDE DEF uheap
  <1>4. a = [heap |-> uheap.heap, user_programs |-> s.user_programs,
             program_count |-> s.program_count,
             user_stack |-> s.user_stack, user_heap |-> s.user_heap,
             files |-> s.files, binaries |-> s.binaries, granted |-> s.granted,
             next_entry |-> s.next_entry]
    BY DEF UserOK, IsUser
  <1> HIDE DEF a
  <1>5. b = [heap |-> uheap.heap, user_programs |-> s.user_programs,
             program_count |-> s.program_count,
             user_stack |-> stack.ptr, user_heap |-> s.user_heap,
             files |-> s.files, binaries |-> s.binaries, granted |-> s.granted,
             next_entry |-> s.next_entry]
    BY <1>4
  <1> HIDE DEF b
  <1>6. t = [heap |-> uheap.heap, user_programs |-> s.user_programs,
             program_count |-> s.program_count,
             user_stack |-> stack.ptr, user_heap |-> uheap.ptr,
             files |-> s.files, binaries |-> s.binaries, granted |-> s.granted,
             next_entry |-> s.next_entry]
    BY <1>5
  <1> HIDE DEF t
  <1>7. /\ IsUser(t) /\ t.heap = uheap.heap /\ t.user_programs = s.user_programs
        /\ t.program_count = s.program_count
        /\ t.user_stack = stack.ptr /\ t.user_heap = uheap.ptr
        /\ t.files = s.files /\ t.binaries = s.binaries /\ t.granted = s.granted
    BY <1>6 DEF IsUser
  <1>8. TableOK(t) /\ UsedSlots(t) = UsedSlots(s) /\ Codes(t) = Codes(s)
    BY <1>7 DEF UserOK, TableOK, UsedSlots, Codes
  <1>9. /\ \A p, m : At(s.heap, p, m) => At(t.heap, p, m) /\ p # stack.ptr /\ p # uheap.ptr
        /\ stack.ptr # 0 => At(t.heap, stack.ptr, USER_STACK_SIZE) /\ stack.ptr # uheap.ptr
        /\ uheap.ptr # 0 => At(t.heap, uheap.ptr, USER_HEAP_SIZE)
    BY <1>2, <1>3, <1>7
  <1>10. HoldersOK(t)
    BY <1>7, <1>8, <1>9 DEF UserOK, HoldersOK
  <1>11. Apart(t)
    <2>1. \A p \in Codes(s) \cup s.files \cup s.binaries \cup DOMAIN s.granted :
             p # stack.ptr /\ p # uheap.ptr
      BY <1>9 DEF UserOK, HoldersOK, Codes
    <2>2. /\ \A i, j \in UsedSlots(t) :
                t.user_programs[i].code = t.user_programs[j].code => i = j
          /\ t.user_stack # 0 => t.user_stack # t.user_heap
      BY <1>7, <1>8, <1>9 DEF UserOK, Apart
    <2>3. Fixed(t) \subseteq {stack.ptr, uheap.ptr}
      BY <1>7 DEF Fixed
    <2> QED
      BY <1>7, <1>8, <2>1, <2>2, <2>3 DEF UserOK, Apart
  <1>12. UserOK(t)
    BY <1>3, <1>7, <1>8, <1>10, <1>11 DEF UserOK
  <1>13. UserOK(user_load_builtin_programs(t))
    <2>1. UserOK(MkdirEntry(t))
      BY <1>12, MkdirKeeps DEF Good
    <2>2. Len(Demos) \in Nat
      BY ProgramAssumption
    <2>3. UserOK(FilesMade(MkdirEntry(t), Len(Demos)))
      BY <2>1, <2>2, FilesMadeKeep DEF Good
    <2> QED
      BY <2>3, DemosKeep DEF Good, user_load_builtin_programs
  <1> QED
    BY <1>1, <1>12, <1>13

LEMMA StartsOK == Init => UserOK(user)
  <1>1. BuffersAtBoot \in Nat
    BY ProgramAssumption
  <1>2. UserOK(Booted) /\ Booted.user_stack = 0 /\ Booted.user_heap = 0
    BY <1>1, SwitchedOnOK, FilesMadeKeep DEF Booted, Good, SameTable
  <1> QED
    BY <1>2, UserInitKeeps DEF Init

-----------------------------------------------------------------------------
(* The commands. *)

\* A block that is had and forgotten is the one block that is lost.
LEMMA BlockForgotten ==
    ASSUME NEW s, UserOK(s), NEW n, NEW r, Granted(s.heap, r, n)
    PROVE  LET t == [s EXCEPT !.heap = r.heap] IN
           UserOK(t) /\ Cardinality(Lost(t) \ Lost(s)) = 1
  <1> DEFINE t == [s EXCEPT !.heap = r.heap]
             b == r.ptr - HEADER
  <1>1. t = [heap |-> r.heap, user_programs |-> s.user_programs,
             program_count |-> s.program_count,
             user_stack |-> s.user_stack, user_heap |-> s.user_heap,
             files |-> s.files, binaries |-> s.binaries, granted |-> s.granted,
             next_entry |-> s.next_entry]
    BY DEF UserOK, IsUser
  <1> HIDE DEF t
  <1>2. /\ IsUser(t) /\ SameTable(s, t) /\ t.heap = r.heap
        /\ t.files = s.files /\ t.binaries = s.binaries /\ t.granted = s.granted
    BY <1>1 DEF IsUser, SameTable
  <1>3. /\ HeapOK(r.heap) /\ At(r.heap, r.ptr, n) /\ r.ptr # 0
        /\ \A p, m : At(s.heap, p, m) => At(r.heap, p, m) /\ p # r.ptr
        /\ Live(r.heap) = Live(s.heap) \cup {b}
    BY GrantKeepsHolders DEF UserOK
  <1>4. /\ TableOK(t) /\ UsedSlots(t) = UsedSlots(s)
        /\ Codes(t) = Codes(s) /\ Fixed(t) = Fixed(s)
    BY <1>2, TableKept
  <1>5. HoldersOK(t) /\ Apart(t)
    BY <1>2, <1>3, <1>4 DEF UserOK, HoldersOK, Apart, SameTable
  <1>6. UserOK(t)
    BY <1>2, <1>3, <1>4, <1>5 DEF UserOK
  <1>7. /\ DOMAIN Owned(t) = DOMAIN Owned(s)
        /\ DOMAIN Owned(s) = Owners(s)
    BY <1>2, <1>4 DEF Owned, Owners, Codes, Fixed, SameTable
  <1>8. b + HEADER = r.ptr /\ r.ptr \notin Owners(s) /\ b \notin Live(s.heap)
    <2>1. r.ptr \notin Owners(s)
      BY <1>3, HolderAt
    <2> QED
      BY <1>3, <2>1 DEF At, Granted, HEADER
  <1>9. \A c : c \in Lost(t) \ Lost(s) <=> c = b
    BY <1>2, <1>3, <1>7, <1>8 DEF Lost, Live
  <1>10. Lost(t) \ Lost(s) = {b}
    BY <1>9
  <1>11. Cardinality({b}) = 1
    BY FS_Singleton
  <1> QED
    BY <1>6, <1>10, <1>11 DEF t

\* The command "test" keeps everybody's blocks.  It leaves the heap as it was
\* unless exactly one of its two requests is met, and then it loses that block.
LEMMA TestKeeps ==
    ASSUME NEW s, UserOK(s)
    PROVE  \/ test(s).user = s
           \/ /\ UserOK(test(s).user) /\ test(s).ret = -1
              /\ Cardinality(Lost(test(s).user) \ Lost(s)) = 1
  <1> DEFINE ptr1 == memory_alloc(s.heap, TEST_SIZE1)
             ptr2 == memory_alloc(ptr1.heap, TEST_SIZE2)
             freed == memory_free(memory_free(ptr2.heap, ptr1.ptr), ptr2.ptr)
  <1>1. test(s) = IF ptr1.ptr # NULL /\ ptr2.ptr # NULL
                  THEN Result([s EXCEPT !.heap = freed], 0)
                  ELSE Result([s EXCEPT !.heap = ptr2.heap], -1)
    BY DEF test
  <1>2. IF ptr1.ptr = NULL THEN ptr1.heap = s.heap ELSE Granted(s.heap, ptr1, TEST_SIZE1)
    BY AllocOnHeap, TestAssumption DEF UserOK
  <1> HIDE DEF ptr1
  <1>3. HeapOK(ptr1.heap)
    BY <1>2 DEF UserOK, Granted
  <1>4. IF ptr2.ptr = NULL THEN ptr2.heap = ptr1.heap
        ELSE Granted(ptr1.heap, ptr2, TEST_SIZE2)
    BY <1>3, AllocOnHeap, TestAssumption
  <1> HIDE DEF ptr2
  <1>5. [s EXCEPT !.heap = s.heap] = s
    BY DEF UserOK, IsUser
  <1>6. CASE ptr1.ptr # NULL /\ ptr2.ptr # NULL
    <2>1. freed = s.heap
      BY <1>2, <1>4, <1>6, TwoGrantsBack DEF UserOK
    <2> HIDE DEF freed
    <2> QED
      BY <1>1, <1>5, <1>6, <2>1 DEF Result
  <1>7. CASE ptr1.ptr = NULL /\ ptr2.ptr = NULL
    BY <1>1, <1>2, <1>4, <1>5, <1>7 DEF Result
  <1>8. CASE ptr1.ptr = NULL /\ ptr2.ptr # NULL
    <2>1. Granted(s.heap, ptr2, TEST_SIZE2)
      BY <1>2, <1>4, <1>8
    <2>2. test(s).user = [s EXCEPT !.heap = ptr2.heap] /\ test(s).ret = -1
      BY <1>1, <1>8 DEF Result
    <2> DEFINE t == [s EXCEPT !.heap = ptr2.heap]
    <2>3. UserOK(t) /\ Cardinality(Lost(t) \ Lost(s)) = 1
      BY <2>1, BlockForgotten
    <2>4. test(s).user = t /\ test(s).ret = -1
      BY <2>2
    <2> HIDE DEF t
    <2> QED
      BY <2>3, <2>4
  <1>9. CASE ptr1.ptr # NULL /\ ptr2.ptr = NULL
    <2>1. Granted(s.heap, ptr1, TEST_SIZE1)
      BY <1>2, <1>9
    <2>2. test(s).user = [s EXCEPT !.heap = ptr1.heap] /\ test(s).ret = -1
      BY <1>1, <1>4, <1>9 DEF Result
    <2> DEFINE t == [s EXCEPT !.heap = ptr1.heap]
    <2>3. UserOK(t) /\ Cardinality(Lost(t) \ Lost(s)) = 1
      BY <2>1, BlockForgotten
    <2>4. test(s).user = t /\ test(s).ret = -1
      BY <2>2
    <2> HIDE DEF t
    <2> QED
      BY <2>3, <2>4
  <1> QED
    BY <1>6, <1>7, <1>8, <1>9

\* A table that is forgotten: what is lost is its buffers.
LEMMA ForgottenLoses ==
    ASSUME NEW s, UserOK(s)
    PROVE  /\ UserOK(Forgotten(s))
           /\ Lost(Forgotten(s)) \ Lost(s)
                \subseteq {p - HEADER : p \in s.files \cup s.binaries}
  <1> DEFINE t == Forgotten(s)
  <1>1. t = [heap |-> s.heap, user_programs |-> s.user_programs,
             program_count |-> s.program_count,
             user_stack |-> s.user_stack, user_heap |-> s.user_heap,
             files |-> {}, binaries |-> {}, granted |-> s.granted,
             next_entry |-> s.next_entry]
    <2> DEFINE a == [s EXCEPT !.files = {}]
    <2>1. t = [a EXCEPT !.binaries = {}]
      BY DEF Forgotten
    <2>2. a = [heap |-> s.heap, user_programs |-> s.user_programs,
               program_count |-> s.program_count,
               user_stack |-> s.user_stack, user_heap |-> s.user_heap,
               files |-> {}, binaries |-> s.binaries, granted |-> s.granted,
               next_entry |-> s.next_entry]
      BY DEF UserOK, IsUser
    <2> HIDE DEF a, t
    <2> QED
      BY <2>1, <2>2
  <1> HIDE DEF t
  <1>2. /\ IsUser(t) /\ SameTable(s, t) /\ t.heap = s.heap
        /\ t.files = {} /\ t.binaries = {} /\ t.granted = s.granted
    BY <1>1 DEF IsUser, SameTable
  <1>3. /\ TableOK(t) /\ UsedSlots(t) = UsedSlots(s)
        /\ Codes(t) = Codes(s) /\ Fixed(t) = Fixed(s)
    BY <1>2, TableKept
  <1>4. HoldersOK(t) /\ Apart(t)
    BY <1>2, <1>3 DEF UserOK, HoldersOK, Apart, SameTable
  <1>5. UserOK(t)
    BY <1>2, <1>3, <1>4 DEF UserOK
  <1>6. /\ DOMAIN Owned(t) = Owners(t) /\ DOMAIN Owned(s) = Owners(s)
        /\ Owners(s) = Owners(t) \cup s.files \cup s.binaries
    BY <1>2, <1>3 DEF Owned, Owners, Codes, Fixed
  <1>7. ASSUME NEW b \in Lost(t) \ Lost(s)
        PROVE  b \in {p - HEADER : p \in s.files \cup s.binaries}
    <2>1. /\ b \in Live(s.heap) /\ b + HEADER \in Owners(s)
          /\ b + HEADER \notin Owners(t)
      BY <1>2, <1>6, <1>7 DEF Lost, Live
    <2>2. b + HEADER \in s.files \cup s.binaries
      BY <1>6, <2>1
    <2>3. b \in Int
      BY <2>1, LayoutAssumption DEF UserOK, Live, HeapOK, BlockListInv, BlockListTypeOK
    <2>4. b = (b + HEADER) - HEADER
      BY <2>3 DEF HEADER
    <2> QED
      BY <2>2, <2>4
  <1> QED
    BY <1>5, <1>7 DEF t

\* However "load" goes, what it loses is buffers of the files it replaces.
LEMMA LoadLoses ==
    ASSUME NEW s, UserOK(s), NEW t \in LoadOutcomes(s)
    PROVE  /\ UserOK(t)
           /\ Lost(t) \ Lost(s) \subseteq {p - HEADER : p \in s.files \cup s.binaries}
  <1> DEFINE u == Forgotten(s)
  <1>1. /\ UserOK(u)
        /\ Lost(u) \ Lost(s) \subseteq {p - HEADER : p \in s.files \cup s.binaries}
    BY ForgottenLoses
  <1>2. CASE t = s
    BY <1>2
  <1>3. ASSUME Good(u, t)
        PROVE  /\ UserOK(t)
               /\ Lost(t) \ Lost(s) \subseteq {p - HEADER : p \in s.files \cup s.binaries}
    BY <1>1, <1>3 DEF Good
  <1>4. CASE t = u
    BY <1>1, <1>4
  <1> HIDE DEF u
  <1>5. \A n : Good(u, [u EXCEPT !.next_entry = n])
    BY <1>1, EntryMade
  <1>6. CASE t = StartedAnew(s)
    <2> DEFINE e == [u EXCEPT !.next_entry = EntriesAtBoot - BuffersAtBoot]
    <2>1. Good(u, e)
      BY <1>5
    <2>2. t = FilesMade(e, BuffersAtBoot)
      BY <1>6 DEF StartedAnew, u
    <2> HIDE DEF e
    <2>3. BuffersAtBoot \in Nat
      BY ProgramAssumption
    <2>4. Good(e, t)
      BY <2>1, <2>2, <2>3, FilesMadeKeep DEF Good
    <2>5. Good(u, t)
      BY <2>1, <2>4, GoodThenGood
    <2> QED
      BY <1>3, <2>5
  <1>7. ASSUME NEW n, t = [u EXCEPT !.next_entry = n] PROVE Good(u, t)
    BY <1>5, <1>7
  <1>8. \/ t \in {s, u, StartedAnew(s)}
        \/ \E n : t = [u EXCEPT !.next_entry = n]
    BY DEF LoadOutcomes, u
  <1> QED
    BY <1>2, <1>3, <1>4, <1>6, <1>7, <1>8

\* A step that loses something: a "test" that fails half way, or a "load".
Losing ==
    \/ /\ user' = test(user).user /\ test(user).ret = -1
       /\ Cardinality(Lost(user') \ Lost(user)) = 1
    \/ /\ user' \in LoadOutcomes(user)
       /\ Lost(user') \ Lost(user) \subseteq {p - HEADER : p \in user.files \cup user.binaries}

\* What every step does: it loses nothing, or it is one of these.
LEMMA StepKeeps ==
    ASSUME UserOK(user), Next
    PROVE  Good(user, user') \/ (UserOK(user') /\ Losing)
  <1>1. ASSUME NEW typed \in Lines, execute_command(typed)
        PROVE  Good(user, user') \/ (UserOK(user') /\ Losing)
    <2>1. CASE user' = test(user).user
      BY <2>1, TestKeeps, NothingDone DEF Losing
    <2>9. CASE user' \in LoadOutcomes(user)
      BY <2>9, LoadLoses DEF Losing
    <2>2. CASE user' = filesystem_touch(user, "files")
      BY <2>2, TouchKeeps
    <2>3. CASE user' = MkdirEntry(user)
      BY <2>3, MkdirKeeps
    <2>4. ASSUME NEW b \in user.files,
                 user' = [user EXCEPT !.heap = memory_free(@, b), !.files = @ \ {b}]
          PROVE  Good(user, user')
      BY <2>4, RmKeeps
    <2>5. CASE user' = user_run_program(user, typed.arg).user
      BY <2>5, RunChangesNothing, NothingDone
    <2>6. CASE user' = user_remove_program(user, typed.arg).user
      BY <2>6, RemoveKeeps
    <2>7. ASSUME NEW readable \in {0, 1}, NEW exists \in {0, 1}, NEW size \in CompiledSizes,
                 user' = user_load_from_file(user, readable, ProgramOf[typed.arg],
                                             size, exists).user
          PROVE  Good(user, user')
      <3>1. size \in Nat
        BY ProgramAssumption
      <3>2. CASE readable = 0
        BY <2>7, <3>2, NothingDone DEF user_load_from_file, Result
      <3>3. CASE readable # 0
        BY <2>7, <3>1, <3>3, CompileKeeps DEF user_load_from_file
      <3> QED
        BY <3>2, <3>3
    <2>8. CASE user' = user
      BY <2>8, NothingDone
    <2> QED
      BY <1>1, <2>1, <2>2, <2>3, <2>4, <2>5, <2>6, <2>7, <2>8, <2>9 DEF execute_command
  <1>2. CASE SystemCall
    <2>1. ASSUME NEW size \in SyscallSizes, user' = SYS_MALLOC(user, size)
          PROVE  Good(user, user')
      BY <2>1, MallocKeeps, ProgramAssumption
    <2>2. ASSUME NEW ptr \in DOMAIN user.granted, user' = SYS_FREE(user, ptr)
          PROVE  Good(user, user')
      BY <2>2, FreeKeeps
    <2> QED
      BY <1>2, <2>1, <2>2 DEF SystemCall
  <1>3. CASE LoadBinary
    <2>1. PICK name \in Names, exists \in {0, 1}, size \in CompiledSizes \cup {0} :
             user' = user_load_binary_from_system(user, exists, name, size).user
      BY <1>3 DEF LoadBinary
    <2>2. size \in Nat
      BY ProgramAssumption
    <2>3. Good(user, user_load_program(user, name, size).user)
      BY <2>2, LoadKeeps
    <2> QED
      BY <2>1, <2>3, NothingDone DEF user_load_binary_from_system, Result
  <1> QED
    BY <1>1, <1>2, <1>3 DEF Next

-----------------------------------------------------------------------------
(* The theorems. *)

\* In every reachable state the blocks that slots, files, programs and user_init
\* hold are used blocks of the size asked for, all different, and the table is
\* consistent.
THEOREM UserInvariant == Spec => []UserOK(user)
  <1>1. Init => UserOK(user)
    BY StartsOK
  <1>2. UserOK(user) /\ [Next]_user => UserOK(user)'
    BY StepKeeps DEF Good
  <1> QED
    BY <1>1, <1>2, PTL DEF Spec

\* The counter, the slots and the names agree in every reachable state.
THEOREM ProgramsAgreeCorrect == Spec => []ProgramsAgree
  <1>1. UserOK(user) => ProgramsAgree
    BY DEF UserOK, TableOK, ProgramsAgree, UsedSlots
  <1> QED
    BY <1>1, UserInvariant, PTL

\* Whoever still holds a pointer keeps a used block of the size asked for, and
\* nobody else holds it.
THEOREM OwnersKeepBlocksCorrect == Spec => []OwnersKeepBlocks
  <1>1. ASSUME UserOK(user), NEW p \in DOMAIN Owned(user)
        PROVE  At(user.heap, p, Owned(user)[p])
    <2> DEFINE s == user
               holder == CHOOSE i \in UsedSlots(s) : s.user_programs[i].code = p
    <2>1. /\ p \in Owners(s)
          /\ Owned(s)[p] = IF p \in Codes(s) THEN s.user_programs[holder].size
                           ELSE IF p = s.user_stack THEN USER_STACK_SIZE
                           ELSE IF p = s.user_heap THEN USER_HEAP_SIZE
                           ELSE IF p \in s.files \cup s.binaries THEN MAX_FILE_SIZE
                           ELSE s.granted[p]
      BY <1>1 DEF Owned, Owners, Codes, Fixed
    <2>2. CASE p \in Codes(s)
      <3>1. holder \in UsedSlots(s) /\ s.user_programs[holder].code = p
        BY <2>2 DEF Codes
      <3> QED
        BY <1>1, <2>1, <2>2, <3>1 DEF UserOK, HoldersOK
    <2>3. CASE p \notin Codes(s)
      <3>1. p # 0
        <4>1. \E n : At(s.heap, p, n)
          BY <1>1, <2>1, HolderAt
        <4> QED
          BY <1>1, <4>1, LayoutAssumption
             DEF UserOK, At, Live, HeapOK, BlockListInv, BlockListTypeOK, HEADER
      <3> QED
        BY <1>1, <2>1, <2>3, <3>1 DEF UserOK, HoldersOK, Owners, Fixed
    <2> QED
      BY <2>2, <2>3
  <1>2. UserOK(user) => OwnersKeepBlocks
    <2>1. SUFFICES ASSUME UserOK(user) PROVE OwnersKeepBlocks
      OBVIOUS
    <2>2. \A p \in DOMAIN Owned(user) :
             /\ p - HEADER \in DOMAIN user.heap.blocks
             /\ user.heap.blocks[p - HEADER].used = 1
             /\ user.heap.blocks[p - HEADER].size >= Owned(user)[p]
      BY <1>1, <2>1 DEF At, Live
    <2> QED
      BY <2>1, <2>2 DEF UserOK, OwnersKeepBlocks
  <1> QED
    BY <1>2, UserInvariant, PTL

\* No step makes a block unreachable but a "test" that fails half way, and then
\* one block, and a "load", and then buffers of the files it replaces.
THEOREM OnlyTestAndLoadLoseCorrect == Spec => OnlyTestAndLoadLose
  <1>1. UserOK(user) /\ [Next]_user =>
           [\/ Lost(user') \subseteq Lost(user)
            \/ /\ user' = test(user).user /\ test(user).ret = -1
               /\ Cardinality(Lost(user') \ Lost(user)) = 1
            \/ /\ user' \in LoadOutcomes(user)
               /\ Lost(user') \ Lost(user)
                     \subseteq {p - HEADER : p \in user.files \cup user.binaries}]_user
    BY StepKeeps DEF Good, Losing
  <1> QED
    BY <1>1, UserInvariant, PTL DEF Spec, OnlyTestAndLoadLose

-----------------------------------------------------------------------------
(* The input line of kernel_loop: places on the screen, counted along the rows. *)

\* Everything that is put on the screen.
Char == STRING \cup {SP, NL, BS, ">", "'"}

CellOf(b, n) == b[<<n \div VGA_WIDTH, n % VGA_WIDTH>>]
Place(v) == v.y * VGA_WIDTH + v.x
Places == 0..(VGA_WIDTH * VGA_HEIGHT - 1)

Screen(v) ==
    /\ v = [buffer |-> v.buffer, x |-> v.x, y |-> v.y]
    /\ v.buffer \in [Cells -> Char] /\ v.x \in 0..VGA_WIDTH /\ v.y \in 0..(VGA_HEIGHT - 1)

\* The text before the cursor, and that nothing is behind it.
Shows(v, text) ==
    /\ Screen(v) /\ Place(v) >= Len(text)
    /\ \A i \in 1..Len(text) : CellOf(v.buffer, Place(v) - Len(text) + i - 1) = text[i]
    /\ \A n \in Places : n >= Place(v) => CellOf(v.buffer, n) = SP

\* Every number has one row and one column.
LEMMA RowAndColumn ==
    ASSUME NEW n \in Nat
    PROVE  /\ n \div VGA_WIDTH \in Nat /\ n % VGA_WIDTH \in 0..(VGA_WIDTH - 1)
           /\ n = VGA_WIDTH * (n \div VGA_WIDTH) + (n % VGA_WIDTH)
  BY ConsoleAssumption, SMT

LEMMA RowUnique ==
    ASSUME NEW w \in Nat \ {0}, NEW p \in Nat, NEW q \in Nat,
           NEW i \in 0..(w - 1), NEW j \in 0..(w - 1), w * p + i = w * q + j
    PROVE  p = q /\ i = j
  <1>1. ASSUME NEW a \in Nat, NEW b \in Nat, NEW k \in 0..(w - 1), NEW l \in 0..(w - 1),
               a < b, w * a + k = w * b + l
        PROVE  FALSE
    <2>1. PICK d \in Nat : b = a + 1 + d
      BY <1>1
    <2>2. w * b = w * a + w + w * d
      BY <2>1, SMT
    <2>3. w * d \in Nat /\ w * a \in Nat
      BY SMT
    <2> QED
      BY <1>1, <2>2, <2>3, SMT
  <1>2. p = q
    BY <1>1
  <1>3. w * p \in Nat
    BY SMT
  <1> QED
    BY <1>2, <1>3

LEMMA PlaceOf ==
    ASSUME NEW y \in Nat, NEW x \in 0..(VGA_WIDTH - 1)
    PROVE  /\ y * VGA_WIDTH + x \in Nat
           /\ (y * VGA_WIDTH + x) \div VGA_WIDTH = y
           /\ (y * VGA_WIDTH + x) % VGA_WIDTH = x
           /\ y < VGA_HEIGHT <=> y * VGA_WIDTH + x \in Places
  <1> DEFINE n == y * VGA_WIDTH + x
  <1>1. VGA_WIDTH \in Nat \ {0} /\ VGA_HEIGHT \in Nat \ {0}
    BY ConsoleAssumption
  <1>2. n \in Nat /\ y * VGA_WIDTH \in Nat /\ n = VGA_WIDTH * y + x
    BY <1>1, SMT
  <1>3. /\ n \div VGA_WIDTH \in Nat /\ n % VGA_WIDTH \in 0..(VGA_WIDTH - 1)
        /\ n = VGA_WIDTH * (n \div VGA_WIDTH) + (n % VGA_WIDTH)
    BY <1>2, RowAndColumn
  <1>4. n \div VGA_WIDTH = y /\ n % VGA_WIDTH = x
    <2> DEFINE p == n \div VGA_WIDTH
               j == n % VGA_WIDTH
    <2>1. VGA_WIDTH * p + j = VGA_WIDTH * y + x /\ p \in Nat /\ j \in 0..(VGA_WIDTH - 1)
      BY <1>2, <1>3
    <2> HIDE DEF p, j
    <2>2. p = y /\ j = x
      BY <1>1, <2>1, RowUnique
    <2> QED
      BY <2>2 DEF p, j
  <1>5. y < VGA_HEIGHT => n < VGA_WIDTH * VGA_HEIGHT
    <2> SUFFICES ASSUME y < VGA_HEIGHT PROVE n < VGA_WIDTH * VGA_HEIGHT
      OBVIOUS
    <2>1. PICK d \in Nat : VGA_HEIGHT = y + 1 + d
      BY <1>1
    <2>2. VGA_WIDTH * VGA_HEIGHT = VGA_WIDTH * y + VGA_WIDTH + VGA_WIDTH * d
      BY <1>1, <2>1, SMT
    <2>3. VGA_WIDTH * d \in Nat /\ VGA_WIDTH * y \in Nat
      BY <1>1, SMT
    <2> QED
      BY <1>1, <1>2, <2>2, <2>3, SMT
  <1>6. y >= VGA_HEIGHT => n >= VGA_WIDTH * VGA_HEIGHT
    <2> SUFFICES ASSUME y >= VGA_HEIGHT PROVE n >= VGA_WIDTH * VGA_HEIGHT
      OBVIOUS
    <2>1. PICK d \in Nat : y = VGA_HEIGHT + d
      BY <1>1
    <2>2. VGA_WIDTH * y = VGA_WIDTH * VGA_HEIGHT + VGA_WIDTH * d
      BY <1>1, <2>1, SMT
    <2>3. VGA_WIDTH * d \in Nat /\ VGA_WIDTH * VGA_HEIGHT \in Nat
      BY <1>1, SMT
    <2> QED
      BY <1>1, <1>2, <2>2, <2>3, SMT
  <1>7. VGA_WIDTH * VGA_HEIGHT \in Nat
    BY <1>1, SMT
  <1> HIDE DEF n
  <1>8. y < VGA_HEIGHT <=> n \in Places
    BY <1>1, <1>2, <1>5, <1>6, <1>7 DEF Places
  <1> QED
    BY <1>2, <1>4, <1>8 DEF n

LEMMA PlaceHasCell ==
    ASSUME NEW n \in Places
    PROVE  /\ n \in Nat /\ <<n \div VGA_WIDTH, n % VGA_WIDTH>> \in Cells
           /\ n = (n \div VGA_WIDTH) * VGA_WIDTH + (n % VGA_WIDTH)
  <1> DEFINE y == n \div VGA_WIDTH
             x == n % VGA_WIDTH
  <1>1. VGA_WIDTH \in Nat \ {0} /\ VGA_HEIGHT \in Nat \ {0} /\ n \in Nat
    BY ConsoleAssumption DEF Places
  <1>2. y \in Nat /\ x \in 0..(VGA_WIDTH - 1) /\ n = VGA_WIDTH * y + x
    BY <1>1, RowAndColumn
  <1> HIDE DEF y, x
  <1>3. n = y * VGA_WIDTH + x
    BY <1>1, <1>2, SMT
  <1>4. y < VGA_HEIGHT
    BY <1>2, <1>3, PlaceOf
  <1>5. y \in 0..(VGA_HEIGHT - 1)
    BY <1>1, <1>2, <1>4
  <1>6. <<y, x>> \in Cells
    BY <1>2, <1>5 DEF Cells
  <1> QED
    BY <1>1, <1>3, <1>6 DEF y, x

\* One row further down.
LEMMA PlaceBelow ==
    ASSUME NEW n \in Nat
    PROVE  /\ (n + VGA_WIDTH) \div VGA_WIDTH = n \div VGA_WIDTH + 1
           /\ (n + VGA_WIDTH) % VGA_WIDTH = n % VGA_WIDTH
  <1> DEFINE y == n \div VGA_WIDTH
             x == n % VGA_WIDTH
  <1>1. VGA_WIDTH \in Nat \ {0}
    BY ConsoleAssumption
  <1>2. y \in Nat /\ x \in 0..(VGA_WIDTH - 1) /\ n = VGA_WIDTH * y + x
    BY RowAndColumn
  <1> HIDE DEF y, x
  <1>3. n + VGA_WIDTH = (y + 1) * VGA_WIDTH + x
    BY <1>1, <1>2, SMT
  <1>4. y + 1 \in Nat
    BY <1>2
  <1>5. (n + VGA_WIDTH) \div VGA_WIDTH = y + 1 /\ (n + VGA_WIDTH) % VGA_WIDTH = x
    BY <1>2, <1>3, <1>4, PlaceOf
  <1> QED
    BY <1>5 DEF y, x

\* One cell is written.
LEMMA CellWritten ==
    ASSUME NEW b \in [Cells -> Char], NEW y \in 0..(VGA_HEIGHT - 1),
           NEW x \in 0..(VGA_WIDTH - 1), NEW c \in Char
    PROVE  LET w == [b EXCEPT ![<<y, x>>] = c] IN
           /\ w \in [Cells -> Char]
           /\ \A n \in Places :
                 CellOf(w, n) = IF n = y * VGA_WIDTH + x THEN c ELSE CellOf(b, n)
  <1> DEFINE w == [b EXCEPT ![<<y, x>>] = c]
  <1>1. <<y, x>> \in Cells
    BY DEF Cells
  <1>2. w \in [Cells -> Char]
    OBVIOUS
  <1>3. w[<<y, x>>] = c /\ \A d \in Cells : d # <<y, x>> => w[d] = b[d]
    BY <1>1
  <1> HIDE DEF w
  <1>4. ASSUME NEW n \in Places
        PROVE  CellOf(w, n) = IF n = y * VGA_WIDTH + x THEN c ELSE CellOf(b, n)
    <2>1. /\ <<n \div VGA_WIDTH, n % VGA_WIDTH>> \in Cells
          /\ n = (n \div VGA_WIDTH) * VGA_WIDTH + (n % VGA_WIDTH)
      BY PlaceHasCell
    <2>2. y \in Nat
      BY ConsoleAssumption
    <2>3. CASE n = y * VGA_WIDTH + x
      <3>1. n \div VGA_WIDTH = y /\ n % VGA_WIDTH = x
        BY <2>2, <2>3, PlaceOf
      <3> QED
        BY <1>3, <2>3, <3>1 DEF CellOf
    <2>4. CASE n # y * VGA_WIDTH + x
      <3>1. <<n \div VGA_WIDTH, n % VGA_WIDTH>> # <<y, x>>
        BY <2>1, <2>4
      <3> QED
        BY <1>3, <2>1, <2>4, <3>1 DEF CellOf
    <2> QED
      BY <2>3, <2>4
  <1> QED
    BY <1>2, <1>4 DEF w

-----------------------------------------------------------------------------
(* One character. *)

ScreenAt(b, x, y) == [buffer |-> b, x |-> x, y |-> y]

\* Two fields change.
LEMMA TwoFields ==
    ASSUME NEW b, NEW x, NEW y, NEW c, NEW z
    PROVE  /\ [ScreenAt(b, x, y) EXCEPT !.x = z] = ScreenAt(b, z, y)
           /\ [ScreenAt(b, x, y) EXCEPT !.y = z] = ScreenAt(b, x, z)
           /\ [ScreenAt(b, x, y) EXCEPT !.buffer = c] = ScreenAt(c, x, y)
           /\ ScreenAt(b, x, y).buffer = b /\ ScreenAt(b, x, y).x = x /\ ScreenAt(b, x, y).y = y
  BY DEF ScreenAt

LEMMA ScreenIs ==
    ASSUME NEW v, Screen(v)
    PROVE  v = ScreenAt(v.buffer, v.x, v.y)
  BY DEF Screen, ScreenAt

LEMMA ScrollIs ==
    ASSUME NEW v, Screen(v), NEW x, NEW y, NEW w, w = ScreenAt(v.buffer, x, y)
    PROVE  vga_scroll(w) = ScreenAt([c \in Cells |-> IF c[1] < VGA_HEIGHT - 1
                                               THEN v.buffer[<<c[1] + 1, c[2]>>] ELSE SP],
                              x, VGA_HEIGHT - 1)
  <1> DEFINE b == [c \in Cells |-> IF c[1] < VGA_HEIGHT - 1
                                   THEN v.buffer[<<c[1] + 1, c[2]>>] ELSE SP]
  <1>1. w.buffer = v.buffer
    BY TwoFields
  <1>2. vga_scroll(w) = [[w EXCEPT !.buffer = b] EXCEPT !.y = VGA_HEIGHT - 1]
    BY <1>1, Zenon DEF vga_scroll
  <1> HIDE DEF b
  <1>3. [w EXCEPT !.buffer = b] = ScreenAt(b, x, y)
    BY TwoFields
  <1>4. [ScreenAt(b, x, y) EXCEPT !.y = VGA_HEIGHT - 1] = ScreenAt(b, x, VGA_HEIGHT - 1)
    BY TwoFields
  <1>5. vga_scroll(w) = ScreenAt(b, x, VGA_HEIGHT - 1)
    BY <1>2, <1>3, <1>4, Zenon
  <1> QED
    BY <1>5 DEF b

\* Every row moves up by one, and the last one is blank.
LEMMA RowsScroll ==
    ASSUME NEW b \in [Cells -> Char]
    PROVE  LET w == [c \in Cells |-> IF c[1] < VGA_HEIGHT - 1
                                     THEN b[<<c[1] + 1, c[2]>>] ELSE SP] IN
           /\ w \in [Cells -> Char]
           /\ \A n \in Places :
                 CellOf(w, n) = IF n < VGA_WIDTH * (VGA_HEIGHT - 1)
                                THEN CellOf(b, n + VGA_WIDTH) ELSE SP
  <1> DEFINE w == [c \in Cells |-> IF c[1] < VGA_HEIGHT - 1
                                   THEN b[<<c[1] + 1, c[2]>>] ELSE SP]
  <1>1. VGA_WIDTH \in Nat \ {0} /\ VGA_HEIGHT \in Nat \ {0}
    BY ConsoleAssumption
  <1>2. w \in [Cells -> Char]
    <2>1. ASSUME NEW c \in Cells
          PROVE  (IF c[1] < VGA_HEIGHT - 1 THEN b[<<c[1] + 1, c[2]>>] ELSE SP) \in Char
      <3>1. c[1] \in 0..(VGA_HEIGHT - 1) /\ c[2] \in 0..(VGA_WIDTH - 1)
        BY DEF Cells
      <3>2. c[1] < VGA_HEIGHT - 1 => <<c[1] + 1, c[2]>> \in Cells
        BY <1>1, <3>1 DEF Cells
      <3>3. SP \in Char
        BY DEF Char
      <3>4. c[1] < VGA_HEIGHT - 1 => b[<<c[1] + 1, c[2]>>] \in Char
        BY <3>2
      <3> QED
        BY <3>3, <3>4
    <2> QED
      BY <2>1
  <1>3. ASSUME NEW n \in Places
        PROVE  CellOf(w, n) = IF n < VGA_WIDTH * (VGA_HEIGHT - 1)
                              THEN CellOf(b, n + VGA_WIDTH) ELSE SP
    <2> DEFINE y == n \div VGA_WIDTH
               x == n % VGA_WIDTH
    <2>1. n \in Nat /\ <<y, x>> \in Cells /\ n = y * VGA_WIDTH + x
      BY PlaceHasCell
    <2>2. CellOf(w, n) = IF y < VGA_HEIGHT - 1 THEN b[<<y + 1, x>>] ELSE SP
      BY <2>1 DEF CellOf
    <2>3. CellOf(b, n + VGA_WIDTH) = b[<<y + 1, x>>]
      BY <2>1, PlaceBelow DEF CellOf
    <2> HIDE DEF y, x
    <2>4. y \in 0..(VGA_HEIGHT - 1) /\ x \in 0..(VGA_WIDTH - 1)
      BY <2>1 DEF Cells
    <2>5. y < VGA_HEIGHT - 1 => n < VGA_WIDTH * (VGA_HEIGHT - 1)
      <3> SUFFICES ASSUME y < VGA_HEIGHT - 1 PROVE n < VGA_WIDTH * (VGA_HEIGHT - 1)
        OBVIOUS
      <3>1. PICK d \in Nat : VGA_HEIGHT - 1 = y + 1 + d
        BY <1>1, <2>4
      <3>2. y \in Nat /\ VGA_WIDTH * (VGA_HEIGHT - 1) = y * VGA_WIDTH + VGA_WIDTH + VGA_WIDTH * d
        BY <1>1, <2>4, <3>1, SMT
      <3>3. VGA_WIDTH * d \in Nat /\ y * VGA_WIDTH \in Nat
        BY <1>1, <3>1, <3>2, SMT
      <3> QED
        BY <1>1, <2>1, <2>4, <3>2, <3>3, SMT
    <2>6. y = VGA_HEIGHT - 1 => ~(n < VGA_WIDTH * (VGA_HEIGHT - 1))
      <3> SUFFICES ASSUME y = VGA_HEIGHT - 1 PROVE ~(n < VGA_WIDTH * (VGA_HEIGHT - 1))
        OBVIOUS
      <3>1. y \in Nat /\ n = VGA_WIDTH * y + x /\ VGA_WIDTH * y \in Nat
        BY <1>1, <2>1, <2>4, SMT
      <3>2. VGA_WIDTH * (VGA_HEIGHT - 1) = VGA_WIDTH * y
        OBVIOUS
      <3> QED
        BY <1>1, <2>4, <3>1, <3>2
    <2> QED
      BY <1>1, <2>2, <2>3, <2>4, <2>5, <2>6
  <1> QED
    BY <1>2, <1>3

\* To the beginning of the next row.
Lower(v) == ScrolledIfBelow([v EXCEPT !.x = 0, !.y = @ + 1])

LEMMA RowProducts ==
    ASSUME NEW y \in 0..(VGA_HEIGHT - 1)
    PROVE  /\ y * VGA_WIDTH \in Nat /\ (y + 1) * VGA_WIDTH = y * VGA_WIDTH + VGA_WIDTH
           /\ VGA_WIDTH * (VGA_HEIGHT - 1) \in Nat /\ VGA_WIDTH * VGA_HEIGHT \in Nat
           /\ (VGA_HEIGHT - 1) * VGA_WIDTH = VGA_WIDTH * (VGA_HEIGHT - 1)
           /\ VGA_WIDTH * VGA_HEIGHT = VGA_WIDTH * (VGA_HEIGHT - 1) + VGA_WIDTH
  <1>1. VGA_WIDTH \in Nat /\ VGA_HEIGHT \in Nat \ {0} /\ y \in Nat
    BY ConsoleAssumption
  <1>2. VGA_HEIGHT - 1 \in Nat
    BY <1>1
  <1>3. y * VGA_WIDTH \in Nat /\ (y + 1) * VGA_WIDTH = y * VGA_WIDTH + VGA_WIDTH
    BY <1>1, SMT
  <1>4. VGA_WIDTH * (VGA_HEIGHT - 1) \in Nat /\ VGA_WIDTH * VGA_HEIGHT \in Nat
    BY <1>1, <1>2, SMT
  <1>5. (VGA_HEIGHT - 1) * VGA_WIDTH = VGA_WIDTH * (VGA_HEIGHT - 1)
    BY <1>1, <1>2, SMT
  <1>6. VGA_WIDTH * VGA_HEIGHT = VGA_WIDTH * (VGA_HEIGHT - 1) + VGA_WIDTH
    BY <1>1, <1>2, SMT
  <1> QED
    BY <1>3, <1>4, <1>5, <1>6

\* A row that is full is left at its end, so that text and cursor stay together;
\* with no text to keep, any row may be left.
LEMMA LowerShows ==
    ASSUME NEW v, NEW text \in Seq(Char), Shows(v, text),
           Len(text) <= VGA_WIDTH * (VGA_HEIGHT - 1), v.x = VGA_WIDTH \/ text = <<>>
    PROVE  Shows(Lower(v), text) /\ Lower(v).x = 0
  <1> DEFINE below == [v EXCEPT !.x = 0, !.y = @ + 1]
             w == [c \in Cells |-> IF c[1] < VGA_HEIGHT - 1
                                   THEN v.buffer[<<c[1] + 1, c[2]>>] ELSE SP]
             last == VGA_WIDTH * (VGA_HEIGHT - 1)
             row == v.y * VGA_WIDTH
  <1>1. /\ Screen(v) /\ v.buffer \in [Cells -> Char]
        /\ v.x \in 0..VGA_WIDTH /\ v.y \in 0..(VGA_HEIGHT - 1)
    BY DEF Shows, Screen
  <1>2. below = ScreenAt(v.buffer, 0, v.y + 1)
    <2>1. [v EXCEPT !.x = 0] = ScreenAt(v.buffer, 0, v.y)
      BY <1>1, ScreenIs, TwoFields
    <2>2. below = [[v EXCEPT !.x = 0] EXCEPT !.y = v.y + 1]
      BY Zenon
    <2>3. [ScreenAt(v.buffer, 0, v.y) EXCEPT !.y = v.y + 1] = ScreenAt(v.buffer, 0, v.y + 1)
      BY TwoFields
    <2> QED
      BY <2>1, <2>2, <2>3, Zenon
  <1>3. VGA_WIDTH \in Nat \ {0} /\ VGA_HEIGHT \in Nat \ {0} /\ Len(text) \in Nat
    BY ConsoleAssumption
  <1>4. /\ row \in Nat /\ (v.y + 1) * VGA_WIDTH = row + VGA_WIDTH
        /\ last \in Nat /\ VGA_WIDTH * VGA_HEIGHT = last + VGA_WIDTH
        /\ (VGA_HEIGHT - 1) * VGA_WIDTH = last
    BY <1>1, RowProducts
  <1>5. Place(v) = row + v.x
    BY DEF Place
  <1>6. /\ Place(v) >= Len(text)
        /\ \A i \in 1..Len(text) : CellOf(v.buffer, Place(v) - Len(text) + i - 1) = text[i]
        /\ \A n \in Places : n >= Place(v) => CellOf(v.buffer, n) = SP
    BY DEF Shows
  <1>7. Len(text) = 0 \/ v.x = VGA_WIDTH
    OBVIOUS
  <1>8. CASE v.y + 1 < VGA_HEIGHT
    <2> DEFINE t == ScreenAt(v.buffer, 0, v.y + 1)
    <2>1. Lower(v) = t
      BY <1>1, <1>2, <1>3, <1>8, TwoFields DEF Lower, ScrolledIfBelow
    <2>2. /\ t.buffer = v.buffer /\ t.x = 0 /\ t.y = v.y + 1
          /\ t = [buffer |-> t.buffer, x |-> t.x, y |-> t.y]
      BY DEF ScreenAt
    <2> HIDE DEF t
    <2>3. Screen(t)
      BY <1>1, <1>3, <1>8, <2>2 DEF Screen
    <2>4. Place(t) = row + VGA_WIDTH
      BY <1>1, <1>3, <1>4, <2>2 DEF Place
    <2> HIDE DEF row, last
    <2>5. /\ Place(t) >= Place(v) /\ (v.x = VGA_WIDTH => Place(t) = Place(v))
          /\ Place(t) \in Nat /\ Place(v) \in Nat
      <3>1. ASSUME NEW r \in Nat, NEW m \in Nat, NEW x \in 0..m
            PROVE  /\ r + m >= r + x /\ (x = m => r + m = r + x)
                   /\ r + m \in Nat /\ r + x \in Nat
        OBVIOUS
      <3>2. row \in Nat /\ VGA_WIDTH \in Nat /\ v.x \in 0..VGA_WIDTH
        BY <1>1, <1>3, <1>4
      <3>3. /\ row + VGA_WIDTH >= row + v.x
            /\ (v.x = VGA_WIDTH => row + VGA_WIDTH = row + v.x)
            /\ row + VGA_WIDTH \in Nat /\ row + v.x \in Nat
        BY <3>1, <3>2, Zenon
      <3> QED
        BY <1>5, <2>4, <3>3, Zenon
    <2>6. \A n \in Places : n >= Place(t) => CellOf(t.buffer, n) = SP
      <3>1. Places \subseteq Int
        BY DEF Places
      <3> QED
        BY <1>6, <2>2, <2>5, <3>1
    <2>7. \A i \in 1..Len(text) : CellOf(t.buffer, Place(t) - Len(text) + i - 1) = text[i]
      <3>1. CASE Len(text) = 0
        BY <3>1
      <3>2. CASE v.x = VGA_WIDTH
        BY <1>6, <2>2, <2>5, <3>2
      <3> QED
        BY <1>7, <3>1, <3>2
    <2>8. Place(t) >= Len(text)
      BY <1>3, <1>6, <2>5
    <2> QED
      BY <2>1, <2>2, <2>3, <2>6, <2>7, <2>8 DEF Shows
  <1>9. CASE ~(v.y + 1 < VGA_HEIGHT)
    <2> DEFINE t == ScreenAt(w, 0, VGA_HEIGHT - 1)
    <2>1. v.y = VGA_HEIGHT - 1
      BY <1>1, <1>3, <1>9
    <2>2. Lower(v) = t
      <3>1. below.y = v.y + 1 /\ v.y + 1 >= VGA_HEIGHT
        BY <1>1, <1>2, <1>3, <1>9, TwoFields
      <3>2. Lower(v) = vga_scroll(below)
        BY <3>1 DEF Lower, ScrolledIfBelow
      <3> HIDE DEF below
      <3> QED
        BY <1>1, <1>2, <3>2, ScrollIs
    <2>3. /\ w \in [Cells -> Char]
          /\ \A n \in Places :
                CellOf(w, n) = IF n < last THEN CellOf(v.buffer, n + VGA_WIDTH) ELSE SP
      BY <1>1, RowsScroll
    <2> HIDE DEF w
    <2>4. /\ t.buffer = w /\ t.x = 0 /\ t.y = VGA_HEIGHT - 1
          /\ t = [buffer |-> t.buffer, x |-> t.x, y |-> t.y]
      BY DEF ScreenAt
    <2> HIDE DEF t
    <2>5. Screen(t)
      BY <1>3, <2>3, <2>4 DEF Screen
    <2>6. Place(t) = last
      BY <1>3, <1>4, <2>4 DEF Place
    <2>7. row = last
      BY <1>4, <2>1
    <2> HIDE DEF row, last
    <2>8. \A n \in Places : n >= Place(t) => CellOf(t.buffer, n) = SP
      <3>1. Places \subseteq Int
        BY DEF Places
      <3> QED
        BY <1>4, <2>3, <2>4, <2>6, <3>1
    <2>9. ASSUME NEW i \in 1..Len(text)
          PROVE  CellOf(t.buffer, Place(t) - Len(text) + i - 1) = text[i]
      <3> DEFINE n == Place(t) - Len(text) + i - 1
      <3>1. v.x = VGA_WIDTH /\ Place(v) = last + VGA_WIDTH
        BY <1>3, <1>5, <1>7, <2>7
      <3>2. n \in Int /\ 0 <= n /\ n < last /\ n + VGA_WIDTH = Place(v) - Len(text) + i - 1
        BY <1>3, <1>4, <2>6, <3>1 DEF last
      <3>3. n \in Places
        BY <1>3, <1>4, <3>2 DEF Places
      <3> HIDE DEF n
      <3>4. CellOf(t.buffer, n) = CellOf(v.buffer, n + VGA_WIDTH)
        BY <2>3, <2>4, <3>2, <3>3
      <3>5. CellOf(v.buffer, n + VGA_WIDTH) = text[i]
        BY <1>6, <3>2
      <3> QED
        BY <3>4, <3>5 DEF n
    <2>10. Place(t) >= Len(text)
      BY <1>3, <1>4, <2>6 DEF last
    <2> QED
      BY <2>2, <2>4, <2>5, <2>8, <2>9, <2>10 DEF Shows
  <1> QED
    BY <1>8, <1>9

LEMMA Shorter ==
    ASSUME NEW v, NEW text \in Seq(Char), Shows(v, text)
    PROVE  Shows(v, <<>>)
  <1>1. Place(v) \in Nat
    <2>1. v.y \in Nat /\ v.x \in Nat /\ VGA_WIDTH \in Nat
      BY ConsoleAssumption DEF Shows, Screen
    <2> QED
      BY <2>1, SMT DEF Place
  <1> QED
    BY <1>1 DEF Shows

\* A character is put behind the text.
LEMMA PutShows ==
    ASSUME NEW v, NEW text \in Seq(Char), Shows(v, text),
           Len(text) <= VGA_WIDTH * (VGA_HEIGHT - 1), NEW c \in Char
    PROVE  Shows(Put(v, c), Append(text, c))
  <1> DEFINE at == ScrolledIfBelow(IF v.x >= VGA_WIDTH THEN [v EXCEPT !.x = 0, !.y = @ + 1]
                                   ELSE v)
             b == [at.buffer EXCEPT ![<<at.y, at.x>>] = c]
             t == ScreenAt(b, at.x + 1, at.y)
  <1>1. VGA_WIDTH \in Nat \ {0} /\ VGA_HEIGHT \in Nat \ {0} /\ Len(text) \in Nat
    BY ConsoleAssumption
  <1>2. Shows(at, text) /\ at.x < VGA_WIDTH
    <2>1. Screen(v) /\ v.x \in 0..VGA_WIDTH /\ v.y \in 0..(VGA_HEIGHT - 1)
      BY DEF Shows, Screen
    <2>2. CASE v.x >= VGA_WIDTH
      <3>1. at = Lower(v) /\ v.x = VGA_WIDTH
        BY <1>1, <2>1, <2>2 DEF Lower
      <3>2. Shows(Lower(v), text) /\ Lower(v).x = 0
        BY <3>1, LowerShows
      <3> QED
        BY <1>1, <3>1, <3>2
    <2>3. CASE ~(v.x >= VGA_WIDTH)
      <3>1. at = v
        BY <1>1, <2>1, <2>3 DEF ScrolledIfBelow
      <3> QED
        BY <1>1, <2>1, <2>3, <3>1
    <2> QED
      BY <2>2, <2>3
  <1>3. Put(v, c) = [at EXCEPT !.buffer[<<at.y, at.x>>] = c, !.x = @ + 1]
    BY DEF Put
  <1> HIDE DEF at
  <1>4. /\ Screen(at) /\ at.buffer \in [Cells -> Char] /\ Place(at) >= Len(text)
        /\ at.x \in 0..(VGA_WIDTH - 1) /\ at.y \in 0..(VGA_HEIGHT - 1)
    BY <1>1, <1>2 DEF Shows, Screen
  <1>5. Put(v, c) = t
    <2>1. Put(v, c) = [[at EXCEPT !.buffer = b] EXCEPT !.x = at.x + 1]
      BY <1>3, Zenon
    <2>2. at = ScreenAt(at.buffer, at.x, at.y)
      BY <1>4, ScreenIs
    <2> HIDE DEF b
    <2>3. [at EXCEPT !.buffer = b] = ScreenAt(b, at.x, at.y)
      BY <2>2, TwoFields
    <2>4. [ScreenAt(b, at.x, at.y) EXCEPT !.x = at.x + 1] = t
      BY TwoFields
    <2> QED
      BY <2>1, <2>3, <2>4, Zenon
  <1>6. /\ b \in [Cells -> Char]
        /\ \A n \in Places :
              CellOf(b, n) = IF n = Place(at) THEN c ELSE CellOf(at.buffer, n)
    BY <1>4, CellWritten DEF Place
  <1>7. Place(at) \in Places /\ Places \subseteq Nat
    <2>1. at.y \in Nat /\ at.y < VGA_HEIGHT
      BY <1>1, <1>4
    <2> QED
      BY <1>4, <2>1, PlaceOf DEF Place, Places
  <1> HIDE DEF b
  <1>8. /\ t.buffer = b /\ t.x = at.x + 1 /\ t.y = at.y
        /\ t = [buffer |-> t.buffer, x |-> t.x, y |-> t.y]
    BY DEF ScreenAt
  <1> HIDE DEF t
  <1>9. Screen(t)
    BY <1>1, <1>4, <1>6, <1>8 DEF Screen
  <1>10. Place(t) = Place(at) + 1
    <2>1. at.y * VGA_WIDTH \in Nat
      BY <1>4, RowProducts
    <2> QED
      BY <1>4, <1>8, <2>1 DEF Place
  <1>11. /\ Len(Append(text, c)) = Len(text) + 1
         /\ \A i \in 1..Len(text) : Append(text, c)[i] = text[i]
         /\ Append(text, c)[Len(text) + 1] = c
    OBVIOUS
  <1>12. Place(at) \in Nat /\ Place(at) >= Len(text) /\ Len(text) \in Nat
    BY <1>1, <1>4, <1>7
  <1>13. \A n \in Places : n >= Place(t) => CellOf(t.buffer, n) = SP
    <2>1. \A n \in Places : n >= Place(at) => CellOf(at.buffer, n) = SP
      BY <1>2 DEF Shows
    <2> QED
      BY <1>6, <1>7, <1>8, <1>10, <2>1
  <1>14. ASSUME NEW i \in 1..(Len(text) + 1)
         PROVE  CellOf(t.buffer, Place(t) - (Len(text) + 1) + i - 1) = Append(text, c)[i]
    <2>1. CASE i = Len(text) + 1
      <3>1. Place(t) - (Len(text) + 1) + i - 1 = Place(at)
        BY <1>10, <1>12, <2>1
      <3> QED
        BY <1>6, <1>7, <1>8, <1>11, <2>1, <3>1
    <2>2. CASE i # Len(text) + 1
      <3> DEFINE n == Place(at) - Len(text) + i - 1
      <3>1. i \in 1..Len(text) /\ Place(t) - (Len(text) + 1) + i - 1 = n
        BY <1>10, <1>12, <2>2
      <3>2. n \in Places /\ n # Place(at)
        BY <1>1, <1>4, <1>7, <3>1 DEF Places
      <3>3. CellOf(at.buffer, n) = text[i]
        BY <1>2, <3>1 DEF Shows
      <3> HIDE DEF n
      <3> QED
        BY <1>6, <1>8, <1>11, <3>1, <3>2, <3>3
    <2> QED
      BY <2>1, <2>2
  <1>15. Place(t) >= Len(text) + 1
    BY <1>10, <1>12
  <1>16. Shows(t, Append(text, c))
    BY <1>9, <1>11, <1>13, <1>14, <1>15 DEF Shows
  <1> QED
    BY <1>5, <1>16

\* The last character is taken back, also across the edge of a row.
LEMMA BackShows ==
    ASSUME NEW v, NEW text \in Seq(Char), NEW c \in Char, Shows(v, Append(text, c))
    PROVE  Shows(Back(v), text)
  <1> DEFINE at == IF v.x > 0 THEN [v EXCEPT !.x = @ - 1]
                   ELSE IF v.y > 0 THEN [v EXCEPT !.x = VGA_WIDTH - 1, !.y = @ - 1]
                   ELSE v
             b == [at.buffer EXCEPT ![<<at.y, at.x>>] = SP]
             t == ScreenAt(b, at.x, at.y)
  <1>1. VGA_WIDTH \in Nat \ {0} /\ VGA_HEIGHT \in Nat \ {0} /\ Len(text) \in Nat
    BY ConsoleAssumption
  <1>2. /\ Len(Append(text, c)) = Len(text) + 1
        /\ \A i \in 1..Len(text) : Append(text, c)[i] = text[i]
    OBVIOUS
  <1>3. /\ Screen(v) /\ v.buffer \in [Cells -> Char] /\ Place(v) >= Len(text) + 1
        /\ v.x \in 0..VGA_WIDTH /\ v.y \in 0..(VGA_HEIGHT - 1)
        /\ \A i \in 1..Len(text) : CellOf(v.buffer, Place(v) - (Len(text) + 1) + i - 1) = text[i]
        /\ \A n \in Places : n >= Place(v) => CellOf(v.buffer, n) = SP
    BY <1>1, <1>2 DEF Shows, Screen
  <1>4. v = ScreenAt(v.buffer, v.x, v.y)
    BY <1>3, ScreenIs
  <1>5. v.y * VGA_WIDTH \in Nat /\ Place(v) = v.y * VGA_WIDTH + v.x
    BY <1>3, RowProducts DEF Place
  <1>6. \E x \in 0..(VGA_WIDTH - 1), y \in 0..(VGA_HEIGHT - 1) :
           at = ScreenAt(v.buffer, x, y) /\ y * VGA_WIDTH + x = Place(v) - 1
    <2>1. CASE v.x > 0
      <3>1. at = [v EXCEPT !.x = v.x - 1]
        BY <2>1
      <3>2. [ScreenAt(v.buffer, v.x, v.y) EXCEPT !.x = v.x - 1] = ScreenAt(v.buffer, v.x - 1, v.y)
        BY TwoFields
      <3>3. at = ScreenAt(v.buffer, v.x - 1, v.y)
        BY <1>4, <3>1, <3>2, Zenon
      <3>4. v.x - 1 \in 0..(VGA_WIDTH - 1) /\ v.y * VGA_WIDTH + (v.x - 1) = Place(v) - 1
        <4>1. v.x - 1 \in 0..(VGA_WIDTH - 1)
          BY <1>1, <1>3, <2>1
        <4>2. v.x \in Int
          BY <1>1, <1>3
        <4> HIDE DEF at
        <4> QED
          BY <1>5, <4>1, <4>2
      <3> QED
        BY <1>3, <3>3, <3>4
    <2>2. CASE v.x = 0
      <3>1. v.y > 0
        <4>1. v.y = 0 => v.y * VGA_WIDTH = 0
          BY <1>1, SMT
        <4> QED
          BY <1>1, <1>3, <1>5, <2>2, <4>1
      <3>2. at = [[v EXCEPT !.x = VGA_WIDTH - 1] EXCEPT !.y = v.y - 1]
        <4>1. ~(v.x > 0)
          BY <2>2
        <4> QED
          BY <3>1, <4>1, Zenon
      <3>3. [ScreenAt(v.buffer, v.x, v.y) EXCEPT !.x = VGA_WIDTH - 1]
              = ScreenAt(v.buffer, VGA_WIDTH - 1, v.y)
        BY TwoFields
      <3>4. [ScreenAt(v.buffer, VGA_WIDTH - 1, v.y) EXCEPT !.y = v.y - 1]
              = ScreenAt(v.buffer, VGA_WIDTH - 1, v.y - 1)
        BY TwoFields
      <3>5. at = ScreenAt(v.buffer, VGA_WIDTH - 1, v.y - 1)
        BY <1>4, <3>2, <3>3, <3>4, Zenon
      <3>6. v.y - 1 \in 0..(VGA_HEIGHT - 1) /\ (v.y - 1) + 1 = v.y
        BY <1>1, <1>3, <3>1
      <3>7. v.y * VGA_WIDTH = (v.y - 1) * VGA_WIDTH + VGA_WIDTH /\ (v.y - 1) * VGA_WIDTH \in Nat
        <4>1. ((v.y - 1) + 1) * VGA_WIDTH = (v.y - 1) * VGA_WIDTH + VGA_WIDTH
              /\ (v.y - 1) * VGA_WIDTH \in Nat
          BY <3>6, RowProducts
        <4> QED
          BY <3>6, <4>1
      <3>8. (v.y - 1) * VGA_WIDTH + (VGA_WIDTH - 1) = Place(v) - 1
        BY <1>1, <1>5, <2>2, <3>7
      <3>9. VGA_WIDTH - 1 \in 0..(VGA_WIDTH - 1)
        BY <1>1
      <3> QED
        BY <3>5, <3>6, <3>8, <3>9
    <2> QED
      BY <1>3, <2>1, <2>2
  <1>7. Back(v) = [at EXCEPT !.buffer[<<at.y, at.x>>] = SP]
    BY DEF Back
  <1> HIDE DEF at
  <1>8. /\ at = ScreenAt(at.buffer, at.x, at.y) /\ at.buffer = v.buffer
        /\ at.x \in 0..(VGA_WIDTH - 1) /\ at.y \in 0..(VGA_HEIGHT - 1)
        /\ Place(at) = Place(v) - 1
    BY <1>6, TwoFields DEF Place
  <1>9. Back(v) = t
    <2>1. Back(v) = [at EXCEPT !.buffer = b]
      BY <1>7, Zenon
    <2> HIDE DEF b
    <2>2. [ScreenAt(at.buffer, at.x, at.y) EXCEPT !.buffer = b] = t
      BY TwoFields
    <2> QED
      BY <1>8, <2>1, <2>2, Zenon
  <1>10. /\ b \in [Cells -> Char]
         /\ \A n \in Places :
               CellOf(b, n) = IF n = Place(at) THEN SP ELSE CellOf(v.buffer, n)
    <2>1. SP \in Char
      BY DEF Char
    <2> QED
      BY <1>3, <1>8, <2>1, CellWritten DEF Place
  <1>11. Place(at) \in Places /\ Places \subseteq Nat
    <2>1. at.y \in Nat /\ at.y < VGA_HEIGHT
      BY <1>1, <1>8
    <2> QED
      BY <1>8, <2>1, PlaceOf DEF Place, Places
  <1> HIDE DEF b
  <1>12. t.buffer = b /\ t.x = at.x /\ t.y = at.y /\ t = [buffer |-> t.buffer, x |-> t.x, y |-> t.y]
    BY DEF ScreenAt
  <1>13. Place(t) = Place(at)
    BY <1>12 DEF Place
  <1> HIDE DEF t
  <1>14. Screen(t)
    BY <1>1, <1>8, <1>10, <1>12 DEF Screen
  <1>15. Place(v) = Place(at) + 1
    BY <1>5, <1>3, <1>8, <1>11
  <1>16. Place(at) \in Nat /\ Place(at) >= Len(text) /\ Len(text) \in Nat
    <2>1. Place(at) + 1 >= Len(text) + 1 /\ Place(at) \in Nat
      BY <1>3, <1>11, <1>15
    <2> QED
      BY <1>1, <2>1
  <1>17. \A n \in Places : n >= Place(t) => CellOf(t.buffer, n) = SP
    BY <1>3, <1>10, <1>11, <1>12, <1>13, <1>15
  <1>18. ASSUME NEW i \in 1..Len(text)
         PROVE  CellOf(t.buffer, Place(t) - Len(text) + i - 1) = text[i]
    <2> DEFINE n == Place(t) - Len(text) + i - 1
    <2>1. n = Place(v) - (Len(text) + 1) + i - 1 /\ n \in Int /\ 0 <= n /\ n < Place(at)
      BY <1>13, <1>15, <1>16
    <2>2. n \in Places
      BY <1>1, <1>11, <1>16, <2>1 DEF Places
    <2>3. CellOf(v.buffer, n) = text[i]
      BY <1>3, <2>1
    <2> HIDE DEF n
    <2>4. CellOf(t.buffer, n) = text[i]
      BY <1>10, <1>11, <1>12, <2>1, <2>2, <2>3
    <2> QED
      BY <2>4 DEF n
  <1>19. Place(t) >= Len(text)
    BY <1>13, <1>16
  <1>20. Shows(t, text)
    BY <1>14, <1>17, <1>18, <1>19 DEF Shows
  <1> QED
    BY <1>9, <1>20

\* Sequences of two and three elements, of any kind.
LEMMA ShortSequences ==
    ASSUME NEW S, NEW a \in S, NEW b \in S, NEW c \in S
    PROVE  /\ <<>> \in Seq(S) /\ Append(<<>>, a) = <<a>> /\ <<a>> \in Seq(S) /\ Len(<<a>>) = 1
           /\ Append(<<a>>, b) = <<a, b>> /\ <<a, b>> \in Seq(S) /\ Len(<<a, b>>) = 2
           /\ <<a, b>>[1] = a /\ <<a, b>>[2] = b
           /\ <<a, b, c>> \in Seq(S) /\ Len(<<a, b, c>>) = 3
           /\ <<a, b, c>>[1] = a /\ <<a, b, c>>[2] = b /\ <<a, b, c>>[3] = c
  <1>1. <<>> \in Seq(S) /\ Append(<<>>, a) = <<a>> /\ <<a>> \in Seq(S) /\ Len(<<a>>) = 1
    OBVIOUS
  <1>2. Append(<<a>>, b) = <<a, b>>
    <2> DEFINE s == <<a>>
               t == Append(s, b)
    <2>1. s \in Seq(S) /\ Len(s) = 1 /\ s[1] = a
      OBVIOUS
    <2> HIDE DEF s
    <2>2. t \in Seq(S) /\ Len(t) = 2 /\ t[1] = a /\ t[2] = b
      <3>1. /\ t \in Seq(S) /\ Len(t) = Len(s) + 1
            /\ \A i \in 1..Len(s) : t[i] = s[i]
            /\ t[Len(s) + 1] = b
        BY <2>1, AppendProperties
      <3> HIDE DEF t
      <3> QED
        BY <2>1, <3>1
    <2> HIDE DEF t
    <2>3. t = <<a, b>>
      BY <2>2
    <2> QED
      BY <2>3 DEF t, s
  <1>3. <<a, b>> \in Seq(S) /\ Len(<<a, b>>) = 2 /\ <<a, b>>[1] = a /\ <<a, b>>[2] = b
    OBVIOUS
  <1>4. <<a, b, c>> \in Seq(S) /\ Len(<<a, b, c>>) = 3
    OBVIOUS
  <1>5. <<a, b, c>>[1] = a /\ <<a, b, c>>[2] = b /\ <<a, b, c>>[3] = c
    OBVIOUS
  <1> QED
    BY <1>1, <1>2, <1>3, <1>4, <1>5

LEMMA ConcatAppend ==
    ASSUME NEW S, NEW s \in Seq(S), NEW t \in Seq(S), NEW c \in S
    PROVE  /\ s \o t \in Seq(S) /\ Len(s \o t) = Len(s) + Len(t) /\ s \o <<>> = s
           /\ s \o Append(t, c) = Append(s \o t, c)
  <1>1. s \o t \in Seq(S) /\ Len(s \o t) = Len(s) + Len(t)
    OBVIOUS
  <1>2. s \o <<>> = s
    OBVIOUS
  <1>3. s \o Append(t, c) = Append(s \o t, c)
    OBVIOUS
  <1> QED
    BY <1>1, <1>2, <1>3

LEMMA FrontAndLast ==
    ASSUME NEW S, NEW s \in Seq(S), s # <<>>
    PROVE  /\ Front(s) \in Seq(S) /\ Len(Front(s)) = Len(s) - 1 /\ s[Len(s)] \in S
           /\ s = Append(Front(s), s[Len(s)])
  <1> DEFINE c == s[Len(s)]
             f == SubSeq(s, 1, Len(s) - 1)
  <1>1. Len(s) \in Nat \ {0}
    OBVIOUS
  <1>2. c \in S
    BY <1>1
  <1>3. /\ f \in Seq(S) /\ Len(f) = IF 1 <= Len(s) - 1 THEN (Len(s) - 1) - 1 + 1 ELSE 0
        /\ \A i \in 1..((Len(s) - 1) - 1 + 1) : f[i] = s[1 + i - 1]
    <2>1. Len(s) - 1 \in Int /\ 1 \in Int /\ \A i \in 1..(Len(s) - 1) : s[i] \in S
      BY <1>1
    <2> QED
      BY <2>1, SubSeqProperties
  <1>4. Front(s) = f
    BY DEF Front, f
  <1> HIDE DEF f
  <1>5. f \in Seq(S) /\ Len(f) = Len(s) - 1
    <2>1. CASE 1 <= Len(s) - 1
      BY <1>1, <1>3, <2>1
    <2>2. CASE ~(1 <= Len(s) - 1)
      <3>1. Len(s) = 1
        <4>1. ASSUME NEW n \in Nat \ {0}, ~(1 <= n - 1) PROVE n = 1
          BY <4>1
        <4> QED
          BY <1>1, <2>2, <4>1, Zenon
      <3>2. Len(f) = 0
        BY <1>3, <2>2
      <3> QED
        BY <1>3, <3>1, <3>2
    <2> QED
      BY <2>1, <2>2
  <1>6. \A i \in 1..(Len(s) - 1) : f[i] = s[i]
    BY <1>1, <1>3
  <1>7. s = Append(f, c)
    <2>1. Append(f, c) \in Seq(S) /\ Len(Append(f, c)) = Len(s)
      BY <1>1, <1>2, <1>5
    <2>2. \A i \in 1..Len(s) : Append(f, c)[i] = s[i]
      BY <1>1, <1>2, <1>5, <1>6
    <2> HIDE DEF c
    <2> QED
      BY <2>1, <2>2
  <1> QED
    BY <1>2, <1>5, <1>7, <1>4

\* Everything typed and printed can be put on the screen.
LEMMA Characters ==
    /\ {SP, NL, BS, ">", "'"} \subseteq Char /\ Printable \subseteq Char
    /\ \A s \in Seq(STRING) : s \in Seq(Char)
    /\ \A s \in Seq(Printable) : s \in Seq(Char)
    /\ NL \notin Printable /\ BS \notin Printable
    /\ NL # BS /\ SP # NL /\ SP # BS /\ ">" # NL /\ ">" # BS
  <1>1. {SP, NL, BS, ">", "'"} \subseteq Char /\ STRING \subseteq Char
    BY DEF Char
  <1>2. Printable \subseteq Char /\ NL \notin Printable /\ BS \notin Printable
    BY <1>1, ConsoleAssumption, Zenon
  <1>3. NL # BS /\ SP # NL /\ SP # BS /\ ">" # NL /\ ">" # BS
    BY DEF NL, BS, SP
  <1>4. ASSUME NEW S, NEW T, S \subseteq T, NEW s \in Seq(S)
        PROVE  s \in Seq(T)
    BY <1>4
  <1>5. \A s \in Seq(STRING) : s \in Seq(Char)
    BY <1>1, <1>4
  <1>6. \A s \in Seq(Printable) : s \in Seq(Char)
    BY <1>2, <1>4
  <1> QED
    BY <1>1, <1>2, <1>3, <1>5, <1>6

\* At the upper left corner '\b' stays where it is.
LEMMA BackAtCorner ==
    ASSUME NEW v, Shows(v, <<>>), v.x = 0, v.y = 0
    PROVE  Shows(Back(v), <<>>)
  <1> DEFINE b == [v.buffer EXCEPT ![<<v.y, v.x>>] = SP]
             t == ScreenAt(b, v.x, v.y)
  <1>1. VGA_WIDTH \in Nat \ {0} /\ VGA_HEIGHT \in Nat \ {0}
    BY ConsoleAssumption
  <1>2. /\ Screen(v) /\ v.buffer \in [Cells -> Char]
        /\ v.x \in 0..(VGA_WIDTH - 1) /\ v.y \in 0..(VGA_HEIGHT - 1)
        /\ \A n \in Places : n >= Place(v) => CellOf(v.buffer, n) = SP
    BY <1>1 DEF Shows, Screen
  <1>3. Back(v) = t
    <2>1. Back(v) = [v EXCEPT !.buffer = b]
      <3>1. ~(v.x > 0) /\ ~(v.y > 0)
        OBVIOUS
      <3> QED
        BY <3>1, Zenon DEF Back
    <2> HIDE DEF b
    <2>2. [ScreenAt(v.buffer, v.x, v.y) EXCEPT !.buffer = b] = t
      BY TwoFields
    <2>3. v = ScreenAt(v.buffer, v.x, v.y)
      BY <1>2, ScreenIs
    <2> QED
      BY <2>1, <2>2, <2>3, Zenon
  <1>4. /\ b \in [Cells -> Char]
        /\ \A n \in Places : CellOf(b, n) = IF n = Place(v) THEN SP ELSE CellOf(v.buffer, n)
    <2>1. SP \in Char
      BY DEF Char
    <2> QED
      BY <1>2, <2>1, CellWritten DEF Place
  <1> HIDE DEF b
  <1>5. /\ t.buffer = b /\ t.x = v.x /\ t.y = v.y
        /\ t = [buffer |-> t.buffer, x |-> t.x, y |-> t.y] /\ Place(t) = Place(v)
    BY DEF ScreenAt, Place
  <1> HIDE DEF t
  <1>6. Screen(t)
    BY <1>1, <1>2, <1>4, <1>5 DEF Screen
  <1>7. \A n \in Places : n >= Place(t) => CellOf(t.buffer, n) = SP
    BY <1>2, <1>4, <1>5
  <1>8. Place(t) >= Len(<<>>)
    BY <1>5 DEF Shows
  <1> QED
    BY <1>3, <1>6, <1>7, <1>8 DEF Shows

\* Whatever is printed, nothing is behind the cursor.
LEMMA AnyShows ==
    ASSUME NEW v, Shows(v, <<>>), NEW c \in Char
    PROVE  Shows(vga_putchar(v, c), <<>>)
  <1>1. /\ VGA_WIDTH \in Nat \ {0} /\ VGA_HEIGHT \in Nat \ {0}
        /\ Len(<<>>) <= VGA_WIDTH * (VGA_HEIGHT - 1) /\ <<>> \in Seq(Char)
    <2>1. VGA_WIDTH \in Nat \ {0} /\ VGA_HEIGHT \in Nat \ {0}
      BY ConsoleAssumption
    <2>2. 0 \in 0..(VGA_HEIGHT - 1)
      BY <2>1
    <2>3. VGA_WIDTH * (VGA_HEIGHT - 1) \in Nat
      BY <2>2, RowProducts
    <2> QED
      BY <2>1, <2>3
  <1>2. CASE c = NL
    <2>1. vga_putchar(v, NL) = ScrolledIfBelow([v EXCEPT !.x = 0, !.y = @ + 1])
      BY Characters, Zenon DEF vga_putchar
    <2>2. vga_putchar(v, c) = Lower(v)
      BY <1>2, <2>1, Zenon DEF Lower
    <2> QED
      BY <1>1, <2>2, LowerShows
  <1>3. CASE c = BS
    <2>1. vga_putchar(v, c) = Back(v)
      BY <1>3 DEF vga_putchar, NL, BS
    <2>2. CASE v.x = 0 /\ v.y = 0
      BY <2>1, <2>2, BackAtCorner
    <2>3. CASE ~(v.x = 0 /\ v.y = 0)
      <3> DEFINE d == CellOf(v.buffer, Place(v) - 1)
      <3>1. /\ v.buffer \in [Cells -> Char] /\ v.x \in 0..VGA_WIDTH /\ v.y \in 0..(VGA_HEIGHT - 1)
        BY DEF Shows, Screen
      <3>2. /\ v.y * VGA_WIDTH \in Nat /\ (v.y # 0 => v.y * VGA_WIDTH >= VGA_WIDTH)
            /\ v.y * VGA_WIDTH + VGA_WIDTH <= VGA_WIDTH * VGA_HEIGHT
            /\ VGA_WIDTH * VGA_HEIGHT \in Nat
        <4>1. v.y * VGA_WIDTH \in Nat /\ (v.y + 1) * VGA_WIDTH = v.y * VGA_WIDTH + VGA_WIDTH
              /\ VGA_WIDTH * VGA_HEIGHT \in Nat
          BY <3>1, RowProducts
        <4>2. v.y # 0 => v.y * VGA_WIDTH >= VGA_WIDTH
          <5> SUFFICES ASSUME v.y # 0 PROVE v.y * VGA_WIDTH >= VGA_WIDTH
            OBVIOUS
          <5>1. v.y - 1 \in 0..(VGA_HEIGHT - 1) /\ (v.y - 1) + 1 = v.y
            BY <1>1, <3>1
          <5>2. ((v.y - 1) + 1) * VGA_WIDTH = (v.y - 1) * VGA_WIDTH + VGA_WIDTH
                /\ (v.y - 1) * VGA_WIDTH \in Nat
            BY <5>1, RowProducts
          <5>3. v.y * VGA_WIDTH = (v.y - 1) * VGA_WIDTH + VGA_WIDTH
            BY <5>1, <5>2
          <5> QED
            BY <1>1, <5>2, <5>3
        <4>3. v.y * VGA_WIDTH + VGA_WIDTH <= VGA_WIDTH * VGA_HEIGHT
          <5> DEFINE k == VGA_WIDTH - 1
          <5>1. k \in 0..(VGA_WIDTH - 1) /\ v.y \in Nat /\ v.y < VGA_HEIGHT
            BY <1>1, <3>1
          <5>2. v.y * VGA_WIDTH + k \in Places
            BY <5>1, PlaceOf
          <5> QED
            BY <1>1, <4>1, <5>2 DEF Places
        <4> QED
          BY <4>1, <4>2, <4>3
      <3>3. Place(v) = v.y * VGA_WIDTH + v.x
        BY DEF Place
      <3>4. Place(v) \in Nat /\ Place(v) >= 1 /\ Place(v) - 1 < VGA_WIDTH * VGA_HEIGHT
        <4> DEFINE row == v.y * VGA_WIDTH
                   size == VGA_WIDTH * VGA_HEIGHT
        <4>1. /\ row \in Nat /\ (v.y # 0 => row >= VGA_WIDTH)
              /\ row + VGA_WIDTH <= size /\ size \in Nat
          BY <3>2
        <4>2. Place(v) = row + v.x /\ v.x \in 0..VGA_WIDTH /\ (v.x # 0 \/ v.y # 0)
          BY <2>3, <3>1, <3>3
        <4> HIDE DEF row, size
        <4>3. Place(v) \in Nat /\ Place(v) >= 1 /\ Place(v) - 1 < size
          BY <1>1, <4>1, <4>2
        <4> QED
          BY <4>3 DEF size
      <3>5. Place(v) - 1 \in Places
        BY <3>2, <3>4 DEF Places
      <3>6. d \in Char
        <4>1. <<(Place(v) - 1) \div VGA_WIDTH, (Place(v) - 1) % VGA_WIDTH>> \in Cells
          BY <3>5, PlaceHasCell
        <4> QED
          BY <3>1, <4>1 DEF CellOf
      <3>7. Append(<<>>, d) = <<d>> /\ Len(<<d>>) = 1 /\ <<d>>[1] = d
        OBVIOUS
      <3>8. \A i \in 1..1 : CellOf(v.buffer, Place(v) - 1 + i - 1) = d
        BY <3>4
      <3> HIDE DEF d
      <3>9. Shows(v, <<d>>)
        <4>1. Screen(v) /\ \A n \in Places : n >= Place(v) => CellOf(v.buffer, n) = SP
          BY DEF Shows
        <4>2. \A i \in 1..1 : <<d>>[i] = d
          OBVIOUS
        <4>3. Place(v) >= Len(<<d>>)
          BY <3>4, <3>7
        <4>4. \A i \in 1..Len(<<d>>) : CellOf(v.buffer, Place(v) - Len(<<d>>) + i - 1) = <<d>>[i]
          BY <3>7, <3>8, <4>2
        <4> QED
          BY <4>1, <4>3, <4>4 DEF Shows
      <3> QED
        BY <1>1, <2>1, <3>6, <3>7, <3>9, BackShows
    <2> QED
      BY <2>2, <2>3
  <1>4. CASE c # NL /\ c # BS
    <2>1. vga_putchar(v, c) = Put(v, c)
      BY <1>4 DEF vga_putchar
    <2>2. Shows(Put(v, c), Append(<<>>, c)) /\ Append(<<>>, c) \in Seq(Char)
      <3>1. Append(<<>>, c) \in Seq(Char)
        BY ShortSequences
      <3>2. Shows(Put(v, c), Append(<<>>, c))
        BY <1>1, PutShows
      <3> QED
        BY <3>1, <3>2
    <2> QED
      BY <2>1, <2>2, Shorter
  <1> QED
    BY <1>2, <1>3, <1>4

-----------------------------------------------------------------------------
(* Strings. *)

\* The screen after n characters, as a function of n.
IsPuts(f, v, s, n) ==
    f = [k \in 0..n |-> IF k = 0 THEN v ELSE vga_putchar(f[k - 1], s[k])]

LEMMA PutsExists ==
    ASSUME NEW v, NEW s, NEW n \in Nat
    PROVE  \E f : IsPuts(f, v, s, n)
  <1> DEFINE Bad == {m \in Nat : ~\E f : IsPuts(f, v, s, m)}
  <1>1. SUFFICES ASSUME Bad # {} PROVE FALSE
    OBVIOUS
  <1>2. PICK m \in Bad : \A k \in Bad : m <= k
    <2>1. Bad \in SUBSET Nat
      OBVIOUS
    <2> HIDE DEF Bad
    <2> QED
      BY <1>1, <2>1, LeastNatural
  <1>3. m \in Nat /\ \A f : ~IsPuts(f, v, s, m)
    OBVIOUS
  <1>4. CASE m = 0
    <2> DEFINE f == [k \in 0..0 |-> v]
    <2>1. IsPuts(f, v, s, 0)
      BY DEF IsPuts
    <2> QED
      BY <1>3, <1>4, <2>1
  <1>5. CASE m # 0
    <2>1. m - 1 \in Nat /\ m - 1 \notin Bad
      BY <1>2, <1>3, <1>5
    <2>2. PICK f : IsPuts(f, v, s, m - 1)
      BY <2>1
    <2> DEFINE g == [k \in 0..m |-> IF k = m THEN vga_putchar(f[m - 1], s[m]) ELSE f[k]]
    <2>3. \A k \in 0..(m - 1) : f[k] = IF k = 0 THEN v ELSE vga_putchar(f[k - 1], s[k])
      BY <2>2 DEF IsPuts
    <2>4. ASSUME NEW k \in 0..m
          PROVE  g[k] = IF k = 0 THEN v ELSE vga_putchar(g[k - 1], s[k])
      <3>1. CASE k = m
        <4>1. m # 0 /\ m - 1 \in 0..m /\ m - 1 # m
          BY <1>3, <1>5
        <4>2. g[m - 1] = f[m - 1]
          BY <4>1
        <4>3. g[m] = vga_putchar(f[m - 1], s[m])
          BY <1>3
        <4> QED
          BY <3>1, <4>1, <4>2, <4>3
      <3>2. CASE k # m
        <4>1. k \in 0..(m - 1) /\ g[k] = f[k]
          BY <1>3, <3>2
        <4>2. CASE k = 0
          BY <2>3, <4>1, <4>2
        <4>3. CASE k # 0
          <5>1. k - 1 \in 0..m /\ k - 1 # m
            BY <1>3, <3>2, <4>3
          <5>2. g[k - 1] = f[k - 1]
            BY <5>1
          <5> QED
            BY <2>3, <4>1, <4>3, <5>2
        <4> QED
          BY <4>2, <4>3
      <3> QED
        BY <3>1, <3>2
    <2>5. g = [k \in 0..m |-> g[k]]
      OBVIOUS
    <2> HIDE DEF g
    <2>6. IsPuts(g, v, s, m)
      BY <2>4, <2>5 DEF IsPuts
    <2> QED
      BY <1>3, <2>6
  <1> QED
    BY <1>4, <1>5

LEMMA Puts ==
    ASSUME NEW v, NEW s \in Seq(Char)
    PROVE  \E f : /\ f[0] = v /\ vga_puts(v, s) = f[Len(s)]
                  /\ \A k \in 1..Len(s) : f[k] = vga_putchar(f[k - 1], s[k])
  <1> DEFINE f == CHOOSE g : IsPuts(g, v, s, Len(s))
  <1>1. vga_puts(v, s) = f[Len(s)]
    BY DEF vga_puts, IsPuts
  <1>2. Len(s) \in Nat /\ 0 \in 0..Len(s)
    OBVIOUS
  <1>3. IsPuts(f, v, s, Len(s))
    BY <1>2, PutsExists
  <1> HIDE DEF f
  <1>4. \A k \in 0..Len(s) : f[k] = IF k = 0 THEN v ELSE vga_putchar(f[k - 1], s[k])
    BY <1>3 DEF IsPuts
  <1> QED
    BY <1>1, <1>2, <1>4

LEMMA StringShows ==
    ASSUME NEW v, Shows(v, <<>>), NEW s \in Seq(Char)
    PROVE  Shows(vga_puts(v, s), <<>>)
  <1>1. PICK f : /\ f[0] = v /\ vga_puts(v, s) = f[Len(s)]
                 /\ \A k \in 1..Len(s) : f[k] = vga_putchar(f[k - 1], s[k])
    BY Puts
  <1> DEFINE Bad == {k \in 0..Len(s) : ~Shows(f[k], <<>>)}
  <1>2. Len(s) \in Nat
    OBVIOUS
  <1>3. ASSUME Bad # {} PROVE FALSE
    <2>1. PICK m \in Bad : \A k \in Bad : m <= k
      <3>1. Bad \in SUBSET Nat
        BY <1>2
      <3> HIDE DEF Bad
      <3> QED
        BY <1>3, <3>1, LeastNatural
    <2>2. m \in 0..Len(s) /\ m # 0 /\ ~Shows(f[m], <<>>)
      BY <1>1
    <2>3. m - 1 \in 0..Len(s) /\ m - 1 \notin Bad /\ m \in 1..Len(s)
      BY <1>2, <2>1, <2>2
    <2>4. Shows(f[m - 1], <<>>) /\ f[m] = vga_putchar(f[m - 1], s[m]) /\ s[m] \in Char
      BY <1>1, <2>3
    <2> QED
      BY <2>2, <2>4, AnyShows
  <1> QED
    BY <1>1, <1>2, <1>3

LEMMA PromptIs ==
    /\ Prompt \in Seq(Char) /\ Len(Prompt) = 2 /\ Prompt[1] = ">" /\ Prompt[2] = SP
    /\ <<">">> \in Seq(Char) /\ Len(<<">">>) = 1 /\ Append(<<>>, ">") = <<">">>
    /\ Append(<<">">>, SP) = Prompt
  BY Characters, ShortSequences DEF Prompt

\* The prompt is the text that follows any output.
LEMMA PromptShows ==
    ASSUME NEW v, Shows(v, <<>>)
    PROVE  Shows(vga_puts(v, Prompt), Prompt)
  <1>1. /\ Prompt \in Seq(Char) /\ Len(Prompt) = 2 /\ Prompt[1] = ">" /\ Prompt[2] = SP
        /\ ">" \in Char /\ SP \in Char
    BY PromptIs, Characters
  <1>2. ">" # NL /\ ">" # BS /\ SP # NL /\ SP # BS
    BY Characters
  <1>3. PICK f : /\ f[0] = v /\ vga_puts(v, Prompt) = f[2]
                 /\ \A k \in 1..2 : f[k] = vga_putchar(f[k - 1], Prompt[k])
    <2>1. PICK f : /\ f[0] = v /\ vga_puts(v, Prompt) = f[Len(Prompt)]
                   /\ \A k \in 1..Len(Prompt) : f[k] = vga_putchar(f[k - 1], Prompt[k])
      <3>1. Prompt \in Seq(Char)
        BY <1>1
      <3> QED
        BY <3>1, Puts
    <2> QED
      BY <1>1, <2>1, Zenon
  <1>4. f[1] = Put(v, ">") /\ f[2] = Put(f[1], SP)
    <2>1. f[1] = vga_putchar(f[0], Prompt[1]) /\ f[2] = vga_putchar(f[1], Prompt[2])
      BY <1>3
    <2> QED
      BY <1>1, <1>2, <1>3, <2>1 DEF vga_putchar
  <1>5. 2 <= VGA_WIDTH * (VGA_HEIGHT - 1)
    <2>1. VGA_HEIGHT \in Nat \ {0} /\ INPUT_SIZE \in Nat \ {0}
          /\ INPUT_SIZE + 1 <= VGA_WIDTH * (VGA_HEIGHT - 1)
      BY ConsoleAssumption
    <2>2. 0 \in 0..(VGA_HEIGHT - 1)
      BY <2>1
    <2>3. VGA_WIDTH * (VGA_HEIGHT - 1) \in Nat
      BY <2>2, RowProducts
    <2> QED
      BY <2>1, <2>3
  <1>6. /\ <<>> \in Seq(Char) /\ Len(<<>>) = 0 /\ Append(<<>>, ">") = <<">">>
        /\ <<">">> \in Seq(Char) /\ Len(<<">">>) = 1 /\ Append(<<">">>, SP) = Prompt
    <2>1. <<>> \in Seq(Char) /\ Len(<<>>) = 0
      OBVIOUS
    <2> QED
      BY <2>1, PromptIs
  <1>7. VGA_WIDTH * (VGA_HEIGHT - 1) \in Int
    BY ConsoleAssumption, SMT
  <1>8. 0 <= VGA_WIDTH * (VGA_HEIGHT - 1) /\ 1 <= VGA_WIDTH * (VGA_HEIGHT - 1)
    BY <1>5, <1>7
  <1>9. Shows(f[1], <<">">>)
    BY <1>1, <1>4, <1>6, <1>8, PutShows
  <1>10. Shows(f[2], Prompt)
    BY <1>1, <1>4, <1>6, <1>8, <1>9, PutShows
  <1> QED
    BY <1>3, <1>10

\* What kernel_loop prints for the backspace key erases one character.
LEMMA EraseShows ==
    ASSUME NEW v, NEW text \in Seq(Char), NEW c \in Char, Shows(v, Append(text, c)),
           Len(text) <= VGA_WIDTH * (VGA_HEIGHT - 1)
    PROVE  Shows(vga_puts(v, <<BS, SP, BS>>), text)
  <1>1. PICK s : s = <<BS, SP, BS>>
    OBVIOUS
  <1>2. /\ s \in Seq(Char) /\ Len(s) = 3 /\ s[1] = BS /\ s[2] = SP /\ s[3] = BS /\ SP \in Char
    BY <1>1, Characters, ShortSequences
  <1>3. BS # NL /\ SP # NL /\ SP # BS
    BY Characters
  <1>4. PICK f : /\ f[0] = v /\ vga_puts(v, s) = f[3]
                 /\ \A k \in 1..3 : f[k] = vga_putchar(f[k - 1], s[k])
    <2>1. PICK f : /\ f[0] = v /\ vga_puts(v, s) = f[Len(s)]
                   /\ \A k \in 1..Len(s) : f[k] = vga_putchar(f[k - 1], s[k])
      <3>1. s \in Seq(Char)
        BY <1>2
      <3> QED
        BY <3>1, Puts
    <2> QED
      BY <1>2, <2>1, Zenon
  <1>5. f[1] = Back(v) /\ f[2] = Put(f[1], SP) /\ f[3] = Back(f[2])
    <2>1. /\ f[1] = vga_putchar(f[0], s[1]) /\ f[2] = vga_putchar(f[1], s[2])
          /\ f[3] = vga_putchar(f[2], s[3])
      BY <1>4
    <2> QED
      BY <1>2, <1>3, <1>4, <2>1 DEF vga_putchar
  <1>6. Shows(f[1], text)
    BY <1>5, BackShows
  <1>7. Shows(f[2], Append(text, SP))
    BY <1>2, <1>5, <1>6, PutShows
  <1>8. Shows(f[3], text)
    BY <1>2, <1>5, <1>7, BackShows
  <1> QED
    BY <1>4, <1>8, <1>1, Zenon

LEMMA ClearShows == Shows(vga_clear, <<>>)
  <1> DEFINE b == [c \in Cells |-> SP]
             t == ScreenAt(b, 0, 0)
  <1>1. vga_clear = t
    BY DEF vga_clear, ScreenAt
  <1>2. b \in [Cells -> Char]
    BY DEF Char
  <1>3. \A n \in Places : CellOf(b, n) = SP
    BY PlaceHasCell DEF CellOf
  <1> HIDE DEF b
  <1>4. VGA_WIDTH \in Nat \ {0} /\ VGA_HEIGHT \in Nat \ {0}
    BY ConsoleAssumption
  <1>5. t.buffer = b /\ t.x = 0 /\ t.y = 0 /\ t = [buffer |-> t.buffer, x |-> t.x, y |-> t.y]
    BY DEF ScreenAt
  <1> HIDE DEF t
  <1>6. Screen(t)
    BY <1>2, <1>4, <1>5 DEF Screen
  <1>7. Place(t) = 0
    BY <1>4, <1>5, SMT DEF Place
  <1> QED
    BY <1>1, <1>3, <1>5, <1>6, <1>7 DEF Shows

-----------------------------------------------------------------------------
(* kernel_loop. *)

LineInv == /\ line \in Seq(Printable) /\ Len(line) < INPUT_SIZE
           /\ Shows(vga, Prompt \o line)

LEMMA PromptThenLine ==
    ASSUME line \in Seq(Printable)
    PROVE  /\ Prompt \o line \in Seq(Char) /\ Len(Prompt \o line) = 2 + Len(line)
           /\ Prompt \o <<>> = Prompt
  <1>1. Prompt \in Seq(Char) /\ Len(Prompt) = 2
    BY PromptIs
  <1>2. line \in Seq(Char)
    BY Characters
  <1> HIDE DEF Prompt
  <1> QED
    <2>1. /\ Prompt \o line \in Seq(Char) /\ Len(Prompt \o line) = Len(Prompt) + Len(line)
          /\ Prompt \o <<>> = Prompt
      BY <1>1, <1>2, ConcatProperties, ConcatEmptySeq
    <2> QED
      BY <1>1, <2>1

LEMMA LineFits ==
    ASSUME NEW n \in Nat, n < INPUT_SIZE
    PROVE  2 + n <= VGA_WIDTH * (VGA_HEIGHT - 1)
  <1>1. VGA_HEIGHT \in Nat \ {0} /\ INPUT_SIZE \in Nat \ {0}
        /\ INPUT_SIZE + 1 <= VGA_WIDTH * (VGA_HEIGHT - 1)
    BY ConsoleAssumption
  <1>2. 0 \in 0..(VGA_HEIGHT - 1)
    BY <1>1
  <1>3. VGA_WIDTH * (VGA_HEIGHT - 1) \in Nat
    BY <1>2, RowProducts
  <1> QED
    BY <1>1, <1>3

LEMMA ConsoleStarts ==
    ASSUME ConsoleInit
    PROVE  LineInv
  <1>1. /\ line = <<>> /\ <<>> \in Seq(Printable) /\ Len(<<>>) = 0 /\ INPUT_SIZE \in Nat \ {0}
        /\ vga = vga_puts(vga_clear, Prompt)
    BY ConsoleAssumption DEF ConsoleInit
  <1>2. Prompt \o line = Prompt
    BY <1>1, PromptThenLine
  <1> QED
    BY <1>1, <1>2, ClearShows, PromptShows DEF LineInv

LEMMA EnterKeeps ==
    ASSUME LineInv, Enter
    PROVE  LineInv'
  <1>1. PICK output \in Outputs :
           LET repeated == vga_puts(vga, <<NL, "'">> \o line \o <<"'", NL>>)
               printed == IF output = CLEAR THEN vga_clear ELSE vga_puts(repeated, output)
           IN  vga' = vga_puts(printed, Prompt) /\ line' = <<>>
    BY DEF Enter
  <1> DEFINE said == <<NL, "'">> \o line \o <<"'", NL>>
             repeated == vga_puts(vga, said)
             printed == IF output = CLEAR THEN vga_clear ELSE vga_puts(repeated, output)
  <1>2. said \in Seq(Char)
    <2>1. line \in Seq(Char)
      BY Characters DEF LineInv
    <2>2. <<NL, "'">> \in Seq(Char) /\ <<"'", NL>> \in Seq(Char)
      BY Characters, ShortSequences
    <2>3. \A s, t \in Seq(Char) : s \o t \in Seq(Char)
      OBVIOUS
    <2> QED
      BY <2>1, <2>2, <2>3, Zenon
  <1>3. output \in Seq(Char)
    BY ConsoleAssumption, Characters
  <1>4. Shows(vga, <<>>)
    BY PromptThenLine, Shorter DEF LineInv
  <1>5. vga' = vga_puts(printed, Prompt) /\ line' = <<>>
    BY <1>1
  <1> HIDE DEF said
  <1>6. Shows(repeated, <<>>)
    BY <1>2, <1>4, StringShows
  <1> HIDE DEF repeated
  <1>7. Shows(printed, <<>>)
    BY <1>3, <1>6, StringShows, ClearShows
  <1> HIDE DEF printed
  <1>8. Shows(vga', Prompt)
    BY <1>5, <1>7, PromptShows
  <1>9. /\ <<>> \in Seq(Printable) /\ Len(<<>>) = 0
        /\ INPUT_SIZE \in Nat \ {0} /\ Prompt \o <<>> = Prompt
    BY ConsoleAssumption DEF Prompt
  <1> QED
    BY <1>5, <1>8, <1>9 DEF LineInv

LEMMA BackspaceKeeps ==
    ASSUME LineInv, Backspace
    PROVE  LineInv'
  <1> DEFINE rest == Front(line)
             c == line[Len(line)]
  <1>1. line \in Seq(Printable) /\ line # <<>> /\ Len(line) < INPUT_SIZE /\ INPUT_SIZE \in Nat
        /\ line' = rest /\ vga' = vga_puts(vga, <<BS, SP, BS>>)
    BY ConsoleAssumption DEF LineInv, Backspace
  <1>2. rest \in Seq(Printable) /\ Len(rest) = Len(line) - 1 /\ c \in Printable
        /\ line = Append(rest, c)
    BY <1>1, FrontAndLast
  <1> HIDE DEF rest, c
  <1>3. Prompt \in Seq(Char) /\ rest \in Seq(Char) /\ c \in Char /\ Len(Prompt) = 2
    BY <1>2, PromptIs, Characters
  <1> HIDE DEF Prompt
  <1>4. Prompt \o line = Append(Prompt \o rest, c)
    BY <1>2, <1>3, ConcatAppend
  <1>5. Prompt \o rest \in Seq(Char) /\ Len(Prompt \o rest) = 2 + Len(rest)
    <2>1. Prompt \o rest \in Seq(Char) /\ Len(Prompt \o rest) = Len(Prompt) + Len(rest)
      BY <1>3, ConcatProperties
    <2> QED
      BY <1>3, <2>1
  <1>6. Len(rest) \in Nat /\ Len(rest) < INPUT_SIZE
    BY <1>1, <1>2
  <1>7. Shows(vga, Append(Prompt \o rest, c))
    BY <1>4 DEF LineInv
  <1>8. Len(Prompt \o rest) <= VGA_WIDTH * (VGA_HEIGHT - 1)
    BY <1>5, <1>6, LineFits
  <1>9. Shows(vga', Prompt \o rest)
    BY <1>1, <1>3, <1>5, <1>7, <1>8, EraseShows
  <1> QED
    BY <1>1, <1>2, <1>6, <1>9 DEF LineInv

LEMMA TypeKeeps ==
    ASSUME LineInv, NEW c \in Printable, Type(c)
    PROVE  LineInv'
  <1>1. /\ line \in Seq(Printable) /\ Len(line) < INPUT_SIZE - 1 /\ INPUT_SIZE \in Nat
        /\ line' = Append(line, c) /\ vga' = vga_putchar(vga, c)
    BY ConsoleAssumption DEF LineInv, Type
  <1>2. c # NL /\ c # BS /\ c \in Char
    BY ConsoleAssumption DEF Char
  <1>3. vga' = Put(vga, c)
    BY <1>1, <1>2 DEF vga_putchar
  <1>4. /\ Prompt \o line \in Seq(Char) /\ Len(Prompt \o line) = 2 + Len(line)
    BY <1>1, PromptThenLine
  <1>5. Len(line) \in Nat /\ Len(line) < INPUT_SIZE
    BY <1>1
  <1>6. Len(Prompt \o line) <= VGA_WIDTH * (VGA_HEIGHT - 1)
    BY <1>4, <1>5, LineFits
  <1>7. Shows(vga', Append(Prompt \o line, c))
    BY <1>2, <1>3, <1>4, <1>6, PutShows DEF LineInv
  <1>8. Prompt \o Append(line, c) = Append(Prompt \o line, c)
    <2>1. Prompt \in Seq(Char) /\ line \in Seq(Char)
      BY <1>1, PromptIs, Characters
    <2> QED
      BY <1>2, <2>1, ConcatAppend
  <1>9. Append(line, c) \in Seq(Printable) /\ Len(Append(line, c)) < INPUT_SIZE
    BY <1>1
  <1> QED
    BY <1>1, <1>7, <1>8, <1>9 DEF LineInv

\* What the user sees before the cursor is the prompt and what Enter will execute,
\* and nothing stands behind it, for every size of screen that has room for prompt
\* and line above its last row, and whatever is typed and printed.
THEOREM ScreenShowsLineCorrect == ConsoleSpec => []ScreenShowsLine
  <1>1. ConsoleInit => LineInv
    BY ConsoleStarts
  <1>2. LineInv /\ [ConsoleNext]_consoleVars => LineInv'
    <2> SUFFICES ASSUME LineInv, [ConsoleNext]_consoleVars PROVE LineInv'
      OBVIOUS
    <2>1. CASE UNCHANGED consoleVars
      BY <2>1 DEF consoleVars, LineInv
    <2>2. ASSUME NEW c \in Printable \cup {NL, BS, OtherKey}, Key(c)
          PROVE  LineInv'
      <3>1. CASE c = NL
        BY <2>2, <3>1, EnterKeeps, ConsoleAssumption DEF Key, NL, BS
      <3>2. CASE c = BS
        BY <2>2, <3>2, BackspaceKeeps, ConsoleAssumption DEF Key, NL, BS
      <3>3. CASE c \in Printable
        <4>1. c # NL /\ c # BS
          BY <3>3, ConsoleAssumption
        <4>2. Type(c)
          BY <2>2, <3>3, <4>1 DEF Key
        <4> QED
          BY <3>3, <4>2, TypeKeeps
      <3>4. CASE c \notin Printable /\ c # NL /\ c # BS
        <4>1. UNCHANGED consoleVars
          BY <2>2, <3>4 DEF Key
        <4> QED
          BY <4>1 DEF consoleVars, LineInv
      <3> QED
        BY <3>1, <3>2, <3>3, <3>4
    <2> QED
      BY <2>1, <2>2 DEF ConsoleNext
  <1>3. LineInv => ScreenShowsLine
    <2> SUFFICES ASSUME LineInv PROVE ScreenShowsLine
      OBVIOUS
    <2>1. Cursor = Place(vga) /\ \A n : Cell(n) = CellOf(vga.buffer, n)
      BY DEF Cursor, Place, Cell, CellOf
    <2>2. /\ Shows(vga, Prompt \o line) /\ Len(line) < INPUT_SIZE
      BY DEF LineInv
    <2>3. Place(vga) \in Nat
      <3>1. vga.y \in Nat /\ vga.x \in Nat /\ VGA_WIDTH \in Nat
        BY <2>2, ConsoleAssumption DEF Shows, Screen
      <3> QED
        BY <3>1, SMT DEF Place
    <2>4. VGA_WIDTH * VGA_HEIGHT \in Nat
      BY ConsoleAssumption, SMT
    <2>5. \A n \in Cursor..(VGA_WIDTH * VGA_HEIGHT - 1) : n \in Places /\ n >= Place(vga)
      BY <2>1, <2>3, <2>4 DEF Places
    <2> QED
      BY <2>1, <2>2, <2>5 DEF ScreenShowsLine, Shows
  <1> QED
    BY <1>1, <1>2, <1>3, PTL DEF ConsoleSpec
=============================================================================
