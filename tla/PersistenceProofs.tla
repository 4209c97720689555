------------------------- MODULE PersistenceProofs -------------------------
(***************************************************************************)
(* Proofs about the file system, in memory and on the devices, for every   *)
(* size of the table, of a buffer, of the heap and of the devices, every   *)
(* path and text callers pass, and every order of commands, saves, loads,  *)
(* failing sectors and power failures.                                     *)
(*                                                                         *)
(* First the file system in memory, whose steps Persistence takes too,     *)
(* then save, load and format.                                             *)
(***************************************************************************)
EXTENDS Persistence, TLAPS, FiniteSetTheorems, SequenceTheorems, NaturalsInduction,
        WellFoundedInduction

-----------------------------------------------------------------------------
(* Lists of distinct elements. *)

\* Every non-empty set of naturals has a least element.
LEMMA LeastNatural ==
    ASSUME NEW S \in SUBSET Nat, S # {}
    PROVE  \E x \in S : \A y \in S : x <= y
  <1>1. PICK x \in S : \A y \in S : ~(<<y, x>> \in OpToRel(<, Nat))
    BY NatLessThanWellFounded, WFMin
  <1>2. \A y \in S : ~(y < x)
    BY <1>1 DEF OpToRel
  <1> QED
    BY <1>2, SMT

\* The least of some places is one of them.
LEMMA LeastPlace ==
    ASSUME NEW n \in Nat, NEW I \in SUBSET (1..n), I # {}
    PROVE  Min(I) \in I
  <1>1. PICK i \in I : \A j \in I : i <= j
    BY LeastNatural
  <1> QED
    BY <1>1 DEF Min

\* Unlinking an element removes it and nothing else.
LEMMA RemovedAt ==
    ASSUME NEW S, NEW list \in Seq(S), IsInjective(list), NEW i \in 1..Len(list)
    PROVE  /\ RemoveAt(list, i) \in Seq(S) /\ IsInjective(RemoveAt(list, i))
           /\ ToSet(RemoveAt(list, i)) = ToSet(list) \ {list[i]}
  <1> DEFINE n == Len(list)
             front == SubSeq(list, 1, i - 1)
             back == SubSeq(list, i + 1, n)
             L == RemoveAt(list, i)
  <1>1. /\ n \in Nat /\ DOMAIN list = 1..n /\ i \in 1..n
        /\ \A k \in 1..n : list[k] \in S
    OBVIOUS
  <1> HIDE DEF n
  <1>2. front \in Seq(S) /\ Len(front) = i - 1 /\ \A k \in 1..(i - 1) : front[k] = list[k]
    <2>1. \A k \in 1..(i - 1) : list[k] \in S
      BY <1>1
    <2>2. /\ front \in Seq(S)
          /\ Len(front) = IF 1 <= i - 1 THEN (i - 1) - 1 + 1 ELSE 0
          /\ \A k \in 1..((i - 1) - 1 + 1) : front[k] = list[1 + k - 1]
      BY <1>1, <2>1, SubSeqProperties
    <2> QED
      BY <1>1, <2>2
  <1>3. back \in Seq(S) /\ Len(back) = n - i /\ \A k \in 1..(n - i) : back[k] = list[i + k]
    <2>1. \A k \in (i + 1)..n : list[k] \in S
      BY <1>1
    <2>2. /\ back \in Seq(S)
          /\ Len(back) = IF i + 1 <= n THEN n - (i + 1) + 1 ELSE 0
          /\ \A k \in 1..(n - (i + 1) + 1) : back[k] = list[(i + 1) + k - 1]
      BY <1>1, <2>1, SubSeqProperties
    <2>3. n - (i + 1) + 1 = n - i /\ \A k \in 1..(n - i) : (i + 1) + k - 1 = i + k
      BY <1>1
    <2> QED
      BY <1>1, <2>2, <2>3
  <1>4. L = front \o back
    BY DEF RemoveAt, n
  <1> HIDE DEF front, back, L
  <1>5. /\ L \in Seq(S) /\ DOMAIN L = 1..(n - 1)
        /\ \A k \in 1..(n - 1) : L[k] = IF k < i THEN list[k] ELSE list[k + 1]
    <2>1. /\ L \in Seq(S) /\ Len(L) = (i - 1) + (n - i)
          /\ \A k \in 1..((i - 1) + (n - i)) :
                L[k] = IF k <= i - 1 THEN front[k] ELSE back[k - (i - 1)]
      BY <1>2, <1>3, <1>4, ConcatProperties
    <2>2. (i - 1) + (n - i) = n - 1
      BY <1>1
    <2>3. DOMAIN L = 1..(n - 1)
      BY <2>1, <2>2
    <2>4. ASSUME NEW k \in 1..(n - 1), k < i PROVE L[k] = list[k]
      BY <1>1, <1>2, <2>1, <2>2, <2>4
    <2>5. ASSUME NEW k \in 1..(n - 1), ~(k < i) PROVE L[k] = list[k + 1]
      <3>1. k - (i - 1) \in 1..(n - i) /\ i + (k - (i - 1)) = k + 1 /\ ~(k <= i - 1)
        BY <1>1, <2>5
      <3>2. back[k - (i - 1)] = list[k + 1]
        BY <1>3, <3>1
      <3> QED
        BY <2>1, <2>2, <3>1, <3>2
    <2> QED
      BY <2>1, <2>3, <2>4, <2>5
  <1>6. IsInjective(L)
    <2> SUFFICES ASSUME NEW j \in 1..(n - 1), NEW k \in 1..(n - 1), L[j] = L[k]
                 PROVE  j = k
      BY <1>5 DEF IsInjective
    <2>1. j \in 1..n /\ j + 1 \in 1..n /\ k \in 1..n /\ k + 1 \in 1..n
      BY <1>1
    <2>2. \A x, y \in 1..n : list[x] = list[y] => x = y
      BY <1>1 DEF IsInjective
    <2>3. /\ L[j] = IF j < i THEN list[j] ELSE list[j + 1]
          /\ L[k] = IF k < i THEN list[k] ELSE list[k + 1]
      BY <1>5
    <2> DEFINE x == IF j < i THEN j ELSE j + 1
               y == IF k < i THEN k ELSE k + 1
    <2>4. x \in 1..n /\ y \in 1..n /\ L[j] = list[x] /\ L[k] = list[y]
      BY <2>1, <2>3
    <2>5. x = y
      BY <2>2, <2>4
    <2> QED
      BY <1>1, <2>5
  <1>7. ToSet(L) \subseteq ToSet(list) \ {list[i]}
    <2> SUFFICES ASSUME NEW k \in 1..(n - 1)
                 PROVE  L[k] \in ToSet(list) /\ L[k] # list[i]
      BY <1>5 DEF ToSet
    <2> DEFINE x == IF k < i THEN k ELSE k + 1
    <2>1. x \in 1..n /\ x # i
      BY <1>1
    <2>2. L[k] = list[x]
      BY <1>5
    <2> HIDE DEF x
    <2>3. list[x] \in ToSet(list)
      BY <1>1, <2>1 DEF ToSet
    <2>4. list[x] # list[i]
      BY <1>1, <2>1 DEF IsInjective
    <2> QED
      BY <2>2, <2>3, <2>4
  <1>8. ASSUME NEW k \in 1..n, k # i PROVE list[k] \in ToSet(L)
    <2>1. CASE k < i
      <3>1. k \in 1..(n - 1) /\ L[k] = list[k]
        BY <1>1, <1>5, <2>1
      <3> QED
        BY <3>1, <1>5 DEF ToSet
    <2>2. CASE k > i
      <3>1. k - 1 \in 1..(n - 1) /\ L[k - 1] = list[k]
        BY <1>1, <1>5, <2>2
      <3> QED
        BY <3>1, <1>5 DEF ToSet
    <2> QED
      BY <2>1, <2>2, <1>1, <1>8
  <1>9. ToSet(list) \ {list[i]} \subseteq ToSet(L)
    BY <1>1, <1>8 DEF ToSet
  <1> QED
    BY <1>5, <1>6, <1>7, <1>9 DEF L

\* RemoveFirst takes an element out of a list of distinct ones.
LEMMA RemovedFirst ==
    ASSUME NEW S, NEW list \in Seq(S), IsInjective(list), NEW e
    PROVE  /\ RemoveFirst(list, e) \in Seq(S) /\ IsInjective(RemoveFirst(list, e))
           /\ ToSet(RemoveFirst(list, e)) = ToSet(list) \ {e}
  <1> DEFINE I == {i \in 1..Len(list) : list[i] = e}
  <1>1. Len(list) \in Nat /\ DOMAIN list = 1..Len(list)
    OBVIOUS
  <1>2. CASE I = {}
    <2>1. RemoveFirst(list, e) = list
      BY <1>2 DEF RemoveFirst
    <2>2. e \notin ToSet(list)
      BY <1>1, <1>2 DEF ToSet
    <2> QED
      BY <2>1, <2>2
  <1>3. CASE I # {}
    <2>1. Min(I) \in I
      BY <1>1, <1>3, LeastPlace
    <2>2. RemoveFirst(list, e) = RemoveAt(list, Min(I))
      <3>1. \E i \in 1..Len(list) : list[i] = e
        BY <1>3
      <3>2. RemoveFirst(list, e) = RemoveAt(list, SelectInSeq(list, LAMBDA v : v = e))
        BY <3>1 DEF RemoveFirst
      <3>3. SelectInSeq(list, LAMBDA v : v = e) = Min(I)
        BY <1>3 DEF SelectInSeq
      <3> QED
        BY <3>2, <3>3
    <2> DEFINE k == Min(I)
    <2>3. RemoveFirst(list, e) = RemoveAt(list, k)
      BY <2>2
    <2>4. k \in 1..Len(list) /\ list[k] = e
      BY <2>1
    <2> HIDE DEF k
    <2> QED
      BY <2>3, <2>4, RemovedAt
  <1> QED
    BY <1>2, <1>3

\* A new element in front keeps the elements distinct.
LEMMA Prepended ==
    ASSUME NEW S, NEW list \in Seq(S), NEW e \in S,
           IsInjective(list), e \notin ToSet(list)
    PROVE  /\ <<e>> \o list \in Seq(S) /\ IsInjective(<<e>> \o list)
           /\ ToSet(<<e>> \o list) = ToSet(list) \cup {e}
  <1> DEFINE L == <<e>> \o list
             n == Len(list)
  <1>1. n \in Nat /\ DOMAIN list = 1..n /\ <<e>> \in Seq(S) /\ Len(<<e>>) = 1 /\ <<e>>[1] = e
    OBVIOUS
  <1>2. /\ L \in Seq(S) /\ Len(L) = 1 + n
        /\ \A i \in 1..(1 + n) : L[i] = IF i <= 1 THEN <<e>>[i] ELSE list[i - 1]
    BY <1>1, ConcatProperties
  <1>3. DOMAIN L = 1..(n + 1) /\ L[1] = e /\ \A i \in 2..(n + 1) : L[i] = list[i - 1]
    BY <1>1, <1>2
  <1> HIDE DEF L, n
  <1>4. \A i \in 1..n : L[i + 1] = list[i]
    BY <1>1, <1>3
  <1>5. IsInjective(L)
    <2> SUFFICES ASSUME NEW j \in 1..(n + 1), NEW k \in 1..(n + 1), L[j] = L[k]
                 PROVE  j = k
      BY <1>3 DEF IsInjective
    <2>1. \A i \in 2..(n + 1) : L[i] \in ToSet(list)
      BY <1>1, <1>3 DEF ToSet
    <2>2. (j = 1) = (k = 1)
      BY <1>1, <1>3, <2>1
    <2>3. CASE j # 1
      <3>1. list[j - 1] = list[k - 1] /\ j - 1 \in 1..n /\ k - 1 \in 1..n
        BY <1>1, <1>3, <2>2, <2>3
      <3> QED
        BY <1>1, <3>1 DEF IsInjective
    <2> QED
      BY <2>2, <2>3
  <1>6. ToSet(L) = ToSet(list) \cup {e}
    <2>1. ToSet(L) \subseteq ToSet(list) \cup {e}
      <3> SUFFICES ASSUME NEW i \in 1..(n + 1), i # 1 PROVE L[i] \in ToSet(list)
        BY <1>3 DEF ToSet
      <3>1. i - 1 \in 1..n /\ L[i] = list[i - 1]
        BY <1>1, <1>3
      <3> QED
        BY <1>1, <3>1 DEF ToSet
    <2>2. e \in ToSet(L)
      BY <1>1, <1>3 DEF ToSet
    <2>3. ASSUME NEW i \in 1..n PROVE list[i] \in ToSet(L)
      <3>1. i + 1 \in 1..(n + 1)
        BY <1>1
      <3> QED
        BY <1>3, <1>4, <3>1 DEF ToSet
    <2> QED
      BY <1>1, <2>1, <2>2, <2>3 DEF ToSet
  <1> QED
    BY <1>2, <1>5, <1>6 DEF L

-----------------------------------------------------------------------------
(* The invariant, of a file system s. *)

Entry == [used : 0..1, name : Names, type : {0, FILE_TYPE_FILE, FILE_TYPE_DIR},
          size : 0..MAX_FILE_SIZE, data : Buffers \cup {NULL},
          parent : Slots \cup {NULL}, children : Seq(Slots)]
Memory == [Buffers \cup {NULL} -> [1..MAX_FILE_SIZE -> Chunks \cup {NUL}]]
FsState == [entries : [Slots -> Entry], next_entry : 0..MAX_ENTRIES,
            root : Slots \cup {NULL}, current_dir : Slots \cup {NULL},
            free : SUBSET Buffers, mem : Memory]

\* The root and the current directory are entries that are no files; so is
\* every entry another one names as its parent, and it comes before it.
Anchored(s) ==
    /\ s.root \in 1..s.next_entry /\ s.entries[s.root].type # FILE_TYPE_FILE
    /\ s.current_dir \in 1..s.next_entry /\ s.entries[s.current_dir].type # FILE_TYPE_FILE
    /\ \A f \in 1..s.next_entry : s.entries[f].parent # NULL =>
          /\ s.entries[f].parent < f
          /\ s.entries[s.entries[f].parent].type # FILE_TYPE_FILE

\* TreeConsistent in two parts: what is in a list, and what is in no list.
ListsSound(s) ==
    \A d \in Slots :
        /\ IsInjective(s.entries[d].children)
        /\ \A f \in ToSet(s.entries[d].children) :
              f \in Used(s) /\ d < f /\ s.entries[f].parent = d

ListsComplete(s) ==
    \A f \in Used(s) : s.entries[f].parent # NULL =>
        f \in ToSet(s.entries[s.entries[f].parent].children)

\* No two files share a buffer, and no file holds a free one.
DataOwned(s) ==
    \A f \in WithData(s) :
        /\ s.entries[f].data \notin s.free
        /\ \A g \in WithData(s) : s.entries[f].data = s.entries[g].data => f = g

FsOK(s) == s \in FsState /\ Anchored(s) /\ ListsSound(s) /\ ListsComplete(s) /\ DataOwned(s)

\* The buffers that are neither free nor a file's.
Lost(s) == Buffers \ (s.free \cup {s.entries[f].data : f \in WithData(s)})

\* SizeIsLength of s.
Sized(s) == \A f \in WithData(s) :
               s.entries[f].size > 0 => Len(TextOf(s, f)) = s.entries[f].size

\* A file that a lookup by its name can find has a buffer.
HeldOK(s) == \A f \in Files(s) :
                s.entries[f].parent # NULL /\ Len(s.entries[f].name) = 1 =>
                    s.entries[f].data # NULL

\* What the operations promise of the state t they lead to: beside FsOK, a file
\* whose size is no longer as it was has the size of its text; one text changes;
\* the table only grows, by entries that are no root, and the root stays; no
\* file loses its buffer, and what is at address 0 does not change.
SizesKept(s, t) ==
    \A g \in WithData(t) :
        \/ t.entries[g].size > 0 => Len(TextOf(t, g)) = t.entries[g].size
        \/ /\ g \in WithData(s) /\ t.entries[g].size = s.entries[g].size
           /\ TextOf(t, g) = TextOf(s, g)
OneTextChanges(s, t) ==
    \E f \in Slots : \A g \in WithData(s) \cap WithData(t) :
        g # f => TextOf(t, g) = TextOf(s, g)
Extends(s, t) ==
    /\ t.root = s.root /\ s.next_entry <= t.next_entry
    /\ t.entries[s.root].used = s.entries[s.root].used
    /\ \A f \in Slots :
          \/ /\ t.entries[f].name = s.entries[f].name
             /\ t.entries[f].type = s.entries[f].type
          \/ f > s.next_entry /\ t.entries[f].name # RootName
HoldsOn(s, t) == HeldOK(s) => HeldOK(t) /\ t.mem[NULL] = s.mem[NULL]
Keeps(s, t) ==
    /\ FsOK(t) /\ Lost(t) \subseteq Lost(s)
    /\ SizesKept(s, t) /\ OneTextChanges(s, t)
    /\ Extends(s, t) /\ HoldsOn(s, t)

SameTexts(s, t) ==
    /\ WithData(s) \subseteq WithData(t)
    /\ \A g \in WithData(s) : TextOf(t, g) = TextOf(s, g)

\* The directories start-up makes, and those of its files.
DefaultDirs == {"bin", "home", "etc", "tmp"}
DefaultFiles == {<<"etc", "version">>, <<"etc", "motd">>, <<"home", "readme.txt">>}

\* What is between two '/', and the paths: a path's name is one NameAssumption
\* speaks of.
Text == STRING \cup DefaultDirs \cup {"version", "motd", "readme.txt", Empty}
PartsType == Seq(Text) \ {<<>>}
PathType == {path \in PartsType : Skipped(path) \in Asked}

-----------------------------------------------------------------------------
(* Lookups. *)

\* The facts about one slot that the proofs below use again and again.
LEMMA SlotFacts ==
    ASSUME NEW s, FsOK(s)
    PROVE  /\ s.next_entry \in Nat /\ s.next_entry <= MAX_ENTRIES
           /\ 1..s.next_entry \subseteq Slots /\ NULL \notin Slots
           /\ s.entries \in [Slots -> Entry]
           /\ \A f \in Slots : s.entries[f] \in Entry
           /\ \A d \in Slots : /\ s.entries[d].children \in Seq(Slots)
                               /\ ToSet(s.entries[d].children) \subseteq 1..s.next_entry
  <1>1. s \in FsState /\ MAX_ENTRIES \in Nat
    BY TableAssumption DEF FsOK
  <1>2. /\ s.next_entry \in 0..MAX_ENTRIES /\ s.entries \in [Slots -> Entry]
        /\ \A f \in Slots : s.entries[f] \in Entry
    BY <1>1 DEF FsState
  <1>3. \A d \in Slots : s.entries[d].children \in Seq(Slots)
    BY <1>2 DEF Entry
  <1>4. \A d \in Slots : ToSet(s.entries[d].children) \subseteq 1..s.next_entry
    BY DEF FsOK, ListsSound, Used
  <1> QED
    BY <1>1, <1>2, <1>3, <1>4 DEF Slots, NULL

\* The slot the next entry gets.
LEMMA NextSlot ==
    ASSUME NEW s, FsOK(s), ~Full(s)
    PROVE  LET n == s.next_entry
               new == n + 1
           IN  /\ n \in Nat /\ n < MAX_ENTRIES /\ MAX_ENTRIES \in Nat
               /\ 1..n \subseteq Slots /\ new \in Slots /\ new \notin 1..n
               /\ 1..new = (1..n) \cup {new} /\ NULL \notin Slots
  <1> DEFINE n == s.next_entry
             new == n + 1
  <1>1. n \in Nat /\ n <= MAX_ENTRIES /\ 1..n \subseteq Slots /\ NULL \notin Slots
    BY SlotFacts
  <1>2. MAX_ENTRIES \in Nat
    BY TableAssumption
  <1>3. n < MAX_ENTRIES
    BY <1>1, <1>2 DEF Full
  <1> HIDE DEF n
  <1>4. new \in 1..MAX_ENTRIES /\ new \notin 1..n /\ 1..new = (1..n) \cup {new}
    BY <1>1, <1>2, <1>3
  <1> QED
    BY <1>1, <1>2, <1>3, <1>4 DEF n, Slots

\* What a lookup finds is no file, or a file in use in its parent's list.
Found(s, r) ==
    /\ r \in 1..s.next_entry
    /\ \/ s.entries[r].type # FILE_TYPE_FILE
       \/ /\ r \in Used(s) /\ s.entries[r].parent \in Slots
          /\ Len(s.entries[r].name) = 1
          /\ r \in ToSet(s.entries[s.entries[r].parent].children)

LEMMA StartFound ==
    ASSUME NEW s, FsOK(s), NEW path
    PROVE  Found(s, ParentFor(s, path))
  BY DEF FsOK, Anchored, Found, ParentFor

LEMMA CalledFound ==
    ASSUME NEW s, FsOK(s), NEW path, NEW f \in Called(s, path)
    PROVE  Found(s, f)
  <1>1. PICK d \in Slots : f \in ToSet(s.entries[d].children)
    BY DEF Called
  <1>2. f \in Used(s) /\ s.entries[f].parent = d /\ f \in 1..s.next_entry
    BY <1>1 DEF FsOK, ListsSound, Used
  <1>3. Len(s.entries[f].name) = 1
    <2>1. PICK i \in 1..Len(path) : s.entries[f].name = <<path[i]>>
      BY DEF Called
    <2>2. \A part : Len(<<part>>) = 1
      OBVIOUS
    <2> QED
      BY <2>1, <2>2
  <1> QED
    BY <1>1, <1>2, <1>3 DEF Found

\* A walk goes over entries that a lookup may find.
LEMMA WalkFound ==
    ASSUME NEW s, FsOK(s), NEW path \in PartsType,
           NEW w \in Walks(s, ParentFor(s, path), path), NEW i \in 0..Len(path)
    PROVE  Found(s, w[i]) /\ w[i] \in Slots
  <1>1. w[i] \in {ParentFor(s, path)} \cup Called(s, path)
    BY DEF Walks
  <1>2. Found(s, w[i])
    BY <1>1, StartFound, CalledFound
  <1> QED
    BY <1>2, SlotFacts DEF Found

LEMMA FindFile ==
    ASSUME NEW s, FsOK(s), NEW path \in PartsType
    PROVE  \/ filesystem_find_file(s, path) = NULL
           \/ Found(s, filesystem_find_file(s, path))
  <1> DEFINE walks == Walks(s, ParentFor(s, path), path)
             up == s.entries[s.current_dir].parent
  <1>1. Found(s, s.root) /\ Found(s, s.current_dir)
    BY DEF FsOK, Anchored, Found
  <1>2. up # NULL => Found(s, up)
    <2> SUFFICES ASSUME up # NULL PROVE Found(s, up)
      OBVIOUS
    <2>1. s.current_dir \in 1..s.next_entry
      BY DEF FsOK, Anchored
    <2>2. up < s.current_dir /\ s.entries[up].type # FILE_TYPE_FILE
      BY <2>1 DEF FsOK, Anchored
    <2>3. up \in Slots
      BY <2>1, SlotFacts DEF Entry
    <2>4. up \in 1..s.next_entry
      BY <2>1, <2>2, <2>3, SlotFacts DEF Slots
    <2> QED
      BY <2>2, <2>4 DEF Found
  <1>3. ASSUME NEW w \in walks PROVE Found(s, w[Len(path)])
    <2>1. Len(path) \in 0..Len(path)
      BY DEF PartsType
    <2> QED
      BY <2>1, WalkFound
  <1>4. filesystem_find_file(s, path) =
          IF path = RootName THEN s.root
          ELSE IF path = <<".">> THEN s.current_dir
          ELSE IF path = <<"..">> THEN (IF up = NULL THEN s.root ELSE up)
          ELSE IF walks = {} THEN NULL ELSE (CHOOSE w \in walks : TRUE)[Len(path)]
    BY DEF filesystem_find_file
  <1> HIDE DEF walks, up
  <1>5. walks # {} => Found(s, (CHOOSE w \in walks : TRUE)[Len(path)])
    <2> DEFINE w == CHOOSE w \in walks : TRUE
    <2>1. walks # {} => w \in walks
      OBVIOUS
    <2> HIDE DEF w
    <2>2. walks # {} => Found(s, w[Len(path)])
      BY <1>3, <2>1
    <2> QED
      BY <2>2 DEF w
  <1> QED
    BY <1>1, <1>2, <1>4, <1>5

LEMMA Earlier ==
    \A m \in Nat : \A k \in 1..m : \A j \in 1..(k - 1) : j \in 1..m /\ ~(k <= j)
  OBVIOUS

\* A name of one part that the lookup from the current directory does not
\* find is in no entry of its list.
LEMMA NotFound ==
    ASSUME NEW s, FsOK(s), NEW name \in Text,
           filesystem_find_file(s, <<name>>) = NULL,
           NEW g \in ToSet(s.entries[s.current_dir].children)
    PROVE  s.entries[g].name # <<name>>
  <1> SUFFICES ASSUME s.entries[g].name = <<name>> PROVE FALSE
    OBVIOUS
  <1> DEFINE path == <<name>>
             walks == Walks(s, s.current_dir, path)
             list == s.entries[s.current_dir].children
             I == {i \in 1..Len(list) : s.entries[list[i]].name = path}
  <1>1. s.current_dir \in Slots /\ s.root \in Slots /\ NULL \notin Slots
    BY SlotFacts DEF FsOK, Anchored
  <1>2. path \in PartsType /\ Len(path) = 1 /\ path[1] = name /\ path # RootName
    BY DEF PartsType, RootName
  <1>3. ParentFor(s, path) = s.current_dir
    BY <1>2 DEF ParentFor, IsAbsolute
  <1>4. path # <<".">> /\ path # <<"..">>
    BY <1>1, <1>2 DEF filesystem_find_file
  <1> HIDE DEF path
  <1>5. walks = {}
    <2> SUFFICES ASSUME NEW w0 \in walks PROVE FALSE
      OBVIOUS
    <2> DEFINE w == CHOOSE w \in walks : TRUE
    <2>1. w \in walks
      OBVIOUS
    <2>2. filesystem_find_file(s, path) = w[1]
      BY <1>2, <1>3, <1>4 DEF filesystem_find_file
    <2> HIDE DEF w
    <2>3. 1 \in 0..Len(path)
      BY <1>2
    <2>4. w[1] \in Slots
      BY <1>2, <1>3, <2>1, <2>3, WalkFound
    <2> QED
      BY <1>1, <2>2, <2>4 DEF path
  <1>6. list \in Seq(Slots) /\ Len(list) \in Nat /\ DOMAIN list = 1..Len(list)
    BY <1>1, SlotFacts
  <1>7. I # {}
    BY <1>6 DEF ToSet, path
  <1>8. PICK k \in 1..Len(list) :
           /\ s.entries[list[k]].name = path
           /\ \A j \in 1..Len(list) : s.entries[list[j]].name = path => k <= j
    <2> DEFINE m == Len(list)
    <2>1. I \in SUBSET Nat
      <3>1. m \in Nat /\ I \subseteq 1..m
        BY <1>6
      <3> HIDE DEF m, I
      <3> QED
        BY <3>1
    <2> HIDE DEF I
    <2>2. PICK k \in I : \A j \in I : k <= j
      BY <1>7, <2>1, LeastNatural
    <2> HIDE DEF list
    <2>3. k \in 1..Len(list) /\ s.entries[list[k]].name = path
      BY <2>2 DEF I
    <2>4. \A j \in 1..Len(list) : s.entries[list[j]].name = path => k <= j
      BY <2>2 DEF I
    <2> QED
      BY <2>3, <2>4
  <1>9. FirstNamed(s, s.current_dir, list[k], name)
    <2>1. \A j \in 1..(k - 1) : s.entries[list[j]].name # path
      <3> SUFFICES ASSUME NEW j \in 1..(k - 1), s.entries[list[j]].name = path
                   PROVE  FALSE
        OBVIOUS
      <3> DEFINE m == Len(list)
      <3>1. m \in Nat
        BY <1>6
      <3>2. k \in 1..m
        OBVIOUS
      <3> HIDE DEF m
      <3>3. j \in 1..m /\ ~(k <= j)
        BY <3>1, <3>2, Earlier
      <3> QED
        BY <1>8, <3>3 DEF m
    <2> QED
      BY <1>8, <2>1 DEF FirstNamed, path
  <1>10. list[k] \in Called(s, path)
    <2>1. list[k] \in ToSet(list)
      BY <1>6 DEF ToSet
    <2>2. 1 \in 1..Len(path) /\ s.entries[list[k]].name = <<path[1]>>
      <3>1. path = <<name>>
        BY DEF path
      <3>2. <<path[1]>> = <<name>> /\ 1 \in 1..Len(path)
        BY <1>2
      <3>3. s.entries[list[k]].name = path
        BY <1>8
      <3> QED
        BY <3>1, <3>2, <3>3
    <2> QED
      BY <1>1, <2>1, <2>2 DEF Called
  <1> HIDE DEF list
  <1> DEFINE found == IF name = Empty THEN s.current_dir ELSE list[k]
             w == [i \in 0..1 |-> IF i = 0 THEN s.current_dir ELSE found]
  <1>11. w \in walks
    <2>1. found \in {s.current_dir} \cup Called(s, path)
      BY <1>10
    <2>2. /\ name = Empty => found = s.current_dir
          /\ name # Empty => FirstNamed(s, s.current_dir, found, name)
      BY <1>9
    <2> HIDE DEF found
    <2>3. w \in [0..1 -> {s.current_dir} \cup Called(s, path)]
      BY <2>1
    <2>4. w[0] = s.current_dir /\ w[1] = found
      OBVIOUS
    <2> HIDE DEF w
    <2>5. \A i \in 1..Len(path) : i = 1 /\ path[i] = name /\ i - 1 = 0
      BY <1>2
    <2>6. \A i \in 1..Len(path) :
             \/ path[i] = Empty /\ w[i] = w[i - 1]
             \/ path[i] # Empty /\ FirstNamed(s, w[i - 1], w[i], path[i])
      BY <2>2, <2>4, <2>5
    <2> QED
      BY <1>2, <2>3, <2>4, <2>6 DEF Walks
  <1> QED
    BY <1>5, <1>11

-----------------------------------------------------------------------------
(* One lemma for each way the table changes. *)

\* The new entry new of the table, as touch and mkdir make it.
NewEntry(name, type, data, parent) ==
    [used |-> 1, name |-> name, type |-> type, size |-> 0, data |-> data,
     parent |-> parent, children |-> <<>>]

\* t is s with one more entry, the first child of directory d.
Added(s, t, d, name, type, data) ==
    /\ t \in FsState /\ t.next_entry = s.next_entry + 1
    /\ t.root = s.root /\ t.current_dir = s.current_dir /\ t.mem = s.mem
    /\ t.free = s.free \ {data}
    /\ t.entries[s.next_entry + 1] = NewEntry(name, type, data, d)
    /\ t.entries[d] = [s.entries[d] EXCEPT !.children = <<s.next_entry + 1>> \o @]
    /\ \A f \in Slots \ {d, s.next_entry + 1} : t.entries[f] = s.entries[f]

\* What is new in a list is in d's and called name.
NewIn(s, t, d, name) ==
    \A c \in Slots :
        \A f \in ToSet(t.entries[c].children) \ ToSet(s.entries[c].children) :
            c = d /\ t.entries[f].name = name

LEMMA AddedKeeps ==
    ASSUME NEW s, NEW t, FsOK(s), ~Full(s), NEW d \in {s.root, s.current_dir},
           NEW name, name # RootName, NEW type, NEW data,
           (type = FILE_TYPE_DIR /\ data = NULL) \/ (type = FILE_TYPE_FILE /\ data \in s.free),
           Added(s, t, d, name, type, data)
    PROVE  Keeps(s, t) /\ SameTexts(s, t) /\ NewIn(s, t, d, name)
  <1> DEFINE n == s.next_entry
             new == n + 1
  <1>1. /\ n \in Nat /\ n < MAX_ENTRIES /\ MAX_ENTRIES \in Nat
        /\ 1..n \subseteq Slots /\ new \in Slots /\ new \notin 1..n
        /\ 1..new = (1..n) \cup {new} /\ NULL \notin Slots
    BY NextSlot
  <1>2. d \in 1..n /\ d < new /\ s.entries[d].type # FILE_TYPE_FILE
    BY <1>1 DEF FsOK, Anchored
  <1>3. /\ t \in FsState /\ t.next_entry = new
        /\ t.root = s.root /\ t.current_dir = s.current_dir /\ t.mem = s.mem
        /\ t.free = s.free \ {data}
        /\ t.entries[new] = NewEntry(name, type, data, d)
        /\ t.entries[d] = [s.entries[d] EXCEPT !.children = <<new>> \o @]
        /\ \A f \in Slots \ {d, new} : t.entries[f] = s.entries[f]
    BY DEF Added
  <1> HIDE DEF new, n
  <1>4. \A f \in Slots : s.entries[f] \in Entry
    BY SlotFacts
  <1>5. \A f \in Slots \ {new} :
           /\ t.entries[f].used = s.entries[f].used /\ t.entries[f].name = s.entries[f].name
           /\ t.entries[f].type = s.entries[f].type /\ t.entries[f].size = s.entries[f].size
           /\ t.entries[f].data = s.entries[f].data /\ t.entries[f].parent = s.entries[f].parent
    <2> DEFINE e == s.entries[d]
               list == <<new>> \o s.entries[d].children
               c == [e EXCEPT !.children = list]
    <2>1. e \in Entry /\ t.entries[d] = c
      BY <1>1, <1>2, <1>3, <1>4
    <2> HIDE DEF e, list
    <2>2. /\ c.used = e.used /\ c.name = e.name /\ c.type = e.type /\ c.size = e.size
          /\ c.data = e.data /\ c.parent = e.parent
      BY <2>1 DEF Entry
    <2> QED
      BY <1>3, <2>1, <2>2 DEF e
  <1>6. /\ t.entries[new].used = 1 /\ t.entries[new].name = name /\ t.entries[new].type = type
        /\ t.entries[new].size = 0 /\ t.entries[new].data = data
        /\ t.entries[new].parent = d /\ t.entries[new].children = <<>>
    BY <1>3 DEF NewEntry
  <1>7. t.entries[d].children = <<new>> \o s.entries[d].children
    BY <1>1, <1>2, <1>3, <1>4 DEF Entry
  <1>8. \A f \in Slots : /\ s.entries[f].children \in Seq(Slots) /\ IsInjective(s.entries[f].children)
                         /\ ToSet(s.entries[f].children) \subseteq 1..n
    BY SlotFacts DEF FsOK, ListsSound, n
  <1>9. /\ IsInjective(t.entries[d].children)
        /\ ToSet(t.entries[d].children) = ToSet(s.entries[d].children) \cup {new}
    BY <1>1, <1>2, <1>7, <1>8, Prepended
  <1>10. \A f \in Slots \ {d, new} : t.entries[f].children = s.entries[f].children
    BY <1>3
  <1>11. IsInjective(t.entries[new].children) /\ ToSet(t.entries[new].children) = {}
    BY <1>6 DEF IsInjective, ToSet
  <1>12. Used(t) = Used(s) \cup {new}
    BY <1>1, <1>3, <1>5, <1>6 DEF Used, n
  <1>13. Anchored(t)
    <2>1. \A f \in 1..n : f \in Slots \ {new}
      BY <1>1
    <2>2. /\ s.root \in 1..n /\ s.entries[s.root].type # FILE_TYPE_FILE
          /\ s.current_dir \in 1..n /\ s.entries[s.current_dir].type # FILE_TYPE_FILE
      BY DEF FsOK, Anchored, n
    <2>3. ASSUME NEW f \in 1..n, s.entries[f].parent # NULL
          PROVE  /\ s.entries[f].parent < f
                 /\ t.entries[s.entries[f].parent].type # FILE_TYPE_FILE
      <3>1. s.entries[f].parent < f /\ s.entries[s.entries[f].parent].type # FILE_TYPE_FILE
        BY <2>3 DEF FsOK, Anchored, n
      <3>2. s.entries[f].parent \in Slots
        BY <1>1, <1>4, <2>3 DEF Entry
      <3>3. s.entries[f].parent \in 1..n
        BY <1>1, <3>1, <3>2 DEF Slots
      <3> QED
        BY <1>5, <2>1, <3>1, <3>3
    <2>4. ASSUME NEW f \in 1..n, t.entries[f].parent # NULL
          PROVE  /\ t.entries[f].parent < f
                 /\ t.entries[t.entries[f].parent].type # FILE_TYPE_FILE
      <3>1. t.entries[f].parent = s.entries[f].parent
        BY <1>5, <2>1
      <3> QED
        BY <2>3, <2>4, <3>1
    <2>5. /\ t.entries[new].parent < new
          /\ t.entries[t.entries[new].parent].type # FILE_TYPE_FILE
      BY <1>2, <1>5, <1>6, <2>1
    <2>6. /\ t.entries[s.root].type # FILE_TYPE_FILE
          /\ t.entries[s.current_dir].type # FILE_TYPE_FILE
      BY <1>5, <2>1, <2>2
    <2> QED
      BY <1>1, <1>3, <2>2, <2>4, <2>5, <2>6 DEF Anchored
  <1>14. ListsSound(t)
    <2> SUFFICES ASSUME NEW c \in Slots
                 PROVE  /\ IsInjective(t.entries[c].children)
                        /\ \A f \in ToSet(t.entries[c].children) :
                              f \in Used(t) /\ c < f /\ t.entries[f].parent = c
      BY DEF ListsSound
    <2>1. /\ IsInjective(s.entries[c].children)
          /\ \A f \in ToSet(s.entries[c].children) :
                f \in Used(s) /\ c < f /\ s.entries[f].parent = c
      BY DEF FsOK, ListsSound
    <2>2. \A f \in Used(s) : f \in Slots \ {new}
      BY <1>1 DEF Used, n
    <2>3. CASE c = new
      BY <1>11, <2>3
    <2>4. CASE c = d
      BY <1>2, <1>5, <1>6, <1>9, <1>12, <2>1, <2>2, <2>4
    <2>5. CASE c \in Slots \ {d, new}
      BY <1>5, <1>10, <1>12, <2>1, <2>2, <2>5
    <2> QED
      BY <2>3, <2>4, <2>5
  <1>15. ListsComplete(t)
    <2> SUFFICES ASSUME NEW f \in Used(t), t.entries[f].parent # NULL
                 PROVE  f \in ToSet(t.entries[t.entries[f].parent].children)
      BY DEF ListsComplete
    <2>1. CASE f = new
      BY <1>6, <1>9, <2>1
    <2>2. CASE f # new
      <3>1. f \in Used(s) /\ f \in Slots \ {new} /\ t.entries[f].parent = s.entries[f].parent
        BY <1>1, <1>5, <1>12, <2>2 DEF Used, n
      <3> DEFINE p == s.entries[f].parent
      <3>2. f \in ToSet(s.entries[p].children)
        BY <3>1 DEF FsOK, ListsComplete
      <3>3. p \in Slots /\ p < f /\ f \in 1..n
        BY <1>1, <1>4, <3>1 DEF Entry, FsOK, Anchored, Used, n
      <3>4. p # new
        BY <1>1, <3>3 DEF new
      <3> QED
        BY <1>9, <1>10, <3>1, <3>2, <3>3, <3>4
    <2> QED
      BY <2>1, <2>2
  <1>16. /\ WithData(t) \ {new} = WithData(s) /\ WithData(s) \subseteq Slots \ {new}
         /\ \A f \in WithData(s) : s.entries[f].data \in Buffers \ s.free
         /\ \A f, g \in WithData(s) : s.entries[f].data = s.entries[g].data => f = g
         /\ new \in WithData(t) => data \in s.free
    <2>1. new \notin Used(s) /\ Used(s) \subseteq Slots
      BY <1>1 DEF Used, n
    <2>2. WithData(t) \ {new} = WithData(s)
      BY <1>5, <1>12, <2>1 DEF WithData, Files
    <2>3. \A f \in WithData(s) : s.entries[f].data \in Buffers \ s.free
      BY <1>4, <2>1 DEF WithData, Files, FsOK, DataOwned, Entry
    <2>4. new \in WithData(t) => data \in s.free
      BY <1>6 DEF WithData, Files
    <2> QED
      BY <2>1, <2>2, <2>3, <2>4 DEF FsOK, DataOwned, WithData, Files
  <1>17. DataOwned(t)
    <2>1. \A f \in WithData(s) : t.entries[f].data = s.entries[f].data
      BY <1>5, <1>16
    <2>2. \A f \in WithData(t) : (f = new /\ data \in s.free) \/ f \in WithData(s)
      BY <1>16
    <2> QED
      BY <1>3, <1>6, <1>16, <2>1, <2>2 DEF DataOwned
  <1>18. Lost(t) \subseteq Lost(s)
    <2>1. \A f \in WithData(s) : f \in WithData(t) /\ t.entries[f].data = s.entries[f].data
      BY <1>5, <1>16
    <2>2. data \in Buffers => new \in WithData(t)
      <3>1. data \in Buffers => type = FILE_TYPE_FILE /\ data # NULL
        BY DEF Buffers, NULL
      <3> QED
        BY <1>6, <1>12, <3>1 DEF WithData, Files
    <2> QED
      BY <1>3, <1>6, <2>1, <2>2 DEF Lost
  <1>19. \A f \in WithData(s) : TextOf(t, f) = TextOf(s, f)
    BY <1>3, <1>5, <1>16 DEF TextOf
  <1>20. SizesKept(s, t)
    BY <1>5, <1>6, <1>16, <1>19 DEF SizesKept
  <1>25. Extends(s, t)
    <2>1. s.root \in 1..n /\ s.root \in Slots \ {new} /\ new > n /\ n <= new
      BY <1>1 DEF FsOK, Anchored, n, new
    <2> QED
      BY <1>3, <1>5, <1>6, <2>1 DEF Extends, n
  <1>26. HoldsOn(s, t)
    <2>1. ASSUME NEW f \in Files(t), f # new PROVE f \in Files(s) /\ f \in Slots \ {new}
      <3>1. f \in Used(t) /\ t.entries[f].type = FILE_TYPE_FILE
        BY DEF Files
      <3>2. f \in Used(s)
        BY <1>12, <2>1, <3>1
      <3>3. f \in Slots \ {new}
        BY <1>1, <2>1, <3>2 DEF Used, n
      <3> QED
        BY <1>5, <3>1, <3>2, <3>3 DEF Files
    <2>2. type = FILE_TYPE_FILE => data # NULL
      BY DEF FsOK, FsState, Buffers, NULL, FILE_TYPE_FILE, FILE_TYPE_DIR
    <2>3. new \in Files(t) => t.entries[new].data # NULL
      BY <1>6, <2>2 DEF Files
    <2> QED
      BY <1>3, <1>5, <2>1, <2>3 DEF HoldsOn, HeldOK
  <1>21. OneTextChanges(s, t)
    BY <1>1, <1>16, <1>19 DEF OneTextChanges
  <1>22. Keeps(s, t)
    BY <1>3, <1>13, <1>14, <1>15, <1>17, <1>18, <1>20, <1>21, <1>25, <1>26 DEF Keeps, FsOK
  <1>23. \A c \in Slots : \A f \in ToSet(t.entries[c].children) \ ToSet(s.entries[c].children) :
            c = d /\ t.entries[f].name = name
    <2> SUFFICES ASSUME NEW c \in Slots,
                        NEW f \in ToSet(t.entries[c].children) \ ToSet(s.entries[c].children)
                 PROVE  c = d /\ t.entries[f].name = name
      OBVIOUS
    <2>1. c \notin Slots \ {d, new}
      BY <1>10
    <2>2. c = d
      BY <1>11, <2>1
    <2> QED
      BY <1>6, <1>9, <2>2
  <1>24. SameTexts(s, t)
    BY <1>16, <1>19 DEF SameTexts
  <1> QED
    BY <1>22, <1>23, <1>24 DEF NewIn

\* t is s with one more entry, a file without a buffer and in no directory.
Spare(s, t, name) ==
    /\ t \in FsState /\ t.next_entry = s.next_entry + 1
    /\ t.root = s.root /\ t.current_dir = s.current_dir /\ t.mem = s.mem
    /\ t.free = s.free
    /\ t.entries[s.next_entry + 1] = NewEntry(name, FILE_TYPE_FILE, NULL, NULL)
    /\ \A f \in Slots \ {s.next_entry + 1} : t.entries[f] = s.entries[f]

LEMMA SpareKeeps ==
    ASSUME NEW s, NEW t, FsOK(s), ~Full(s), NEW name, name # RootName, Spare(s, t, name)
    PROVE  /\ Keeps(s, t) /\ SameTexts(s, t)
           /\ \A c \in Slots : ToSet(t.entries[c].children) = ToSet(s.entries[c].children)
  <1> DEFINE n == s.next_entry
             new == n + 1
  <1>1. /\ n \in Nat /\ new \in Slots /\ new \notin 1..n
        /\ 1..n \subseteq Slots /\ 1..new = (1..n) \cup {new} /\ NULL \notin Slots
    BY NextSlot
  <1>2. /\ t \in FsState /\ t.next_entry = new
        /\ t.root = s.root /\ t.current_dir = s.current_dir /\ t.mem = s.mem
        /\ t.free = s.free
        /\ t.entries[new] = NewEntry(name, FILE_TYPE_FILE, NULL, NULL)
        /\ \A f \in Slots \ {new} : t.entries[f] = s.entries[f]
    BY DEF Spare
  <1>3. ToSet(s.entries[new].children) = {}
    <2>1. \A f \in ToSet(s.entries[new].children) : f \in 1..n /\ new < f
      BY <1>1 DEF FsOK, ListsSound, Used
    <2> QED
      BY <1>1, <2>1
  <1> HIDE DEF new, n
  <1>4. /\ t.entries[new].used = 1 /\ t.entries[new].data = NULL
        /\ t.entries[new].name = name
        /\ t.entries[new].parent = NULL /\ t.entries[new].children = <<>>
    BY <1>2 DEF NewEntry
  <1>5. IsInjective(t.entries[new].children) /\ ToSet(t.entries[new].children) = {}
    BY <1>4 DEF IsInjective, ToSet
  <1>6. \A f \in 1..n : f \in Slots \ {new}
    BY <1>1
  <1>7. Used(t) = Used(s) \cup {new} /\ new \notin Used(s) /\ Used(s) \subseteq Slots
    BY <1>1, <1>2, <1>4, <1>6 DEF Used, n
  <1>8. WithData(t) = WithData(s)
    BY <1>2, <1>4, <1>7 DEF WithData, Files
  <1>9. WithData(s) \subseteq Slots \ {new}
    BY <1>7 DEF WithData, Files
  <1>10. \A f \in WithData(s) : t.entries[f] = s.entries[f]
    BY <1>2, <1>9
  <1>11. Anchored(t)
    <2>1. ASSUME NEW f \in 1..n, s.entries[f].parent # NULL
          PROVE  /\ s.entries[f].parent < f
                 /\ t.entries[s.entries[f].parent].type # FILE_TYPE_FILE
      <3>1. s.entries[f].parent < f /\ s.entries[s.entries[f].parent].type # FILE_TYPE_FILE
        BY <2>1 DEF FsOK, Anchored, n
      <3>2. s.entries[f] \in Entry
        BY <1>6, SlotFacts
      <3>3. s.entries[f].parent \in 1..n
        BY <1>1, <2>1, <3>1, <3>2 DEF Slots, Entry
      <3> QED
        BY <1>2, <1>6, <3>1, <3>3
    <2>2. /\ s.root \in 1..n /\ s.entries[s.root].type # FILE_TYPE_FILE
          /\ s.current_dir \in 1..n /\ s.entries[s.current_dir].type # FILE_TYPE_FILE
      BY DEF FsOK, Anchored, n
    <2> QED
      BY <1>1, <1>2, <1>4, <1>6, <2>1, <2>2 DEF Anchored
  <1>12. ListsSound(t)
    <2> SUFFICES ASSUME NEW c \in Slots, c # new
                 PROVE  /\ IsInjective(t.entries[c].children)
                        /\ \A f \in ToSet(t.entries[c].children) :
                              f \in Used(t) /\ c < f /\ t.entries[f].parent = c
      BY <1>5 DEF ListsSound
    <2>1. /\ IsInjective(s.entries[c].children)
          /\ \A f \in ToSet(s.entries[c].children) :
                f \in Used(s) /\ c < f /\ s.entries[f].parent = c
      BY DEF FsOK, ListsSound
    <2> QED
      BY <1>2, <1>7, <2>1
  <1>13. ListsComplete(t)
    <2> SUFFICES ASSUME NEW f \in Used(s), t.entries[f].parent # NULL
                 PROVE  f \in ToSet(t.entries[t.entries[f].parent].children)
      BY <1>4, <1>7 DEF ListsComplete
    <2>1. t.entries[f] = s.entries[f]
      BY <1>2, <1>7
    <2>2. f \in ToSet(s.entries[s.entries[f].parent].children)
      BY <2>1 DEF FsOK, ListsComplete
    <2>3. s.entries[f].parent \in Slots
      BY <1>7, <2>1, SlotFacts DEF Entry
    <2>4. s.entries[f].parent # new
      BY <1>3, <2>2
    <2> QED
      BY <1>2, <2>1, <2>2, <2>3, <2>4
  <1>14. DataOwned(t)
    BY <1>2, <1>8, <1>10 DEF DataOwned, FsOK
  <1>15. Lost(t) \subseteq Lost(s)
    BY <1>2, <1>8, <1>10 DEF Lost
  <1>16. SameTexts(s, t)
    BY <1>2, <1>8, <1>10 DEF SameTexts, TextOf
  <1>17. SizesKept(s, t)
    BY <1>8, <1>10, <1>16 DEF SizesKept, SameTexts
  <1>20. Extends(s, t)
    <2>1. s.root \in 1..n /\ s.root \in Slots \ {new} /\ new > n /\ n <= new
      BY <1>1 DEF FsOK, Anchored, n, new
    <2> QED
      BY <1>2, <1>4, <2>1 DEF Extends, n
  <1>21. HoldsOn(s, t)
    <2>1. ASSUME NEW f \in Files(t), f # new PROVE f \in Files(s) /\ f \in Slots \ {new}
      <3>1. f \in Used(s) /\ t.entries[f].type = FILE_TYPE_FILE
        BY <1>7, <2>1 DEF Files
      <3> QED
        BY <1>2, <1>7, <2>1, <3>1 DEF Files
    <2> QED
      BY <1>2, <1>4, <2>1 DEF HoldsOn, HeldOK
  <1>18. OneTextChanges(s, t)
    BY <1>1, <1>16 DEF OneTextChanges, SameTexts
  <1>19. \A c \in Slots : ToSet(t.entries[c].children) = ToSet(s.entries[c].children)
    BY <1>2, <1>3, <1>5
  <1> QED
    BY <1>2, <1>11, <1>12, <1>13, <1>14, <1>15, <1>16, <1>17, <1>18, <1>19, <1>20, <1>21
       DEF Keeps, FsOK

\* t is s without entry f, which left its parent's list.
Removed(s, t, f) ==
    /\ t \in FsState /\ t.next_entry = s.next_entry
    /\ t.root = s.root /\ t.current_dir = s.current_dir /\ t.mem = s.mem
    /\ t.free = IF s.entries[f].type = FILE_TYPE_FILE
                THEN s.free \cup ({s.entries[f].data} \ {NULL}) ELSE s.free
    /\ \A g \in Slots :
          /\ t.entries[g].used = IF g = f THEN 0 ELSE s.entries[g].used
          /\ t.entries[g].name = s.entries[g].name /\ t.entries[g].type = s.entries[g].type
          /\ t.entries[g].size = s.entries[g].size /\ t.entries[g].data = s.entries[g].data
          /\ t.entries[g].parent = s.entries[g].parent
          /\ t.entries[g].children =
                IF g = s.entries[f].parent THEN RemoveFirst(s.entries[g].children, f)
                ELSE s.entries[g].children

LEMMA RemovedKeeps ==
    ASSUME NEW s, NEW t, FsOK(s), NEW f, Found(s, f), f # s.root, Removed(s, t, f)
    PROVE  /\ Keeps(s, t)
           /\ \A c \in Slots :
                 ToSet(t.entries[c].children) \subseteq ToSet(s.entries[c].children)
  <1> DEFINE n == s.next_entry
             p == s.entries[f].parent
  <1>1. n \in Nat /\ 1..n \subseteq Slots /\ NULL \notin Slots /\ f \in 1..n
    BY SlotFacts DEF Found
  <1>2. /\ t \in FsState /\ t.next_entry = n
        /\ t.root = s.root /\ t.current_dir = s.current_dir /\ t.mem = s.mem
        /\ t.free = IF s.entries[f].type = FILE_TYPE_FILE
                    THEN s.free \cup ({s.entries[f].data} \ {NULL}) ELSE s.free
        /\ \A g \in Slots :
              /\ t.entries[g].used = IF g = f THEN 0 ELSE s.entries[g].used
              /\ t.entries[g].name = s.entries[g].name /\ t.entries[g].type = s.entries[g].type
              /\ t.entries[g].size = s.entries[g].size /\ t.entries[g].data = s.entries[g].data
              /\ t.entries[g].parent = s.entries[g].parent
              /\ t.entries[g].children =
                    IF g = p THEN RemoveFirst(s.entries[g].children, f)
                    ELSE s.entries[g].children
    BY DEF Removed
  <1>3. \A g \in Slots : s.entries[g] \in Entry
    BY SlotFacts
  <1> HIDE DEF n, p
  <1>4. Used(t) = Used(s) \ {f} /\ Used(s) \subseteq 1..n
    BY <1>1, <1>2 DEF Used, n
  <1>5. \A c \in Slots :
           /\ IsInjective(t.entries[c].children)
           /\ ToSet(t.entries[c].children) =
                 IF c = p THEN ToSet(s.entries[c].children) \ {f}
                 ELSE ToSet(s.entries[c].children)
    <2> SUFFICES ASSUME NEW c \in Slots
                 PROVE  /\ IsInjective(t.entries[c].children)
                        /\ ToSet(t.entries[c].children) =
                              IF c = p THEN ToSet(s.entries[c].children) \ {f}
                              ELSE ToSet(s.entries[c].children)
      OBVIOUS
    <2>1. s.entries[c].children \in Seq(Slots) /\ IsInjective(s.entries[c].children)
      BY SlotFacts DEF FsOK, ListsSound
    <2>2. CASE c = p
      <3>1. t.entries[c].children = RemoveFirst(s.entries[c].children, f)
        BY <1>2, <2>2
      <3> QED
        BY <2>1, <2>2, <3>1, RemovedFirst
    <2>3. CASE c # p
      <3>1. t.entries[c].children = s.entries[c].children
        BY <1>2, <2>3
      <3> QED
        BY <2>1, <2>3, <3>1
    <2> QED
      BY <2>2, <2>3
  <1>6. \A c \in Slots : ToSet(s.entries[c].children) \subseteq 1..n
    BY SlotFacts DEF n
  <1>7. Anchored(t)
    <2>1. /\ s.root \in 1..n /\ s.entries[s.root].type # FILE_TYPE_FILE
          /\ s.current_dir \in 1..n /\ s.entries[s.current_dir].type # FILE_TYPE_FILE
      BY DEF FsOK, Anchored, n
    <2>2. ASSUME NEW g \in 1..n, s.entries[g].parent # NULL
          PROVE  /\ s.entries[g].parent < g
                 /\ t.entries[s.entries[g].parent].type # FILE_TYPE_FILE
      <3>1. s.entries[g].parent < g /\ s.entries[s.entries[g].parent].type # FILE_TYPE_FILE
        BY <2>2 DEF FsOK, Anchored, n
      <3>2. s.entries[g].parent \in Slots
        BY <1>1, <1>3, <2>2 DEF Entry
      <3> QED
        BY <1>2, <3>1, <3>2
    <2> QED
      BY <1>1, <1>2, <2>1, <2>2 DEF Anchored
  <1>8. ListsSound(t)
    <2> SUFFICES ASSUME NEW c \in Slots
                 PROVE  /\ IsInjective(t.entries[c].children)
                        /\ \A g \in ToSet(t.entries[c].children) :
                              g \in Used(t) /\ c < g /\ t.entries[g].parent = c
      BY DEF ListsSound
    <2>1. \A g \in ToSet(s.entries[c].children) :
             g \in Used(s) /\ c < g /\ s.entries[g].parent = c /\ g \in Slots
      BY <1>1, <1>6 DEF FsOK, ListsSound
    <2>2. \A g \in ToSet(t.entries[c].children) :
             g \in ToSet(s.entries[c].children) /\ (c = p => g # f)
      BY <1>5
    <2>3. f \in ToSet(s.entries[c].children) => c = p
      BY <2>1 DEF p
    <2> QED
      BY <1>2, <1>4, <1>5, <2>1, <2>2, <2>3
  <1>9. ListsComplete(t)
    <2> SUFFICES ASSUME NEW g \in Used(s) \ {f}, s.entries[g].parent # NULL
                 PROVE  g \in ToSet(t.entries[s.entries[g].parent].children)
      BY <1>1, <1>2, <1>4 DEF ListsComplete
    <2>1. g \in ToSet(s.entries[s.entries[g].parent].children)
      BY DEF FsOK, ListsComplete
    <2>2. s.entries[g].parent \in Slots
      BY <1>1, <1>3, <1>4 DEF Entry
    <2> QED
      BY <1>5, <2>1, <2>2
  <1>10. /\ WithData(t) = WithData(s) \ {f} /\ WithData(s) \subseteq Slots
         /\ \A g \in WithData(s) : /\ t.entries[g].data = s.entries[g].data
                                   /\ t.entries[g].size = s.entries[g].size
    <2>1. Used(s) \subseteq Slots
      BY <1>1, <1>4
    <2> QED
      BY <1>2, <1>4, <2>1 DEF WithData, Files
  <1>11. f \in Used(s) \/ s.entries[f].type # FILE_TYPE_FILE
    BY DEF Found
  <1>12. s.entries[f].type = FILE_TYPE_FILE /\ s.entries[f].data # NULL => f \in WithData(s)
    BY <1>11 DEF WithData, Files
  <1>13. DataOwned(t)
    <2>1. \A g \in WithData(s) : s.entries[g].data \notin s.free
      BY DEF FsOK, DataOwned
    <2>2. \A g, h \in WithData(s) : s.entries[g].data = s.entries[h].data => g = h
      BY DEF FsOK, DataOwned
    <2>3. \A g \in WithData(t) : s.entries[g].data \notin t.free
      BY <1>2, <1>10, <1>12, <2>1, <2>2
    <2> QED
      BY <1>10, <2>2, <2>3 DEF DataOwned
  <1>14. Lost(t) \subseteq Lost(s)
    <2>1. f \in WithData(s) => s.entries[f].data \in t.free
      BY <1>2 DEF WithData, Files
    <2>2. s.free \subseteq t.free
      BY <1>2
    <2> QED
      BY <1>10, <2>1, <2>2 DEF Lost
  <1>15. \A g \in WithData(s) : TextOf(t, g) = TextOf(s, g)
    BY <1>2, <1>10 DEF TextOf
  <1>16. SizesKept(s, t)
    BY <1>10, <1>15 DEF SizesKept
  <1>19. Extends(s, t)
    <2>1. s.root \in Slots
      BY <1>1 DEF FsOK, Anchored, n
    <2> QED
      BY <1>1, <1>2, <2>1 DEF Extends, n
  <1>20. HoldsOn(s, t)
    <2>1. \A g \in Files(t) : g \in Files(s) /\ g \in Slots
      BY <1>1, <1>2, <1>4 DEF Files
    <2> QED
      BY <1>2, <2>1 DEF HoldsOn, HeldOK
  <1>17. OneTextChanges(s, t)
    BY <1>1, <1>15 DEF OneTextChanges
  <1>18. \A c \in Slots : ToSet(t.entries[c].children) \subseteq ToSet(s.entries[c].children)
    BY <1>5
  <1> QED
    BY <1>2, <1>7, <1>8, <1>9, <1>13, <1>14, <1>16, <1>17, <1>18, <1>19, <1>20
       DEF Keeps, FsOK

-----------------------------------------------------------------------------
(* Texts. *)

\* The string in a buffer has no terminator in it.
LEMMA TextIsString ==
    ASSUME NEW chunks \in [1..MAX_FILE_SIZE -> Chunks \cup {NUL}]
    PROVE  StringIn(chunks) \in Seq(Chunks)
  <1> DEFINE ends == {i \in 1..MAX_FILE_SIZE : chunks[i] = NUL}
             last == IF ends = {} THEN MAX_FILE_SIZE ELSE Min(ends) - 1
  <1>1. MAX_FILE_SIZE \in Nat
    BY TableAssumption
  <1>2. last \in Int /\ \A i \in 1..last : i \in 1..MAX_FILE_SIZE /\ i \notin ends
    <2>1. CASE ends = {}
      BY <1>1, <2>1
    <2>2. CASE ends # {}
      <3>1. ends \in SUBSET Nat
        BY <1>1
      <3>2. \E m \in ends : \A i \in ends : m <= i
        BY <2>2, <3>1, LeastNatural
      <3>3. Min(ends) \in ends /\ \A i \in ends : Min(ends) <= i
        BY <3>2 DEF Min
      <3> DEFINE m == Min(ends)
      <3>4. m \in 1..MAX_FILE_SIZE /\ \A i \in ends : m <= i
        BY <3>3
      <3>5. last = m - 1
        BY <2>2
      <3> HIDE DEF m, ends, last
      <3>6. last \in Int
        BY <3>4, <3>5
      <3>7. ASSUME NEW i \in 1..last PROVE i \in 1..MAX_FILE_SIZE /\ ~(m <= i)
        BY <1>1, <3>4, <3>5
      <3> QED
        BY <3>4, <3>6, <3>7
    <2> QED
      BY <2>1, <2>2
  <1>3. StringIn(chunks) = SubSeq(chunks, 1, last)
    BY DEF StringIn
  <1> HIDE DEF last
  <1>4. \A i \in 1..last : chunks[i] \in Chunks
    BY <1>2
  <1> QED
    BY <1>2, <1>3, <1>4, SubSeqProperties

\* What is copied to a buffer is read back.
LEMMA TextWritten ==
    ASSUME NEW old \in [1..MAX_FILE_SIZE -> Chunks \cup {NUL}],
           NEW string \in Seq(Chunks), Len(string) < MAX_FILE_SIZE
    PROVE  /\ CopyString(old, string) \in [1..MAX_FILE_SIZE -> Chunks \cup {NUL}]
           /\ StringIn(CopyString(old, string)) = string
  <1> DEFINE n == Len(string)
             new == CopyString(old, string)
             ends == {i \in 1..MAX_FILE_SIZE : new[i] = NUL}
  <1>1. n \in Nat /\ MAX_FILE_SIZE \in Nat /\ n + 1 \in 1..MAX_FILE_SIZE
    BY TableAssumption
  <1>2. \A i \in 1..n : string[i] \in Chunks /\ string[i] # NUL
    BY TableAssumption
  <1>3. new = [i \in 1..MAX_FILE_SIZE |->
                  IF i <= n THEN string[i] ELSE IF i = n + 1 THEN NUL ELSE old[i]]
    BY DEF CopyString
  <1> HIDE DEF n, new
  <1>4. /\ \A i \in 1..n : i \in 1..MAX_FILE_SIZE /\ new[i] = string[i]
        /\ new[n + 1] = NUL
    BY <1>1, <1>3
  <1>5. new \in [1..MAX_FILE_SIZE -> Chunks \cup {NUL}]
    BY <1>1, <1>2, <1>3
  <1>6. n + 1 \in ends /\ \A i \in ends : n + 1 <= i
    <2>1. ASSUME NEW i \in ends PROVE n + 1 <= i
      <3>1. i \notin 1..n
        BY <1>2, <1>4
      <3> QED
        BY <1>1, <3>1
    <2> QED
      BY <1>1, <1>4, <2>1
  <1>7. Min(ends) = n + 1
    <2>1. ends \in SUBSET Nat
      BY <1>1
    <2>2. Min(ends) \in ends /\ \A i \in ends : Min(ends) <= i
      BY <1>6 DEF Min
    <2> DEFINE m == Min(ends)
    <2> HIDE DEF ends
    <2>3. m \in Nat /\ m <= n + 1 /\ n + 1 <= m
      BY <1>6, <2>1, <2>2
    <2> HIDE DEF m
    <2> QED
      BY <1>1, <2>3 DEF m
  <1>8. StringIn(new) = SubSeq(new, 1, n)
    <2>1. ends # {} /\ (n + 1) - 1 = n
      BY <1>1, <1>6
    <2> QED
      BY <1>7, <2>1 DEF StringIn
  <1>9. /\ SubSeq(new, 1, n) \in Seq(Chunks) /\ Len(SubSeq(new, 1, n)) = n
        /\ \A i \in 1..n : SubSeq(new, 1, n)[i] = string[i]
    <2>1. \A i \in 1..n : new[i] \in Chunks
      BY <1>2, <1>4
    <2>2. /\ SubSeq(new, 1, n) \in Seq(Chunks)
          /\ Len(SubSeq(new, 1, n)) = IF 1 <= n THEN n - 1 + 1 ELSE 0
          /\ \A i \in 1..(n - 1 + 1) : SubSeq(new, 1, n)[i] = new[1 + i - 1]
      BY <1>1, <2>1, SubSeqProperties
    <2> QED
      BY <1>1, <1>4, <2>2
  <1>10. SubSeq(new, 1, n) = string
    BY <1>9, SeqEqual DEF n
  <1> QED
    BY <1>5, <1>8, <1>10 DEF new

\* A text is cut to what a buffer holds with its terminator.
LEMMA CappedFits ==
    ASSUME NEW content \in Seq(Chunks)
    PROVE  Capped(content) \in Seq(Chunks) /\ Len(Capped(content)) < MAX_FILE_SIZE
  <1>1. MAX_FILE_SIZE \in Nat \ {0} /\ Len(content) \in Nat
    BY TableAssumption
  <1>2. CASE Len(content) >= MAX_FILE_SIZE
    <2>1. \A i \in 1..(MAX_FILE_SIZE - 1) : content[i] \in Chunks
      BY <1>1, <1>2
    <2>2. /\ SubSeq(content, 1, MAX_FILE_SIZE - 1) \in Seq(Chunks)
          /\ Len(SubSeq(content, 1, MAX_FILE_SIZE - 1)) =
                IF 1 <= MAX_FILE_SIZE - 1 THEN MAX_FILE_SIZE - 1 - 1 + 1 ELSE 0
      BY <1>1, <2>1, SubSeqProperties
    <2> QED
      BY <1>1, <1>2, <2>2 DEF Capped
  <1>3. CASE ~(Len(content) >= MAX_FILE_SIZE)
    BY <1>1, <1>3 DEF Capped
  <1> QED
    BY <1>2, <1>3

\* A write to a file: nothing moves, no other text changes, and the size is
\* the length of the text.
LEMMA WrittenKeeps ==
    ASSUME NEW s, FsOK(s), NEW f, Found(s, f), s.entries[f].type = FILE_TYPE_FILE,
           NEW content \in Seq(Chunks)
    PROVE  LET t == Written(s, f, content) IN
           /\ FsOK(t) /\ Lost(t) \subseteq Lost(s)
           /\ SizesKept(s, t) /\ Extends(s, t) /\ HoldsOn(s, t)
           /\ WithData(t) = WithData(s)
           /\ \A g \in WithData(s) : g # f => TextOf(t, g) = TextOf(s, g)
           /\ \A c \in Slots : /\ t.entries[c].children = s.entries[c].children
                               /\ t.entries[c].name = s.entries[c].name
  <1> DEFINE t == Written(s, f, content)
             b == s.entries[f].data
             text == Capped(content)
             chunks == CopyString(s.mem[b], text)
             e == [s.entries[f] EXCEPT !.size = Len(text)]
  <1>1. /\ s \in FsState /\ f \in Slots /\ s.entries[f] \in Entry
        /\ s.entries \in [Slots -> Entry] /\ s.mem \in Memory
    BY SlotFacts DEF Found, FsOK, FsState
  <1>2. b \in Buffers \cup {NULL}
    BY <1>1 DEF Entry
  <1>3. s.mem[b] \in [1..MAX_FILE_SIZE -> Chunks \cup {NUL}]
    BY <1>1, <1>2 DEF Memory
  <1>4. text \in Seq(Chunks) /\ Len(text) < MAX_FILE_SIZE /\ Len(text) \in 0..MAX_FILE_SIZE
    BY CappedFits, TableAssumption
  <1>5. chunks \in [1..MAX_FILE_SIZE -> Chunks \cup {NUL}] /\ StringIn(chunks) = text
    BY <1>3, <1>4, TextWritten
  <1>6. t = [s EXCEPT !.mem = [s.mem EXCEPT ![b] = chunks],
                      !.entries = [s.entries EXCEPT ![f] = e]]
    BY DEF Written
  <1> DEFINE mem == [s.mem EXCEPT ![b] = chunks]
             entries == [s.entries EXCEPT ![f] = e]
  <1>7. /\ e \in Entry /\ e.used = s.entries[f].used /\ e.name = s.entries[f].name
        /\ e.type = s.entries[f].type /\ e.data = s.entries[f].data
        /\ e.parent = s.entries[f].parent /\ e.children = s.entries[f].children
        /\ e.size = Len(text)
    BY <1>1, <1>4 DEF Entry
  <1> HIDE DEF e, text, chunks, b
  <1>8. entries \in [Slots -> Entry] /\ entries[f] = e /\ \A g \in Slots \ {f} : entries[g] = s.entries[g]
    BY <1>1, <1>7
  <1>9. mem \in Memory /\ mem[b] = chunks
        /\ \A c \in (Buffers \cup {NULL}) \ {b} : mem[c] = s.mem[c]
    BY <1>1, <1>2, <1>5 DEF Memory
  <1> HIDE DEF mem, entries
  <1>10. /\ t \in FsState /\ t.next_entry = s.next_entry /\ t.root = s.root
         /\ t.current_dir = s.current_dir /\ t.free = s.free
         /\ t.mem = mem /\ t.entries = entries
    BY <1>1, <1>6, <1>8, <1>9 DEF FsState, mem, entries
  <1> HIDE DEF t
  <1>11. \A g \in Slots :
            /\ t.entries[g].used = s.entries[g].used /\ t.entries[g].name = s.entries[g].name
            /\ t.entries[g].type = s.entries[g].type /\ t.entries[g].data = s.entries[g].data
            /\ t.entries[g].parent = s.entries[g].parent
            /\ t.entries[g].children = s.entries[g].children
            /\ g # f => t.entries[g].size = s.entries[g].size
    BY <1>7, <1>8, <1>10
  <1>12. 1..s.next_entry \subseteq Slots /\ NULL \notin Slots
    BY SlotFacts
  <1>13. Used(t) = Used(s) /\ Used(s) \subseteq Slots
    BY <1>10, <1>11, <1>12 DEF Used
  <1>14. Files(t) = Files(s) /\ WithData(t) = WithData(s) /\ WithData(s) \subseteq Slots
    BY <1>11, <1>13 DEF WithData, Files
  <1>15. Anchored(t)
    <2>1. /\ s.root \in 1..s.next_entry /\ s.entries[s.root].type # FILE_TYPE_FILE
          /\ s.current_dir \in 1..s.next_entry
          /\ s.entries[s.current_dir].type # FILE_TYPE_FILE
      BY DEF FsOK, Anchored
    <2>2. ASSUME NEW g \in 1..s.next_entry, s.entries[g].parent # NULL
          PROVE  /\ s.entries[g].parent < g
                 /\ t.entries[s.entries[g].parent].type # FILE_TYPE_FILE
      <3>1. s.entries[g].parent < g /\ s.entries[s.entries[g].parent].type # FILE_TYPE_FILE
        BY <2>2 DEF FsOK, Anchored
      <3>2. s.entries[g].parent \in Slots
        BY <1>12, <2>2, SlotFacts DEF Entry
      <3> QED
        BY <1>11, <3>1, <3>2
    <2> QED
      BY <1>10, <1>11, <1>12, <2>1, <2>2 DEF Anchored
  <1>16. ListsSound(t)
    <2>1. \A c \in Slots : \A g \in ToSet(s.entries[c].children) : g \in Slots
      BY <1>12, SlotFacts
    <2> QED
      BY <1>11, <1>13, <2>1 DEF ListsSound, FsOK
  <1>17. ListsComplete(t)
    <2>1. \A g \in Used(s) : s.entries[g].parent # NULL => s.entries[g].parent \in Slots
      BY <1>13, SlotFacts DEF Entry
    <2> QED
      BY <1>11, <1>13, <2>1 DEF ListsComplete, FsOK
  <1>18. DataOwned(t)
    BY <1>10, <1>11, <1>14 DEF DataOwned, FsOK
  <1>19. Lost(t) \subseteq Lost(s)
    BY <1>10, <1>11, <1>14 DEF Lost
  <1>20. ASSUME NEW g \in WithData(s), g # f PROVE TextOf(t, g) = TextOf(s, g)
    <2>1. s.entries[g].data \in Buffers /\ t.entries[g].data = s.entries[g].data
      BY <1>11, <1>14, SlotFacts DEF Entry, WithData
    <2>2. s.entries[g].data # b
      <3>1. f \in Used(s)
        BY DEF Found
      <3>2. b # NULL => f \in WithData(s)
        BY <3>1 DEF WithData, Files, b
      <3>3. s.entries[g].data # NULL
        BY DEF WithData
      <3> QED
        BY <1>20, <3>2, <3>3 DEF FsOK, DataOwned, b
    <2> QED
      BY <1>9, <1>10, <2>1, <2>2 DEF TextOf
  <1>21. TextOf(t, f) = text /\ t.entries[f].size = Len(text)
    <2>1. t.entries[f].data = b
      BY <1>1, <1>11 DEF b
    <2> QED
      BY <1>5, <1>7, <1>8, <1>9, <1>10, <2>1 DEF TextOf
  <1>22. SizesKept(s, t)
    BY <1>11, <1>14, <1>20, <1>21 DEF SizesKept
  <1>23. Extends(s, t)
    <2>1. s.root \in Slots /\ s.next_entry \in Nat
      BY SlotFacts DEF FsOK, Anchored
    <2> QED
      BY <1>10, <1>11, <2>1 DEF Extends
  <1>24. HoldsOn(s, t)
    <2> SUFFICES ASSUME HeldOK(s) PROVE HeldOK(t) /\ t.mem[NULL] = s.mem[NULL]
      BY DEF HoldsOn
    <2>1. HeldOK(t)
      BY <1>11, <1>13, <1>14 DEF HeldOK, Files
    <2>2. b # NULL
      BY <1>12 DEF Found, HeldOK, Files, b
    <2> QED
      BY <1>9, <1>10, <2>1, <2>2
  <1> QED
    BY <1>10, <1>11, <1>14, <1>15, <1>16, <1>17, <1>18, <1>19, <1>20, <1>22, <1>23, <1>24
       DEF FsOK, t

-----------------------------------------------------------------------------
(* The operations. *)

\* The entry filesystem_create_file makes.
LEMMA Created ==
    ASSUME NEW s, s \in FsState, ~Full(s), NEW name, Cut[name] \in Names,
           NEW type \in {FILE_TYPE_FILE, FILE_TYPE_DIR}
    PROVE  LET t == filesystem_create_file(s, name, type)
               new == s.next_entry + 1
           IN  /\ t \in FsState /\ t.next_entry = new /\ t.root = s.root
               /\ t.current_dir = s.current_dir /\ t.free = s.free /\ t.mem = s.mem
               /\ new \in Slots /\ t.entries[new] = NewEntry(Cut[name], type, NULL, NULL)
               /\ \A f \in Slots \ {new} : t.entries[f] = s.entries[f]
  <1> DEFINE new == s.next_entry + 1
             e == [ZeroEntry EXCEPT !.used = 1, !.name = Cut[name], !.type = type]
             entries == [s.entries EXCEPT ![new] = e]
  <1>1. /\ s.next_entry \in 0..MAX_ENTRIES /\ MAX_ENTRIES \in Nat /\ MAX_FILE_SIZE \in Nat
        /\ s.entries \in [Slots -> Entry]
    BY TableAssumption DEF FsState
  <1>2. new \in Slots /\ new \in 0..MAX_ENTRIES
    BY <1>1 DEF Full, Slots
  <1>3. e = NewEntry(Cut[name], type, NULL, NULL)
    <2> DEFINE used == [ZeroEntry EXCEPT !.used = 1]
               named == [used EXCEPT !.name = Cut[name]]
    <2>1. used = [ZeroEntry EXCEPT !.used = 1] /\ e = [named EXCEPT !.type = type]
      OBVIOUS
    <2>2. used = [used |-> 1, name |-> <<Empty>>, type |-> 0, size |-> 0, data |-> NULL,
                  parent |-> NULL, children |-> <<>>]
      BY DEF ZeroEntry
    <2> HIDE DEF used
    <2>3. named = [used |-> 1, name |-> Cut[name], type |-> 0, size |-> 0, data |-> NULL,
                   parent |-> NULL, children |-> <<>>]
      BY <2>2
    <2> HIDE DEF named, e
    <2> QED
      BY <2>1, <2>3 DEF NewEntry
  <1> HIDE DEF e
  <1>4. e \in Entry
    <2>1. <<>> \in Seq(Slots) /\ 0 \in 0..MAX_FILE_SIZE
      BY <1>1
    <2> QED
      BY <1>3, <2>1 DEF Entry, NewEntry
  <1>5. filesystem_create_file(s, name, type) =
          [s EXCEPT !.next_entry = new, !.entries = entries]
    BY DEF filesystem_create_file, e
  <1> HIDE DEF new
  <1>6. entries \in [Slots -> Entry] /\ entries[new] = e /\ \A f \in Slots \ {new} : entries[f] = s.entries[f]
    BY <1>1, <1>2, <1>4
  <1> HIDE DEF entries
  <1>7. LET t == filesystem_create_file(s, name, type) IN
           /\ t \in FsState /\ t.next_entry = new /\ t.root = s.root
           /\ t.current_dir = s.current_dir /\ t.free = s.free /\ t.mem = s.mem
           /\ t.entries = entries
    BY <1>2, <1>5, <1>6 DEF FsState
  <1> QED
    BY <1>2, <1>3, <1>6, <1>7 DEF new

\* The new entry and the head of its directory's list.
IsLinked(s, t, f, d) ==
    /\ t \in FsState /\ t.next_entry = s.next_entry /\ t.root = s.root
    /\ t.current_dir = s.current_dir /\ t.free = s.free /\ t.mem = s.mem
    /\ t.entries[f] = [s.entries[f] EXCEPT !.parent = d]
    /\ t.entries[d] = [s.entries[d] EXCEPT !.children = <<f>> \o @]
    /\ \A g \in Slots \ {d, f} : t.entries[g] = s.entries[g]

LEMMA LinkedFields ==
    ASSUME NEW s, s \in FsState, NEW f \in Slots, NEW d \in Slots, f # d
    PROVE  IsLinked(s, Linked(s, f, d), f, d)
  <1> DEFINE ef == [s.entries[f] EXCEPT !.parent = d]
             ed == [s.entries[d] EXCEPT !.children = <<f>> \o @]
             entries == [[s.entries EXCEPT ![f] = ef] EXCEPT ![d] = ed]
  <1>1. /\ s.entries \in [Slots -> Entry] /\ s.entries[f] \in Entry /\ s.entries[d] \in Entry
    BY DEF FsState
  <1>2. ef \in Entry
    BY <1>1 DEF Entry
  <1>3. ed \in Entry
    <2>1. s.entries[d].children \in Seq(Slots) /\ <<f>> \in Seq(Slots)
      BY <1>1 DEF Entry
    <2>2. <<f>> \o s.entries[d].children \in Seq(Slots)
      BY <2>1, ConcatProperties
    <2> QED
      BY <1>1, <2>2 DEF Entry
  <1>4. Linked(s, f, d) = [s EXCEPT !.entries = entries]
    <2>1. [s.entries EXCEPT ![f] = ef][d] = s.entries[d]
      BY <1>1
    <2> QED
      BY <2>1 DEF Linked
  <1> HIDE DEF ef, ed
  <1>5. /\ entries \in [Slots -> Entry] /\ entries[f] = ef /\ entries[d] = ed
        /\ \A g \in Slots \ {d, f} : entries[g] = s.entries[g]
    BY <1>1, <1>2, <1>3
  <1> HIDE DEF entries
  <1>6. LET t == Linked(s, f, d) IN
           /\ t \in FsState /\ t.next_entry = s.next_entry /\ t.root = s.root
           /\ t.current_dir = s.current_dir /\ t.free = s.free /\ t.mem = s.mem
           /\ t.entries = entries
    BY <1>4, <1>5 DEF FsState
  <1> QED
    BY <1>5, <1>6 DEF ef, ed, IsLinked

\* An entry that left its directory.
LEMMA UnlinkedFields ==
    ASSUME NEW s, FsOK(s), NEW f \in Slots
    PROVE  LET t == Unlinked(s, f) IN
           /\ t \in FsState /\ t.next_entry = s.next_entry /\ t.root = s.root
           /\ t.current_dir = s.current_dir /\ t.free = s.free /\ t.mem = s.mem
           /\ \A g \in Slots :
                 /\ t.entries[g].used = IF g = f THEN 0 ELSE s.entries[g].used
                 /\ t.entries[g].name = s.entries[g].name
                 /\ t.entries[g].type = s.entries[g].type
                 /\ t.entries[g].size = s.entries[g].size
                 /\ t.entries[g].data = s.entries[g].data
                 /\ t.entries[g].parent = s.entries[g].parent
                 /\ t.entries[g].children =
                       IF g = s.entries[f].parent THEN RemoveFirst(s.entries[g].children, f)
                       ELSE s.entries[g].children
  <1> DEFINE p == s.entries[f].parent
             ef == [s.entries[f] EXCEPT !.used = 0]
             used == [s.entries EXCEPT ![f] = ef]
             ep == [used[p] EXCEPT !.children = RemoveFirst(@, f)]
             entries == [used EXCEPT ![p] = ep]
  <1>1. s \in FsState /\ s.entries \in [Slots -> Entry] /\ s.entries[f] \in Entry
    BY DEF FsOK, FsState
  <1>2. p \in Slots \cup {NULL}
    BY <1>1 DEF Entry
  <1>3. Unlinked(s, f) = [s EXCEPT !.entries = entries]
    BY DEF Unlinked
  <1>4. /\ ef \in Entry /\ ef.used = 0 /\ ef.name = s.entries[f].name
        /\ ef.type = s.entries[f].type /\ ef.data = s.entries[f].data
        /\ ef.size = s.entries[f].size
        /\ ef.parent = s.entries[f].parent /\ ef.children = s.entries[f].children
    BY <1>1 DEF Entry
  <1> HIDE DEF ef
  <1>5. used \in [Slots -> Entry] /\ used[f] = ef /\ \A g \in Slots \ {f} : used[g] = s.entries[g]
    BY <1>1, <1>4
  <1> HIDE DEF used, p
  <1>6. ASSUME NEW g \in Slots
        PROVE  /\ used[g].used = IF g = f THEN 0 ELSE s.entries[g].used
               /\ used[g].name = s.entries[g].name /\ used[g].type = s.entries[g].type
               /\ used[g].size = s.entries[g].size /\ used[g].data = s.entries[g].data
               /\ used[g].parent = s.entries[g].parent
               /\ used[g].children = s.entries[g].children
    BY <1>4, <1>5
  <1>7. p \in Slots =>
          /\ ep \in Entry /\ ep.used = used[p].used /\ ep.name = used[p].name
          /\ ep.type = used[p].type /\ ep.data = used[p].data /\ ep.size = used[p].size
          /\ ep.parent = used[p].parent
          /\ ep.children = RemoveFirst(s.entries[p].children, f)
    <2> SUFFICES ASSUME p \in Slots
                 PROVE  /\ ep \in Entry /\ ep.used = used[p].used /\ ep.name = used[p].name
                        /\ ep.type = used[p].type /\ ep.data = used[p].data
                        /\ ep.size = used[p].size /\ ep.parent = used[p].parent
                        /\ ep.children = RemoveFirst(s.entries[p].children, f)
      OBVIOUS
    <2> DEFINE list == RemoveFirst(used[p].children, f)
    <2>1. s.entries[p].children \in Seq(Slots) /\ IsInjective(s.entries[p].children)
      BY SlotFacts DEF FsOK, ListsSound
    <2>2. used[p].children = s.entries[p].children
      BY <1>6
    <2>3. list \in Seq(Slots) /\ list = RemoveFirst(s.entries[p].children, f)
      BY <2>1, <2>2, RemovedFirst
    <2>4. used[p] \in Entry /\ ep = [used[p] EXCEPT !.children = list]
      BY <1>5
    <2> HIDE DEF list, ep
    <2> QED
      BY <2>3, <2>4 DEF Entry
  <1> HIDE DEF ep
  <1>8. /\ entries \in [Slots -> Entry] /\ (p \in Slots => entries[p] = ep)
        /\ \A g \in Slots \ {p} : entries[g] = used[g]
    BY <1>2, <1>5, <1>7
  <1> HIDE DEF entries
  <1>9. LET t == Unlinked(s, f) IN
           /\ t \in FsState /\ t.next_entry = s.next_entry /\ t.root = s.root
           /\ t.current_dir = s.current_dir /\ t.free = s.free /\ t.mem = s.mem
           /\ t.entries = entries
    BY <1>1, <1>3, <1>8 DEF FsState
  <1>10. ASSUME NEW g \in Slots
         PROVE /\ entries[g].used = IF g = f THEN 0 ELSE s.entries[g].used
               /\ entries[g].name = s.entries[g].name
               /\ entries[g].type = s.entries[g].type
               /\ entries[g].size = s.entries[g].size
               /\ entries[g].data = s.entries[g].data
               /\ entries[g].parent = s.entries[g].parent
               /\ entries[g].children =
                     IF g = s.entries[f].parent THEN RemoveFirst(s.entries[g].children, f)
                     ELSE s.entries[g].children
    BY <1>6, <1>7, <1>8 DEF p
  <1> QED
    BY <1>9, <1>10

\* An entry that is new in a list was made for path, whose name the lookup
\* from the current directory did not find.
NewNames(s, t, path) ==
    \A c \in Slots :
        \A f \in ToSet(t.entries[c].children) \ ToSet(s.entries[c].children) :
            /\ c = ParentFor(s, path)
            /\ t.entries[f].name = Cut[Skipped(path)]
            /\ filesystem_find_file(s, Skipped(path)) = NULL

\* Sizes stay right.
LEMMA SizesStay ==
    ASSUME NEW s, NEW t, SizesKept(s, t), Sized(s)
    PROVE  Sized(t)
  BY DEF SizesKept, Sized

\* What one step adds to and the next adds to has grown.
LEMMA ExtendsOn ==
    ASSUME NEW s, NEW u, NEW t, FsOK(s), FsOK(u), FsOK(t), Extends(s, u), Extends(u, t)
    PROVE  Extends(s, t)
  <1>1. s.next_entry \in Nat /\ u.next_entry \in Nat /\ t.next_entry \in Nat
    BY SlotFacts
  <1> QED
    BY <1>1 DEF Extends, Slots

\* A state is what it was.
LEMMA NothingChanges ==
    ASSUME NEW s, FsOK(s), NEW path
    PROVE  Keeps(s, s) /\ SameTexts(s, s) /\ NewNames(s, s, path)
  <1>1. OneTextChanges(s, s)
    <2>1. s.root \in Slots
      BY SlotFacts DEF FsOK, Anchored
    <2> QED
      BY <2>1 DEF OneTextChanges
  <1>2. SizesKept(s, s) /\ Extends(s, s) /\ HoldsOn(s, s)
    <2>1. s.next_entry \in Nat
      BY SlotFacts
    <2> QED
      BY <2>1 DEF SizesKept, Extends, HoldsOn
  <1> QED
    BY <1>1, <1>2 DEF Keeps, SameTexts, NewNames

LEMMA ParentIsSlot ==
    ASSUME NEW s, FsOK(s), NEW path
    PROVE  /\ ParentFor(s, path) \in {s.root, s.current_dir}
           /\ ParentFor(s, path) \in Slots
           /\ ParentFor(s, path) # s.next_entry + 1
  <1>1. s.root \in 1..s.next_entry /\ s.current_dir \in 1..s.next_entry
    BY DEF FsOK, Anchored
  <1>2. s.next_entry \in Nat /\ 1..s.next_entry \subseteq Slots
    BY SlotFacts
  <1>3. s.next_entry + 1 \notin 1..s.next_entry
    BY <1>2
  <1> QED
    BY <1>1, <1>2, <1>3 DEF ParentFor

\* The name of a zeroed entry.
LEMMA EmptyName == <<Empty>> \in Names /\ <<Empty>> # RootName
  <1>1. <<Empty>> # RootName
    BY DEF RootName
  <1> QED
    BY <1>1 DEF Names

\* What mkdir and touch look for and store.
LEMMA SkippedTyped ==
    ASSUME NEW path \in PathType
    PROVE  path \in PartsType /\ Skipped(path) \in PartsType /\ Cut[Skipped(path)] \in Names
  <1>1. path \in Seq(Text) /\ path # <<>> /\ Skipped(path) \in Asked
    BY DEF PathType, PartsType
  <1>2. Skipped(path) \in PartsType
    <2>1. CASE IsAbsolute(path)
      <3>1. Tail(path) \in Seq(Text) /\ Len(Tail(path)) = Len(path) - 1 /\ Len(path) > 1
        BY <1>1, <2>1 DEF IsAbsolute
      <3>2. Tail(path) # <<>>
        <4> DEFINE rest == Tail(path)
        <4>1. Len(rest) # 0
          BY <1>1, <3>1
        <4> HIDE DEF rest
        <4>2. rest # <<>>
          BY <4>1
        <4> QED
          BY <4>2 DEF rest
      <3> QED
        BY <2>1, <3>1, <3>2 DEF Skipped, PartsType
    <2>2. CASE ~IsAbsolute(path)
      BY <1>1, <2>2 DEF Skipped, PartsType
    <2> QED
      BY <2>1, <2>2
  <1> QED
    BY <1>1, <1>2 DEF Names, PartsType

\* Nothing that a lookup does not find is cut to the name of the root.
LEMMA NotTheRoot ==
    ASSUME NEW s, FsOK(s), NEW path \in PathType,
           filesystem_find_file(s, Skipped(path)) = NULL
    PROVE  Cut[Skipped(path)] # RootName
  <1>1. filesystem_find_file(s, RootName) # NULL
    <2>1. s.root # NULL
      BY SlotFacts DEF FsOK, Anchored
    <2> QED
      BY <2>1 DEF filesystem_find_file
  <1> QED
    BY <1>1, NameAssumption DEF PathType

\* t is s with one more entry.
OneMore(s, t, name, type) ==
    /\ t.next_entry = s.next_entry + 1 /\ t.current_dir = s.current_dir
    /\ t.entries[s.next_entry + 1].name = name
    /\ t.entries[s.next_entry + 1].type = type
    /\ \A f \in 1..s.next_entry : /\ t.entries[f].name = s.entries[f].name
                                  /\ t.entries[f].type = s.entries[f].type

\* The lookup before an entry is made finds nothing, and the table has room.
CanMake(s, path) == filesystem_find_file(s, Skipped(path)) = NULL /\ ~Full(s)

LEMMA AddedMore ==
    ASSUME NEW s, FsOK(s), ~Full(s), NEW t, NEW d \in Slots, d # s.next_entry + 1,
           NEW name, NEW type, NEW data, Added(s, t, d, name, type, data)
    PROVE  OneMore(s, t, name, type)
  <1> DEFINE new == s.next_entry + 1
  <1>1. \A f \in 1..s.next_entry : f \in Slots /\ f # new
    BY NextSlot
  <1>2. t.entries[new] = NewEntry(name, type, data, d) /\ t.next_entry = new
        /\ t.current_dir = s.current_dir
    BY DEF Added
  <1>3. s.entries[d] \in Entry
    BY SlotFacts
  <1>4. t.entries[d].name = s.entries[d].name /\ t.entries[d].type = s.entries[d].type
    BY <1>3 DEF Added, Entry
  <1>5. ASSUME NEW f \in 1..s.next_entry
        PROVE  t.entries[f].name = s.entries[f].name /\ t.entries[f].type = s.entries[f].type
    <2>1. CASE f = d
      BY <1>4, <2>1
    <2>2. CASE f # d
      BY <1>1, <2>2 DEF Added
    <2> QED
      BY <2>1, <2>2
  <1>6. t.entries[new].name = name /\ t.entries[new].type = type
    BY <1>2 DEF NewEntry
  <1> QED
    BY <1>2, <1>5, <1>6 DEF OneMore

\* The lookup of a path finds nothing when no entry has its last name.
LEMMA NoneCalled ==
    ASSUME NEW s, FsOK(s), NEW path \in PartsType, path # <<".">>, path # <<"..">>,
           path[Len(path)] # Empty,
           \A g \in 1..s.next_entry : s.entries[g].name # <<path[Len(path)]>>
    PROVE  filesystem_find_file(s, path) = NULL
  <1> DEFINE n == Len(path)
             walks == Walks(s, ParentFor(s, path), path)
  <1>1. n \in 1..n /\ n \in 0..n /\ n - 1 \in 0..n
    BY DEF PartsType
  <1>2. path # RootName
    BY DEF RootName
  <1>3. ASSUME NEW w \in walks PROVE FALSE
    <2> DEFINE list == s.entries[w[n - 1]].children
    <2>1. FirstNamed(s, w[n - 1], w[n], path[n])
      BY <1>1 DEF Walks
    <2>2. w[n - 1] \in Slots
      BY <1>1, WalkFound
    <2>3. PICK i \in 1..Len(list) : list[i] = w[n]
      BY <2>1 DEF FirstNamed
    <2>4. list \in Seq(Slots) /\ ToSet(list) \subseteq 1..s.next_entry
      BY <2>2, SlotFacts
    <2> HIDE DEF list
    <2>5. w[n] \in 1..s.next_entry
      BY <2>3, <2>4 DEF ToSet
    <2>6. s.entries[w[n]].name = <<path[n]>>
      BY <2>1 DEF FirstNamed
    <2> QED
      BY <2>5, <2>6
  <1>4. walks = {}
    BY <1>3
  <1> QED
    BY <1>2, <1>4 DEF filesystem_find_file

\* filesystem_mkdir.
LEMMA MkdirKeeps ==
    ASSUME NEW s, FsOK(s), NEW path \in PathType
    PROVE  LET t == filesystem_mkdir(s, path).fs IN
           /\ Keeps(s, t) /\ NewNames(s, t, path)
           /\ CanMake(s, path) => OneMore(s, t, Cut[Skipped(path)], FILE_TYPE_DIR)
  <1> DEFINE r == filesystem_mkdir(s, path)
             name == Cut[Skipped(path)]
             new == s.next_entry + 1
             d == ParentFor(s, path)
             made == filesystem_create_file(s, Skipped(path), FILE_TYPE_DIR)
             none == filesystem_find_file(s, Skipped(path)) = NULL
  <1>1. CASE ~none \/ Full(s)
    <2>1. r.fs = s
      BY <1>1 DEF filesystem_mkdir, Result
    <2> QED
      BY <1>1, <2>1, NothingChanges DEF CanMake
  <1>2. CASE none /\ ~Full(s)
    <2>1. r.fs = Linked(made, new, d)
      BY <1>2 DEF filesystem_mkdir, Result
    <2>2. s \in FsState
      BY DEF FsOK
    <2>3. /\ made \in FsState /\ made.next_entry = new /\ made.root = s.root
          /\ made.current_dir = s.current_dir /\ made.free = s.free /\ made.mem = s.mem
          /\ new \in Slots /\ made.entries[new] = NewEntry(name, FILE_TYPE_DIR, NULL, NULL)
          /\ \A f \in Slots \ {new} : made.entries[f] = s.entries[f]
      BY <1>2, <2>2, Created, SkippedTyped
    <2>4. d \in {s.root, s.current_dir} /\ d \in Slots /\ d # new
      BY ParentIsSlot
    <2> DEFINE t == Linked(made, new, d)
    <2> HIDE DEF made, d
    <2>5. /\ t \in FsState /\ t.next_entry = new /\ t.root = s.root
          /\ t.current_dir = s.current_dir /\ t.free = s.free /\ t.mem = s.mem
          /\ t.entries[new] = [made.entries[new] EXCEPT !.parent = d]
          /\ t.entries[d] = [made.entries[d] EXCEPT !.children = <<new>> \o @]
          /\ \A g \in Slots \ {d, new} : t.entries[g] = made.entries[g]
      <3> HIDE DEF new
      <3>1. IsLinked(made, t, new, d)
        BY <2>3, <2>4, LinkedFields
      <3> QED
        BY <2>3, <3>1 DEF IsLinked
    <2> HIDE DEF t, new, name
    <2>6. t.entries[new] = NewEntry(name, FILE_TYPE_DIR, NULL, d)
      BY <2>3, <2>5 DEF NewEntry
    <2>7. made.entries[d] = s.entries[d]
      BY <2>3, <2>4
    <2>8. t.free = s.free \ {NULL}
      BY <2>2, <2>5 DEF FsState, Buffers, NULL
    <2>9. Added(s, t, d, name, FILE_TYPE_DIR, NULL)
      BY <2>3, <2>5, <2>6, <2>7, <2>8 DEF Added, new
    <2>10. Keeps(s, t) /\ NewIn(s, t, d, name)
      BY <1>2, <2>4, <2>9, AddedKeeps, NotTheRoot DEF name
    <2>11. NewNames(s, t, path)
      BY <1>2, <2>10 DEF NewNames, NewIn, d, name
    <2>12. OneMore(s, t, Cut[Skipped(path)], FILE_TYPE_DIR)
      BY <1>2, <2>4, <2>9, AddedMore DEF new, name
    <2> QED
      BY <2>1, <2>10, <2>11, <2>12 DEF t
  <1> QED
    BY <1>1, <1>2

\* filesystem_touch.
LEMMA TouchKeeps ==
    ASSUME NEW s, FsOK(s), NEW path \in PathType
    PROVE  LET t == filesystem_touch(s, path).fs IN
           /\ Keeps(s, t) /\ SameTexts(s, t) /\ NewNames(s, t, path)
           /\ CanMake(s, path) => OneMore(s, t, Cut[Skipped(path)], FILE_TYPE_FILE)
  <1> DEFINE r == filesystem_touch(s, path)
             name == Cut[Skipped(path)]
             new == s.next_entry + 1
             d == ParentFor(s, path)
             b == memory_alloc(s)
             made == filesystem_create_file(s, Skipped(path), FILE_TYPE_FILE)
             filled == [made EXCEPT !.entries[new].data = b, !.free = @ \ {b}]
             none == filesystem_find_file(s, Skipped(path)) = NULL
  <1>1. CASE ~none \/ Full(s)
    <2>1. r.fs = s
      BY <1>1 DEF filesystem_touch, Result
    <2> QED
      BY <1>1, <2>1, NothingChanges DEF CanMake
  <1>2. ASSUME none, ~Full(s)
        PROVE  /\ made \in FsState /\ made.next_entry = new /\ made.root = s.root
               /\ made.current_dir = s.current_dir /\ made.free = s.free /\ made.mem = s.mem
               /\ new \in Slots
               /\ made.entries[new] = NewEntry(name, FILE_TYPE_FILE, NULL, NULL)
               /\ \A f \in Slots \ {new} : made.entries[f] = s.entries[f]
    <2>1. s \in FsState
      BY DEF FsOK
    <2> QED
      BY <1>2, <2>1, Created, SkippedTyped
  <1>3. CASE none /\ ~Full(s) /\ b = NULL
    <2>1. r.fs = made
      BY <1>3 DEF filesystem_touch, Result
    <2>2. Spare(s, made, name)
      BY <1>2, <1>3 DEF Spare
    <2>3. /\ Keeps(s, made) /\ SameTexts(s, made)
          /\ \A c \in Slots : ToSet(made.entries[c].children) = ToSet(s.entries[c].children)
      BY <1>3, <2>2, SpareKeeps, NotTheRoot
    <2>4. NewNames(s, made, path)
      BY <2>3 DEF NewNames
    <2>5. OneMore(s, made, name, FILE_TYPE_FILE)
      <3>1. \A f \in 1..s.next_entry : f \in Slots /\ f # new
        BY <1>3, NextSlot
      <3> QED
        BY <1>2, <1>3, <3>1 DEF OneMore, NewEntry
    <2> QED
      BY <2>1, <2>3, <2>4, <2>5
  <1>4. CASE none /\ ~Full(s) /\ b # NULL
    <2>1. r.fs = Linked(filled, new, d)
      BY <1>4 DEF filesystem_touch, Result
    <2>2. b \in s.free /\ b \in Buffers /\ s.free \subseteq Buffers
      BY <1>4 DEF memory_alloc, FsOK, FsState
    <2>3. d \in {s.root, s.current_dir} /\ d \in Slots /\ d # new
      BY ParentIsSlot
    <2> DEFINE e == [made.entries[new] EXCEPT !.data = b]
               entries == [made.entries EXCEPT ![new] = e]
    <2>4. filled = [made EXCEPT !.entries = entries, !.free = s.free \ {b}]
      BY <1>2, <1>4
    <2>5. /\ made \in FsState /\ made.entries \in [Slots -> Entry]
          /\ new \in Slots /\ made.entries[new] \in Entry
          /\ made.entries[new] = NewEntry(name, FILE_TYPE_FILE, NULL, NULL)
      BY <1>2, <1>4 DEF FsState
    <2> HIDE DEF made, d, new, b, filled, name
    <2>6. e = NewEntry(name, FILE_TYPE_FILE, b, NULL)
      BY <2>5 DEF NewEntry
    <2>7. e \in Entry
      BY <2>2, <2>5 DEF Entry
    <2> HIDE DEF e
    <2>8. entries \in [Slots -> Entry] /\ entries[new] = e
          /\ \A f \in Slots \ {new} : entries[f] = made.entries[f]
      BY <2>5, <2>7
    <2> HIDE DEF entries
    <2>9. /\ filled \in FsState /\ filled.next_entry = made.next_entry
          /\ filled.root = made.root /\ filled.current_dir = made.current_dir
          /\ filled.mem = made.mem /\ filled.entries = entries /\ filled.free = s.free \ {b}
      BY <2>2, <2>4, <2>5, <2>8 DEF FsState
    <2>10. /\ filled.next_entry = new /\ filled.root = s.root
           /\ filled.current_dir = s.current_dir /\ filled.mem = s.mem
           /\ \A f \in Slots \ {new} : filled.entries[f] = s.entries[f]
      BY <1>2, <1>4, <2>8, <2>9
    <2> DEFINE t == Linked(filled, new, d)
    <2>11. /\ t \in FsState /\ t.next_entry = new /\ t.root = s.root
           /\ t.current_dir = s.current_dir /\ t.free = s.free \ {b} /\ t.mem = s.mem
           /\ t.entries[new] = [e EXCEPT !.parent = d]
           /\ t.entries[d] = [filled.entries[d] EXCEPT !.children = <<new>> \o @]
           /\ \A g \in Slots \ {d, new} : t.entries[g] = filled.entries[g]
      <3>1. IsLinked(filled, t, new, d)
        BY <2>3, <2>5, <2>9, LinkedFields
      <3> QED
        BY <2>8, <2>9, <2>10, <3>1 DEF IsLinked
    <2> HIDE DEF t
    <2>12. t.entries[new] = NewEntry(name, FILE_TYPE_FILE, b, d)
      BY <2>6, <2>11 DEF NewEntry
    <2>13. filled.entries[d] = s.entries[d]
      BY <2>3, <2>10
    <2>14. Added(s, t, d, name, FILE_TYPE_FILE, b)
      BY <2>10, <2>11, <2>12, <2>13 DEF Added, new
    <2>15. Keeps(s, t) /\ SameTexts(s, t) /\ NewIn(s, t, d, name)
      BY <1>4, <2>2, <2>3, <2>14, AddedKeeps, NotTheRoot DEF name
    <2>16. NewNames(s, t, path)
      BY <1>4, <2>15 DEF NewNames, NewIn, d, name
    <2>17. OneMore(s, t, Cut[Skipped(path)], FILE_TYPE_FILE)
      BY <1>4, <2>3, <2>14, AddedMore DEF new, name
    <2> QED
      BY <2>1, <2>15, <2>16, <2>17 DEF t
  <1> QED
    BY <1>1, <1>3, <1>4

\* filesystem_write_file.
LEMMA WriteKeeps ==
    ASSUME NEW s, FsOK(s), NEW path \in PathType,
           NEW content \in Seq(Chunks)
    PROVE  LET t == filesystem_write_file(s, path, content).fs IN
           Keeps(s, t) /\ NewNames(s, t, path)
  <1> DEFINE r == filesystem_write_file(s, path, content)
             found == filesystem_find_file(s, path)
             touched == IF found # NULL THEN Result(s, 0) ELSE filesystem_touch(s, path)
             u == touched.fs
             file == filesystem_find_file(u, path)
             writes == ~(\/ touched.ret # 0 \/ file = NULL
                         \/ u.entries[file].type # FILE_TYPE_FILE)
  <1>1. Keeps(s, u) /\ SameTexts(s, u) /\ NewNames(s, u, path)
    BY TouchKeeps, NothingChanges DEF Result
  <1>2. CASE ~writes
    <2>1. r.fs = u
      BY <1>2 DEF filesystem_write_file, Result
    <2> QED
      BY <1>1, <2>1
  <1>3. CASE writes
    <2> DEFINE t == Written(u, file, content)
    <2>1. r.fs = t
      BY <1>3 DEF filesystem_write_file, Result
    <2>2. FsOK(u)
      BY <1>1 DEF Keeps
    <2> HIDE DEF u
    <2>3. Found(u, file) /\ u.entries[file].type = FILE_TYPE_FILE
      BY <1>3, <2>2, FindFile DEF PathType
    <2> HIDE DEF file
    <2>4. /\ FsOK(t) /\ Lost(t) \subseteq Lost(u)
          /\ SizesKept(u, t) /\ Extends(u, t) /\ HoldsOn(u, t)
          /\ WithData(t) = WithData(u)
          /\ \A g \in WithData(u) : g # file => TextOf(t, g) = TextOf(u, g)
          /\ \A c \in Slots : /\ t.entries[c].children = u.entries[c].children
                              /\ t.entries[c].name = u.entries[c].name
      BY <2>2, <2>3, WrittenKeeps
    <2> HIDE DEF t
    <2>5. file \in Slots
      BY <2>2, <2>3, SlotFacts DEF Found
    <2>6. OneTextChanges(s, t)
      BY <1>1, <2>4, <2>5 DEF SameTexts, OneTextChanges
    <2>9. Extends(s, t)
      BY <1>1, <2>2, <2>4, ExtendsOn DEF Keeps
    <2>10. SizesKept(s, t) /\ HoldsOn(s, t)
      BY <1>1, <2>4 DEF Keeps, SizesKept, HoldsOn
    <2>7. Keeps(s, t)
      BY <2>4, <1>1, <2>6, <2>9, <2>10 DEF Keeps
    <2>8. NewNames(s, t, path)
      <3>1. \A c \in Slots : ToSet(u.entries[c].children) \subseteq Slots
        BY <2>2, SlotFacts
      <3> QED
        BY <1>1, <2>4, <3>1 DEF NewNames
    <2> QED
      BY <2>1, <2>7, <2>8 DEF t
  <1> QED
    BY <1>2, <1>3

\* filesystem_cd.
LEMMA CdKeeps ==
    ASSUME NEW s, FsOK(s), NEW path \in PathType
    PROVE  LET t == filesystem_cd(s, path).fs IN
           Keeps(s, t) /\ NewNames(s, t, path)
  <1> DEFINE r == filesystem_cd(s, path)
             dir == IF path = <<Empty>> THEN s.root ELSE filesystem_find_file(s, path)
             t == [s EXCEPT !.current_dir = dir]
  <1>1. CASE r.fs = s
    BY <1>1, NothingChanges
  <1>2. CASE r.fs # s
    <2>1. /\ r.fs = t
          /\ path # <<Empty>> => dir # NULL /\ s.entries[dir].type = FILE_TYPE_DIR
      BY <1>2 DEF filesystem_cd, Result
    <2>2. dir \in 1..s.next_entry /\ s.entries[dir].type # FILE_TYPE_FILE
      <3>1. CASE path = <<Empty>>
        BY <3>1 DEF FsOK, Anchored
      <3>2. CASE path # <<Empty>>
        BY <2>1, <3>2, FindFile DEF PathType, Found, FILE_TYPE_DIR, FILE_TYPE_FILE
      <3> QED
        BY <3>1, <3>2
    <2> HIDE DEF dir
    <2>3. dir \in Slots
      BY <2>2, SlotFacts
    <2>4. /\ t \in FsState /\ t.entries = s.entries /\ t.next_entry = s.next_entry
          /\ t.root = s.root /\ t.free = s.free /\ t.mem = s.mem /\ t.current_dir = dir
      BY <2>3 DEF FsOK, FsState
    <2> HIDE DEF t
    <2>5. Used(t) = Used(s) /\ WithData(t) = WithData(s)
      BY <2>4 DEF Used, Files, WithData
    <2>6. FsOK(t)
      BY <2>2, <2>4, <2>5 DEF FsOK, Anchored, ListsSound, ListsComplete, DataOwned
    <2>9. Extends(s, t) /\ HoldsOn(s, t)
      BY <2>4, <2>5, SlotFacts DEF Extends, HoldsOn, HeldOK, Files
    <2>7. Keeps(s, t)
      BY <2>3, <2>4, <2>5, <2>6, <2>9 DEF Keeps, Lost, SizesKept, TextOf, OneTextChanges
    <2>8. NewNames(s, t, path)
      BY <2>4 DEF NewNames
    <2> QED
      BY <2>1, <2>7, <2>8
  <1> QED
    BY <1>1, <1>2

\* filesystem_rm.
LEMMA RmKeeps ==
    ASSUME NEW s, FsOK(s), NEW path \in PathType
    PROVE  LET t == filesystem_rm(s, path).fs IN
           Keeps(s, t) /\ NewNames(s, t, path)
  <1> DEFINE r == filesystem_rm(s, path)
             f == filesystem_find_file(s, path)
             u == Unlinked(s, f)
             t == [u EXCEPT !.free = @ \cup ({s.entries[f].data} \ {NULL})]
  <1>1. CASE f = NULL \/ s.entries[f].type # FILE_TYPE_FILE
    <2>1. r.fs = s
      BY <1>1 DEF filesystem_rm, Result
    <2> QED
      BY <2>1, NothingChanges
  <1>2. CASE ~(f = NULL \/ s.entries[f].type # FILE_TYPE_FILE)
    <2>1. r.fs = t
      BY <1>2 DEF filesystem_rm, Result
    <2>2. Found(s, f) /\ s.entries[f].type = FILE_TYPE_FILE
      BY <1>2, FindFile DEF PathType
    <2> HIDE DEF f
    <2>3. f \in Slots /\ s.entries[f] \in Entry
      BY <2>2, SlotFacts DEF Found
    <2>4. /\ u \in FsState /\ u.next_entry = s.next_entry /\ u.root = s.root
          /\ u.current_dir = s.current_dir /\ u.free = s.free /\ u.mem = s.mem
          /\ \A g \in Slots :
                /\ u.entries[g].used = IF g = f THEN 0 ELSE s.entries[g].used
                /\ u.entries[g].name = s.entries[g].name
                /\ u.entries[g].type = s.entries[g].type
                /\ u.entries[g].size = s.entries[g].size
                /\ u.entries[g].data = s.entries[g].data
                /\ u.entries[g].parent = s.entries[g].parent
                /\ u.entries[g].children =
                      IF g = s.entries[f].parent THEN RemoveFirst(s.entries[g].children, f)
                      ELSE s.entries[g].children
      BY <2>3, UnlinkedFields
    <2> HIDE DEF u
    <2> DEFINE free == s.free \cup ({s.entries[f].data} \ {NULL})
    <2>5. free \subseteq Buffers
      BY <2>3 DEF FsOK, FsState, Entry
    <2>6. t = [u EXCEPT !.free = free]
      BY <2>4
    <2> HIDE DEF t, free
    <2>7. /\ t \in FsState /\ t.next_entry = u.next_entry /\ t.root = u.root
          /\ t.current_dir = u.current_dir /\ t.free = free /\ t.mem = u.mem
          /\ t.entries = u.entries
      BY <2>4, <2>5, <2>6 DEF FsState
    <2>8. Removed(s, t, f)
      BY <2>2, <2>4, <2>7 DEF Removed, free
    <2>9. /\ Keeps(s, t)
          /\ \A c \in Slots : ToSet(t.entries[c].children) \subseteq ToSet(s.entries[c].children)
      <3>1. f # s.root
        BY <2>2 DEF FsOK, Anchored
      <3> QED
        BY <2>2, <2>8, <3>1, RemovedKeeps
    <2>10. NewNames(s, t, path)
      BY <2>9 DEF NewNames
    <2> QED
      BY <2>1, <2>9, <2>10
  <1> QED
    BY <1>1, <1>2

\* filesystem_rmdir.
LEMMA RmdirKeeps ==
    ASSUME NEW s, FsOK(s), NEW path \in PathType
    PROVE  LET t == filesystem_rmdir(s, path).fs IN
           Keeps(s, t) /\ NewNames(s, t, path)
  <1> DEFINE r == filesystem_rmdir(s, path)
             f == filesystem_find_file(s, path)
             t == Unlinked(s, f)
  <1>1. CASE r.fs = s
    BY <1>1, NothingChanges
  <1>2. CASE r.fs # s
    <2>1. r.fs = t /\ f # NULL /\ f # s.root /\ s.entries[f].type = FILE_TYPE_DIR
      BY <1>2 DEF filesystem_rmdir, Result
    <2>2. Found(s, f) /\ s.entries[f].type # FILE_TYPE_FILE
      BY <2>1, FindFile DEF PathType, FILE_TYPE_FILE, FILE_TYPE_DIR
    <2> HIDE DEF f
    <2>3. f \in Slots
      BY <2>2, SlotFacts DEF Found
    <2>4. Removed(s, t, f)
      BY <2>2, <2>3, UnlinkedFields DEF Removed
    <2>5. /\ Keeps(s, t)
          /\ \A c \in Slots : ToSet(t.entries[c].children) \subseteq ToSet(s.entries[c].children)
      BY <2>1, <2>2, <2>4, RemovedKeeps
    <2>6. NewNames(s, t, path)
      BY <2>5 DEF NewNames
    <2> QED
      BY <2>1, <2>5, <2>6
  <1> QED
    BY <1>1, <1>2

\* filesystem_cp.
LEMMA CpKeeps ==
    ASSUME NEW s, FsOK(s), NEW src \in PathType, NEW dest \in PathType
    PROVE  LET t == filesystem_cp(s, src, dest).fs IN
           Keeps(s, t) /\ NewNames(s, t, dest)
  <1> DEFINE r == filesystem_cp(s, src, dest)
             addr == filesystem_read_file(s, src)
             text == StringIn(s.mem[addr])
  <1>1. CASE r.fs = s
    BY <1>1, NothingChanges
  <1>2. CASE r.fs # s
    <2>1. addr # NULL /\ r = filesystem_write_file(s, dest, text)
      BY <1>2 DEF filesystem_cp, Result
    <2>2. s.mem[addr] \in [1..MAX_FILE_SIZE -> Chunks \cup {NUL}]
      <3> DEFINE f == filesystem_find_file(s, src)
      <3>1. f # NULL /\ addr = s.entries[f].data
        BY <2>1 DEF filesystem_read_file
      <3>2. f \in Slots
        BY <3>1, FindFile, SlotFacts DEF PathType, Found
      <3> HIDE DEF f
      <3>3. s.entries[f] \in Entry
        BY <3>2, SlotFacts
      <3>4. addr \in Buffers \cup {NULL} /\ s.mem \in Memory
        BY <3>1, <3>3 DEF Entry, FsOK, FsState
      <3> QED
        BY <3>4 DEF Memory
    <2> HIDE DEF addr
    <2>3. text \in Seq(Chunks)
      BY <2>2, TextIsString
    <2> QED
      BY <2>1, <2>3, WriteKeeps
  <1> QED
    BY <1>1, <1>2

-----------------------------------------------------------------------------
(* Start-up. *)

\* The paths start-up uses and those that callers pass.
LEMMA DirPaths ==
    ASSUME NEW name \in DefaultDirs
    PROVE  /\ <<name>> \in PathType /\ Skipped(<<name>>) = <<name>>
           /\ Cut[<<name>>] = <<name>> /\ name \notin {Empty, ".", ".."}
  <1>1. name # Empty
    BY DEF DefaultDirs, Empty
  <1>2. name \notin {".", ".."}
    BY DEF DefaultDirs
  <1>3. <<name>> \in DefaultNames
    BY DEF DefaultDirs, DefaultNames
  <1>4. <<name>> \in Seq(Text) /\ Len(<<name>>) = 1
    BY DEF Text
  <1>5. Skipped(<<name>>) = <<name>>
    BY <1>4 DEF Skipped, IsAbsolute
  <1> QED
    BY <1>1, <1>2, <1>3, <1>4, <1>5, NameAssumption DEF PathType, PartsType, Asked

LEMMA FilePaths ==
    ASSUME NEW dir, NEW name, <<dir, name>> \in DefaultFiles
    PROVE  /\ <<Empty, dir, name>> \in PathType
           /\ Skipped(<<Empty, dir, name>>) = <<dir, name>>
           /\ Cut[<<dir, name>>] = <<dir, name>> /\ name \notin {Empty, ".", ".."}
           /\ name \notin DefaultDirs
  <1> DEFINE path == <<Empty, dir, name>>
  <1>1. \/ dir = "etc" /\ name = "version"
        \/ dir = "etc" /\ name = "motd"
        \/ dir = "home" /\ name = "readme.txt"
    BY DEF DefaultFiles
  <1>2. name # Empty
    BY <1>1 DEF Empty
  <1>3. /\ dir \in Text /\ name \in Text /\ Empty \in Text
        /\ name \notin {".", ".."} /\ name \notin DefaultDirs
    BY <1>1 DEF DefaultDirs, Text
  <1>4. <<dir, name>> \in DefaultNames
    BY DEF DefaultFiles, DefaultNames
  <1>5. path \in Seq(Text) /\ Len(path) = 3 /\ path[1] = Empty
    BY <1>3
  <1>6. Skipped(path) = <<dir, name>>
    <2>1. IsAbsolute(path)
      BY <1>5 DEF IsAbsolute
    <2>2. Tail(path) = <<dir, name>>
      OBVIOUS
    <2> QED
      BY <2>1, <2>2 DEF Skipped
  <1> QED
    BY <1>2, <1>3, <1>4, <1>5, <1>6, NameAssumption DEF PathType, PartsType, Asked

LEMMA PathsTyped == \A path \in Paths : path \in PathType
  <1> SUFFICES ASSUME NEW path \in Paths PROVE path \in PathType
    OBVIOUS
  <1>1. path \in Seq(STRING) /\ path # <<>> /\ Skipped(path) \in Asked
    BY PathAssumption DEF Asked
  <1>2. path \in Seq(Text)
    <2>1. STRING \subseteq Text
      BY DEF Text
    <2> QED
      BY <1>1, <2>1, SeqMonotonic
  <1> QED
    BY <1>1, <1>2 DEF PathType, PartsType

\* The table while start-up fills it: k entries, of which those whose names have
\* one part, from D, are directories.
Filled(t, k, D) ==
    /\ t.next_entry = k /\ t.current_dir = 1
    /\ \A f \in 1..k : /\ Len(t.entries[f].name) = 1 => \E n \in D : t.entries[f].name = <<n>>
                       /\ t.entries[f].type = FILE_TYPE_FILE => Len(t.entries[f].name) # 1

LEMMA FilledMore ==
    ASSUME NEW k \in Nat, NEW D, NEW E, D \subseteq E, NEW t, Filled(t, k, D), NEW u,
           NEW name, NEW type, OneMore(t, u, name, type),
           Len(name) = 1 => \E n \in E : name = <<n>>,
           type = FILE_TYPE_FILE => Len(name) # 1
    PROVE  Filled(u, k + 1, E)
  <1>1. \A f \in 1..(k + 1) : f \in 1..k \/ f = k + 1
    OBVIOUS
  <1>2. t.next_entry = k
    BY DEF Filled
  <1>3. u.next_entry = k + 1 /\ u.current_dir = 1
    BY <1>2 DEF OneMore, Filled
  <1>4. ASSUME NEW f \in 1..(k + 1)
        PROVE  /\ Len(u.entries[f].name) = 1 => \E n \in E : u.entries[f].name = <<n>>
               /\ u.entries[f].type = FILE_TYPE_FILE => Len(u.entries[f].name) # 1
    <2>1. CASE f \in 1..k
      <3>1. u.entries[f].name = t.entries[f].name /\ u.entries[f].type = t.entries[f].type
        BY <1>2, <2>1 DEF OneMore
      <3> QED
        BY <2>1, <3>1 DEF Filled
    <2>2. CASE f = k + 1
      <3>1. u.entries[f].name = name /\ u.entries[f].type = type
        BY <1>2, <2>2 DEF OneMore
      <3> QED
        BY <3>1
    <2> QED
      BY <1>1, <2>1, <2>2
  <1> QED
    BY <1>3, <1>4 DEF Filled

\* A default name nobody has: the lookup finds nothing.
LEMMA DefaultFree ==
    ASSUME NEW t, FsOK(t), NEW k \in Nat, NEW D, Filled(t, k, D), NEW path \in PartsType,
           path[Len(path)] \notin D, path[Len(path)] \notin {Empty, ".", ".."}
    PROVE  filesystem_find_file(t, path) = NULL
  <1> DEFINE name == path[Len(path)]
  <1>1. \A g \in 1..t.next_entry : t.entries[g].name # <<name>>
    <2> HIDE DEF name
    <2> SUFFICES ASSUME NEW g \in 1..t.next_entry, t.entries[g].name = <<name>> PROVE FALSE
      OBVIOUS
    <2>1. Len(t.entries[g].name) = 1 /\ g \in 1..k
      BY DEF Filled
    <2>2. PICK n \in D : t.entries[g].name = <<n>>
      BY <2>1 DEF Filled
    <2>3. n = name
      BY <2>2
    <2> QED
      BY <2>2, <2>3 DEF name
  <1>2. path # <<".">> /\ path # <<"..">>
    <2>1. ASSUME NEW x, path = <<x>> PROVE name = x
      BY <2>1
    <2> QED
      BY <2>1
  <1> QED
    BY <1>1, <1>2, NoneCalled

\* One of the directories of start-up, and one of its files.
LEMMA MkdirFills ==
    ASSUME NEW t, FsOK(t), NEW k \in 1..7, NEW D, Filled(t, k, D),
           NEW name \in DefaultDirs, name \notin D
    PROVE  Filled(filesystem_mkdir(t, <<name>>).fs, k + 1, D \cup {name})
  <1> DEFINE path == <<name>>
  <1>1. /\ path \in PathType /\ Skipped(path) = path /\ Cut[path] = path
        /\ name \notin {Empty, ".", ".."} /\ Len(path) = 1 /\ path[Len(path)] = name
    BY DirPaths
  <1>2. \E n \in D \cup {name} : path = <<n>>
    OBVIOUS
  <1> HIDE DEF path
  <1>3. filesystem_find_file(t, path) = NULL
    <2>1. path \in PartsType /\ k \in Nat
      BY <1>1, SkippedTyped
    <2>2. path[Len(path)] \notin D /\ path[Len(path)] \notin {Empty, ".", ".."}
      BY <1>1
    <2> QED
      BY <2>1, <2>2, DefaultFree
  <1>4. ~Full(t)
    BY TableAssumption DEF Filled, Full
  <1>5. OneMore(t, filesystem_mkdir(t, path).fs, path, FILE_TYPE_DIR)
    BY <1>1, <1>3, <1>4, MkdirKeeps DEF CanMake
  <1>6. Filled(filesystem_mkdir(t, path).fs, k + 1, D \cup {name})
    BY <1>2, <1>5, FilledMore DEF FILE_TYPE_FILE, FILE_TYPE_DIR
  <1> QED
    BY <1>6 DEF path

LEMMA WriteFills ==
    ASSUME NEW t, FsOK(t), NEW k \in 1..7, NEW D, D \subseteq DefaultDirs, Filled(t, k, D),
           NEW dir, NEW name, <<dir, name>> \in DefaultFiles
    PROVE  Filled(filesystem_write_file(t, <<Empty, dir, name>>, <<Garbage>>).fs, k + 1, D)
  <1> DEFINE path == <<Empty, dir, name>>
             stored == <<dir, name>>
             u == filesystem_touch(t, path).fs
             r == filesystem_write_file(t, path, <<Garbage>>)
  <1>1. /\ path \in PathType /\ Skipped(path) = stored /\ Cut[stored] = stored
        /\ name \notin {Empty, ".", ".."} /\ name \notin D
    BY FilePaths
  <1>2. path[Len(path)] = name /\ stored[Len(stored)] = name /\ Len(stored) = 2
    OBVIOUS
  <1> HIDE DEF path, stored
  <1>3. path \in PartsType /\ stored \in PartsType
    BY <1>1, SkippedTyped
  <1>4. k \in Nat /\ k + 1 \in Nat
    OBVIOUS
  <1>5. filesystem_find_file(t, path) = NULL /\ filesystem_find_file(t, stored) = NULL
    BY <1>1, <1>2, <1>3, <1>4, DefaultFree
  <1>6. ~Full(t)
    BY TableAssumption DEF Filled, Full
  <1>7. Keeps(t, u) /\ OneMore(t, u, stored, FILE_TYPE_FILE)
    BY <1>1, <1>5, <1>6, TouchKeeps DEF CanMake
  <1> HIDE DEF u
  <1>8. Filled(u, k + 1, D)
    <2>1. Len(stored) # 1 /\ D \subseteq D
      BY <1>2
    <2> QED
      BY <1>4, <1>7, <2>1, FilledMore
  <1>9. filesystem_find_file(u, path) = NULL
    BY <1>1, <1>2, <1>3, <1>4, <1>7, <1>8, DefaultFree DEF Keeps
  <1>10. r.fs = u
    BY <1>5, <1>9 DEF filesystem_write_file, Result, u
  <1> QED
    BY <1>8, <1>10 DEF path

\* filesystem_init on any table without lists, whatever else is in it: the root
\* is slot 1, and the three files have names no lookup finds.
LEMMA FreshKeeps ==
    ASSUME NEW s, s \in FsState, \A d \in Slots : s.entries[d].children = <<>>
    PROVE  LET t == filesystem_init(s) IN
           /\ FsOK(t) /\ Lost(t) \subseteq Buffers \ s.free /\ Sized(t)
           /\ HeldOK(t) /\ t.mem[NULL] = s.mem[NULL]
           /\ t.root = 1 /\ t.entries[1].used = 1 /\ t.entries[1].name = RootName
           /\ t.entries[1].type = FILE_TYPE_DIR
           /\ \A f \in Slots \ {1} :
                 t.entries[f].name = s.entries[f].name \/ t.entries[f].name # RootName
           /\ \E D : Filled(t, 8, D)
  <1> DEFINE empty == [s EXCEPT !.next_entry = 0]
             made == filesystem_create_file(empty, RootName, FILE_TYPE_DIR)
             root == [made EXCEPT !.root = 1, !.current_dir = 1]
  <1>1. MAX_ENTRIES \in Nat /\ MAX_ENTRIES >= 8 /\ MAX_FILE_SIZE \in Nat
    BY TableAssumption
  <1>2. /\ empty \in FsState /\ empty.next_entry = 0 /\ empty.entries = s.entries
        /\ empty.free = s.free /\ empty.mem = s.mem
    BY <1>1 DEF FsState
  <1> HIDE DEF empty
  <1>3. ~Full(empty) /\ Cut[RootName] = RootName /\ RootName \in Names /\ FILE_TYPE_DIR # FILE_TYPE_FILE
    <2>1. ~Full(empty)
      BY <1>1, <1>2 DEF Full
    <2>2. Cut[RootName] = RootName /\ RootName \in Names
      BY NameAssumption DEF Names, Asked, DefaultNames
    <2> QED
      BY <2>1, <2>2 DEF FILE_TYPE_DIR, FILE_TYPE_FILE
  <1>4. /\ made \in FsState /\ made.next_entry = 1 /\ made.free = s.free /\ made.mem = s.mem
        /\ 1 \in Slots /\ made.entries[1] = NewEntry(RootName, FILE_TYPE_DIR, NULL, NULL)
        /\ \A f \in Slots \ {1} : made.entries[f] = s.entries[f]
    <2>1. empty.next_entry + 1 = 1
      BY <1>2
    <2> QED
      BY <1>2, <1>3, <2>1, Created
  <1> HIDE DEF made
  <1>5. /\ root \in FsState /\ root.next_entry = 1 /\ root.free = s.free
        /\ root.entries = made.entries /\ root.root = 1 /\ root.current_dir = 1
        /\ root.mem = s.mem
    BY <1>4 DEF FsState
  <1> HIDE DEF root
  <1>6. /\ root.entries[1].type = FILE_TYPE_DIR /\ root.entries[1].parent = NULL
        /\ \A d \in Slots : root.entries[d].children = <<>>
    BY <1>4, <1>5 DEF NewEntry
  <1>7. Used(root) \subseteq {1} /\ WithData(root) = {}
    <2>1. Used(root) \subseteq {1}
      BY <1>5 DEF Used
    <2> QED
      BY <1>3, <1>6, <2>1 DEF WithData, Files
  <1>8. FsOK(root)
    <2>1. Anchored(root)
      BY <1>3, <1>5, <1>6 DEF Anchored
    <2>2. ListsSound(root)
      <3>1. IsInjective(<<>>) /\ ToSet(<<>>) = {}
        BY DEF IsInjective, ToSet
      <3> QED
        BY <1>6, <3>1 DEF ListsSound
    <2>3. ListsComplete(root)
      BY <1>6, <1>7 DEF ListsComplete
    <2>4. DataOwned(root)
      BY <1>7 DEF DataOwned
    <2> QED
      BY <1>5, <2>1, <2>2, <2>3, <2>4 DEF FsOK
  <1>9. Lost(root) = Buffers \ s.free /\ Sized(root)
    BY <1>5, <1>7 DEF Lost, Sized
  <1>16. HeldOK(root) /\ Extends(root, root)
    <2>1. Files(root) = {}
      BY <1>3, <1>6, <1>7 DEF Files
    <2> QED
      BY <1>8, <2>1, NothingChanges DEF HeldOK, Keeps
  <1> DEFINE Good(t) == /\ FsOK(t) /\ Lost(t) \subseteq Buffers \ s.free /\ Sized(t)
                        /\ HeldOK(t) /\ t.mem[NULL] = s.mem[NULL] /\ Extends(root, t)
             mkdir(t, name) == filesystem_mkdir(t, <<name>>).fs
             write(t, dir, name) ==
                filesystem_write_file(t, <<Empty, dir, name>>, <<Garbage>>).fs
  <1>10. ASSUME NEW t, Good(t), NEW name \in DefaultDirs PROVE Good(mkdir(t, name))
    <2>1. Keeps(t, mkdir(t, name))
      BY <1>10, MkdirKeeps, DirPaths
    <2>2. Extends(root, mkdir(t, name))
      BY <1>8, <1>10, <2>1, ExtendsOn DEF Keeps
    <2> QED
      BY <1>10, <2>1, <2>2, SizesStay DEF Keeps, HoldsOn
  <1>11. ASSUME NEW t, Good(t), NEW dir, NEW name, <<dir, name>> \in DefaultFiles
         PROVE  Good(write(t, dir, name))
    <2>1. <<Garbage>> \in Seq(Chunks)
      BY TableAssumption
    <2> DEFINE path == <<Empty, dir, name>>
    <2>2. path \in PathType
      BY <1>11, FilePaths
    <2> HIDE DEF path
    <2>3. Keeps(t, filesystem_write_file(t, path, <<Garbage>>).fs)
      BY <1>11, <2>1, <2>2, WriteKeeps
    <2>4. Extends(root, filesystem_write_file(t, path, <<Garbage>>).fs)
      BY <1>8, <1>11, <2>3, ExtendsOn DEF Keeps
    <2> QED
      BY <1>11, <2>3, <2>4, SizesStay DEF Keeps, HoldsOn, path
  <1>20. Filled(root, 1, {})
    <2>1. Len(root.entries[1].name) = 2
      BY <1>4, <1>5 DEF NewEntry, RootName
    <2>2. \A f \in 1..1 : f = 1
      OBVIOUS
    <2> QED
      BY <1>3, <1>5, <1>6, <2>1, <2>2 DEF Filled
  <1>12. /\ "bin" \in DefaultDirs /\ "home" \in DefaultDirs /\ "etc" \in DefaultDirs
         /\ "tmp" \in DefaultDirs
         /\ <<"etc", "version">> \in DefaultFiles /\ <<"etc", "motd">> \in DefaultFiles
         /\ <<"home", "readme.txt">> \in DefaultFiles
    BY DEF DefaultDirs, DefaultFiles
  <1>13. filesystem_init(s) =
           write(write(write(mkdir(mkdir(mkdir(mkdir(root, "bin"), "home"), "etc"), "tmp"),
                             "etc", "version"), "etc", "motd"), "home", "readme.txt")
    BY DEF filesystem_init, root, made, empty
  <1>14. Good(root)
    BY <1>5, <1>8, <1>9, <1>16
  <1>21. ASSUME NEW t, Good(t), NEW k \in 1..7, NEW D, Filled(t, k, D),
                NEW name \in DefaultDirs, name \notin D
         PROVE  Filled(mkdir(t, name), k + 1, D \cup {name})
    BY <1>21, MkdirFills
  <1>22. ASSUME NEW t, Good(t), NEW k \in 1..7, NEW D, D \subseteq DefaultDirs, Filled(t, k, D),
                NEW dir, NEW name, <<dir, name>> \in DefaultFiles
         PROVE  Filled(write(t, dir, name), k + 1, D)
    BY <1>22, WriteFills
  <1> HIDE DEF Good, mkdir, write
  <1> DEFINE d2 == mkdir(root, "bin")
             d3 == mkdir(d2, "home")
             d4 == mkdir(d3, "etc")
             d5 == mkdir(d4, "tmp")
             d6 == write(d5, "etc", "version")
             d7 == write(d6, "etc", "motd")
             d8 == write(d7, "home", "readme.txt")
  <1>23. Good(d2) /\ Good(d3) /\ Good(d4) /\ Good(d5) /\ Good(d6) /\ Good(d7) /\ Good(d8)
    BY <1>10, <1>11, <1>12, <1>14
  <1> DEFINE D2 == {} \cup {"bin"}
             D3 == D2 \cup {"home"}
             D4 == D3 \cup {"etc"}
             D5 == D4 \cup {"tmp"}
  <1>24. /\ "bin" \notin {} /\ "home" \notin D2 /\ "etc" \notin D3 /\ "tmp" \notin D4
         /\ D5 \subseteq DefaultDirs
    BY DEF DefaultDirs
  <1> HIDE DEF D2, D3, D4, D5, d2, d3, d4, d5, d6, d7, d8
  <1>25. Filled(d8, 8, D5)
    <2>1. Filled(d2, 2, D2)
      BY <1>12, <1>14, <1>20, <1>21, <1>24 DEF D2, d2
    <2>2. Filled(d3, 3, D3)
      BY <1>12, <1>23, <1>21, <1>24, <2>1 DEF D3, d3
    <2>3. Filled(d4, 4, D4)
      BY <1>12, <1>23, <1>21, <1>24, <2>2 DEF D4, d4
    <2>4. Filled(d5, 5, D5)
      BY <1>12, <1>23, <1>21, <1>24, <2>3 DEF D5, d5
    <2>5. Filled(d6, 6, D5)
      BY <1>12, <1>23, <1>22, <1>24, <2>4 DEF d6
    <2>6. Filled(d7, 7, D5)
      BY <1>12, <1>23, <1>22, <1>24, <2>5 DEF d7
    <2> QED
      BY <1>12, <1>23, <1>22, <1>24, <2>6 DEF d8
  <1>26. filesystem_init(s) = d8
    BY <1>13 DEF d2, d3, d4, d5, d6, d7, d8
  <1>15. Good(filesystem_init(s))
    BY <1>23, <1>26
  <1>17. /\ root.entries[1].used = 1 /\ root.entries[1].name = RootName
         /\ ~(1 > root.next_entry) /\ \A f \in Slots \ {1} : root.entries[f] = s.entries[f]
    BY <1>4, <1>5 DEF NewEntry
  <1> DEFINE t == filesystem_init(s)
  <1>18. Extends(root, t)
    BY <1>15 DEF Good
  <1> HIDE DEF t
  <1>19. /\ t.root = 1 /\ t.entries[1].used = 1 /\ t.entries[1].name = RootName
         /\ t.entries[1].type = FILE_TYPE_DIR
         /\ \A f \in Slots \ {1} :
               t.entries[f].name = s.entries[f].name \/ t.entries[f].name # RootName
    BY <1>4, <1>5, <1>6, <1>17, <1>18 DEF Extends
  <1> QED
    BY <1>15, <1>19, <1>25, <1>26 DEF Good, t

\* Memory after memory_init is as filesystem_init needs it.
LEMMA BootedFs ==
    /\ Booted \in FsState /\ Booted.free = Buffers
    /\ \A d \in Slots : Booted.entries[d].children = <<>>
  <1>1. ZeroEntry \in Entry
    <2>1. <<>> \in Seq(Slots) /\ <<Empty>> \in Names /\ 0 \in 0..MAX_FILE_SIZE
      BY TableAssumption, EmptyName
    <2> QED
      BY <2>1 DEF ZeroEntry, Entry
  <1>2. [f \in Slots |-> ZeroEntry] \in [Slots -> Entry]
    BY <1>1
  <1>3. [b \in Buffers \cup {NULL} |-> [i \in 1..MAX_FILE_SIZE |-> Garbage]] \in Memory
    BY TableAssumption DEF Memory
  <1>4. 0 \in 0..MAX_ENTRIES
    BY TableAssumption
  <1>5. Booted \in FsState
    BY <1>2, <1>3, <1>4 DEF Booted, FsState
  <1>6. Booted.free = Buffers /\ \A d \in Slots : Booted.entries[d].children = <<>>
    BY DEF Booted, ZeroEntry
  <1> QED
    BY <1>5, <1>6

LEMMA InitFs == FsOK(InitialFs) /\ Lost(InitialFs) = {} /\ Sized(InitialFs)
  <1>1. Lost(InitialFs) \subseteq Buffers \ Buffers
    BY BootedFs, FreshKeeps DEF InitialFs
  <1> QED
    BY <1>1, BootedFs, FreshKeeps DEF InitialFs

-----------------------------------------------------------------------------
(* The invariants. *)

\* Every step of the file system keeps what the operations promise.
LEMMA StepKeeps ==
    ASSUME FsOK(fs), Next
    PROVE  \E path \in Paths : Keeps(fs, fs') /\ NewNames(fs, fs', path)
  <1> USE PathsTyped
  <1>1. ASSUME NEW path \in Paths, Mkdir(path)
        PROVE  Keeps(fs, fs') /\ NewNames(fs, fs', path)
    BY <1>1, MkdirKeeps DEF Mkdir
  <1>2. ASSUME NEW path \in Paths, Touch(path)
        PROVE  Keeps(fs, fs') /\ NewNames(fs, fs', path)
    BY <1>2, TouchKeeps DEF Touch
  <1>3. ASSUME NEW path \in Paths, Cd(path)
        PROVE  Keeps(fs, fs') /\ NewNames(fs, fs', path)
    BY <1>3, CdKeeps DEF Cd
  <1>4. ASSUME NEW path \in Paths, Rm(path)
        PROVE  Keeps(fs, fs') /\ NewNames(fs, fs', path)
    BY <1>4, RmKeeps DEF Rm
  <1>5. ASSUME NEW path \in Paths, Rmdir(path)
        PROVE  Keeps(fs, fs') /\ NewNames(fs, fs', path)
    BY <1>5, RmdirKeeps DEF Rmdir
  <1>6. ASSUME NEW path \in Paths, NEW content \in Contents, Write(path, content)
        PROVE  Keeps(fs, fs') /\ NewNames(fs, fs', path)
    <2>1. content \in Seq(Chunks)
      BY TableAssumption
    <2> QED
      BY <1>6, <2>1, WriteKeeps DEF Write
  <1>7. ASSUME NEW src \in Paths, NEW dest \in Paths, Cp(src, dest)
        PROVE  Keeps(fs, fs') /\ NewNames(fs, fs', dest)
    BY <1>7, CpKeeps DEF Cp
  <1> QED
    BY <1>1, <1>2, <1>3, <1>4, <1>5, <1>6, <1>7 DEF Next

\* The strengthening that is inductive: beside the four invariants it says
\* that parents and the current directory are never files.
IInv == FsOK(fs) /\ Lost(fs) = {} /\ Sized(fs)

LEMMA StepIInv == IInv /\ [Next]_fs => IInv'
  <1> SUFFICES ASSUME IInv, [Next]_fs PROVE IInv'
    OBVIOUS
  <1>1. CASE Next
    <2>1. Keeps(fs, fs')
      BY <1>1, StepKeeps DEF IInv
    <2> QED
      BY <2>1, SizesStay DEF Keeps, IInv
  <1>2. CASE UNCHANGED fs
    BY <1>2 DEF IInv
  <1> QED
    BY <1>1, <1>2

THEOREM FileSystemInvariant == Spec => []IInv
  <1>1. Init => IInv
    BY InitFs DEF Init, IInv
  <1> QED
    BY <1>1, StepIInv, PTL DEF Spec

\* Types of the table and of the heap.
THEOREM TypesCorrect == Spec => []TypeOK
  <1>1. IInv => TypeOK
    <2> SUFFICES ASSUME IInv PROVE TypeOK
      OBVIOUS
    <2>1. fs \in FsState /\ Anchored(fs)
      BY DEF IInv, FsOK
    <2>2. /\ fs.entries \in [Slots -> Entry] /\ fs.next_entry \in 0..MAX_ENTRIES
          /\ fs.free \subseteq Buffers /\ fs.mem \in Memory
      BY <2>1 DEF FsState
    <2>3. fs.root \in Slots /\ fs.current_dir \in Slots
      BY <2>1, SlotFacts DEF Anchored, IInv
    <2>4. \A f \in Slots : fs.entries[f] \in Entry
      BY <2>2
    <2>5. \A f \in Slots :
             /\ fs.entries[f].used \in 0..1
             /\ fs.entries[f].name \in Names
             /\ fs.entries[f].type \in {0, FILE_TYPE_FILE, FILE_TYPE_DIR}
             /\ fs.entries[f].size \in 0..MAX_FILE_SIZE
             /\ fs.entries[f].data \in Buffers \cup {NULL}
             /\ fs.entries[f].parent \in Slots \cup {NULL}
             /\ fs.entries[f].children \in Seq(Slots)
      BY <2>4 DEF Entry
    <2> QED
      BY <2>2, <2>3, <2>5 DEF TypeOK, Memory
  <1> QED
    BY <1>1, FileSystemInvariant, PTL

\* The table is a tree: every list is sound and complete, and parents come
\* before their entries, so the walks of the code end.
THEOREM TreeIsConsistent == Spec => []TreeConsistent
  <1>1. IInv => TreeConsistent
    <2> SUFFICES ASSUME IInv PROVE TreeConsistent
      OBVIOUS
    <2>1. FsOK(fs)
      BY DEF IInv
    <2>2. NULL \notin Slots
      BY <2>1, SlotFacts
    <2> QED
      BY <2>1, <2>2 DEF FsOK, ListsSound, ListsComplete, TreeConsistent
  <1> QED
    BY <1>1, FileSystemInvariant, PTL

\* No buffer is leaked or shared, whatever is created and removed.
THEOREM BuffersAreOwned == Spec => []BuffersOwned
  <1>1. IInv => BuffersOwned
    <2> SUFFICES ASSUME IInv PROVE BuffersOwned
      OBVIOUS
    <2>1. FsOK(fs) /\ Lost(fs) = {}
      BY DEF IInv
    <2>2. \A f \in WithData(fs) : fs.entries[f].data \in Buffers
      <3> SUFFICES ASSUME NEW f \in WithData(fs) PROVE fs.entries[f].data \in Buffers
        OBVIOUS
      <3>1. f \in Slots /\ fs.entries[f].data # NULL
        BY <2>1, SlotFacts DEF WithData, Files, Used
      <3> QED
        BY <2>1, <3>1, SlotFacts DEF Entry
    <2>3. \A f \in WithData(fs) : fs.entries[f].data \notin fs.free
      BY <2>1 DEF FsOK, DataOwned
    <2>4. {fs.entries[f].data : f \in WithData(fs)} = Buffers \ fs.free
      BY <2>1, <2>2, <2>3 DEF Lost
    <2> QED
      BY <2>1, <2>4 DEF FsOK, DataOwned, BuffersOwned
  <1> QED
    BY <1>1, FileSystemInvariant, PTL

\* The recorded size of a file is the length of its text.
THEOREM SizesAreLengths == Spec => []SizeIsLength
  <1>1. IInv => SizeIsLength
    BY DEF IInv, Sized, SizeIsLength
  <1> QED
    BY <1>1, FileSystemInvariant, PTL

\* One command changes the text of one file at most.
THEOREM OthersKeepTheirTextCorrect == Spec => OthersKeepTheirText
  <1>1. IInv /\ [Next]_fs =>
          [Cardinality({f \in WithData(fs) \cap WithData(fs') :
                           TextOf(fs, f) # TextOf(fs', f)}) <= 1]_fs
    <2> SUFFICES ASSUME IInv, Next
                 PROVE  Cardinality({f \in WithData(fs) \cap WithData(fs') :
                                        TextOf(fs, f) # TextOf(fs', f)}) <= 1
      OBVIOUS
    <2> DEFINE C == {f \in WithData(fs) \cap WithData(fs') : TextOf(fs, f) # TextOf(fs', f)}
    <2>1. OneTextChanges(fs, fs')
      BY StepKeeps DEF IInv, Keeps
    <2>2. PICK f \in Slots : \A g \in WithData(fs) \cap WithData(fs') :
                                g # f => TextOf(fs', g) = TextOf(fs, g)
      BY <2>1 DEF OneTextChanges
    <2>3. C \subseteq {f}
      BY <2>2
    <2> HIDE DEF C
    <2>4. Cardinality(C) <= Cardinality({f}) /\ Cardinality({f}) = 1
      BY <2>3, FS_Singleton, FS_Subset
    <2> QED
      BY <2>4 DEF C
  <1> QED
    BY <1>1, FileSystemInvariant, PTL DEF Spec, OthersKeepTheirText

\* A directory gets a second entry of a name only where the check does not
\* look: the search of filesystem_find_file from the current directory is
\* complete for the names of one part, and finds them as they are stored.
THEOREM SecondNameOnlyUnseenCorrect == Spec => SecondNameOnlyUnseen
  <1> DEFINE Unseen(d, f) ==
                LET name == fs'.entries[f].name IN
                /\ f \in ToSet(fs'.entries[d].children) \ ToSet(fs.entries[d].children)
                /\ \E g \in ToSet(fs.entries[d].children) : fs.entries[g].name = name
                => \/ d = fs.root /\ fs.current_dir # fs.root
                   \/ Len(name) # 1
                   \/ \E n \in Asked : Cut[n] # n /\ name = Cut[n]
  <1>1. ASSUME IInv, Next, NEW d \in Slots, NEW f \in Slots PROVE Unseen(d, f)
    <2> DEFINE name == fs'.entries[f].name
    <2> SUFFICES ASSUME f \in ToSet(fs'.entries[d].children) \ ToSet(fs.entries[d].children),
                        NEW g \in ToSet(fs.entries[d].children), fs.entries[g].name = name,
                        ~(d = fs.root /\ fs.current_dir # fs.root), Len(name) = 1,
                        \A n \in Asked : name = Cut[n] => Cut[n] = n
                 PROVE  FALSE
      OBVIOUS
    <2>1. FsOK(fs)
      BY <1>1 DEF IInv
    <2>2. PICK path \in Paths : NewNames(fs, fs', path)
      BY <1>1, <2>1, StepKeeps
    <2> DEFINE n == Skipped(path)
    <2>3. /\ d = ParentFor(fs, path) /\ name = Cut[n]
          /\ filesystem_find_file(fs, n) = NULL
      BY <2>2 DEF NewNames
    <2>4. d = fs.current_dir
      BY <2>3 DEF ParentFor
    <2>5. n \in Asked /\ n \in PartsType
      BY PathsTyped, SkippedTyped DEF Asked
    <2> HIDE DEF name, n
    <2>6. name = n /\ Len(n) = 1
      BY <2>3, <2>5
    <2>7. n = <<n[1]>> /\ n[1] \in Text
      BY <2>5, <2>6 DEF PartsType
    <2> QED
      BY <2>1, <2>3, <2>4, <2>6, <2>7, NotFound
  <1>2. IInv /\ [Next]_fs => [\A d \in Slots, f \in Slots : Unseen(d, f)]_fs
    <2> HIDE DEF Unseen
    <2> QED
      BY <1>1
  <1> QED
    BY <1>2, FileSystemInvariant, PTL DEF Spec, SecondNameOnlyUnseen

-----------------------------------------------------------------------------
(* Save, load and format. *)

-----------------------------------------------------------------------------
(* A set of slots in table order. *)

\* The slots up to n, as a function of n.
IsOrder(f, slots, n) ==
    f = [k \in 0..n |-> IF k = 0 THEN <<>>
                        ELSE IF k \in slots THEN Append(f[k - 1], k) ELSE f[k - 1]]

LEMMA OrderExists ==
    ASSUME NEW slots, NEW n \in Nat
    PROVE  \E f : IsOrder(f, slots, n)
  <1> DEFINE Grown(q, k) == IF k \in slots THEN Append(q, k) ELSE q
             Bad == {m \in Nat : ~\E f : IsOrder(f, slots, m)}
  <1>1. SUFFICES ASSUME Bad # {} PROVE FALSE
    OBVIOUS
  <1>2. PICK m \in Bad : \A k \in Bad : m <= k
    <2>1. Bad \in SUBSET Nat
      OBVIOUS
    <2> HIDE DEF Bad
    <2> QED
      BY <1>1, <2>1, LeastNatural
  <1>3. m \in Nat /\ \A f : ~IsOrder(f, slots, m)
    OBVIOUS
  <1>4. CASE m = 0
    <2> DEFINE f == [k \in 0..0 |-> <<>>]
    <2>1. IsOrder(f, slots, 0)
      BY DEF IsOrder
    <2> QED
      BY <1>3, <1>4, <2>1
  <1>5. CASE m # 0
    <2>1. m - 1 \in Nat /\ m - 1 \notin Bad
      BY <1>2, <1>3, <1>5
    <2>2. PICK f : IsOrder(f, slots, m - 1)
      BY <2>1
    <2> DEFINE g == [k \in 0..m |-> IF k = m THEN Grown(f[m - 1], m) ELSE f[k]]
    <2>3. \A k \in 0..(m - 1) : f[k] = IF k = 0 THEN <<>> ELSE Grown(f[k - 1], k)
      BY <2>2 DEF IsOrder
    <2> HIDE DEF Grown
    <2>4. ASSUME NEW k \in 0..m
          PROVE  g[k] = IF k = 0 THEN <<>> ELSE Grown(g[k - 1], k)
      <3>1. CASE k = m
        <4>1. m # 0 /\ m - 1 \in 0..m /\ m - 1 # m
          BY <1>3, <1>5
        <4>2. g[m - 1] = f[m - 1]
          BY <4>1
        <4>3. g[m] = Grown(f[m - 1], m)
          BY <1>3
        <4> QED
          BY <3>1, <4>1, <4>2, <4>3
      <3>2. CASE k # m
        <4>1. k \in 0..(m - 1) /\ g[k] = f[k]
          BY <1>3, <3>2
        <4>2. CASE k = 0
          BY <2>3, <4>1, <4>2
        <4>3. CASE k # 0
          <5>1. k - 1 \in 0..m /\ k - 1 # m
            BY <1>3, <3>2, <4>3
          <5>2. g[k - 1] = f[k - 1]
            BY <5>1
          <5> QED
            BY <2>3, <4>1, <4>3, <5>2
        <4> QED
          BY <4>2, <4>3
      <3> QED
        BY <3>1, <3>2
    <2>5. g = [k \in 0..m |-> g[k]]
      OBVIOUS
    <2> HIDE DEF g
    <2>6. IsOrder(g, slots, m)
      BY <2>4, <2>5 DEF IsOrder, Grown
    <2> QED
      BY <1>3, <2>6
  <1> QED
    BY <1>4, <1>5

\* Appending an element that is not in a list.
LEMMA Appended ==
    ASSUME NEW S, NEW list \in Seq(S), NEW e \in S,
           IsInjective(list), e \notin ToSet(list)
    PROVE  /\ Append(list, e) \in Seq(S) /\ IsInjective(Append(list, e))
           /\ ToSet(Append(list, e)) = ToSet(list) \cup {e}
  <1> DEFINE L == Append(list, e)
             n == Len(list)
  <1>1. n \in Nat /\ \A i \in 1..n : list[i] \in S
    OBVIOUS
  <1>2. L \in Seq(S) /\ Len(L) = n + 1
    OBVIOUS
  <1>3. \A i \in 1..(n + 1) : L[i] = IF i <= n THEN list[i] ELSE e
    OBVIOUS
  <1>4. DOMAIN list = 1..n /\ DOMAIN L = 1..(n + 1)
    BY <1>2
  <1> HIDE DEF L, n
  <1>5. \A i \in 1..n : list[i] # e
    BY <1>4 DEF ToSet
  <1>6. \A i, j \in 1..n : list[i] = list[j] => i = j
    BY <1>4 DEF IsInjective
  <1>7. ToSet(L) = {L[i] : i \in 1..(n + 1)} /\ ToSet(list) = {list[i] : i \in 1..n}
    BY <1>4 DEF ToSet
  <1>8. IsInjective(L)
    BY <1>1, <1>3, <1>4, <1>5, <1>6 DEF IsInjective
  <1>9. ToSet(L) = ToSet(list) \cup {e}
    <2>1. 1..(n + 1) = (1..n) \cup {n + 1}
      BY <1>1
    <2>2. L[n + 1] = e /\ \A i \in 1..n : L[i] = list[i]
      BY <1>1, <1>3
    <2> QED
      BY <1>7, <2>1, <2>2
  <1> QED
    BY <1>2, <1>8, <1>9 DEF L

\* The list of a set of slots has each of them once.
LEMMA OrderLists ==
    ASSUME NEW slots \in SUBSET Slots
    PROVE  /\ InTableOrder(slots) \in Seq(Slots) /\ IsInjective(InTableOrder(slots))
           /\ ToSet(InTableOrder(slots)) = slots
  <1> DEFINE f == CHOOSE g : IsOrder(g, slots, MAX_ENTRIES)
  <1>1. InTableOrder(slots) = f[MAX_ENTRIES]
    BY DEF InTableOrder, IsOrder
  <1>2. MAX_ENTRIES \in Nat
    BY TableAssumption
  <1>3. IsOrder(f, slots, MAX_ENTRIES)
    BY <1>2, OrderExists
  <1> HIDE DEF f
  <1>4. \A k \in 0..MAX_ENTRIES :
           f[k] = IF k = 0 THEN <<>>
                  ELSE IF k \in slots THEN Append(f[k - 1], k) ELSE f[k - 1]
    BY <1>3 DEF IsOrder
  <1> DEFINE Right(k) == /\ f[k] \in Seq(Slots) /\ IsInjective(f[k])
                         /\ ToSet(f[k]) = slots \cap (1..k)
             Bad == {k \in 0..MAX_ENTRIES : ~Right(k)}
  <1>5. ASSUME Bad # {} PROVE FALSE
    <2>1. Bad \in SUBSET Nat
      BY <1>2
    <2>2. PICK m \in Bad : \A k \in Bad : m <= k
      <3> HIDE DEF Bad
      <3> QED
        BY <1>5, <2>1, LeastNatural
    <2>3. m \in 0..MAX_ENTRIES /\ ~Right(m)
      BY <2>2
    <2>4. m # 0
      <3>1. f[0] = <<>>
        BY <1>2, <1>4
      <3>2. <<>> \in Seq(Slots) /\ IsInjective(<<>>) /\ ToSet(<<>>) = {}
        BY DEF IsInjective, ToSet
      <3>3. slots \cap (1..0) = {}
        OBVIOUS
      <3> QED
        BY <2>3, <3>1, <3>2, <3>3
    <2>5. m - 1 \in 0..MAX_ENTRIES /\ m - 1 \notin Bad
      BY <1>2, <2>2, <2>3, <2>4
    <2>6. Right(m - 1)
      BY <2>5
    <2>7. /\ m \notin ToSet(f[m - 1]) /\ 1..m = (1..(m - 1)) \cup {m}
      BY <1>2, <2>3, <2>4, <2>6
    <2>8. CASE m \in slots
      <3>1. f[m] = Append(f[m - 1], m)
        BY <1>4, <2>3, <2>4, <2>8
      <3>2. slots \cap (1..m) = (slots \cap (1..(m - 1))) \cup {m}
        BY <2>7, <2>8
      <3>3. m \in Slots
        BY <2>8
      <3> QED
        BY <2>3, <2>6, <2>7, <3>1, <3>2, <3>3, Appended
    <2>9. CASE m \notin slots
      <3>1. f[m] = f[m - 1]
        BY <1>4, <2>3, <2>4, <2>9
      <3>2. slots \cap (1..m) = slots \cap (1..(m - 1))
        BY <2>7, <2>9
      <3> QED
        BY <2>3, <2>6, <3>1, <3>2
    <2> QED
      BY <2>8, <2>9
  <1>6. Right(MAX_ENTRIES)
    BY <1>2, <1>5
  <1>7. slots \cap (1..MAX_ENTRIES) = slots
    BY DEF Slots
  <1> QED
    BY <1>1, <1>6, <1>7

-----------------------------------------------------------------------------
(* What a save writes. *)

Chunk == Chunks \cup {NUL}
DataWrite == [sector : Nat, value : [kind : {"data"}, chunk : Chunk]]

\* Data for the sectors from 2 on, one after the other.
DataInOrder(q) == q \in Seq(DataWrite) /\ \A i \in 1..Len(q) : q[i].sector = 1 + i

\* The data of the files up to slot n, as a function of n.
IsWrites(f, s, data_start, n) ==
    f = [k \in 0..n |->
            IF k = 0 THEN <<>>
            ELSE IF k \in Saved(s) THEN f[k - 1] \o FileWrites(s, k, data_start + Len(f[k - 1]))
                 ELSE f[k - 1]]

LEMMA WritesExist ==
    ASSUME NEW s, NEW data_start, NEW n \in Nat
    PROVE  \E f : IsWrites(f, s, data_start, n)
  <1> DEFINE Grown(q, k) ==
                IF k \in Saved(s) THEN q \o FileWrites(s, k, data_start + Len(q)) ELSE q
             Bad == {m \in Nat : ~\E f : IsWrites(f, s, data_start, m)}
  <1>1. SUFFICES ASSUME Bad # {} PROVE FALSE
    OBVIOUS
  <1>2. PICK m \in Bad : \A k \in Bad : m <= k
    <2>1. Bad \in SUBSET Nat
      OBVIOUS
    <2> HIDE DEF Bad
    <2> QED
      BY <1>1, <2>1, LeastNatural
  <1>3. m \in Nat /\ \A f : ~IsWrites(f, s, data_start, m)
    OBVIOUS
  <1>4. CASE m = 0
    <2> DEFINE f == [k \in 0..0 |-> <<>>]
    <2>1. IsWrites(f, s, data_start, 0)
      BY DEF IsWrites
    <2> QED
      BY <1>3, <1>4, <2>1
  <1>5. CASE m # 0
    <2>1. m - 1 \in Nat /\ m - 1 \notin Bad
      BY <1>2, <1>3, <1>5
    <2>2. PICK f : IsWrites(f, s, data_start, m - 1)
      BY <2>1
    <2> DEFINE g == [k \in 0..m |-> IF k = m THEN Grown(f[m - 1], m) ELSE f[k]]
    <2>3. \A k \in 0..(m - 1) : f[k] = IF k = 0 THEN <<>> ELSE Grown(f[k - 1], k)
      BY <2>2 DEF IsWrites
    <2> HIDE DEF Grown
    <2>4. ASSUME NEW k \in 0..m
          PROVE  g[k] = IF k = 0 THEN <<>> ELSE Grown(g[k - 1], k)
      <3>1. CASE k = m
        <4>1. m # 0 /\ m - 1 \in 0..m /\ m - 1 # m
          BY <1>3, <1>5
        <4>2. g[m - 1] = f[m - 1]
          BY <4>1
        <4>3. g[m] = Grown(f[m - 1], m)
          BY <1>3
        <4> QED
          BY <3>1, <4>1, <4>2, <4>3
      <3>2. CASE k # m
        <4>1. k \in 0..(m - 1) /\ g[k] = f[k]
          BY <1>3, <3>2
        <4>2. CASE k = 0
          BY <2>3, <4>1, <4>2
        <4>3. CASE k # 0
          <5>1. k - 1 \in 0..m /\ k - 1 # m
            BY <1>3, <3>2, <4>3
          <5>2. g[k - 1] = f[k - 1]
            BY <5>1
          <5> QED
            BY <2>3, <4>1, <4>3, <5>2
        <4> QED
          BY <4>2, <4>3
      <3> QED
        BY <3>1, <3>2
    <2>5. g = [k \in 0..m |-> g[k]]
      OBVIOUS
    <2> HIDE DEF g
    <2>6. IsWrites(g, s, data_start, m)
      BY <2>4, <2>5 DEF IsWrites, Grown
    <2> QED
      BY <1>3, <2>6
  <1> QED
    BY <1>4, <1>5

\* The files a save writes have a size and a buffer.
LEMMA SavedFacts ==
    ASSUME NEW s, FsOK(s), NEW f \in Saved(s)
    PROVE  /\ f \in Slots /\ s.entries[f].size \in 1..MAX_FILE_SIZE
           /\ s.entries[f].data \in Buffers
           /\ s.mem[s.entries[f].data] \in [1..MAX_FILE_SIZE -> Chunk]
  <1>1. f \in Slots /\ s.entries[f] \in Entry
    BY SlotFacts DEF Saved, WithData, Files, Used
  <1>2. s.entries[f].size > 0 /\ s.entries[f].data # NULL
    BY DEF Saved, WithData
  <1>3. s.entries[f].size \in 0..MAX_FILE_SIZE /\ MAX_FILE_SIZE \in Nat
    BY <1>1, TableAssumption DEF Entry
  <1>4. s.entries[f].data \in Buffers
    BY <1>1, <1>2 DEF Entry
  <1>5. s.mem \in Memory
    BY DEF FsOK, FsState
  <1> QED
    BY <1>1, <1>2, <1>3, <1>4, <1>5 DEF Memory, Chunk

\* Every file's data is written behind the data of those before it.
LEMMA WritesInOrder ==
    ASSUME NEW s, FsOK(s), NEW f, IsWrites(f, s, 2, MAX_ENTRIES)
    PROVE  /\ f[0] = <<>>
           /\ \A k \in 1..MAX_ENTRIES :
                 f[k] = IF k \in Saved(s) THEN f[k - 1] \o FileWrites(s, k, 2 + Len(f[k - 1]))
                        ELSE f[k - 1]
           /\ \A k \in 0..MAX_ENTRIES : DataInOrder(f[k])
  <1>1. MAX_ENTRIES \in Nat
    BY TableAssumption
  <1>2. \A k \in 0..MAX_ENTRIES :
           f[k] = IF k = 0 THEN <<>>
                  ELSE IF k \in Saved(s)
                       THEN f[k - 1] \o FileWrites(s, k, 2 + Len(f[k - 1])) ELSE f[k - 1]
    BY DEF IsWrites
  <1>3. f[0] = <<>>
    BY <1>1, <1>2
  <1>4. \A k \in 1..MAX_ENTRIES :
           f[k] = IF k \in Saved(s) THEN f[k - 1] \o FileWrites(s, k, 2 + Len(f[k - 1]))
                  ELSE f[k - 1]
    BY <1>1, <1>2
  <1> DEFINE Bad == {k \in 0..MAX_ENTRIES : ~DataInOrder(f[k])}
  <1>5. ASSUME Bad # {} PROVE FALSE
    <2>1. Bad \in SUBSET Nat
      BY <1>1
    <2>2. PICK m \in Bad : \A k \in Bad : m <= k
      <3> HIDE DEF Bad
      <3> QED
        BY <1>5, <2>1, LeastNatural
    <2>3. m \in 0..MAX_ENTRIES /\ ~DataInOrder(f[m])
      BY <2>2
    <2>4. m # 0
      <3>1. DataInOrder(<<>>)
        BY DEF DataInOrder
      <3> QED
        BY <1>3, <2>3, <3>1
    <2>5. m - 1 \in 0..MAX_ENTRIES /\ m - 1 \notin Bad /\ m \in 1..MAX_ENTRIES
      BY <1>1, <2>2, <2>3, <2>4
    <2> DEFINE q == f[m - 1]
    <2>6. DataInOrder(q)
      BY <2>5
    <2>7. m \in Saved(s) /\ f[m] = q \o FileWrites(s, m, 2 + Len(q))
      BY <1>4, <2>3, <2>5, <2>6
    <2> HIDE DEF q
    <2> DEFINE n == Len(q)
               size == s.entries[m].size
               w == FileWrites(s, m, 2 + n)
               chunks == s.mem[s.entries[m].data]
    <2>8. size \in Nat /\ \A i \in 1..size : chunks[i] \in Chunk
      BY <2>7, SavedFacts, TableAssumption
    <2>9. n \in Nat /\ q \in Seq(DataWrite) /\ \A i \in 1..n : q[i].sector = 1 + i
      BY <2>6 DEF DataInOrder
    <2>10. w = [i \in 1..size |-> [sector |-> 2 + n + i - 1, value |-> Data(chunks[i])]]
      BY DEF FileWrites
    <2> HIDE DEF n, size, chunks, w
    <2>11. ASSUME NEW i \in 1..size PROVE w[i] \in DataWrite /\ w[i].sector = 1 + n + i
      <3>1. w[i] = [sector |-> 2 + n + i - 1, value |-> Data(chunks[i])]
        BY <2>10
      <3>2. 2 + n + i - 1 \in Nat /\ 2 + n + i - 1 = 1 + n + i /\ chunks[i] \in Chunk
        BY <2>8, <2>9
      <3> QED
        BY <3>1, <3>2 DEF DataWrite, Data
    <2>12. w \in Seq(DataWrite) /\ Len(w) = size
      BY <2>8, <2>10, <2>11
    <2>13. q \o w \in Seq(DataWrite) /\ Len(q \o w) = n + size
      BY <2>9, <2>12 DEF n
    <2>14. \A i \in 1..(n + size) : (q \o w)[i] = IF i <= n THEN q[i] ELSE w[i - n]
      BY <2>9, <2>12 DEF n
    <2> DEFINE all == q \o w
    <2>16. \A i \in 1..(n + size) : all[i] = IF i <= n THEN q[i] ELSE w[i - n]
      BY <2>14
    <2> HIDE DEF all
    <2>15. ASSUME NEW i \in 1..(n + size) PROVE all[i].sector = 1 + i
      <3>1. CASE i <= n
        <4>1. i \in 1..n /\ all[i] = q[i]
          BY <2>8, <2>9, <2>16, <3>1
        <4> QED
          BY <2>9, <4>1
      <3>2. CASE ~(i <= n)
        <4>1. i - n \in 1..size /\ 1 + n + (i - n) = 1 + i
          BY <2>8, <2>9, <3>2
        <4> QED
          BY <2>11, <2>16, <3>2, <4>1
      <3> QED
        BY <3>1, <3>2
    <2> QED
      BY <2>3, <2>7, <2>13, <2>15 DEF DataInOrder, n, w, all
  <1> QED
    BY <1>3, <1>4, <1>5

\* A save writes the header, the table, and then data.
TableOnDisk(s) == [i \in 1..ENTRIES_ON_DISK |-> DiskEntry(s.entries[i])]
HeaderWrite(s) == [sector |-> 0, value |-> Header(s.next_entry)]
TableWrite(s) == [sector |-> 1, value |-> Table(TableOnDisk(s))]

LEMMA SavesInOrder ==
    ASSUME NEW s, FsOK(s)
    PROVE  /\ DataInOrder(DataWrites(s, 2))
           /\ SaveWrites(s) = <<HeaderWrite(s), TableWrite(s)>> \o DataWrites(s, 2)
  <1> DEFINE f == CHOOSE g : IsWrites(g, s, 2, MAX_ENTRIES)
  <1>1. DataWrites(s, 2) = f[MAX_ENTRIES]
    BY DEF DataWrites, IsWrites
  <1>2. MAX_ENTRIES \in Nat
    BY TableAssumption
  <1>3. IsWrites(f, s, 2, MAX_ENTRIES)
    BY <1>2, WritesExist
  <1> HIDE DEF f
  <1>4. DataInOrder(f[MAX_ENTRIES])
    BY <1>2, <1>3, WritesInOrder
  <1>5. SaveWrites(s) = <<HeaderWrite(s), TableWrite(s)>> \o DataWrites(s, 2)
    BY DEF SaveWrites, TableWrites, HeaderWrite, TableWrite, TableOnDisk
  <1> QED
    BY <1>1, <1>4, <1>5

-----------------------------------------------------------------------------
(* The invariant. *)

\* Slot 1 is the root, when it is in use, and no other entry is called "/".
Rooted(s) ==
    /\ s.root = 1
    /\ s.entries[1].used = 1 => /\ s.entries[1].name = RootName
                                /\ s.entries[1].type = FILE_TYPE_DIR
    /\ \A f \in Slots : s.entries[f].name = RootName => f = 1

\* The same of a table on a disk.
TableRooted(entries) ==
    /\ entries[1].used = 1 => entries[1].name = RootName /\ entries[1].type = FILE_TYPE_DIR
    /\ \A i \in 1..ENTRIES_ON_DISK : entries[i].name = RootName => i = 1

\* What a sector can hold; a header and a table from which a load can start.
SectorOK(v) == v \in SectorValues /\ (v.kind = "table" => TableRooted(v.entries))
HeaderAt(v) == v.kind = "header" /\ v.total \in 1..MAX_ENTRIES
RootAt(v) == v.kind = "table" /\ v.entries[1].used = 1

\* How far a save or a format has come, and what has reached HDD0 by then.
DataOnly(q) == q \in Seq(DataWrite) /\ \A i \in 1..Len(q) : q[i].sector >= 2
OnHdd == device = Dev!HDD0
HeaderWritten == OnHdd /\ lost = 0 => HeaderAt(disk[0])
TableWritten == OnHdd /\ lost = 0 /\ HasRoot(fs) => HeaderAt(disk[0]) /\ RootAt(disk[1])

Saving1 == \E D : DataOnly(D) /\ queue = <<HeaderWrite(fs), TableWrite(fs)>> \o D
Saving2 == HeaderWritten /\ \E D : DataOnly(D) /\ queue = <<TableWrite(fs)>> \o D
Saving3 == TableWritten /\ DataOnly(queue)
Formatting == /\ OnHdd => hddSaved = 0
              /\ queue \in {FormatWrites, Tail(FormatWrites)}

QueueOK ==
    /\ OnHdd /\ hddSaved = 1 /\ queue # <<>> => HasRoot(fs)
    /\ queue = <<>> \/ Saving1 \/ Saving2 \/ Saving3 \/ Formatting

StoreOK ==
    /\ devices \in {<<Dev!VDISK0>>, <<Dev!HDD0, Dev!VDISK0>>}
    /\ disk \in [Dev!LBAs -> SectorValues] /\ \A l \in Dev!LBAs : SectorOK(disk[l])
    /\ buffer \in [Dev!Sectors -> SectorValues] /\ \A l \in Dev!Sectors : SectorOK(buffer[l])
    /\ lost \in {0, 1} /\ hddSaved \in {0, 1}

\* Once saved, HDD0 keeps a header, and a table with a root.
HddKept == hddSaved = 1 => HeaderAt(disk[0]) /\ RootAt(disk[1])

PIInv == FsOK(fs) /\ Rooted(fs) /\ StoreOK /\ QueueOK /\ HddKept

-----------------------------------------------------------------------------
(* The devices. *)

LEMMA SectorFacts ==
    /\ 0 \in Dev!Sectors /\ 1 \in Dev!Sectors /\ Dev!Sectors \subseteq Dev!LBAs
    /\ Dev!Sectors \subseteq Nat
    /\ \A s \in Dev!Sectors : OFFSET + s \in Dev!LBAs /\ OFFSET + s \notin {0, 1}
    /\ Dev!HDD0 # Dev!VDISK0
  <1>1. TotalSectors \in Nat /\ TotalSectors >= 2 /\ OFFSET \in Nat /\ OFFSET >= 2
    BY DeviceAssumption
  <1>2. Dev!Sectors = 0..(TotalSectors - 1) /\ Dev!LBAs = 0..(TotalSectors + OFFSET - 1)
    BY DEF Dev!Sectors, Dev!LBAs
  <1> QED
    BY <1>1, <1>2 DEF Dev!HDD0, Dev!VDISK0

\* What one write leads to.
WriteResult(o, sector, value) ==
    /\ o.disk \in [Dev!LBAs -> SectorValues] /\ \A l \in Dev!LBAs : SectorOK(o.disk[l])
    /\ o.buffer \in [Dev!Sectors -> SectorValues]
    /\ \A l \in Dev!Sectors : SectorOK(o.buffer[l])
    /\ o.err \in {0, 1}
    /\ \A l \in {0, 1} :
          /\ ~OnHdd \/ l # sector => o.disk[l] = disk[l]
          /\ OnHdd /\ l = sector => /\ o.disk[l] \in {disk[l], value}
                                    /\ o.ret = 0 /\ o.err = 0 => o.disk[l] = value

LEMMA AtaWrites ==
    ASSUME StoreOK, NEW sector, NEW value, SectorOK(value),
           NEW w \in Dev!ata_write_sector(sector, value)
    PROVE  /\ w.disk \in [Dev!LBAs -> SectorValues] /\ \A l \in Dev!LBAs : SectorOK(w.disk[l])
           /\ w.err \in {0, 1}
           /\ \A l \in {0, 1} :
                 /\ l # sector => w.disk[l] = disk[l]
                 /\ l = sector => /\ w.disk[l] \in {disk[l], value}
                                  /\ w.ret = 0 /\ w.err = 0 => w.disk[l] = value
  <1> DEFINE stored == [disk EXCEPT ![sector] = value]
  <1>1. disk \in [Dev!LBAs -> SectorValues] /\ \A l \in Dev!LBAs : SectorOK(disk[l])
    BY DEF StoreOK
  <1>2. value \in SectorValues
    BY DEF SectorOK
  <1>3. w \in {[ret |-> -1, err |-> 0, disk |-> disk]} \cup
             (IF drive = 1 /\ sector \in Dev!LBAs
              THEN {[ret |-> -1, err |-> 0, disk |-> stored],
                    [ret |-> 0, err |-> 0, disk |-> stored],
                    [ret |-> 0, err |-> 1, disk |-> disk]}
              ELSE {})
    BY DEF Dev!ata_write_sector
  <1>4. 0 \in Dev!LBAs /\ 1 \in Dev!LBAs
    BY SectorFacts
  <1>5. CASE w = [ret |-> -1, err |-> 0, disk |-> disk]
    BY <1>1, <1>5
  <1>6. CASE sector \in Dev!LBAs /\ w = [ret |-> 0, err |-> 1, disk |-> disk]
    BY <1>1, <1>6
  <1>7. CASE /\ sector \in Dev!LBAs
             /\ w \in {[ret |-> -1, err |-> 0, disk |-> stored],
                       [ret |-> 0, err |-> 0, disk |-> stored]}
    <2>1. w.disk = stored /\ w.err = 0
      BY <1>7
    <2>2. /\ stored \in [Dev!LBAs -> SectorValues] /\ stored[sector] = value
          /\ \A l \in Dev!LBAs \ {sector} : stored[l] = disk[l]
      BY <1>1, <1>2, <1>7
    <2> HIDE DEF stored
    <2> QED
      BY <1>1, <1>4, <2>1, <2>2
  <1> HIDE DEF stored
  <1> QED
    BY <1>3, <1>5, <1>6, <1>7

LEMMA DeviceWrites ==
    ASSUME StoreOK, NEW sector, NEW value, SectorOK(value),
           NEW o \in Dev!WriteOutcomes(device, sector, value)
    PROVE  WriteResult(o, sector, value)
  <1>1. /\ disk \in [Dev!LBAs -> SectorValues] /\ \A l \in Dev!LBAs : SectorOK(disk[l])
        /\ buffer \in [Dev!Sectors -> SectorValues]
        /\ \A l \in Dev!Sectors : SectorOK(buffer[l]) /\ value \in SectorValues
    BY DEF StoreOK, SectorOK
  <1>2. CASE sector \notin Dev!Sectors
    <2>1. o = [ret |-> -1, err |-> 0, disk |-> disk, buffer |-> buffer]
      BY <1>2 DEF Dev!WriteOutcomes
    <2> QED
      BY <1>1, <2>1 DEF WriteResult
  <1>3. CASE sector \in Dev!Sectors /\ OnHdd
    <2>1. PICK w \in Dev!ata_write_sector(sector, value) :
             o = [ret |-> w.ret, err |-> w.err, disk |-> w.disk, buffer |-> buffer]
      BY <1>3 DEF Dev!WriteOutcomes, OnHdd
    <2>2. o.disk = w.disk /\ o.err = w.err /\ o.ret = w.ret /\ o.buffer = buffer
      BY <2>1
    <2> QED
      BY <1>1, <1>3, <2>2, AtaWrites DEF WriteResult
  <1>4. CASE sector \in Dev!Sectors /\ ~OnHdd
    <2>1. o \in Dev!usb_storage_write_sector(sector, value)
      BY <1>4 DEF Dev!WriteOutcomes, OnHdd
    <2> DEFINE kept == [buffer EXCEPT ![sector] = value]
    <2>2. PICK w \in Dev!ata_write_sector(OFFSET + sector, value) :
             o = [ret |-> 0, err |-> w.err, disk |-> w.disk, buffer |-> kept]
      BY <2>1 DEF Dev!usb_storage_write_sector
    <2>3. /\ kept \in [Dev!Sectors -> SectorValues] /\ kept[sector] = value
          /\ \A l \in Dev!Sectors \ {sector} : kept[l] = buffer[l]
      BY <1>1, <1>4
    <2> HIDE DEF kept
    <2>4. o.disk = w.disk /\ o.err = w.err /\ o.buffer = kept
      BY <2>2
    <2>5. OFFSET + sector \notin {0, 1}
      BY <1>4, SectorFacts
    <2>6. \A l \in {0, 1} : w.disk[l] = disk[l]
      BY <2>5, AtaWrites
    <2> QED
      BY <1>1, <1>4, <2>3, <2>4, <2>6, AtaWrites DEF WriteResult
  <1> QED
    BY <1>2, <1>3, <1>4

-----------------------------------------------------------------------------
(* A load. *)

ViewOK(view) == \A s \in Dev!Sectors : view[s] = FAILED \/ SectorOK(view[s])

LEMMA ViewsOK ==
    ASSUME StoreOK, NEW answering
    PROVE  ViewOK(View(answering))
  <1> SUFFICES ASSUME NEW s \in Dev!Sectors
               PROVE  View(answering)[s] = FAILED \/ SectorOK(View(answering)[s])
    BY DEF ViewOK
  <1> DEFINE r == Dev!read_sector(device, s, s \in answering)
  <1>1. View(answering)[s] = IF r.ret = 0 THEN r.value ELSE FAILED
    BY DEF View
  <1>2. r.ret = 0 => r.value \in {disk[s], disk[OFFSET + s], buffer[s]}
    BY DEF Dev!read_sector, Dev!ata_read_sector, Dev!usb_storage_read_sector
  <1>3. s \in Dev!LBAs /\ OFFSET + s \in Dev!LBAs
    BY SectorFacts
  <1>4. SectorOK(disk[s]) /\ SectorOK(disk[OFFSET + s]) /\ SectorOK(buffer[s])
    BY <1>3 DEF StoreOK
  <1> HIDE DEF r
  <1> QED
    BY <1>1, <1>2, <1>4

\* What an entry of the table sector becomes.
FromDisk(d) == [used |-> d.used, name |-> d.name, type |-> d.type, size |-> d.size,
                data |-> NULL, parent |-> NULL, children |-> <<>>]

\* The table after sector v has been read.
LEMMA LoadedFields ==
    ASSUME NEW v
    PROVE  LoadedEntries(v) =
              [i \in Slots |->
                  IF v.kind = "table" /\ i <= ENTRIES_ON_DISK THEN FromDisk(v.entries[i])
                  ELSE ZeroEntry]
  <1> DEFINE n == IF v.kind = "table" THEN ENTRIES_ON_DISK ELSE 0
             m == MAX_ENTRIES - n
             S == {FromDisk(v.entries[j]) : j \in 1..n} \cup {ZeroEntry}
             front == IF v.kind = "table"
                      THEN [j \in 1..ENTRIES_ON_DISK |->
                              [ZeroEntry EXCEPT !.used = v.entries[j].used,
                                                !.name = v.entries[j].name,
                                                !.type = v.entries[j].type,
                                                !.size = v.entries[j].size]]
                      ELSE <<>>
             back == [j \in 1..m |-> ZeroEntry]
  <1>1. /\ MAX_ENTRIES \in Nat /\ ENTRIES_ON_DISK \in 1..MAX_ENTRIES
        /\ n \in Nat /\ m \in Nat /\ n + m = MAX_ENTRIES
    BY TableAssumption, DeviceAssumption
  <1>2. LoadedEntries(v) = front \o back
    BY DEF LoadedEntries
  <1>3. front = [j \in 1..n |-> FromDisk(v.entries[j])]
    <2>3. \A d : [ZeroEntry EXCEPT !.used = d.used, !.name = d.name, !.type = d.type,
                                   !.size = d.size] = FromDisk(d)
      <3> SUFFICES ASSUME NEW d
                   PROVE  [ZeroEntry EXCEPT !.used = d.used, !.name = d.name, !.type = d.type,
                                            !.size = d.size] = FromDisk(d)
        OBVIOUS
      <3> DEFINE a == [ZeroEntry EXCEPT !.used = d.used]
                 b == [a EXCEPT !.name = d.name]
                 c == [b EXCEPT !.type = d.type]
      <3>1. a = [used |-> d.used, name |-> <<Empty>>, type |-> 0, size |-> 0, data |-> NULL,
                 parent |-> NULL, children |-> <<>>]
        BY DEF ZeroEntry
      <3> HIDE DEF a
      <3>2. b = [used |-> d.used, name |-> d.name, type |-> 0, size |-> 0, data |-> NULL,
                 parent |-> NULL, children |-> <<>>]
        BY <3>1
      <3> HIDE DEF b
      <3>3. c = [used |-> d.used, name |-> d.name, type |-> d.type, size |-> 0,
                 data |-> NULL, parent |-> NULL, children |-> <<>>]
        BY <3>2
      <3> HIDE DEF c
      <3>4. [c EXCEPT !.size = d.size] = FromDisk(d)
        BY <3>3 DEF FromDisk
      <3> QED
        BY <3>4 DEF a, b, c
    <2>1. CASE v.kind = "table"
      <3>1. front = [j \in 1..ENTRIES_ON_DISK |->
                        [ZeroEntry EXCEPT !.used = v.entries[j].used,
                                          !.name = v.entries[j].name,
                                          !.type = v.entries[j].type,
                                          !.size = v.entries[j].size]]
        BY <2>1
      <3>2. n = ENTRIES_ON_DISK
        BY <2>1
      <3> HIDE DEF front, n
      <3> QED
        BY <2>3, <3>1, <3>2
    <2>2. CASE v.kind # "table"
      <3>1. n = 0 /\ front = <<>>
        BY <2>2
      <3> HIDE DEF n, front
      <3>2. [j \in 1..n |-> FromDisk(v.entries[j])] = <<>>
        BY <3>1
      <3> QED
        BY <3>1, <3>2
    <2> QED
      BY <2>1, <2>2
  <1> HIDE DEF front
  <1>4. front \in [1..n -> S]
    BY <1>3
  <1>5. back \in [1..m -> S] /\ \A j \in 1..m : back[j] = ZeroEntry
    OBVIOUS
  <1>6. \A i \in Slots : v.kind = "table" /\ i <= ENTRIES_ON_DISK <=> i <= n
    BY <1>1 DEF Slots
  <1> HIDE DEF back, n, m, S
  <1> DEFINE all == front \o back
  <1>7. /\ all \in [1..(n + m) -> S]
        /\ \A i \in 1..(n + m) : all[i] = IF i <= n THEN front[i] ELSE back[i - n]
    <2>1. n \in Nat /\ m \in Nat /\ front \in [1..n -> S] /\ back \in [1..m -> S]
      BY <1>1, <1>4, <1>5
    <2>2. /\ front \o back \in [1..(n + m) -> S]
          /\ \A i \in 1..(n + m) :
                (front \o back)[i] = IF i <= n THEN front[i] ELSE back[i - n]
      <3>1. front \in Seq(S) /\ back \in Seq(S) /\ Len(front) = n /\ Len(back) = m
        BY <2>1
      <3>2. /\ front \o back \in Seq(S) /\ Len(front \o back) = n + m
            /\ \A i \in 1..(n + m) :
                (front \o back)[i] = IF i <= n THEN front[i] ELSE back[i - n]
        BY <3>1, ConcatProperties
      <3> QED
        BY <3>2, LenProperties
    <2> QED
      BY <2>2
  <1> HIDE DEF all
  <1>8. \A i \in Slots : all[i] = IF i <= n THEN FromDisk(v.entries[i]) ELSE ZeroEntry
    <2> SUFFICES ASSUME NEW i \in Slots
                 PROVE  all[i] = IF i <= n THEN FromDisk(v.entries[i]) ELSE ZeroEntry
      OBVIOUS
    <2>1. i \in 1..(n + m)
      BY <1>1 DEF Slots
    <2>2. CASE i <= n
      <3>1. i \in 1..n
        BY <1>1, <2>1, <2>2
      <3> QED
        BY <1>3, <1>7, <2>1, <2>2, <3>1
    <2>3. CASE ~(i <= n)
      <3>1. i - n \in 1..m
        BY <1>1, <2>1, <2>3
      <3> QED
        BY <1>5, <1>7, <2>1, <2>3, <3>1
    <2> QED
      BY <2>2, <2>3
  <1>9. all = [i \in Slots |-> all[i]]
    BY <1>1, <1>7 DEF Slots
  <1> QED
    BY <1>2, <1>6, <1>8, <1>9 DEF all

\* The table a load starts from.
LEMMA LoadedOK ==
    ASSUME NEW v, v = FAILED \/ SectorOK(v)
    PROVE  LET e == LoadedEntries(v) IN
           /\ e \in [Slots -> Entry]
           /\ \A i \in Slots : e[i].data = NULL /\ e[i].parent = NULL /\ e[i].children = <<>>
           /\ \A i \in Slots : e[i].name = RootName => i = 1
           /\ e[1].used = 1 => e[1].name = RootName /\ e[1].type = FILE_TYPE_DIR
  <1> DEFINE e == LoadedEntries(v)
             D == [used : 0..1, name : Names, type : 0..2, size : 0..MAX_FILE_SIZE]
  <1>1. ZeroEntry \in Entry /\ ZeroEntry.name # RootName /\ ZeroEntry.used = 0
    <2>1. <<>> \in Seq(Slots) /\ <<Empty>> \in Names /\ 0 \in 0..MAX_FILE_SIZE
      BY TableAssumption, EmptyName
    <2>2. <<Empty>> # RootName
      BY EmptyName
    <2> QED
      BY <2>1, <2>2 DEF ZeroEntry, Entry
  <1>2. 1 \in Slots /\ 1 <= ENTRIES_ON_DISK /\ ENTRIES_ON_DISK \in Nat
    BY TableAssumption, DeviceAssumption DEF Slots
  <1>9. e = [i \in Slots |->
               IF v.kind = "table" /\ i <= ENTRIES_ON_DISK THEN FromDisk(v.entries[i])
               ELSE ZeroEntry]
    BY LoadedFields
  <1> HIDE DEF e
  <1>3. \A i \in Slots :
           \/ /\ v.kind = "table" /\ i <= ENTRIES_ON_DISK
              /\ e[i] = FromDisk(v.entries[i])
           \/ e[i] = ZeroEntry
    BY <1>9
  <1>4. v.kind # "table" => e[1] = ZeroEntry
    BY <1>2, <1>9
  <1>14. v.kind = "table" => e[1] = FromDisk(v.entries[1])
    BY <1>2, <1>9
  <1>5. v.kind = "table" => /\ v.entries \in [1..ENTRIES_ON_DISK -> D]
                            /\ TableRooted(v.entries)
    BY DEF SectorOK, SectorValues, FAILED, Blank
  <1>6. ASSUME NEW d \in D PROVE FromDisk(d) \in Entry
    <2>1. <<>> \in Seq(Slots) /\ 0..2 = {0, FILE_TYPE_FILE, FILE_TYPE_DIR}
      BY DEF FILE_TYPE_FILE, FILE_TYPE_DIR
    <2> QED
      BY <2>1 DEF FromDisk, Entry
  <1>7. \A i \in Slots : i <= ENTRIES_ON_DISK => i \in 1..ENTRIES_ON_DISK
    BY <1>2 DEF Slots
  <1>8. \A i \in Slots : e[i] \in Entry
    BY <1>1, <1>3, <1>5, <1>6, <1>7
  <1>10. e \in [Slots -> Entry]
    BY <1>8, <1>9
  <1>15. /\ ZeroEntry.data = NULL /\ ZeroEntry.parent = NULL /\ ZeroEntry.children = <<>>
         /\ \A d : /\ FromDisk(d).data = NULL /\ FromDisk(d).parent = NULL
                   /\ FromDisk(d).children = <<>> /\ FromDisk(d).name = d.name
                   /\ FromDisk(d).used = d.used /\ FromDisk(d).type = d.type
    BY DEF FromDisk, ZeroEntry
  <1>11. \A i \in Slots : e[i].data = NULL /\ e[i].parent = NULL /\ e[i].children = <<>>
    BY <1>3, <1>15
  <1>12. \A i \in Slots : e[i].name = RootName => i = 1
    BY <1>1, <1>3, <1>5, <1>7, <1>15 DEF TableRooted
  <1>13. e[1].used = 1 => e[1].name = RootName /\ e[1].type = FILE_TYPE_DIR
    BY <1>1, <1>4, <1>5, <1>14, <1>15 DEF TableRooted
  <1> QED
    BY <1>10, <1>11, <1>12, <1>13 DEF e

\* The only entry a root can be is the first.
LEMMA RootIsFirst ==
    ASSUME NEW v, v = FAILED \/ SectorOK(v), NEW total \in 1..MAX_ENTRIES
    PROVE  LET e == LoadedEntries(v) IN
           /\ e[1].used = 1 => Roots(e, total) = {1} /\ Min(Roots(e, total)) = 1
           /\ e[1].used # 1 => Roots(e, total) = {}
  <1> DEFINE e == LoadedEntries(v)
  <1>1. /\ \A i \in Slots : e[i].name = RootName => i = 1
        /\ e[1].used = 1 => e[1].name = RootName /\ e[1].type = FILE_TYPE_DIR
    BY LoadedOK
  <1>2. 1 \in 1..total /\ 1..total \subseteq Slots
    BY TableAssumption DEF Slots
  <1> HIDE DEF e
  <1>3. e[1].used = 1 => Roots(e, total) = {1}
    BY <1>1, <1>2 DEF Roots
  <1>4. e[1].used # 1 => Roots(e, total) = {}
    BY <1>1, <1>2 DEF Roots
  <1>5. Min({1}) = 1
    BY DEF Min
  <1> QED
    BY <1>3, <1>4, <1>5 DEF e

\* The state before the files are loaded: every used entry in the root's list.
Emptied(s, e, total) ==
    [s EXCEPT !.next_entry = total, !.root = 1, !.current_dir = 1,
              !.entries = Flattened(e, total, 1)]

\* The table t has the entries e as a flat tree.
Flat(t, e, total) ==
    /\ t.next_entry = total /\ t.root = 1 /\ t.current_dir = 1
    /\ \A f \in Slots :
          /\ t.entries[f].used = e[f].used /\ t.entries[f].name = e[f].name
          /\ t.entries[f].type = e[f].type
          /\ t.entries[f].parent = IF f \in 1..total /\ e[f].used = 1 /\ f # 1 THEN 1 ELSE NULL

LEMMA EmptiedOK ==
    ASSUME NEW s, s \in FsState, NEW v, v = FAILED \/ SectorOK(v), NEW total \in 1..MAX_ENTRIES,
           LoadedEntries(v)[1].used = 1
    PROVE  LET e == LoadedEntries(v)
               t == Emptied(s, e, total)
           IN  /\ FsOK(t) /\ Flat(t, e, total) /\ t.free = s.free /\ t.mem = s.mem
               /\ \A f \in Slots : t.entries[f].data = NULL /\ t.entries[f].size = e[f].size
  <1> DEFINE e == LoadedEntries(v)
             t == Emptied(s, e, total)
             others == {i \in 1..total : e[i].used = 1 /\ i # 1}
             list == InTableOrder(others)
             flat == Flattened(e, total, 1)
  <1>1. /\ e \in [Slots -> Entry]
        /\ \A i \in Slots : e[i].data = NULL /\ e[i].parent = NULL /\ e[i].children = <<>>
        /\ e[1].name = RootName /\ e[1].type = FILE_TYPE_DIR /\ e[1].used = 1
    BY LoadedOK
  <1> HIDE DEF e
  <1>2. 1..total \subseteq Slots /\ 1 \in 1..total /\ NULL \notin Slots /\ total \in 0..MAX_ENTRIES
    BY TableAssumption DEF Slots, NULL
  <1>3. others \in SUBSET Slots
    BY <1>2
  <1>4. list \in Seq(Slots) /\ IsInjective(list) /\ ToSet(list) = others
    BY <1>3, OrderLists
  <1>5. flat = [i \in Slots |->
                  [e[i] EXCEPT !.parent = IF i \in others THEN 1 ELSE NULL,
                               !.children = IF i = 1 THEN list ELSE <<>>]]
    BY DEF Flattened
  <1> HIDE DEF list, others, flat
  <1>6. ASSUME NEW i \in Slots
        PROVE  /\ flat[i] \in Entry /\ flat[i].used = e[i].used /\ flat[i].name = e[i].name
               /\ flat[i].type = e[i].type /\ flat[i].size = e[i].size /\ flat[i].data = NULL
               /\ flat[i].parent = (IF i \in others THEN 1 ELSE NULL)
               /\ flat[i].children = (IF i = 1 THEN list ELSE <<>>)
    <2> DEFINE p == IF i \in others THEN 1 ELSE NULL
               c == IF i = 1 THEN list ELSE <<>>
               a == [e[i] EXCEPT !.parent = p]
    <2>1. p \in Slots \cup {NULL} /\ c \in Seq(Slots)
      BY <1>2, <1>4
    <2>2. e[i] \in Entry /\ e[i].data = NULL
      BY <1>1
    <2>3. flat[i] = [e[i] EXCEPT !.parent = p, !.children = c]
      BY <1>5
    <2> HIDE DEF p, c
    <2>4. /\ a \in Entry /\ a.used = e[i].used /\ a.name = e[i].name /\ a.type = e[i].type
          /\ a.size = e[i].size /\ a.data = e[i].data /\ a.parent = p
      BY <2>1, <2>2 DEF Entry
    <2>5. flat[i] = [a EXCEPT !.children = c]
      BY <2>3
    <2> HIDE DEF a
    <2>6. /\ flat[i] \in Entry /\ flat[i].used = a.used /\ flat[i].name = a.name
          /\ flat[i].type = a.type /\ flat[i].size = a.size /\ flat[i].data = a.data
          /\ flat[i].parent = a.parent /\ flat[i].children = c
      BY <2>1, <2>4, <2>5 DEF Entry
    <2> QED
      BY <2>2, <2>4, <2>6 DEF p, c
  <1>7. flat \in [Slots -> Entry]
    BY <1>5, <1>6
  <1>8. /\ t \in FsState /\ t.next_entry = total /\ t.root = 1 /\ t.current_dir = 1
        /\ t.entries = flat /\ t.free = s.free /\ t.mem = s.mem
    <2> DEFINE a == [s EXCEPT !.next_entry = total]
               b == [a EXCEPT !.root = 1]
               c == [b EXCEPT !.current_dir = 1]
    <2>1. a \in FsState /\ a.next_entry = total /\ a.free = s.free /\ a.mem = s.mem
      BY <1>2 DEF FsState
    <2>2. t = [c EXCEPT !.entries = flat]
      BY DEF Emptied, flat
    <2> HIDE DEF a
    <2>3. /\ b \in FsState /\ b.next_entry = total /\ b.root = 1
          /\ b.free = s.free /\ b.mem = s.mem
      BY <1>2, <2>1 DEF FsState
    <2> HIDE DEF b
    <2>4. /\ c \in FsState /\ c.next_entry = total /\ c.root = 1 /\ c.current_dir = 1
          /\ c.free = s.free /\ c.mem = s.mem
      BY <1>2, <2>3 DEF FsState
    <2> HIDE DEF c, t
    <2> QED
      BY <1>7, <2>2, <2>4 DEF FsState
  <1> HIDE DEF t
  <1>9. Flat(t, e, total)
    BY <1>6, <1>8 DEF Flat, others
  <1>10. Anchored(t)
    <2>1. \A i \in 1..total : flat[i].parent # NULL => flat[i].parent = 1 /\ 1 < i
      BY <1>2, <1>6 DEF others
    <2>2. flat[1].type # FILE_TYPE_FILE
      BY <1>1, <1>2, <1>6 DEF FILE_TYPE_DIR, FILE_TYPE_FILE
    <2> QED
      BY <1>2, <1>8, <2>1, <2>2 DEF Anchored
  <1>11. Used(t) = others \cup {1}
    BY <1>1, <1>2, <1>6, <1>8 DEF Used, others
  <1>12. ListsSound(t)
    <2>1. IsInjective(<<>>) /\ ToSet(<<>>) = {}
      BY DEF IsInjective, ToSet
    <2>2. \A f \in others : f \in Used(t) /\ 1 < f /\ flat[f].parent = 1
      BY <1>2, <1>3, <1>6, <1>11 DEF others
    <2> QED
      BY <1>4, <1>6, <1>8, <2>1, <2>2 DEF ListsSound
  <1>13. ListsComplete(t)
    <2>1. \A f \in Used(t) : flat[f].parent # NULL => f \in others /\ flat[f].parent = 1
      BY <1>2, <1>3, <1>6, <1>11
    <2> QED
      BY <1>2, <1>4, <1>6, <1>8, <2>1 DEF ListsComplete
  <1>14. DataOwned(t)
    <2>1. WithData(t) = {}
      BY <1>2, <1>3, <1>6, <1>8, <1>11 DEF WithData, Files
    <2> QED
      BY <2>1 DEF DataOwned
  <1>15. FsOK(t)
    BY <1>8, <1>10, <1>12, <1>13, <1>14 DEF FsOK
  <1> QED
    BY <1>6, <1>8, <1>9, <1>15 DEF t, e

\* t is s but for the size, the data and the buffer of file f.
OnlyFile(s, t, f) ==
    /\ t \in FsState /\ t.next_entry = s.next_entry
    /\ t.root = s.root /\ t.current_dir = s.current_dir
    /\ \A g \in Slots \ {f} : t.entries[g] = s.entries[g]
    /\ t.entries[f].used = s.entries[f].used /\ t.entries[f].name = s.entries[f].name
    /\ t.entries[f].type = s.entries[f].type /\ t.entries[f].parent = s.entries[f].parent
    /\ t.entries[f].children = s.entries[f].children
    /\ t.free \subseteq s.free
    /\ \A c \in (Buffers \cup {NULL}) \ s.free : t.mem[c] = s.mem[c]

\* The heap has a buffer for file f, and its sectors, from n on, can be read.
Readable(s, n, f, view) ==
    /\ s.free # {} /\ n + s.entries[f].size <= TotalSectors
    /\ \A j \in 1..s.entries[f].size : view[n + j - 1] # FAILED

\* The file has been read into a buffer that was free.
FileRead(s, t, f, n, view) ==
    \E b \in s.free :
        /\ t.entries[f].data = b /\ t.entries[f].size = s.entries[f].size
        /\ t.free = s.free \ {b}
        /\ \A i \in 1..MAX_FILE_SIZE :
              t.mem[b][i] = IF i <= s.entries[f].size THEN ChunkIn(view[n + i - 1]) ELSE NUL

\* The file is empty, without a buffer.
FileEmpty(s, t, f) ==
    t.entries[f].size = 0 /\ t.entries[f].data = s.entries[f].data /\ t.free = s.free

\* A sector that was read holds a chunk of text, of whatever kind it is.
LEMMA ChunkTyped ==
    ASSUME NEW v, SectorOK(v)
    PROVE  ChunkIn(v) \in Chunk
  <1>1. CASE v.kind = "data"
    <2>1. v \in [kind : {"data"}, chunk : Chunks \cup {NUL}]
      BY <1>1 DEF SectorOK, SectorValues, Blank
    <2> QED
      BY <1>1, <2>1 DEF ChunkIn, Chunk
  <1>2. CASE v.kind # "data"
    BY <1>2, TableAssumption DEF ChunkIn, Chunk
  <1> QED
    BY <1>1, <1>2

LEMMA FileLoaded ==
    ASSUME NEW s, s \in FsState, NEW n \in Nat, NEW f \in Slots, NEW view, ViewOK(view)
    PROVE  LET r == LoadFile([sector |-> n, fs |-> s], f, view) IN
           /\ r = [sector |-> r.sector, fs |-> r.fs] /\ OnlyFile(s, r.fs, f)
           /\ Readable(s, n, f, view) => /\ FileRead(s, r.fs, f, n, view)
                                         /\ r.sector = n + s.entries[f].size
           /\ ~Readable(s, n, f, view) => FileEmpty(s, r.fs, f)
           /\ r.sector \in Nat
  <1> DEFINE at == [sector |-> n, fs |-> s]
             r == LoadFile(at, f, view)
             size == s.entries[f].size
             b == memory_alloc(s)
             sectors == [i \in 1..at.fs.entries[f].size |-> at.sector + i - 1]
             next == at.sector + Len(sectors)
             read(i) == \A j \in 1..i : view[sectors[j]] # FAILED
             text == [i \in 1..MAX_FILE_SIZE |->
                        IF i <= Len(sectors) /\ read(i) THEN ChunkIn(view[sectors[i]]) ELSE NUL]
             zeros == [i \in 1..MAX_FILE_SIZE |-> NUL]
             Goal == /\ r = [sector |-> r.sector, fs |-> r.fs] /\ OnlyFile(s, r.fs, f)
                     /\ Readable(s, n, f, view) => /\ FileRead(s, r.fs, f, n, view)
                                                   /\ r.sector = n + s.entries[f].size
                     /\ ~Readable(s, n, f, view) => FileEmpty(s, r.fs, f)
                     /\ r.sector \in Nat
  <1> SUFFICES Goal
    OBVIOUS
  <1>1. /\ s.entries \in [Slots -> Entry] /\ s.entries[f] \in Entry
        /\ size \in 0..MAX_FILE_SIZE /\ MAX_FILE_SIZE \in Nat /\ TotalSectors \in Nat
        /\ s.free \in SUBSET Buffers /\ s.mem \in Memory
    BY TableAssumption, DeviceAssumption DEF FsState, Entry
  <1>2. /\ size \in Nat /\ next \in Nat /\ Len(sectors) = size /\ next = n + size
        /\ \A i \in 1..size : sectors[i] = n + i - 1
    <2>1. size \in Nat
      BY <1>1
    <2>2. sectors = [i \in 1..size |-> n + i - 1]
      OBVIOUS
    <2> HIDE DEF size, sectors
    <2>3. Len(sectors) = size /\ \A i \in 1..size : sectors[i] = n + i - 1
      BY <2>1, <2>2
    <2> QED
      BY <2>1, <2>3
  <1>3. b = NULL <=> s.free = {}
    <2>1. NULL \notin Buffers
      BY DEF NULL, Buffers
    <2>2. s.free # {} => b \in s.free
      BY DEF memory_alloc
    <2>3. s.free = {} => b = NULL
      BY DEF memory_alloc
    <2> HIDE DEF b
    <2> QED
      BY <1>1, <2>1, <2>2, <2>3
  <1>4. s.free # {} => b \in s.free
    BY DEF memory_alloc
  <1>5. r = IF b = NULL
            THEN [at EXCEPT !.fs.entries[f].size = 0]
            ELSE IF next > TotalSectors
            THEN [at EXCEPT !.fs.entries[f].size = 0, !.fs.mem[b] = zeros]
            ELSE IF read(size)
            THEN [sector |-> next, fs |-> [s EXCEPT !.free = @ \ {b}, !.mem[b] = text,
                                                    !.entries[f].data = b]]
            ELSE [sector |-> next, fs |-> Unread(s, f, b, text)]
    <2> DEFINE body(st, m) ==
                  IF m = NULL
                  THEN [at EXCEPT !.fs.entries[f].size = 0]
                  ELSE IF next > TotalSectors
                  THEN [at EXCEPT !.fs.entries[f].size = 0, !.fs.mem[m] = zeros]
                  ELSE IF read(Len(sectors))
                  THEN [sector |-> next, fs |-> [st EXCEPT !.free = @ \ {m}, !.mem[m] = text,
                                                           !.entries[f].data = m]]
                  ELSE [sector |-> next, fs |-> Unread(st, f, m, text)]
    <2>1. r = body(at.fs, memory_alloc(at.fs))
      BY DEF LoadFile
    <2>2. at.fs = s
      OBVIOUS
    <2> HIDE DEF body, r, at
    <2>3. r = body(s, b)
      BY <2>1, <2>2
    <2> QED
      BY <1>2, <2>3 DEF body
  <1>6. next <= TotalSectors => text \in [1..MAX_FILE_SIZE -> Chunk]
    <2> SUFFICES ASSUME next <= TotalSectors, NEW i \in 1..MAX_FILE_SIZE
                 PROVE  text[i] \in Chunk
      OBVIOUS
    <2>5. text[i] = IF i <= Len(sectors) /\ read(i) THEN ChunkIn(view[sectors[i]]) ELSE NUL
      OBVIOUS
    <2> HIDE DEF text
    <2> SUFFICES ASSUME i <= size, read(i)
                 PROVE  ChunkIn(view[sectors[i]]) \in Chunk
      BY <1>2, <2>5 DEF Chunk
    <2>1. i \in 1..size /\ i \in 1..i
      BY <1>1, <1>2
    <2>2. n + i - 1 \in Dev!Sectors
      <3>1. n + i - 1 \in 0..(TotalSectors - 1)
        BY <1>1, <1>2, <2>1
      <3> QED
        BY <3>1 DEF Dev!Sectors
    <2>3. view[n + i - 1] # FAILED
      BY <1>2, <2>1
    <2>4. SectorOK(view[n + i - 1])
      BY <2>2, <2>3 DEF ViewOK
    <2> QED
      BY <1>2, <2>1, <2>4, ChunkTyped
  <1>7. zeros \in [1..MAX_FILE_SIZE -> Chunk]
    BY DEF Chunk
  <1> DEFINE noSize == [s.entries[f] EXCEPT !.size = 0]
             withData == [s.entries[f] EXCEPT !.data = b]
             unsized == [s EXCEPT !.entries = [@ EXCEPT ![f] = noSize]]
  <1>8. Readable(s, n, f, view) <=> s.free # {} /\ next <= TotalSectors /\ read(size)
    BY <1>2 DEF Readable
  <1>9. \A i \in 1..MAX_FILE_SIZE : read(size) =>
           text[i] = IF i <= size THEN ChunkIn(view[n + i - 1]) ELSE NUL
    <2> SUFFICES ASSUME NEW i \in 1..MAX_FILE_SIZE, read(size)
                 PROVE  text[i] = IF i <= size THEN ChunkIn(view[n + i - 1]) ELSE NUL
      OBVIOUS
    <2>1. text[i] = IF i <= Len(sectors) /\ read(i) THEN ChunkIn(view[sectors[i]]) ELSE NUL
      OBVIOUS
    <2>2. i <= size => read(i) /\ sectors[i] = n + i - 1
      <3>1. i \in Nat /\ 1 <= i /\ size \in Nat
        BY <1>1, <1>2
      <3>2. i <= size => 1..i \subseteq 1..size /\ i \in 1..size
        BY <3>1
      <3> HIDE DEF sectors, size
      <3> QED
        BY <1>2, <3>2
    <2> HIDE DEF read, text, sectors, size
    <2> QED
      BY <1>2, <2>1, <2>2
  <1> HIDE DEF read, text, zeros, sectors, b, size, next
  <1>10. /\ noSize \in Entry /\ noSize.used = s.entries[f].used
         /\ noSize.name = s.entries[f].name /\ noSize.type = s.entries[f].type
         /\ noSize.parent = s.entries[f].parent /\ noSize.children = s.entries[f].children
         /\ noSize.data = s.entries[f].data /\ noSize.size = 0
    <2> DEFINE e == s.entries[f]
    <2>1. e \in Entry /\ 0 \in 0..MAX_FILE_SIZE
      BY <1>1
    <2>2. noSize = [e EXCEPT !.size = 0]
      OBVIOUS
    <2> HIDE DEF noSize, e
    <2>3. noSize \in Entry
      BY <2>1, <2>2 DEF Entry
    <2>4. /\ noSize.used = e.used /\ noSize.name = e.name /\ noSize.type = e.type
          /\ noSize.parent = e.parent /\ noSize.children = e.children
          /\ noSize.data = e.data /\ noSize.size = 0
      BY <2>1, <2>2 DEF Entry
    <2> QED
      BY <2>3, <2>4 DEF e
  <1>11. s.free # {} =>
            /\ withData \in Entry /\ withData.used = s.entries[f].used
            /\ withData.name = s.entries[f].name /\ withData.type = s.entries[f].type
            /\ withData.parent = s.entries[f].parent
            /\ withData.children = s.entries[f].children
            /\ withData.data = b /\ withData.size = s.entries[f].size
    BY <1>1, <1>4 DEF Entry
  <1> HIDE DEF noSize, withData
  <1>12. /\ unsized \in FsState /\ unsized.next_entry = s.next_entry
         /\ unsized.root = s.root /\ unsized.current_dir = s.current_dir
         /\ unsized.free = s.free /\ unsized.mem = s.mem
         /\ \A g \in Slots \ {f} : unsized.entries[g] = s.entries[g]
         /\ unsized.entries[f] = noSize
    BY <1>10 DEF FsState
  <1> HIDE DEF unsized
  <1> DEFINE cleared(x) == [unsized EXCEPT !.mem = [@ EXCEPT ![b] = x]]
  <1>13. ASSUME s.free # {}, NEW x \in [1..MAX_FILE_SIZE -> Chunk]
         PROVE  OnlyFile(s, cleared(x), f) /\ FileEmpty(s, cleared(x), f)
    <2> DEFINE t == cleared(x)
               m == [unsized.mem EXCEPT ![b] = x]
    <2>1. b \in Buffers \cup {NULL} /\ b \in s.free
      BY <1>1, <1>4, <1>13
    <2>2. m \in Memory /\ \A c \in (Buffers \cup {NULL}) \ {b} : m[c] = s.mem[c]
      BY <1>1, <1>12, <1>13, <2>1 DEF Memory, Chunk
    <2>3. t = [unsized EXCEPT !.mem = m]
      OBVIOUS
    <2> HIDE DEF t, m
    <2>4. /\ t \in FsState /\ t.next_entry = s.next_entry
          /\ t.root = s.root /\ t.current_dir = s.current_dir
          /\ t.free = s.free /\ t.mem = m /\ t.entries = unsized.entries
      BY <1>12, <2>2, <2>3 DEF FsState
    <2>5. OnlyFile(s, t, f) /\ FileEmpty(s, t, f)
      BY <1>10, <1>12, <2>1, <2>2, <2>4 DEF OnlyFile, FileEmpty
    <2> QED
      BY <2>5 DEF t
  <1>14. CASE s.free = {}
    <2>1. r = [sector |-> n, fs |-> unsized]
      BY <1>3, <1>5, <1>14 DEF unsized, noSize
    <2>2. OnlyFile(s, unsized, f) /\ FileEmpty(s, unsized, f)
      BY <1>10, <1>12 DEF OnlyFile, FileEmpty
    <2> QED
      BY <1>8, <1>14, <2>1, <2>2
  <1>15. CASE s.free # {} /\ ~(next <= TotalSectors)
    <2>1. next > TotalSectors
      BY <1>1, <1>2, <1>15
    <2>2. r = [at EXCEPT !.fs.entries[f].size = 0, !.fs.mem[b] = zeros]
      BY <1>3, <1>5, <1>15, <2>1
    <2>3. r = [sector |-> n, fs |-> cleared(zeros)]
      BY <2>2 DEF unsized, noSize
    <2>4. OnlyFile(s, cleared(zeros), f) /\ FileEmpty(s, cleared(zeros), f)
      BY <1>7, <1>13, <1>15
    <2> HIDE DEF cleared
    <2> QED
      BY <1>8, <1>15, <2>3, <2>4
  <1>16. CASE s.free # {} /\ next <= TotalSectors /\ ~read(size)
    <2>1. r = [sector |-> next, fs |-> Unread(s, f, b, text)]
      BY <1>1, <1>2, <1>3, <1>5, <1>16
    <2>2. Unread(s, f, b, text) = cleared(text)
      BY DEF Unread, unsized, noSize
    <2>3. OnlyFile(s, cleared(text), f) /\ FileEmpty(s, cleared(text), f)
      BY <1>6, <1>13, <1>16
    <2> HIDE DEF cleared
    <2> QED
      BY <1>2, <1>8, <1>16, <2>1, <2>2, <2>3
  <1>17. CASE s.free # {} /\ next <= TotalSectors /\ read(size)
    <2> DEFINE less == [s EXCEPT !.free = @ \ {b}]
               m == [s.mem EXCEPT ![b] = text]
               copied == [less EXCEPT !.mem = m]
               e == [s.entries EXCEPT ![f] = withData]
               t == [copied EXCEPT !.entries = e]
    <2>1. r = [sector |-> next, fs |-> t]
      <3>1. r = [sector |-> next, fs |-> [s EXCEPT !.free = @ \ {b}, !.mem[b] = text,
                                                   !.entries[f].data = b]]
        BY <1>1, <1>2, <1>3, <1>5, <1>17
      <3> QED
        BY <3>1 DEF withData
    <2>2. b \in s.free /\ b \in Buffers \cup {NULL}
      BY <1>1, <1>4, <1>17
    <2>3. /\ less \in FsState /\ less.free = s.free \ {b} /\ less.next_entry = s.next_entry
          /\ less.root = s.root /\ less.current_dir = s.current_dir
          /\ less.entries = s.entries /\ less.mem = s.mem
      BY DEF FsState
    <2>4. /\ m \in Memory /\ m[b] = text
          /\ \A c \in (Buffers \cup {NULL}) \ {b} : m[c] = s.mem[c]
      BY <1>1, <1>6, <1>17, <2>2 DEF Memory, Chunk
    <2>5. /\ e \in [Slots -> Entry] /\ e[f] = withData
          /\ \A g \in Slots \ {f} : e[g] = s.entries[g]
      BY <1>1, <1>11, <1>17
    <2> HIDE DEF less, m, e
    <2>6. /\ copied \in FsState /\ copied.free = s.free \ {b}
          /\ copied.next_entry = s.next_entry
          /\ copied.root = s.root /\ copied.current_dir = s.current_dir
          /\ copied.entries = s.entries /\ copied.mem = m
      BY <2>3, <2>4 DEF FsState
    <2> HIDE DEF copied
    <2>7. /\ t \in FsState /\ t.free = s.free \ {b} /\ t.next_entry = s.next_entry
          /\ t.root = s.root /\ t.current_dir = s.current_dir
          /\ t.entries = e /\ t.mem = m
      BY <2>5, <2>6 DEF FsState
    <2> HIDE DEF t
    <2>8. OnlyFile(s, t, f)
      BY <1>11, <1>17, <2>2, <2>4, <2>5, <2>7 DEF OnlyFile
    <2>9. FileRead(s, t, f, n, view)
      BY <1>9, <1>11, <1>17, <2>2, <2>4, <2>5, <2>7 DEF FileRead, size
    <2>10. r.sector = n + s.entries[f].size /\ r.fs = t
      BY <1>2, <2>1 DEF size
    <2>11. r = [sector |-> r.sector, fs |-> r.fs] /\ r.sector \in Nat
      BY <1>2, <2>1
    <2> HIDE DEF r
    <2> QED
      BY <1>8, <1>17, <2>8, <2>9, <2>10, <2>11
  <1> HIDE DEF Goal
  <1> QED
    BY <1>14, <1>15, <1>16, <1>17

\* The tree t has is that of s.
SameTree(s, t) ==
    /\ t.next_entry = s.next_entry /\ t.root = s.root /\ t.current_dir = s.current_dir
    /\ \A g \in Slots :
          /\ t.entries[g].used = s.entries[g].used /\ t.entries[g].name = s.entries[g].name
          /\ t.entries[g].type = s.entries[g].type
          /\ t.entries[g].parent = s.entries[g].parent
          /\ t.entries[g].children = s.entries[g].children

\* Reading one file gives it a buffer of its own or none.
LEMMA OnlyFileKeeps ==
    ASSUME NEW s, FsOK(s), NEW t, NEW f \in Files(s), s.entries[f].data = NULL,
           OnlyFile(s, t, f), NEW n, NEW view,
           FileEmpty(s, t, f) \/ FileRead(s, t, f, n, view)
    PROVE  /\ FsOK(t) /\ SameTree(s, t) /\ t.mem[NULL] = s.mem[NULL]
  <1>1. f \in Slots /\ f \in Used(s) /\ s.entries[f].type = FILE_TYPE_FILE
    BY SlotFacts DEF Files, Used
  <1>2. SameTree(s, t)
    BY DEF OnlyFile, SameTree
  <1>3. s.free \in SUBSET Buffers /\ NULL \notin Buffers
    BY DEF FsOK, FsState, NULL, Buffers
  <1>4. Used(t) = Used(s) /\ Files(t) = Files(s)
    <2>1. \A g \in 1..s.next_entry : g \in Slots
      BY SlotFacts
    <2>2. Used(t) = Used(s)
      BY <1>2, <2>1 DEF SameTree, Used
    <2> QED
      BY <1>2, <2>1, <2>2 DEF SameTree, Files, Used
  <1>5. \A g \in WithData(s) : g # f /\ g \in Slots /\ t.entries[g] = s.entries[g]
    <2>1. \A g \in WithData(s) : g # f /\ g \in Slots
      BY SlotFacts DEF WithData, Files, Used
    <2> QED
      BY <2>1 DEF OnlyFile
  <1>6. \A g \in WithData(t) : g # f => g \in WithData(s) /\ t.entries[g] = s.entries[g]
    <2> SUFFICES ASSUME NEW g \in WithData(t), g # f
                 PROVE  g \in WithData(s) /\ t.entries[g] = s.entries[g]
      OBVIOUS
    <2>1. g \in Files(s) /\ t.entries[g].data # NULL
      BY <1>4 DEF WithData
    <2>4. g \in Slots
      BY <2>1, SlotFacts DEF Files, Used
    <2>2. t.entries[g] = s.entries[g]
      BY <2>4 DEF OnlyFile
    <2>3. g \in WithData(s)
      BY <2>1, <2>2 DEF WithData
    <2> QED
      BY <2>2, <2>3
  <1>7. \A g \in WithData(s) : s.entries[g].data \notin s.free
    BY DEF FsOK, DataOwned
  <1>8. f \in WithData(t) => /\ t.entries[f].data \in s.free
                             /\ t.entries[f].data \notin t.free
    <2> SUFFICES ASSUME f \in WithData(t)
                 PROVE  t.entries[f].data \in s.free /\ t.entries[f].data \notin t.free
      OBVIOUS
    <2>1. t.entries[f].data # NULL
      BY DEF WithData
    <2>2. FileRead(s, t, f, n, view)
      BY <2>1 DEF FileEmpty
    <2> QED
      BY <2>2 DEF FileRead
  <1>9. DataOwned(t)
    <2>1. t.free \subseteq s.free
      BY DEF OnlyFile
    <2>2. \A g, h \in WithData(s) : s.entries[g].data = s.entries[h].data => g = h
      BY DEF FsOK, DataOwned
    <2>3. ASSUME NEW g \in WithData(t) PROVE t.entries[g].data \notin t.free
      BY <1>6, <1>7, <1>8, <2>1
    <2>4. ASSUME NEW g \in WithData(t), NEW h \in WithData(t),
                 t.entries[g].data = t.entries[h].data
          PROVE  g = h
      <3>1. CASE g = f /\ h # f
        BY <1>6, <1>7, <1>8, <2>4, <3>1
      <3>2. CASE g # f /\ h = f
        BY <1>6, <1>7, <1>8, <2>4, <3>2
      <3>3. CASE g # f /\ h # f
        <4>1. /\ g \in WithData(s) /\ t.entries[g].data = s.entries[g].data
              /\ h \in WithData(s) /\ t.entries[h].data = s.entries[h].data
          BY <1>6, <3>3
        <4> QED
          BY <2>2, <2>4, <4>1
      <3> QED
        BY <3>1, <3>2, <3>3
    <2> QED
      BY <2>3, <2>4 DEF DataOwned
  <1>10. FsOK(t)
    <2>1. t \in FsState
      BY DEF OnlyFile
    <2>2. 1..s.next_entry \subseteq Slots /\ NULL \notin Slots
      BY SlotFacts
    <2>3. Anchored(t)
      <3>1. Anchored(s)
        BY DEF FsOK
      <3>2. \A g \in 1..s.next_entry : /\ t.entries[g].parent = s.entries[g].parent
                                       /\ t.entries[g].type = s.entries[g].type
        BY <1>2, <2>2 DEF SameTree
      <3>3. \A g \in 1..s.next_entry :
               s.entries[g].parent # NULL => s.entries[g].parent \in Slots
        BY <2>2, SlotFacts DEF Entry
      <3>4. \A g \in Slots : t.entries[g].type = s.entries[g].type
        BY <1>2 DEF SameTree
      <3> QED
        BY <1>2, <2>2, <3>1, <3>2, <3>3, <3>4 DEF Anchored, SameTree
    <2>4. ListsSound(t)
      <3>1. \A d \in Slots : \A g \in ToSet(s.entries[d].children) : g \in Slots
        BY <2>2, SlotFacts
      <3> QED
        BY <1>2, <1>4, <3>1 DEF SameTree, FsOK, ListsSound
    <2>5. ListsComplete(t)
      <3>1. \A g \in Used(s) : g \in Slots
        BY <2>2 DEF Used
      <3>2. \A g \in Used(s) : s.entries[g].parent # NULL => s.entries[g].parent \in Slots
        BY <3>1, SlotFacts DEF Entry
      <3> QED
        BY <1>2, <1>4, <3>1, <3>2 DEF SameTree, FsOK, ListsComplete
    <2> QED
      BY <1>9, <2>1, <2>3, <2>4, <2>5 DEF FsOK
  <1>11. t.mem[NULL] = s.mem[NULL]
    BY <1>3 DEF OnlyFile
  <1> QED
    BY <1>2, <1>10, <1>11

\* The files up to slot n loaded, as a function of n.
IsLoads(f, s, files, view, n) ==
    f = [k \in 0..n |->
            IF k = 0 THEN [sector |-> 2, fs |-> s]
            ELSE IF k \in files THEN LoadFile(f[k - 1], k, view) ELSE f[k - 1]]

LEMMA LoadsExist ==
    ASSUME NEW s, NEW files, NEW view, NEW n \in Nat
    PROVE  \E f : IsLoads(f, s, files, view, n)
  <1> DEFINE first == [sector |-> 2, fs |-> s]
             Grown(at, k) == IF k \in files THEN LoadFile(at, k, view) ELSE at
             Bad == {m \in Nat : ~\E f : IsLoads(f, s, files, view, m)}
  <1>1. SUFFICES ASSUME Bad # {} PROVE FALSE
    OBVIOUS
  <1>2. PICK m \in Bad : \A k \in Bad : m <= k
    <2>1. Bad \in SUBSET Nat
      OBVIOUS
    <2> HIDE DEF Bad
    <2> QED
      BY <1>1, <2>1, LeastNatural
  <1>3. m \in Nat /\ \A f : ~IsLoads(f, s, files, view, m)
    OBVIOUS
  <1>4. CASE m = 0
    <2> DEFINE f == [k \in 0..0 |-> first]
    <2>1. IsLoads(f, s, files, view, 0)
      BY DEF IsLoads
    <2> QED
      BY <1>3, <1>4, <2>1
  <1>5. CASE m # 0
    <2>1. m - 1 \in Nat /\ m - 1 \notin Bad
      BY <1>2, <1>3, <1>5
    <2>2. PICK f : IsLoads(f, s, files, view, m - 1)
      BY <2>1
    <2> DEFINE g == [k \in 0..m |-> IF k = m THEN Grown(f[m - 1], m) ELSE f[k]]
    <2>3. \A k \in 0..(m - 1) : f[k] = IF k = 0 THEN first ELSE Grown(f[k - 1], k)
      BY <2>2 DEF IsLoads
    <2> HIDE DEF Grown, first
    <2>4. ASSUME NEW k \in 0..m
          PROVE  g[k] = IF k = 0 THEN first ELSE Grown(g[k - 1], k)
      <3>1. CASE k = m
        <4>1. m # 0 /\ m - 1 \in 0..m /\ m - 1 # m
          BY <1>3, <1>5
        <4>2. g[m - 1] = f[m - 1]
          BY <4>1
        <4>3. g[m] = Grown(f[m - 1], m)
          BY <1>3
        <4> QED
          BY <3>1, <4>1, <4>2, <4>3
      <3>2. CASE k # m
        <4>1. k \in 0..(m - 1) /\ g[k] = f[k]
          BY <1>3, <3>2
        <4>2. CASE k = 0
          BY <2>3, <4>1, <4>2
        <4>3. CASE k # 0
          <5>1. k - 1 \in 0..m /\ k - 1 # m
            BY <1>3, <3>2, <4>3
          <5>2. g[k - 1] = f[k - 1]
            BY <5>1
          <5> QED
            BY <2>3, <4>1, <4>3, <5>2
        <4> QED
          BY <4>2, <4>3
      <3> QED
        BY <3>1, <3>2
    <2>5. g = [k \in 0..m |-> g[k]]
      OBVIOUS
    <2> HIDE DEF g
    <2>6. IsLoads(g, s, files, view, m)
      BY <2>4, <2>5 DEF IsLoads, Grown, first
    <2> QED
      BY <1>3, <2>6
  <1> QED
    BY <1>4, <1>5

\* What at is when the files up to slot k have been loaded into s.
LoadedSoFar(s, at, files, k) ==
    /\ at = [sector |-> at.sector, fs |-> at.fs] /\ at.sector \in Nat
    /\ FsOK(at.fs) /\ SameTree(s, at.fs) /\ at.fs.mem[NULL] = s.mem[NULL]
    /\ \A g \in Slots : g \notin files \/ g > k => at.fs.entries[g] = s.entries[g]

\* Each file is read into the state the files before it have left.
LEMMA LoadsInOrder ==
    ASSUME NEW s, FsOK(s), NEW files \in SUBSET Files(s),
           \A g \in files : s.entries[g].data = NULL,
           NEW view, ViewOK(view), NEW f, IsLoads(f, s, files, view, MAX_ENTRIES)
    PROVE  /\ f[0] = [sector |-> 2, fs |-> s]
           /\ \A k \in 1..MAX_ENTRIES :
                 f[k] = IF k \in files THEN LoadFile(f[k - 1], k, view) ELSE f[k - 1]
           /\ \A k \in 0..MAX_ENTRIES : LoadedSoFar(s, f[k], files, k)
  <1> DEFINE first == [sector |-> 2, fs |-> s]
  <1>1. MAX_ENTRIES \in Nat
    BY TableAssumption
  <1>2. \A k \in 0..MAX_ENTRIES :
           f[k] = IF k = 0 THEN first
                  ELSE IF k \in files THEN LoadFile(f[k - 1], k, view) ELSE f[k - 1]
    BY DEF IsLoads
  <1>3. f[0] = first
    BY <1>1, <1>2
  <1>4. \A k \in 1..MAX_ENTRIES :
           f[k] = IF k \in files THEN LoadFile(f[k - 1], k, view) ELSE f[k - 1]
    BY <1>1, <1>2
  <1> DEFINE Bad == {k \in 0..MAX_ENTRIES : ~LoadedSoFar(s, f[k], files, k)}
  <1>5. ASSUME Bad # {} PROVE FALSE
    <2>1. Bad \in SUBSET Nat
      BY <1>1
    <2>2. PICK m \in Bad : \A k \in Bad : m <= k
      <3> HIDE DEF Bad
      <3> QED
        BY <1>5, <2>1, LeastNatural
    <2>3. m \in 0..MAX_ENTRIES /\ ~LoadedSoFar(s, f[m], files, m)
      BY <2>2
    <2>4. m # 0
      <3>1. first = [sector |-> first.sector, fs |-> first.fs] /\ first.fs = s
            /\ first.sector \in Nat
        OBVIOUS
      <3> HIDE DEF first
      <3>2. LoadedSoFar(s, first, files, 0)
        BY <3>1 DEF LoadedSoFar, SameTree
      <3> QED
        BY <1>3, <2>3, <3>2
    <2>5. m - 1 \in 0..MAX_ENTRIES /\ m - 1 \notin Bad /\ m \in 1..MAX_ENTRIES
      BY <1>1, <2>2, <2>3, <2>4
    <2> DEFINE at == f[m - 1]
    <2>6. LoadedSoFar(s, at, files, m - 1)
      BY <2>5
    <2>7. f[m] = IF m \in files THEN LoadFile(at, m, view) ELSE at
      BY <1>4, <2>5
    <2>8. m \in Slots /\ \A g \in Slots : g > m => g > m - 1
      BY <1>1, <2>5 DEF Slots
    <2> HIDE DEF at
    <2>9. CASE m \notin files
      <3>1. LoadedSoFar(s, at, files, m)
        <4>1. \A g \in Slots : g \notin files \/ g > m => g \notin files \/ g > m - 1
          BY <2>8
        <4> QED
          BY <2>6, <4>1 DEF LoadedSoFar
      <3> QED
        BY <2>3, <2>7, <2>9, <3>1
    <2>10. CASE m \in files
      <3> DEFINE n == at.sector
                 u == at.fs
                 r == LoadFile([sector |-> n, fs |-> u], m, view)
      <3>1. n \in Nat /\ FsOK(u) /\ SameTree(s, u) /\ u.mem[NULL] = s.mem[NULL]
        BY <2>6 DEF LoadedSoFar
      <3>2. at = [sector |-> n, fs |-> u]
        BY <2>6 DEF LoadedSoFar
      <3> HIDE DEF n, u
      <3>3. f[m] = r
        BY <2>7, <2>10, <3>2
      <3>4. u.entries[m] = s.entries[m] /\ m \in Files(s) /\ s.entries[m].data = NULL
        <4>1. m > m - 1
          BY <1>1, <2>5
        <4> QED
          BY <2>6, <2>8, <2>10, <4>1 DEF LoadedSoFar, u
      <3>5. m \in Files(u) /\ u.entries[m].data = NULL
        BY <3>1, <3>4 DEF SameTree, Files, Used
      <3>6. u \in FsState
        BY <3>1 DEF FsOK
      <3>7. /\ r = [sector |-> r.sector, fs |-> r.fs] /\ OnlyFile(u, r.fs, m)
            /\ FileEmpty(u, r.fs, m) \/ FileRead(u, r.fs, m, n, view)
            /\ r.sector \in Nat
        BY <2>8, <3>1, <3>6, FileLoaded
      <3> HIDE DEF r
      <3>8. /\ FsOK(r.fs) /\ SameTree(u, r.fs) /\ r.fs.mem[NULL] = u.mem[NULL]
        BY <3>1, <3>5, <3>7, OnlyFileKeeps
      <3>9. \A g \in Slots : g \notin files \/ g > m => r.fs.entries[g] = s.entries[g]
        <4>1. ASSUME NEW g \in Slots, g \notin files \/ g > m
              PROVE  g # m /\ (g \notin files \/ g > m - 1)
          <5>1. g \in Nat /\ m \in Nat
            BY <1>1, <2>5 DEF Slots
          <5> QED
            BY <2>8, <2>10, <4>1, <5>1
        <4> QED
          BY <2>6, <3>7, <4>1 DEF LoadedSoFar, OnlyFile, u
      <3>10. SameTree(s, r.fs)
        BY <3>1, <3>8 DEF SameTree
      <3>11. LoadedSoFar(s, r, files, m)
        BY <3>1, <3>7, <3>8, <3>9, <3>10 DEF LoadedSoFar
      <3> QED
        BY <2>3, <3>3, <3>11
    <2> QED
      BY <2>9, <2>10
  <1> QED
    BY <1>3, <1>4, <1>5

LEMMA FilesLoadedKeeps ==
    ASSUME NEW s, FsOK(s), NEW files \in SUBSET Files(s),
           \A g \in files : s.entries[g].data = NULL,
           NEW view, ViewOK(view)
    PROVE  LET t == FilesLoaded(s, files, view) IN
           /\ FsOK(t) /\ SameTree(s, t) /\ t.mem[NULL] = s.mem[NULL]
  <1> DEFINE f == CHOOSE g : IsLoads(g, s, files, view, MAX_ENTRIES)
  <1>1. FilesLoaded(s, files, view) = f[MAX_ENTRIES].fs
    BY DEF FilesLoaded, IsLoads
  <1>2. MAX_ENTRIES \in Nat
    BY TableAssumption
  <1>3. IsLoads(f, s, files, view, MAX_ENTRIES)
    BY <1>2, LoadsExist
  <1> HIDE DEF f
  <1>4. LoadedSoFar(s, f[MAX_ENTRIES], files, MAX_ENTRIES)
    <2>1. \A k \in 0..MAX_ENTRIES : LoadedSoFar(s, f[k], files, k)
      BY <1>3, LoadsInOrder
    <2>2. MAX_ENTRIES \in 0..MAX_ENTRIES
      BY <1>2
    <2> QED
      BY <2>1, <2>2
  <1> QED
    BY <1>1, <1>4 DEF LoadedSoFar

\* The files a load reads.
FilesToLoad(e, total) ==
    {i \in 1..total : e[i].used = 1 /\ e[i].type = FILE_TYPE_FILE /\ e[i].size > 0}

\* The three ways a load with a header goes, and that it does nothing else.
LEMMA LoadCases ==
    ASSUME NEW s, NEW view, ViewOK(view)
    PROVE  LET t == filesystem_load_from_storage(s, view).fs
               v == view[1]
               e == LoadedEntries(v)
               total == view[0].total
           IN  \/ t = s /\ ~HeaderAt(view[0])
               \/ /\ HeaderAt(view[0]) /\ v = FAILED
                  /\ t = [s EXCEPT !.entries = [i \in Slots |-> ZeroEntry]]
               \/ /\ HeaderAt(view[0]) /\ SectorOK(v) /\ e[1].used # 1
                  /\ t = filesystem_init([s EXCEPT !.entries = e])
               \/ /\ HeaderAt(view[0]) /\ SectorOK(v) /\ e[1].used = 1
                  /\ t = FilesLoaded(Emptied(s, e, total), FilesToLoad(e, total), view)
  <1> DEFINE header == view[0]
             v == view[1]
             e == LoadedEntries(v)
             total == header.total
             t == filesystem_load_from_storage(s, view).fs
             zeroed == [s EXCEPT !.entries = [i \in Slots |-> ZeroEntry]]
  <1>1. (header = FAILED \/ SectorOK(header)) /\ (v = FAILED \/ SectorOK(v))
    BY SectorFacts DEF ViewOK
  <1>2. header.kind = "header" => header.total \in 0..MAX_ENTRIES
    <2> HIDE DEF header
    <2>1. ASSUME header.kind = "header" PROVE header.total \in 0..MAX_ENTRIES
      <3>1. header \in SectorValues
        BY <1>1, <2>1 DEF SectorOK, FAILED
      <3>2. header \in [kind : {"header"}, total : 0..MAX_ENTRIES]
        BY <2>1, <3>1 DEF SectorValues, Blank
      <3> QED
        BY <3>2
    <2> QED
      BY <2>1
  <1>3. MAX_ENTRIES \in Nat
    BY TableAssumption
  <1>4. t = IF header.kind # "header" THEN s
            ELSE IF header.total = 0 \/ header.total > MAX_ENTRIES THEN s
            ELSE IF v = FAILED THEN zeroed
            ELSE LoadTable(s, total, view)
    BY DEF filesystem_load_from_storage, Result
  <1>5. HeaderAt(header) <=> /\ header.kind = "header"
                             /\ ~(header.total = 0 \/ header.total > MAX_ENTRIES)
    BY <1>2, <1>3 DEF HeaderAt
  <1>6. ASSUME HeaderAt(header), v # FAILED, e[1].used # 1
        PROVE  LoadTable(s, total, view) = filesystem_init([s EXCEPT !.entries = e])
    <2>1. total \in 1..MAX_ENTRIES
      BY <1>6 DEF HeaderAt
    <2>2. Roots(e, total) = {}
      BY <1>1, <1>6, <2>1, RootIsFirst
    <2> QED
      BY <2>2 DEF LoadTable
  <1>7. ASSUME HeaderAt(header), v # FAILED, e[1].used = 1
        PROVE  LoadTable(s, total, view) =
                  FilesLoaded(Emptied(s, e, total), FilesToLoad(e, total), view)
    <2>1. total \in 1..MAX_ENTRIES
      BY <1>7 DEF HeaderAt
    <2>2. Roots(e, total) = {1} /\ Min(Roots(e, total)) = 1
      BY <1>1, <1>7, <2>1, RootIsFirst
    <2> DEFINE body(root) ==
                  FilesLoaded([s EXCEPT !.next_entry = total, !.root = root,
                                        !.current_dir = root,
                                        !.entries = Flattened(e, total, root)],
                              FilesToLoad(e, total), view)
    <2>3. LoadTable(s, total, view) =
             IF Roots(e, total) = {} THEN filesystem_init([s EXCEPT !.entries = e])
             ELSE body(Min(Roots(e, total)))
      BY DEF LoadTable, FilesToLoad
    <2>4. body(1) = FilesLoaded(Emptied(s, e, total), FilesToLoad(e, total), view)
      BY DEF Emptied
    <2> HIDE DEF body
    <2> QED
      BY <2>2, <2>3, <2>4
  <1> HIDE DEF header, v, e, total, t, zeroed
  <1>8. \/ t = s /\ ~HeaderAt(header)
        \/ HeaderAt(header) /\ v = FAILED /\ t = zeroed
        \/ /\ HeaderAt(header) /\ SectorOK(v) /\ e[1].used # 1
           /\ t = filesystem_init([s EXCEPT !.entries = e])
        \/ /\ HeaderAt(header) /\ SectorOK(v) /\ e[1].used = 1
           /\ t = FilesLoaded(Emptied(s, e, total), FilesToLoad(e, total), view)
    BY <1>1, <1>4, <1>5, <1>6, <1>7
  <1> QED
    BY <1>8 DEF header, v, e, total, t, zeroed

\* The table cleared: nothing in use, and the root where it was.
LEMMA ClearedOK ==
    ASSUME NEW s, FsOK(s), s.root = 1
    PROVE  LET t == [s EXCEPT !.entries = [i \in Slots |-> ZeroEntry]] IN
           FsOK(t) /\ Rooted(t) /\ t.mem = s.mem /\ Used(t) = {} /\ t.next_entry = s.next_entry
  <1> DEFINE zeros == [i \in Slots |-> ZeroEntry]
             t == [s EXCEPT !.entries = zeros]
  <1>1. /\ ZeroEntry \in Entry /\ ZeroEntry.name # RootName /\ ZeroEntry.used = 0
        /\ ZeroEntry.type # FILE_TYPE_FILE /\ ZeroEntry.children = <<>>
        /\ ZeroEntry.parent = NULL
    <2>1. <<>> \in Seq(Slots) /\ <<Empty>> \in Names /\ 0 \in 0..MAX_FILE_SIZE
      BY TableAssumption, EmptyName
    <2>2. <<Empty>> # RootName
      BY EmptyName
    <2> QED
      BY <2>1, <2>2 DEF ZeroEntry, Entry, FILE_TYPE_FILE
  <1>2. zeros \in [Slots -> Entry] /\ \A i \in Slots : zeros[i] = ZeroEntry
    BY <1>1
  <1> HIDE DEF zeros
  <1>3. /\ t \in FsState /\ t.next_entry = s.next_entry /\ t.root = 1 /\ t.mem = s.mem
        /\ t.current_dir = s.current_dir /\ t.entries = zeros /\ t.free = s.free
    BY <1>2 DEF FsOK, FsState
  <1> HIDE DEF t
  <1>4. 1..s.next_entry \subseteq Slots /\ NULL \notin Slots
    BY SlotFacts
  <1>5. Used(t) = {}
    BY <1>1, <1>2, <1>3, <1>4 DEF Used
  <1>6. Anchored(t)
    <2>1. s.root \in 1..s.next_entry /\ s.current_dir \in 1..s.next_entry
      BY DEF FsOK, Anchored
    <2> QED
      BY <1>1, <1>2, <1>3, <1>4, <2>1 DEF Anchored
  <1>7. ListsSound(t)
    <2>1. IsInjective(<<>>) /\ ToSet(<<>>) = {}
      BY DEF IsInjective, ToSet
    <2> QED
      BY <1>1, <1>2, <1>3, <2>1 DEF ListsSound
  <1>8. ListsComplete(t) /\ DataOwned(t)
    BY <1>5 DEF ListsComplete, DataOwned, WithData, Files
  <1>9. Rooted(t)
    <2>1. 1 \in Slots
      BY TableAssumption DEF Slots
    <2> QED
      BY <1>1, <1>2, <1>3, <2>1 DEF Rooted
  <1> QED
    BY <1>3, <1>5, <1>6, <1>7, <1>8, <1>9 DEF FsOK, t, zeros

LEMMA LoadKeeps ==
    ASSUME NEW s, FsOK(s), Rooted(s), NEW view, ViewOK(view)
    PROVE  LET t == filesystem_load_from_storage(s, view).fs IN
           /\ FsOK(t) /\ Rooted(t) /\ t.mem[NULL] = s.mem[NULL]
  <1> DEFINE t == filesystem_load_from_storage(s, view).fs
             v == view[1]
             e == LoadedEntries(v)
             total == view[0].total
  <1>1. CASE t = s
    BY <1>1
  <1>2. CASE t = [s EXCEPT !.entries = [i \in Slots |-> ZeroEntry]]
    <2>1. s.root = 1
      BY DEF Rooted
    <2>2. FsOK(t) /\ Rooted(t) /\ t.mem = s.mem /\ Used(t) = {}
      BY <1>2, <2>1, ClearedOK
    <2> HIDE DEF t
    <2> QED
      BY <2>2 DEF t
  <1>3. CASE SectorOK(v) /\ t = filesystem_init([s EXCEPT !.entries = e])
    <2> DEFINE u == [s EXCEPT !.entries = e]
    <2>1. /\ e \in [Slots -> Entry] /\ \A i \in Slots : e[i].children = <<>>
          /\ \A i \in Slots : e[i].name = RootName => i = 1
      BY <1>3, LoadedOK
    <2>2. u \in FsState /\ u.entries = e /\ u.mem = s.mem
      <3> HIDE DEF e
      <3> QED
        BY <2>1 DEF FsOK, FsState
    <2> HIDE DEF u, e, t
    <2>3. /\ FsOK(t) /\ t.mem[NULL] = u.mem[NULL] /\ Sized(t)
          /\ t.root = 1 /\ t.entries[1].used = 1 /\ t.entries[1].name = RootName
          /\ t.entries[1].type = FILE_TYPE_DIR
          /\ \A f \in Slots \ {1} :
                t.entries[f].name = u.entries[f].name \/ t.entries[f].name # RootName
      <3>1. t = filesystem_init(u)
        BY <1>3 DEF u
      <3>2. \A d \in Slots : u.entries[d].children = <<>>
        BY <2>1, <2>2
      <3> QED
        BY <2>2, <3>1, <3>2, FreshKeeps
    <2>4. Rooted(t)
      BY <2>1, <2>2, <2>3 DEF Rooted
    <2> QED
      BY <2>2, <2>3, <2>4 DEF t
  <1>4. CASE /\ HeaderAt(view[0]) /\ SectorOK(v) /\ e[1].used = 1
             /\ t = FilesLoaded(Emptied(s, e, total), FilesToLoad(e, total), view)
    <2> DEFINE u == Emptied(s, e, total)
               files == FilesToLoad(e, total)
    <2>1. total \in 1..MAX_ENTRIES /\ s \in FsState
      BY <1>4 DEF HeaderAt, FsOK
    <2>2. /\ FsOK(u) /\ Flat(u, e, total) /\ u.mem = s.mem
          /\ \A f \in Slots : u.entries[f].data = NULL /\ u.entries[f].size = e[f].size
      BY <1>4, <2>1, EmptiedOK
    <2>3. \A i \in Slots : e[i].name = RootName => i = 1
      BY <1>4, LoadedOK
    <2>4. e[1].name = RootName /\ e[1].type = FILE_TYPE_DIR
      BY <1>4, LoadedOK
    <2> HIDE DEF u, e
    <2>5. 1..total \subseteq Slots /\ 1 \in Slots
      BY <2>1, TableAssumption DEF Slots
    <2>6. files \in SUBSET Files(u) /\ \A g \in files : u.entries[g].data = NULL
      BY <2>2, <2>5 DEF FilesToLoad, Flat, Files, Used
    <2>7. FsOK(t) /\ SameTree(u, t) /\ t.mem[NULL] = u.mem[NULL]
      <3>1. t = FilesLoaded(u, files, view)
        BY <1>4 DEF u
      <3> HIDE DEF t, files
      <3>2. LET n == FilesLoaded(u, files, view) IN
            /\ FsOK(n) /\ SameTree(u, n) /\ n.mem[NULL] = u.mem[NULL]
        BY <2>2, <2>6, FilesLoadedKeeps, Zenon
      <3> QED
        BY <3>1, <3>2, Zenon
    <2> HIDE DEF t
    <2>8. Rooted(t)
      BY <1>4, <2>2, <2>3, <2>4, <2>5, <2>7 DEF Flat, SameTree, Rooted
    <2> QED
      BY <2>2, <2>7, <2>8 DEF t
  <1>5. \/ t = s
        \/ t = [s EXCEPT !.entries = [i \in Slots |-> ZeroEntry]]
        \/ SectorOK(v) /\ t = filesystem_init([s EXCEPT !.entries = e])
        \/ /\ HeaderAt(view[0]) /\ SectorOK(v) /\ e[1].used = 1
           /\ t = FilesLoaded(Emptied(s, e, total), FilesToLoad(e, total), view)
    <2> HIDE DEF t
    <2> QED
      BY LoadCases DEF t
  <1> QED
    BY <1>1, <1>2, <1>3, <1>4, <1>5

-----------------------------------------------------------------------------
(* The steps. *)

\* The kernel boots.
LEMMA InitRooted == Rooted(InitialFs)
  <1>1. ZeroEntry.name # RootName /\ \A f \in Slots : Booted.entries[f] = ZeroEntry
    <2>1. <<Empty>> # RootName
      BY EmptyName
    <2> QED
      BY <2>1 DEF ZeroEntry, Booted
  <1> DEFINE t == InitialFs
  <1>2. /\ t.root = 1 /\ t.entries[1].used = 1 /\ t.entries[1].name = RootName
        /\ t.entries[1].type = FILE_TYPE_DIR
        /\ \A f \in Slots \ {1} :
              t.entries[f].name = Booted.entries[f].name \/ t.entries[f].name # RootName
    BY BootedFs, FreshKeeps DEF InitialFs
  <1> HIDE DEF t
  <1>3. Rooted(t)
    BY <1>1, <1>2 DEF Rooted
  <1> QED
    BY <1>3 DEF t

LEMMA BlankOK == SectorOK(Blank)
  BY DEF SectorOK, SectorValues, Blank

LEMMA PInitOK == PInit => PIInv
  <1> SUFFICES ASSUME PInit PROVE PIInv
    OBVIOUS
  <1>1. FsOK(fs) /\ Rooted(fs)
    BY InitFs, InitRooted DEF PInit, Init
  <1>2. StoreOK
    <2>1. devices \in {<<Dev!VDISK0>>, <<Dev!HDD0, Dev!VDISK0>>}
      BY DEF PInit, Dev!Detected
    <2>2. Blank \in SectorValues
      BY DEF SectorValues
    <2>3. /\ disk = [l \in Dev!LBAs |-> Blank] /\ buffer = [s \in Dev!Sectors |-> Blank]
          /\ lost = 0 /\ hddSaved = 0
      BY DEF PInit
    <2> QED
      BY <2>1, <2>2, <2>3, BlankOK DEF StoreOK
  <1>3. queue = <<>> /\ hddSaved = 0
    BY DEF PInit
  <1> QED
    BY <1>1, <1>2, <1>3 DEF PIInv, QueueOK, HddKept

\* What a command does to the root.
LEMMA RootStays ==
    ASSUME NEW s, NEW t, FsOK(s), Rooted(s), Extends(s, t)
    PROVE  Rooted(t)
  <1>1. 1 \in 1..s.next_entry /\ s.next_entry \in Nat /\ 1 \in Slots
    BY SlotFacts DEF Rooted, FsOK, Anchored
  <1>2. ~(1 > s.next_entry)
    BY <1>1
  <1> QED
    BY <1>1, <1>2 DEF Rooted, Extends

LEMMA CommandOK ==
    ASSUME PIInv, Command
    PROVE  PIInv'
  <1>1. PICK path \in Paths : Keeps(fs, fs')
    BY StepKeeps DEF Command, PIInv
  <1>2. FsOK(fs')
    BY <1>1 DEF Keeps
  <1>3. Rooted(fs')
    BY <1>1, RootStays DEF Keeps, PIInv
  <1>4. queue = <<>> /\ UNCHANGED <<drive, devices, disk, buffer, queue, lost, hddSaved>>
    BY DEF Command, store
  <1>5. StoreOK' /\ HddKept'
    BY <1>4 DEF PIInv, StoreOK, HddKept, HeaderAt, RootAt
  <1>6. QueueOK'
    BY <1>4 DEF QueueOK
  <1> QED
    BY <1>2, <1>3, <1>5, <1>6 DEF PIInv

LEMMA LoadOK ==
    ASSUME PIInv, Load
    PROVE  PIInv'
  <1>1. PICK answering \in SUBSET Dev!Sectors :
           fs' = filesystem_load_from_storage(fs, View(answering)).fs
    BY DEF Load
  <1>2. ViewOK(View(answering))
    BY ViewsOK DEF PIInv
  <1>3. FsOK(fs') /\ Rooted(fs')
    BY <1>1, <1>2, LoadKeeps DEF PIInv
  <1>4. queue = <<>> /\ UNCHANGED <<drive, devices, disk, buffer, queue, lost, hddSaved>>
    BY DEF Load, store
  <1>5. StoreOK' /\ HddKept'
    BY <1>4 DEF PIInv, StoreOK, HddKept, HeaderAt, RootAt
  <1>6. QueueOK'
    BY <1>4 DEF QueueOK
  <1> QED
    BY <1>3, <1>5, <1>6 DEF PIInv

LEMMA CycleOK ==
    ASSUME PIInv, PowerCycle
    PROVE  PIInv'
  <1>1. FsOK(fs') /\ Rooted(fs')
    BY InitFs, InitRooted DEF PowerCycle
  <1>2. /\ queue' = <<>> /\ lost' = 0 /\ hddSaved' = hddSaved /\ disk' = disk
        /\ buffer' \in {buffer, [s \in Dev!Sectors |-> Blank]} /\ devices' \in Dev!Detected
    BY DEF PowerCycle
  <1>3. StoreOK'
    <2>1. devices' \in {<<Dev!VDISK0>>, <<Dev!HDD0, Dev!VDISK0>>}
      BY <1>2 DEF Dev!Detected
    <2>2. Blank \in SectorValues
      BY DEF SectorValues
    <2>3. /\ buffer' \in [Dev!Sectors -> SectorValues]
          /\ \A l \in Dev!Sectors : SectorOK(buffer'[l])
      BY <1>2, <2>2, BlankOK DEF PIInv, StoreOK
    <2> QED
      BY <1>2, <2>1, <2>3 DEF PIInv, StoreOK
  <1>4. HddKept'
    BY <1>2 DEF PIInv, HddKept, HeaderAt, RootAt
  <1>5. QueueOK'
    BY <1>2 DEF QueueOK
  <1> QED
    BY <1>1, <1>3, <1>4, <1>5 DEF PIInv

LEMMA OrderIsData ==
    ASSUME NEW q, DataInOrder(q)
    PROVE  DataOnly(q)
  <1>1. q \in Seq(DataWrite) /\ Len(q) \in Nat
    BY DEF DataInOrder
  <1>2. \A i \in 1..Len(q) : q[i].sector = 1 + i /\ 1 + i >= 2
    BY <1>1 DEF DataInOrder
  <1> QED
    BY <1>1, <1>2 DEF DataOnly

LEMMA SaveOK ==
    ASSUME PIInv, Save
    PROVE  PIInv'
  <1>1. /\ fs' = fs /\ UNCHANGED <<drive, devices, disk, buffer, lost>>
        /\ queue' = SaveWrites(fs)
        /\ hddSaved' = IF device = Dev!HDD0 /\ ~HasRoot(fs) THEN 0 ELSE hddSaved
    BY DEF Save, Enqueue, store
  <1>2. /\ DataInOrder(DataWrites(fs, 2))
        /\ SaveWrites(fs) = <<HeaderWrite(fs), TableWrite(fs)>> \o DataWrites(fs, 2)
    BY SavesInOrder DEF PIInv
  <1>3. Saving1'
    <2>1. HeaderWrite(fs') = HeaderWrite(fs) /\ TableWrite(fs') = TableWrite(fs)
      BY <1>1
    <2>2. DataOnly(DataWrites(fs, 2))
      BY <1>2, OrderIsData
    <2> QED
      BY <1>1, <1>2, <2>1, <2>2 DEF Saving1
  <1>4. StoreOK' /\ HddKept'
    BY <1>1 DEF PIInv, StoreOK, HddKept, HeaderAt, RootAt
  <1>5. QueueOK'
    BY <1>1, <1>3 DEF QueueOK, OnHdd, device
  <1> QED
    BY <1>1, <1>4, <1>5 DEF PIInv

LEMMA FormatOK ==
    ASSUME PIInv, Format
    PROVE  PIInv'
  <1>1. /\ fs' = fs /\ UNCHANGED <<drive, devices, disk, buffer, lost>>
        /\ queue' = FormatWrites
        /\ hddSaved' = IF device = Dev!HDD0 THEN 0 ELSE hddSaved
    BY DEF Format, Enqueue, store
  <1>2. Formatting'
    BY <1>1 DEF Formatting, OnHdd, device
  <1>3. StoreOK' /\ HddKept'
    BY <1>1 DEF PIInv, StoreOK, HddKept, HeaderAt, RootAt
  <1>4. QueueOK'
    BY <1>1, <1>2 DEF QueueOK, OnHdd, device
  <1> QED
    BY <1>1, <1>3, <1>4 DEF PIInv

\* The queue from the front.
LEMMA Fronts ==
    ASSUME NEW S, NEW D \in Seq(S), NEW a \in S, NEW b \in S
    PROVE  /\ Head(<<a, b>> \o D) = a /\ Tail(<<a, b>> \o D) = <<b>> \o D
           /\ Head(<<b>> \o D) = b /\ Tail(<<b>> \o D) = D
           /\ <<a, b>> \o D # <<>> /\ <<b>> \o D # <<>>
  OBVIOUS

\* The sectors a save writes.
LEMMA WritesOK ==
    ASSUME FsOK(fs), Rooted(fs)
    PROVE  /\ SectorOK(Header(fs.next_entry)) /\ HeaderAt(Header(fs.next_entry))
           /\ SectorOK(Table(TableOnDisk(fs)))
           /\ HasRoot(fs) => RootAt(Table(TableOnDisk(fs)))
  <1>1. fs.next_entry \in 0..MAX_ENTRIES /\ fs.next_entry \in 1..MAX_ENTRIES
    <2>1. fs.next_entry \in Nat /\ fs.next_entry <= MAX_ENTRIES /\ MAX_ENTRIES \in Nat
      BY SlotFacts, TableAssumption
    <2>2. fs.root \in 1..fs.next_entry
      BY DEF FsOK, Anchored
    <2> QED
      BY <2>1, <2>2
  <1>2. SectorOK(Header(fs.next_entry)) /\ HeaderAt(Header(fs.next_entry))
    BY <1>1 DEF SectorOK, SectorValues, Header, HeaderAt
  <1> DEFINE e == TableOnDisk(fs)
             D == [used : 0..1, name : Names, type : 0..2, size : 0..MAX_FILE_SIZE]
  <1>3. ENTRIES_ON_DISK \in Nat /\ 1 \in 1..ENTRIES_ON_DISK
        /\ \A i \in 1..ENTRIES_ON_DISK : i \in Slots
    BY TableAssumption, DeviceAssumption DEF Slots
  <1>4. \A i \in 1..ENTRIES_ON_DISK :
           /\ e[i] \in D /\ e[i].used = fs.entries[i].used
           /\ e[i].name = fs.entries[i].name /\ e[i].type = fs.entries[i].type
    <2> SUFFICES ASSUME NEW i \in 1..ENTRIES_ON_DISK
                 PROVE  /\ e[i] \in D /\ e[i].used = fs.entries[i].used
                        /\ e[i].name = fs.entries[i].name /\ e[i].type = fs.entries[i].type
      OBVIOUS
    <2>1. fs.entries[i] \in Entry
      BY <1>3, SlotFacts
    <2>2. e[i] = DiskEntry(fs.entries[i])
      BY DEF TableOnDisk
    <2> QED
      BY <2>1, <2>2 DEF DiskEntry, Entry, FILE_TYPE_FILE, FILE_TYPE_DIR
  <1>5. e \in [1..ENTRIES_ON_DISK -> D]
    <2>1. e = [i \in 1..ENTRIES_ON_DISK |-> e[i]]
      BY DEF TableOnDisk
    <2> HIDE DEF e
    <2> QED
      BY <1>4, <2>1
  <1> HIDE DEF e
  <1>6. TableRooted(e)
    BY <1>3, <1>4 DEF Rooted, TableRooted
  <1>7. SectorOK(Table(e))
    BY <1>5, <1>6 DEF SectorOK, SectorValues, Table
  <1>8. HasRoot(fs) => RootAt(Table(e))
    BY <1>3, <1>4 DEF HasRoot, Rooted, RootAt, Table
  <1> QED
    BY <1>2, <1>7, <1>8 DEF e

LEMMA DataOK ==
    ASSUME NEW w \in DataWrite
    PROVE  SectorOK(w.value)
  BY DEF DataWrite, SectorOK, SectorValues, Chunk

\* What one write of head does.
Wrote(o, head) ==
    /\ fs' = fs /\ devices' = devices /\ drive' = drive
    /\ disk' = o.disk /\ buffer' = o.buffer
    /\ queue' = IF o.ret = 0 THEN Tail(queue) ELSE <<>>
    /\ lost' = IF queue' = <<>> THEN 0 ELSE IF o.err = 1 THEN 1 ELSE lost
    /\ hddSaved' = IF /\ device = Dev!HDD0 /\ HasRoot(fs)
                      /\ o.ret = 0 /\ queue' = <<>> /\ head.value # Blank
                      /\ lost = 0 /\ o.err = 0
                   THEN 1 ELSE hddSaved

\* The write went well and more is to come.
LEMMA WroteFacts ==
    ASSUME PIInv, NEW head, SectorOK(head.value), NEW o, Wrote(o, head),
           WriteResult(o, head.sector, head.value)
    PROVE  /\ StoreOK' /\ OnHdd' = OnHdd
           /\ queue' # <<>> => /\ o.ret = 0 /\ hddSaved' = hddSaved
                               /\ lost' = 0 => lost = 0 /\ o.err = 0
           /\ hddSaved' # hddSaved => /\ OnHdd /\ HasRoot(fs) /\ o.ret = 0 /\ lost = 0
                                      /\ queue' = <<>> /\ o.err = 0 /\ head.value # Blank
           /\ \A l \in {0, 1} :
                 /\ ~OnHdd \/ l # head.sector => disk'[l] = disk[l]
                 /\ OnHdd /\ l = head.sector =>
                       /\ disk'[l] \in {disk[l], head.value}
                       /\ o.ret = 0 /\ o.err = 0 => disk'[l] = head.value
  <1>1. /\ devices' = devices /\ disk' = o.disk /\ buffer' = o.buffer
        /\ lost' = IF queue' = <<>> THEN 0 ELSE IF o.err = 1 THEN 1 ELSE lost
        /\ lost \in {0, 1} /\ hddSaved \in {0, 1} /\ o.err \in {0, 1}
    BY DEF Wrote, WriteResult, PIInv, StoreOK
  <1>2. StoreOK'
    BY <1>1 DEF Wrote, WriteResult, PIInv, StoreOK
  <1>3. OnHdd' = OnHdd
    BY <1>1 DEF OnHdd, device
  <1>4. queue' # <<>> => /\ o.ret = 0 /\ hddSaved' = hddSaved
                         /\ lost' = 0 => lost = 0 /\ o.err = 0
    BY <1>1 DEF Wrote
  <1>5. hddSaved' # hddSaved => /\ OnHdd /\ HasRoot(fs) /\ o.ret = 0 /\ lost = 0
                                /\ queue' = <<>> /\ o.err = 0 /\ head.value # Blank
    BY DEF Wrote, OnHdd
  <1> QED
    BY <1>1, <1>2, <1>3, <1>4, <1>5 DEF WriteResult

LEMMA WriteOK ==
    ASSUME PIInv, WriteSector
    PROVE  PIInv'
  <1> DEFINE h == Head(queue)
  <1>1. PICK o \in Dev!WriteOutcomes(device, h.sector, h.value) : Wrote(o, h)
    BY DEF WriteSector, Wrote
  <1>2. fs' = fs /\ queue # <<>> /\ (queue' = Tail(queue) \/ queue' = <<>>)
        /\ (o.ret = 0 => queue' = Tail(queue))
    BY <1>1 DEF Wrote, WriteSector
  <1>3. ASSUME SectorOK(h.value)
        PROVE  /\ StoreOK' /\ OnHdd' = OnHdd
               /\ queue' # <<>> => /\ o.ret = 0 /\ hddSaved' = hddSaved
                                   /\ lost' = 0 => lost = 0 /\ o.err = 0
               /\ hddSaved' # hddSaved => /\ OnHdd /\ HasRoot(fs) /\ o.ret = 0 /\ lost = 0
                                          /\ queue' = <<>> /\ o.err = 0 /\ h.value # Blank
               /\ \A l \in {0, 1} :
                     /\ ~OnHdd \/ l # h.sector => disk'[l] = disk[l]
                     /\ OnHdd /\ l = h.sector =>
                           /\ disk'[l] \in {disk[l], h.value}
                           /\ o.ret = 0 /\ o.err = 0 => disk'[l] = h.value
    <2>1. WriteResult(o, h.sector, h.value)
      BY <1>1, <1>3, DeviceWrites DEF PIInv
    <2> QED
      BY <1>1, <1>3, <2>1, WroteFacts
  <1> DEFINE Kept == /\ StoreOK' /\ HddKept'
                     /\ queue' = <<>> \/ Saving1' \/ Saving2' \/ Saving3' \/ Formatting'
                     /\ queue' # <<>> => hddSaved' = hddSaved /\ OnHdd' = OnHdd
  <1>4. HddKept /\ FsOK(fs) /\ Rooted(fs) /\ QueueOK
    BY DEF PIInv
  <1>5. ASSUME Saving1 PROVE Kept
    <2>1. PICK D : DataOnly(D) /\ queue = <<HeaderWrite(fs), TableWrite(fs)>> \o D
      BY <1>5 DEF Saving1
    <2>2. /\ h = HeaderWrite(fs) /\ Tail(queue) = <<TableWrite(fs)>> \o D
          /\ Tail(queue) # <<>>
      <3> DEFINE S == {HeaderWrite(fs), TableWrite(fs)} \cup DataWrite
      <3>1. D \in Seq(DataWrite) /\ DataWrite \subseteq S
        BY <2>1 DEF DataOnly
      <3>2. D \in Seq(S)
        BY <3>1, SeqMonotonic
      <3>3. HeaderWrite(fs) \in S /\ TableWrite(fs) \in S
        OBVIOUS
      <3> HIDE DEF S
      <3> DEFINE q == <<HeaderWrite(fs), TableWrite(fs)>> \o D
      <3>4. /\ Head(q) = HeaderWrite(fs) /\ Tail(q) = <<TableWrite(fs)>> \o D
            /\ <<TableWrite(fs)>> \o D # <<>>
        BY <3>2, <3>3, Fronts
      <3> QED
        BY <2>1, <3>4, Zenon
    <2>3. h.sector = 0 /\ h.value = Header(fs.next_entry)
      BY <2>2 DEF HeaderWrite
    <2>4. SectorOK(h.value) /\ HeaderAt(h.value)
      BY <1>4, <2>3, WritesOK
    <2> HIDE DEF h
    <2>5. hddSaved' = hddSaved
      BY <1>2, <1>3, <2>2, <2>4
    <2>6. HddKept'
      BY <1>3, <1>4, <2>3, <2>4, <2>5 DEF HddKept
    <2>7. queue' # <<>> => Saving2'
      <3> SUFFICES ASSUME queue' # <<>> PROVE Saving2'
        OBVIOUS
      <3>1. queue' = <<TableWrite(fs)>> \o D /\ TableWrite(fs)' = TableWrite(fs)
        BY <1>2, <2>2 DEF TableWrite, TableOnDisk
      <3>2. HeaderWritten'
        BY <1>3, <2>3, <2>4 DEF HeaderWritten
      <3> QED
        BY <2>1, <3>1, <3>2 DEF Saving2
    <2> QED
      BY <1>3, <2>4, <2>6, <2>7
  <1>6. ASSUME Saving2 PROVE Kept
    <2>1. PICK D : DataOnly(D) /\ queue = <<TableWrite(fs)>> \o D
      BY <1>6 DEF Saving2
    <2>2. h = TableWrite(fs) /\ Tail(queue) = D
      <3> DEFINE S == {TableWrite(fs)} \cup DataWrite
      <3>1. D \in Seq(DataWrite) /\ DataWrite \subseteq S
        BY <2>1 DEF DataOnly
      <3>2. D \in Seq(S)
        BY <3>1, SeqMonotonic
      <3>3. TableWrite(fs) \in S
        OBVIOUS
      <3> HIDE DEF S
      <3> QED
        BY <2>1, <3>2, <3>3, Fronts
    <2>3. h.sector = 1 /\ h.value = Table(TableOnDisk(fs))
      BY <2>2 DEF TableWrite
    <2>4. SectorOK(h.value) /\ (HasRoot(fs) => RootAt(h.value))
      BY <1>4, <2>3, WritesOK
    <2>5. HeaderWritten
      BY <1>6 DEF Saving2
    <2> HIDE DEF h
    <2>6. HddKept'
      <3>1. CASE hddSaved' = hddSaved
        BY <1>2, <1>3, <1>4, <2>3, <2>4, <3>1 DEF HddKept, QueueOK
      <3>2. CASE hddSaved' # hddSaved
        BY <1>3, <2>3, <2>4, <2>5, <3>2 DEF HddKept, HeaderWritten
      <3> QED
        BY <3>1, <3>2
    <2>7. queue' # <<>> => Saving3'
      <3> SUFFICES ASSUME queue' # <<>> PROVE Saving3'
        OBVIOUS
      <3>1. DataOnly(queue')
        BY <1>2, <2>1, <2>2
      <3>2. TableWritten'
        <4>1. ASSUME OnHdd', lost' = 0, HasRoot(fs)'
              PROVE  HeaderAt(disk'[0]) /\ RootAt(disk'[1])
          <5>1. /\ OnHdd /\ HasRoot(fs) /\ lost = 0 /\ o.ret = 0 /\ o.err = 0
            BY <1>2, <1>3, <2>4, <4>1
          <5>2. disk'[0] = disk[0] /\ disk'[1] = h.value
            BY <1>3, <2>3, <2>4, <5>1
          <5> QED
            BY <2>4, <2>5, <5>1, <5>2 DEF HeaderWritten
        <4> QED
          BY <4>1 DEF TableWritten
      <3> QED
        BY <3>1, <3>2 DEF Saving3
    <2> QED
      BY <1>3, <2>4, <2>6, <2>7
  <1>7. ASSUME Saving3 PROVE Kept
    <2>1. DataOnly(queue) /\ TableWritten
      BY <1>7 DEF Saving3
    <2>2. h \in DataWrite /\ h.sector >= 2 /\ DataOnly(Tail(queue))
      <3>1. queue \in Seq(DataWrite) /\ \A i \in 1..Len(queue) : queue[i].sector >= 2
        BY <2>1 DEF DataOnly
      <3> DEFINE n == Len(queue)
                 rest == Tail(queue)
      <3>2. n \in Nat /\ n >= 1 /\ h = queue[1] /\ queue[1] \in DataWrite
        BY <1>2, <3>1
      <3>3. /\ rest \in Seq(DataWrite) /\ Len(rest) = n - 1
            /\ \A i \in 1..(n - 1) : rest[i] = queue[i + 1]
        BY <1>2, <3>1
      <3> HIDE DEF n, rest, h
      <3>4. \A i \in 1..Len(rest) : rest[i].sector >= 2
        <4>1. \A i \in 1..(n - 1) : i + 1 \in 1..n
          BY <3>2
        <4> QED
          BY <3>1, <3>3, <4>1 DEF n
      <3>5. h.sector >= 2
        BY <3>1, <3>2 DEF n
      <3> QED
        BY <3>2, <3>3, <3>4, <3>5 DEF DataOnly, rest
    <2>3. SectorOK(h.value) /\ h.sector \notin {0, 1}
      BY <2>2, DataOK DEF DataWrite
    <2> HIDE DEF h
    <2>4. disk'[0] = disk[0] /\ disk'[1] = disk[1]
      BY <1>3, <2>3
    <2>5. HddKept'
      BY <1>3, <1>4, <2>1, <2>3, <2>4 DEF HddKept, TableWritten
    <2>6. queue' # <<>> => Saving3'
      <3> SUFFICES ASSUME queue' # <<>> PROVE Saving3'
        OBVIOUS
      <3>1. DataOnly(queue')
        BY <1>2, <2>2
      <3>2. TableWritten'
        BY <1>2, <1>3, <2>1, <2>3, <2>4 DEF TableWritten
      <3> QED
        BY <3>1, <3>2 DEF Saving3
    <2> QED
      BY <1>3, <2>3, <2>5, <2>6
  <1>8. ASSUME Formatting PROVE Kept
    <2>1. /\ OnHdd => hddSaved = 0
          /\ queue = FormatWrites \/ queue = Tail(FormatWrites)
      BY <1>8 DEF Formatting
    <2>2. /\ FormatWrites = <<[sector |-> 0, value |-> Header(0)],
                              [sector |-> 1, value |-> Blank]>>
          /\ Tail(FormatWrites) = <<[sector |-> 1, value |-> Blank]>>
          /\ Tail(Tail(FormatWrites)) = <<>> /\ Tail(FormatWrites) # <<>>
      BY DEF FormatWrites
    <2>3. SectorOK(Header(0)) /\ SectorOK(Blank)
      <3>1. 0 \in 0..MAX_ENTRIES
        BY TableAssumption
      <3> QED
        BY <3>1, BlankOK DEF SectorOK, SectorValues, Header
    <2>4. SectorOK(h.value)
      BY <2>1, <2>2, <2>3
    <2>5. hddSaved' = hddSaved
      <3>1. CASE queue = FormatWrites
        <4>1. Tail(queue) # <<>>
          BY <2>2, <3>1
        <4> HIDE DEF h
        <4> QED
          BY <1>2, <1>3, <2>4, <4>1
      <3>2. CASE queue = Tail(FormatWrites)
        <4>1. h.value = Blank
          BY <2>2, <3>2
        <4> HIDE DEF h
        <4> QED
          BY <1>3, <2>4, <4>1
      <3> QED
        BY <2>1, <3>1, <3>2
    <2>6. HddKept'
      <3> HIDE DEF h
      <3>1. OnHdd => hddSaved' = 0
        BY <2>1, <2>5
      <3>2. ~OnHdd => disk'[0] = disk[0] /\ disk'[1] = disk[1]
        BY <1>3, <2>4
      <3> QED
        BY <1>4, <2>5, <3>1, <3>2 DEF HddKept
    <2>7. queue' # <<>> => Formatting'
      <3> HIDE DEF h
      <3>1. queue' # <<>> => queue' = Tail(FormatWrites)
        BY <1>2, <2>1, <2>2
      <3> QED
        BY <1>3, <2>1, <2>4, <2>5, <3>1 DEF Formatting, FormatWrites
    <2> HIDE DEF h
    <2> QED
      BY <1>3, <2>4, <2>6, <2>7
  <1>9. Kept
    <2> HIDE DEF Kept
    <2> QED
      BY <1>2, <1>4, <1>5, <1>6, <1>7, <1>8 DEF QueueOK
  <1>10. QueueOK'
    <2>1. /\ OnHdd' /\ hddSaved' = 1 /\ queue' # <<>> => HasRoot(fs')
      BY <1>2, <1>4, <1>9 DEF QueueOK
    <2> QED
      BY <1>9, <2>1 DEF QueueOK
  <1> QED
    BY <1>2, <1>4, <1>9, <1>10 DEF PIInv

LEMMA PStepOK == PIInv /\ [PNext]_vars => PIInv'
  <1> SUFFICES ASSUME PIInv, [PNext]_vars PROVE PIInv'
    OBVIOUS
  <1>1. CASE UNCHANGED vars
    <2>1. /\ fs' = fs /\ devices' = devices /\ drive' = drive /\ disk' = disk
          /\ buffer' = buffer /\ queue' = queue /\ lost' = lost /\ hddSaved' = hddSaved
      BY <1>1 DEF vars
    <2>2. StoreOK' /\ HddKept'
      BY <2>1 DEF PIInv, StoreOK, HddKept, HeaderAt, RootAt
    <2>3. FsOK(fs') /\ Rooted(fs')
      BY <2>1 DEF PIInv
    <2>4. QueueOK'
      <3>1. /\ HeaderWrite(fs') = HeaderWrite(fs) /\ TableWrite(fs') = TableWrite(fs)
            /\ HasRoot(fs') = HasRoot(fs) /\ OnHdd' = OnHdd
        BY <2>1 DEF OnHdd, device
      <3>2. /\ Saving1 => Saving1'
            /\ HeaderWritten => HeaderWritten'
            /\ TableWritten => TableWritten'
        BY <2>1, <3>1 DEF Saving1, HeaderWritten, TableWritten, HeaderAt, RootAt
      <3>3. /\ Saving2 => Saving2'
            /\ Saving3 => Saving3'
            /\ Formatting => Formatting'
        BY <2>1, <3>1, <3>2 DEF Saving2, Saving3, Formatting
      <3>4. OnHdd' /\ hddSaved' = 1 /\ queue' # <<>> => HasRoot(fs')
        BY <2>1, <3>1 DEF PIInv, QueueOK
      <3>5. queue' = <<>> \/ Saving1' \/ Saving2' \/ Saving3' \/ Formatting'
        BY <2>1, <3>2, <3>3 DEF PIInv, QueueOK
      <3> QED
        BY <3>4, <3>5 DEF QueueOK
    <2> QED
      BY <2>2, <2>3, <2>4 DEF PIInv
  <1> QED
    BY <1>1, CommandOK, SaveOK, FormatOK, WriteOK, LoadOK, CycleOK DEF PNext

-----------------------------------------------------------------------------
(* The theorems. *)

\* The file system stays a tree with buffers of its own however loads go, the
\* only root is slot 1, in memory and on the disk, and what is queued and on HDD0
\* is what the save or the format under way has come to.
THEOREM PersistenceInvariant == PSpec => []PIInv
  BY PInitOK, PStepOK, PTL DEF PSpec

\* However a load goes, no two files share a buffer and no file has a free one.
THEOREM BuffersDistinctCorrect == PSpec => []BuffersDistinct
  <1>1. PIInv => BuffersDistinct
    BY DEF PIInv, FsOK, DataOwned, BuffersDistinct
  <1> QED
    BY <1>1, PersistenceInvariant, PTL

\* Loads, with the tables they flatten, keep the tree a tree.
THEOREM TreeStaysConsistent == PSpec => []TreeConsistent
  <1>1. PIInv => TreeConsistent
    <2> SUFFICES ASSUME FsOK(fs) PROVE TreeConsistent
      BY DEF PIInv
    <2>1. ListsSound(fs) /\ ListsComplete(fs) /\ NULL \notin Slots
      BY SlotFacts DEF FsOK
    <2> QED
      BY <2>1 DEF ListsSound, ListsComplete, TreeConsistent
  <1> QED
    BY <1>1, PersistenceInvariant, PTL

\* A load forgets the buffers of the files it replaces; nothing else leaks one.
THEOREM OnlyLoadLeaksCorrect == PSpec => OnlyLoadLeaks
  <1>1. ASSUME PIInv, [PNext]_vars PROVE [Leaked' \subseteq Leaked \/ Load]_vars
    <2> SUFFICES ASSUME PNext, ~Load PROVE Leaked' \subseteq Leaked
      BY <1>1
    <2>1. Leaked = Lost(fs) /\ Leaked' = Lost(fs')
      BY DEF Leaked, Lost
    <2>2. CASE Command
      <3>1. PICK path \in Paths : Keeps(fs, fs')
        BY <1>1, <2>2, StepKeeps DEF Command, PIInv
      <3> QED
        BY <2>1, <3>1 DEF Keeps
    <2>3. CASE Save \/ Format \/ WriteSector
      <3>1. fs' = fs
        BY <2>3 DEF Save, Format, Enqueue, WriteSector
      <3> QED
        BY <2>1, <3>1
    <2>4. CASE PowerCycle
      <3>1. fs' = InitialFs
        BY <2>4 DEF PowerCycle
      <3> QED
        BY <2>1, <3>1, InitFs
    <2> QED
      BY <2>2, <2>3, <2>4 DEF PNext
  <1> QED
    BY <1>1, PersistenceInvariant, PTL DEF PSpec, OnlyLoadLeaks

\* Whatever saves fail, stop half way or lose sectors after it, a save to HDD0
\* that has completed leaves a file system there that can be loaded.
THEOREM HddStaysLoadableCorrect == PSpec => []HddStaysLoadable
  <1>1. PIInv => HddStaysLoadable
    <2> SUFFICES ASSUME PIInv, hddSaved = 1
                 PROVE  Loadable([s \in Dev!Sectors |-> disk[s]])
      BY DEF HddStaysLoadable
    <2> DEFINE view == [s \in Dev!Sectors |-> disk[s]]
    <2>1. HeaderAt(disk[0]) /\ RootAt(disk[1])
      BY DEF PIInv, HddKept
    <2>2. view[0] = disk[0] /\ view[1] = disk[1]
      BY SectorFacts
    <2>3. SectorOK(disk[1])
      BY SectorFacts DEF PIInv, StoreOK
    <2> HIDE DEF view
    <2> DEFINE v == view[1]
               total == view[0].total
    <2>4. LoadedEntries(v)[1].used = 1
      <3>1. 1 \in Slots /\ 1 <= ENTRIES_ON_DISK
        BY TableAssumption, DeviceAssumption DEF Slots
      <3>2. LoadedEntries(v)[1] = FromDisk(v.entries[1])
        BY <2>1, <2>2, <3>1, LoadedFields DEF RootAt
      <3> QED
        BY <2>1, <2>2, <3>2 DEF FromDisk, RootAt
    <2>5. Roots(LoadedEntries(v), total) = {1}
      <3>1. total \in 1..MAX_ENTRIES
        BY <2>1, <2>2 DEF HeaderAt
      <3> QED
        BY <2>2, <2>3, <2>4, <3>1, RootIsFirst
    <2> QED
      BY <2>1, <2>2, <2>5 DEF Loadable, HeaderAt, view
  <1> QED
    BY <1>1, PersistenceInvariant, PTL

-----------------------------------------------------------------------------
(* What comes back. *)

\* A save is as long as its data and two sectors, and its writes go to the
\* sectors from 0 on.
LEMMA SaveLayout ==
    ASSUME NEW s, FsOK(s)
    PROVE  LET w == SaveWrites(s)
               d == DataWrites(s, 2)
           IN  /\ Len(d) \in Nat /\ Len(w) = 2 + Len(d) /\ d \in Seq(DataWrite)
               /\ w[1] = HeaderWrite(s) /\ w[2] = TableWrite(s)
               /\ \A i \in 1..Len(d) : w[2 + i] = d[i] /\ w[2 + i] \in DataWrite
               /\ \A i \in 1..Len(w) : w[i].sector = i - 1
  <1> DEFINE w == SaveWrites(s)
             d == DataWrites(s, 2)
             n == Len(d)
             front == <<HeaderWrite(s), TableWrite(s)>>
             S == {HeaderWrite(s), TableWrite(s)} \cup DataWrite
  <1>1. d \in Seq(DataWrite) /\ n \in Nat /\ \A i \in 1..n : d[i].sector = 1 + i
    <2>1. DataInOrder(d)
      BY SavesInOrder
    <2> HIDE DEF d
    <2> QED
      BY <2>1 DEF DataInOrder
  <1>2. w = front \o d
    BY SavesInOrder
  <1>3. d \in Seq(S) /\ front \in Seq(S) /\ Len(front) = 2
        /\ front[1] = HeaderWrite(s) /\ front[2] = TableWrite(s)
    <2>1. DataWrite \subseteq S /\ HeaderWrite(s) \in S /\ TableWrite(s) \in S
      OBVIOUS
    <2> HIDE DEF S, d
    <2> QED
      BY <1>1, <2>1, SeqMonotonic
  <1> HIDE DEF S, front, w
  <1>4. /\ w \in Seq(S) /\ Len(w) = 2 + n
        /\ \A i \in 1..(2 + n) : w[i] = IF i <= 2 THEN front[i] ELSE d[i - 2]
    <2> HIDE DEF d
    <2>1. front \o d \in Seq(S) /\ Len(front \o d) = Len(front) + Len(d)
          /\ \A i \in 1..(Len(front) + Len(d)) :
                (front \o d)[i] = IF i <= Len(front) THEN front[i] ELSE d[i - Len(front)]
      BY <1>3, ConcatProperties
    <2> QED
      BY <1>2, <1>3, <2>1
  <1> HIDE DEF d, n
  <1>5. w[1] = HeaderWrite(s) /\ w[2] = TableWrite(s)
    BY <1>1, <1>3, <1>4
  <1>6. \A i \in 1..n : w[2 + i] = d[i] /\ d[i] \in DataWrite
    <2> SUFFICES ASSUME NEW i \in 1..n PROVE w[2 + i] = d[i] /\ d[i] \in DataWrite
      OBVIOUS
    <2>1. 2 + i \in 1..(2 + n) /\ ~(2 + i <= 2) /\ (2 + i) - 2 = i
      BY <1>1
    <2>2. d[i] \in DataWrite
      BY <1>1 DEF n
    <2> QED
      BY <1>4, <2>1, <2>2
  <1>7. ASSUME NEW i \in 1..(2 + n) PROVE w[i].sector = i - 1
    <2>1. CASE i = 1
      BY <1>5, <2>1 DEF HeaderWrite
    <2>2. CASE i = 2
      BY <1>5, <2>2 DEF TableWrite
    <2>3. CASE i # 1 /\ i # 2
      <3>1. i - 2 \in 1..n /\ 2 + (i - 2) = i /\ 1 + (i - 2) = i - 1
        BY <1>1, <2>3
      <3> DEFINE j == i - 2
      <3>2. j \in 1..n /\ 2 + j = i /\ 1 + j = i - 1
        BY <3>1
      <3> HIDE DEF j
      <3>3. w[2 + j] = d[j] /\ d[j].sector = 1 + j
        BY <1>1, <1>6, <3>2
      <3> QED
        BY <3>2, <3>3
    <2> QED
      BY <2>1, <2>2, <2>3
  <1> QED
    BY <1>1, <1>4, <1>5, <1>6, <1>7 DEF w, d, n

\* Each sector of a blank device then holds the one write it got.
LEMMA SavedView ==
    ASSUME NEW s, FsOK(s), NEW l \in Dev!Sectors
    PROVE  WithWrites(SaveWrites(s))[l] =
              IF l < Len(SaveWrites(s)) THEN SaveWrites(s)[l + 1].value ELSE Blank
  <1> DEFINE w == SaveWrites(s)
             I == {i \in 1..Len(w) : w[i].sector = l}
  <1>1. Len(w) \in Nat /\ \A i \in 1..Len(w) : w[i].sector = i - 1
    <2>1. Len(DataWrites(s, 2)) \in Nat /\ Len(w) = 2 + Len(DataWrites(s, 2))
      BY SaveLayout
    <2>2. \A i \in 1..Len(w) : w[i].sector = i - 1
      BY SaveLayout
    <2> QED
      BY <2>1, <2>2
  <1>2. l \in Nat
    BY SectorFacts
  <1>3. WithWrites(w)[l] = IF \E i \in 1..Len(w) : w[i].sector = l THEN w[Max(I)].value
                           ELSE Blank
    BY DEF WithWrites
  <1> HIDE DEF w
  <1>4. CASE l < Len(w)
    <2>1. l + 1 \in 1..Len(w) /\ (l + 1) - 1 = l
      BY <1>1, <1>2, <1>4
    <2>2. w[l + 1].sector = l
      BY <1>1, <2>1
    <2>3. I = {l + 1}
      <3>1. \A i \in 1..Len(w) : i - 1 = l => i = l + 1
        BY <1>1, <1>2
      <3> QED
        BY <1>1, <2>1, <2>2, <3>1
    <2>4. Max({l + 1}) = l + 1
      BY <1>2 DEF Max
    <2> QED
      BY <1>3, <1>4, <2>1, <2>2, <2>3, <2>4 DEF w
  <1>5. CASE ~(l < Len(w))
    <2>1. \A i \in 1..Len(w) : i - 1 # l
      BY <1>1, <1>2, <1>5
    <2> QED
      BY <1>1, <1>3, <1>5, <2>1 DEF w
  <1> QED
    BY <1>4, <1>5

LEMMA SavedViewOK ==
    ASSUME FsOK(fs), Rooted(fs)
    PROVE  LET view == WithWrites(SaveWrites(fs)) IN
           /\ view[0] = Header(fs.next_entry) /\ view[1] = Table(TableOnDisk(fs))
           /\ ViewOK(view) /\ \A l \in Dev!Sectors : view[l] # FAILED
  <1> DEFINE w == SaveWrites(fs)
             n == Len(DataWrites(fs, 2))
             view == WithWrites(w)
  <1>1. /\ n \in Nat /\ Len(w) = 2 + n
        /\ w[1] = HeaderWrite(fs) /\ w[2] = TableWrite(fs)
        /\ \A i \in 1..n : w[2 + i] \in DataWrite
    BY SaveLayout
  <1>2. \A l \in Dev!Sectors : view[l] = IF l < Len(w) THEN w[l + 1].value ELSE Blank
    BY SavedView
  <1> HIDE DEF w, n, view
  <1>3. 0 < Len(w) /\ 1 < Len(w)
    BY <1>1
  <1>4. view[0] = Header(fs.next_entry) /\ view[1] = Table(TableOnDisk(fs))
    BY <1>1, <1>2, <1>3, SectorFacts DEF HeaderWrite, TableWrite
  <1>5. ASSUME NEW l \in Dev!Sectors PROVE SectorOK(view[l])
    <2>1. l \in Nat
      BY SectorFacts
    <2>2. CASE l = 0 \/ l = 1
      BY <1>4, <2>2, WritesOK
    <2>3. CASE l # 0 /\ l # 1 /\ l < Len(w)
      <3>1. l - 1 \in 1..n /\ 2 + (l - 1) = l + 1
        BY <1>1, <2>1, <2>3
      <3>2. w[2 + (l - 1)] \in DataWrite
        BY <1>1, <3>1
      <3> QED
        BY <1>2, <2>3, <3>1, <3>2, DataOK
    <2>4. CASE ~(l < Len(w))
      BY <1>2, <2>4, BlankOK
    <2> QED
      BY <2>2, <2>3, <2>4
  <1>6. \A l \in Dev!Sectors : view[l] # FAILED
    <2>1. \A v : SectorOK(v) => v # FAILED
      BY DEF SectorOK, SectorValues, FAILED, Blank
    <2> QED
      BY <1>5, <2>1
  <1> QED
    BY <1>4, <1>5, <1>6 DEF ViewOK, view, w

\* What the machine that loads the save starts its files from.
LEMMA RestoredFrom ==
    ASSUME FsOK(fs), Rooted(fs), HasRoot(fs)
    PROVE  LET e == LoadedEntries(Table(TableOnDisk(fs)))
               u == Emptied(InitialFs, e, fs.next_entry)
           IN  /\ Restored(fs) = FilesLoaded(u, FilesToLoad(e, fs.next_entry),
                                             WithWrites(SaveWrites(fs)))
               /\ FsOK(u) /\ Flat(u, e, fs.next_entry)
               /\ u.free = InitialFs.free
               /\ \A f \in Slots : u.entries[f].data = NULL /\ u.entries[f].size = e[f].size
               /\ FilesToLoad(e, fs.next_entry) \in SUBSET Files(u)
               /\ \A i \in Slots : i <= ENTRIES_ON_DISK =>
                     /\ e[i].used = fs.entries[i].used /\ e[i].name = fs.entries[i].name
                     /\ e[i].type = fs.entries[i].type /\ e[i].size = fs.entries[i].size
               /\ \A i \in Slots : ~(i <= ENTRIES_ON_DISK) => e[i].used = 0
  <1> DEFINE view == WithWrites(SaveWrites(fs))
             v == Table(TableOnDisk(fs))
             e == LoadedEntries(v)
             total == fs.next_entry
             u == Emptied(InitialFs, e, total)
  <1>1. /\ view[0] = Header(total) /\ view[1] = v /\ ViewOK(view)
        /\ SectorOK(v) /\ HeaderAt(Header(total))
    BY SavedViewOK, WritesOK
  <1>2. v.kind = "table" /\ v.entries = TableOnDisk(fs) /\ Header(total).total = total
    BY DEF Table, Header
  <1>3. ENTRIES_ON_DISK \in Nat /\ 1 \in Slots /\ 1 <= ENTRIES_ON_DISK
        /\ \A i \in Slots : i <= ENTRIES_ON_DISK => i \in 1..ENTRIES_ON_DISK
    BY TableAssumption, DeviceAssumption DEF Slots
  <1>4. \A i \in Slots :
           e[i] = IF i <= ENTRIES_ON_DISK THEN FromDisk(TableOnDisk(fs)[i]) ELSE ZeroEntry
    BY <1>2, LoadedFields
  <1> HIDE DEF e, view, v, total
  <1>5. \A i \in Slots : i <= ENTRIES_ON_DISK =>
           /\ e[i].used = fs.entries[i].used /\ e[i].name = fs.entries[i].name
           /\ e[i].type = fs.entries[i].type /\ e[i].size = fs.entries[i].size
    <2> SUFFICES ASSUME NEW i \in Slots, i <= ENTRIES_ON_DISK
                 PROVE  /\ e[i].used = fs.entries[i].used /\ e[i].name = fs.entries[i].name
                        /\ e[i].type = fs.entries[i].type /\ e[i].size = fs.entries[i].size
      OBVIOUS
    <2>1. TableOnDisk(fs)[i] = DiskEntry(fs.entries[i])
      BY <1>3 DEF TableOnDisk
    <2>2. e[i] = FromDisk(DiskEntry(fs.entries[i]))
      BY <1>4, <2>1
    <2> QED
      BY <2>2 DEF FromDisk, DiskEntry
  <1>6. \A i \in Slots : ~(i <= ENTRIES_ON_DISK) => e[i].used = 0
    BY <1>4 DEF ZeroEntry
  <1>7. e[1].used = 1
    BY <1>3, <1>5 DEF HasRoot, Rooted
  <1>8. total \in 1..MAX_ENTRIES /\ 1..total \subseteq Slots
    BY <1>1, <1>2, TableAssumption DEF HeaderAt, Slots
  <1>9. /\ FsOK(u) /\ Flat(u, e, total) /\ u.free = InitialFs.free
        /\ \A f \in Slots : u.entries[f].data = NULL /\ u.entries[f].size = e[f].size
    BY <1>1, <1>7, <1>8, InitFs, EmptiedOK DEF e, FsOK
  <1>10. Restored(fs) = FilesLoaded(u, FilesToLoad(e, total), view)
    <2> DEFINE t == filesystem_load_from_storage(InitialFs, view).fs
    <2>1. Restored(fs) = t
      BY DEF Restored, view
    <2>2. v # FAILED
      BY <1>2 DEF FAILED
    <2>3. HeaderAt(view[0]) /\ view[0].total = total
      BY <1>1, <1>2
    <2>4. \/ t = InitialFs /\ ~HeaderAt(view[0])
          \/ HeaderAt(view[0]) /\ v = FAILED
          \/ HeaderAt(view[0]) /\ SectorOK(v) /\ e[1].used # 1
          \/ t = FilesLoaded(Emptied(InitialFs, e, total), FilesToLoad(e, total), view)
      <3> HIDE DEF t
      <3> QED
        BY <1>1, <2>3, LoadCases DEF t, e
    <2> HIDE DEF t
    <2> QED
      BY <1>7, <2>1, <2>2, <2>3, <2>4
  <1>11. FilesToLoad(e, total) \in SUBSET Files(u)
    <2> HIDE DEF u
    <2> QED
      BY <1>8, <1>9 DEF FilesToLoad, Flat, Files, Used
  <1> QED
    BY <1>5, <1>6, <1>9, <1>10, <1>11 DEF e, view, v, total

\* The entries of the table sector come back with their names and types.
THEOREM TableComesBackCorrect == PSpec => []TableComesBack
  <1>1. PIInv => TableComesBack
    <2> SUFFICES ASSUME FsOK(fs), Rooted(fs), HasRoot(fs),
                        NEW f \in Used(fs), f <= ENTRIES_ON_DISK
                 PROVE  /\ f \in Used(Restored(fs))
                        /\ Restored(fs).entries[f].name = fs.entries[f].name
                        /\ Restored(fs).entries[f].type = fs.entries[f].type
      BY DEF PIInv, TableComesBack
    <2> DEFINE e == LoadedEntries(Table(TableOnDisk(fs)))
               u == Emptied(InitialFs, e, fs.next_entry)
               files == FilesToLoad(e, fs.next_entry)
               t == Restored(fs)
               view == WithWrites(SaveWrites(fs))
    <2>1. /\ t = FilesLoaded(u, files, view)
          /\ FsOK(u) /\ Flat(u, e, fs.next_entry) /\ files \in SUBSET Files(u)
          /\ \A g \in Slots : u.entries[g].data = NULL
          /\ \A i \in Slots : i <= ENTRIES_ON_DISK =>
                /\ e[i].used = fs.entries[i].used /\ e[i].name = fs.entries[i].name
                /\ e[i].type = fs.entries[i].type
      BY RestoredFrom
    <2>2. ViewOK(view)
      BY SavedViewOK
    <2>3. f \in Slots /\ f \in 1..fs.next_entry /\ fs.entries[f].used = 1
      BY SlotFacts DEF Used
    <2> HIDE DEF e, u, files, t, view
    <2>4. SameTree(u, t)
      <3>1. \A g \in files : u.entries[g].data = NULL
        BY <2>1, SlotFacts DEF Files, Used
      <3> QED
        BY <2>1, <2>2, <3>1, FilesLoadedKeeps
    <2>5. /\ t.next_entry = fs.next_entry /\ t.entries[f].used = 1
          /\ t.entries[f].name = fs.entries[f].name
          /\ t.entries[f].type = fs.entries[f].type
      BY <2>1, <2>3, <2>4 DEF Flat, SameTree
    <2> QED
      BY <2>3, <2>5 DEF Used, t
  <1> QED
    BY <1>1, PersistenceInvariant, PTL

-----------------------------------------------------------------------------
(* Memory at address 0.  The table sector has room for the entries of          *)
(* start-up only, whose files no lookup finds: a file that a load leaves       *)
(* without a buffer is one of those.                                           *)

\* The files in the first n entries have names of two parts.
Unfindable(entries, n) ==
    \A i \in 1..n : entries[i].type = FILE_TYPE_FILE => Len(entries[i].name) # 1

\* The sectors of tables that begin with start-up's entries.
FromStartUp(v) ==
    /\ v.kind = "header" => v.total = 0 \/ v.total >= 8
    /\ v.kind = "table" => Unfindable(v.entries, ENTRIES_ON_DISK)
StartUpSectors == {v \in SectorValues : FromStartUp(v)}
StartUpWrites == [sector : Nat, value : StartUpSectors]

Untouched == [i \in 1..MAX_FILE_SIZE |-> Garbage]

FsHeld(s) ==
    /\ s.next_entry >= 8 /\ Unfindable(s.entries, 8)
    /\ HeldOK(s) /\ s.mem[NULL] = Untouched

HeldInv ==
    /\ FsHeld(fs)
    /\ disk \in [Dev!LBAs -> StartUpSectors] /\ buffer \in [Dev!Sectors -> StartUpSectors]
    /\ queue \in Seq(StartUpWrites)

LEMMA InitHeld == FsHeld(InitialFs)
  <1> DEFINE t == InitialFs
  <1>1. HeldOK(t) /\ t.mem[NULL] = Booted.mem[NULL] /\ \E D : Filled(t, 8, D)
    BY BootedFs, FreshKeeps DEF InitialFs
  <1>2. Booted.mem[NULL] = Untouched
    BY DEF Booted, Untouched
  <1> HIDE DEF t
  <1>3. t.next_entry = 8 /\ Unfindable(t.entries, 8)
    BY <1>1 DEF Filled, Unfindable
  <1>4. FsHeld(t)
    BY <1>1, <1>2, <1>3 DEF FsHeld
  <1> QED
    BY <1>4 DEF t

\* A write puts its value, or nothing, wherever it goes.
LEMMA WriteSpreads ==
    ASSUME NEW S, disk \in [Dev!LBAs -> S], buffer \in [Dev!Sectors -> S],
           NEW sector, NEW value \in S,
           NEW o \in Dev!WriteOutcomes(device, sector, value)
    PROVE  o.disk \in [Dev!LBAs -> S] /\ o.buffer \in [Dev!Sectors -> S]
  <1>1. ASSUME NEW l, NEW w \in Dev!ata_write_sector(l, value)
        PROVE  w.disk \in [Dev!LBAs -> S]
    <2> DEFINE stored == [disk EXCEPT ![l] = value]
    <2>1. w \in {[ret |-> -1, err |-> 0, disk |-> disk]} \cup
               (IF drive = 1 /\ l \in Dev!LBAs
                THEN {[ret |-> -1, err |-> 0, disk |-> stored],
                      [ret |-> 0, err |-> 0, disk |-> stored],
                      [ret |-> 0, err |-> 1, disk |-> disk]}
                ELSE {})
      BY <1>1 DEF Dev!ata_write_sector
    <2>2. stored \in [Dev!LBAs -> S]
      OBVIOUS
    <2> HIDE DEF stored
    <2>3. w.disk \in {disk, stored}
      BY <2>1
    <2> QED
      BY <2>2, <2>3
  <1>2. CASE sector \notin Dev!Sectors
    BY <1>2 DEF Dev!WriteOutcomes
  <1>3. CASE sector \in Dev!Sectors /\ device = Dev!HDD0
    <2>1. PICK w \in Dev!ata_write_sector(sector, value) :
             o = [ret |-> w.ret, err |-> w.err, disk |-> w.disk, buffer |-> buffer]
      BY <1>3 DEF Dev!WriteOutcomes
    <2> QED
      BY <1>1, <2>1
  <1>4. CASE sector \in Dev!Sectors /\ device # Dev!HDD0
    <2> DEFINE kept == [buffer EXCEPT ![sector] = value]
    <2>1. o \in Dev!usb_storage_write_sector(sector, value)
      BY <1>4 DEF Dev!WriteOutcomes
    <2>2. PICK w \in Dev!ata_write_sector(OFFSET + sector, value) :
             o = [ret |-> 0, err |-> w.err, disk |-> w.disk, buffer |-> kept]
      BY <2>1 DEF Dev!usb_storage_write_sector
    <2>3. kept \in [Dev!Sectors -> S]
      OBVIOUS
    <2> HIDE DEF kept
    <2>4. w.disk \in [Dev!LBAs -> S]
      BY <1>1, <2>2
    <2> QED
      BY <2>2, <2>3, <2>4
  <1> QED
    BY <1>2, <1>3, <1>4

\* What a load can read.
LEMMA ViewsHeld ==
    ASSUME HeldInv, NEW answering, NEW s \in Dev!Sectors
    PROVE  View(answering)[s] = FAILED \/ View(answering)[s] \in StartUpSectors
  <1> DEFINE r == Dev!read_sector(device, s, s \in answering)
  <1>1. View(answering)[s] = IF r.ret = 0 THEN r.value ELSE FAILED
    BY DEF View
  <1>2. r.ret = 0 => r.value \in {disk[s], disk[OFFSET + s], buffer[s]}
    BY DEF Dev!read_sector, Dev!ata_read_sector, Dev!usb_storage_read_sector
  <1>3. s \in Dev!LBAs /\ OFFSET + s \in Dev!LBAs
    BY SectorFacts
  <1> HIDE DEF r
  <1> QED
    BY <1>1, <1>2, <1>3 DEF HeldInv

\* The sectors a save and a format write.
LEMMA SaveWritesHeld ==
    ASSUME ENTRIES_ON_DISK <= 8, FsOK(fs), Rooted(fs), FsHeld(fs)
    PROVE  SaveWrites(fs) \in Seq(StartUpWrites)
  <1>1. Header(fs.next_entry) \in StartUpSectors
    <2>1. Header(fs.next_entry) \in SectorValues
      BY WritesOK DEF SectorOK
    <2>2. FromStartUp(Header(fs.next_entry))
      BY DEF FromStartUp, Header, FsHeld
    <2> QED
      BY <2>1, <2>2 DEF StartUpSectors
  <1>2. Table(TableOnDisk(fs)) \in StartUpSectors
    <2>1. Table(TableOnDisk(fs)) \in SectorValues
      BY WritesOK DEF SectorOK
    <2>2. Unfindable(TableOnDisk(fs), ENTRIES_ON_DISK)
      <3>1. \A i \in 1..ENTRIES_ON_DISK : i \in 1..8
        BY DeviceAssumption, TableAssumption
      <3>2. \A i \in 1..ENTRIES_ON_DISK : TableOnDisk(fs)[i] = DiskEntry(fs.entries[i])
        BY DEF TableOnDisk
      <3>3. \A e : DiskEntry(e).name = e.name /\ DiskEntry(e).type = e.type
        BY DEF DiskEntry
      <3> QED
        BY <3>1, <3>2, <3>3 DEF Unfindable, FsHeld
    <2>3. FromStartUp(Table(TableOnDisk(fs)))
      BY <2>2 DEF FromStartUp, Table
    <2> QED
      BY <2>1, <2>3 DEF StartUpSectors
  <1>3. DataWrite \subseteq StartUpWrites
    <2>1. ASSUME NEW w \in DataWrite PROVE w.value \in StartUpSectors
      <3>1. w.value \in SectorValues
        BY DataOK DEF SectorOK
      <3>2. w.value.kind = "data"
        BY DEF DataWrite
      <3> QED
        BY <3>1, <3>2 DEF StartUpSectors, FromStartUp
    <2> QED
      BY <2>1 DEF DataWrite, StartUpWrites
  <1>4. HeaderWrite(fs) \in StartUpWrites /\ TableWrite(fs) \in StartUpWrites
    BY <1>1, <1>2 DEF HeaderWrite, TableWrite, StartUpWrites
  <1> DEFINE d == DataWrites(fs, 2)
  <1>5. SaveWrites(fs) = <<HeaderWrite(fs), TableWrite(fs)>> \o d /\ d \in Seq(DataWrite)
    BY SavesInOrder DEF DataInOrder
  <1> HIDE DEF d
  <1>6. d \in Seq(StartUpWrites)
    BY <1>3, <1>5, SeqMonotonic
  <1>7. <<HeaderWrite(fs), TableWrite(fs)>> \in Seq(StartUpWrites)
    BY <1>4
  <1> QED
    BY <1>5, <1>6, <1>7

LEMMA FormatWritesHeld == FormatWrites \in Seq(StartUpWrites)
  <1>1. Header(0) \in SectorValues /\ Blank \in SectorValues
    BY TableAssumption DEF SectorValues, Header
  <1>2. FromStartUp(Header(0)) /\ FromStartUp(Blank)
    BY DEF FromStartUp, Header, Blank
  <1>3. [sector |-> 0, value |-> Header(0)] \in StartUpWrites
        /\ [sector |-> 1, value |-> Blank] \in StartUpWrites
    BY <1>1, <1>2 DEF StartUpSectors, StartUpWrites
  <1> QED
    BY <1>3 DEF FormatWrites

\* A load of such sectors: the files it leaves without a buffer are start-up's.
LEMMA LoadHeld ==
    ASSUME ENTRIES_ON_DISK <= 8, NEW s, FsOK(s), Rooted(s), FsHeld(s),
           NEW view, ViewOK(view),
           \A l \in Dev!Sectors : view[l] = FAILED \/ view[l] \in StartUpSectors
    PROVE  FsHeld(filesystem_load_from_storage(s, view).fs)
  <1> DEFINE t == filesystem_load_from_storage(s, view).fs
             v == view[1]
             e == LoadedEntries(v)
             total == view[0].total
  <1>1. CASE t = s
    BY <1>1
  <1>2. CASE t = [s EXCEPT !.entries = [i \in Slots |-> ZeroEntry]]
    <2> DEFINE zeros == [i \in Slots |-> ZeroEntry]
    <2>1. t.mem = s.mem /\ Used(t) = {} /\ t.next_entry = s.next_entry
      BY <1>2, ClearedOK DEF Rooted
    <2>2. t.entries = zeros
      BY <1>2 DEF FsOK, FsState
    <2>3. \A i \in 1..8 : zeros[i].type # FILE_TYPE_FILE
      BY TableAssumption DEF ZeroEntry, Slots, FILE_TYPE_FILE
    <2> HIDE DEF t, zeros
    <2>4. Unfindable(t.entries, 8)
      BY <2>2, <2>3 DEF Unfindable
    <2>5. HeldOK(t)
      BY <2>1 DEF HeldOK, Files
    <2> QED
      BY <2>1, <2>4, <2>5 DEF FsHeld, t
  <1>3. CASE SectorOK(v) /\ t = filesystem_init([s EXCEPT !.entries = e])
    <2> DEFINE u == [s EXCEPT !.entries = e]
    <2>1. e \in [Slots -> Entry] /\ \A i \in Slots : e[i].children = <<>>
      BY <1>3, LoadedOK
    <2>2. u \in FsState /\ u.entries = e /\ u.mem = s.mem
      <3> HIDE DEF e
      <3> QED
        BY <2>1 DEF FsOK, FsState
    <2>3. t = filesystem_init(u)
      BY <1>3
    <2> HIDE DEF u, e, t
    <2>4. HeldOK(t) /\ t.mem[NULL] = u.mem[NULL] /\ \E D : Filled(t, 8, D)
      BY <2>1, <2>2, <2>3, FreshKeeps
    <2>5. t.next_entry = 8 /\ Unfindable(t.entries, 8)
      BY <2>4 DEF Filled, Unfindable
    <2> QED
      BY <2>2, <2>4, <2>5 DEF FsHeld, t
  <1>4. CASE /\ HeaderAt(view[0]) /\ SectorOK(v) /\ e[1].used = 1
             /\ t = FilesLoaded(Emptied(s, e, total), FilesToLoad(e, total), view)
    <2> DEFINE u == Emptied(s, e, total)
               files == FilesToLoad(e, total)
    <2>1. total \in 1..MAX_ENTRIES /\ s \in FsState /\ total >= 8
      <3>1. view[0] # FAILED /\ view[0].kind = "header" /\ total \in 1..MAX_ENTRIES
        BY <1>4 DEF HeaderAt, FAILED
      <3>2. view[0] \in StartUpSectors
        BY <3>1, SectorFacts
      <3>3. total = 0 \/ total >= 8
        BY <3>1, <3>2 DEF StartUpSectors, FromStartUp
      <3> HIDE DEF total
      <3>4. total # 0
        BY <3>1, TableAssumption
      <3> QED
        BY <3>1, <3>3, <3>4 DEF FsOK
    <2>2. /\ FsOK(u) /\ Flat(u, e, total) /\ u.mem = s.mem
          /\ \A f \in Slots : u.entries[f].data = NULL /\ u.entries[f].size = e[f].size
      BY <1>4, <2>1, EmptiedOK
    <2>3. \A i \in Slots : e[i].type = FILE_TYPE_FILE =>
             i <= ENTRIES_ON_DISK /\ Len(e[i].name) # 1
      <3> SUFFICES ASSUME NEW i \in Slots, e[i].type = FILE_TYPE_FILE
                   PROVE  i <= ENTRIES_ON_DISK /\ Len(e[i].name) # 1
        OBVIOUS
      <3>1. e[i] = IF v.kind = "table" /\ i <= ENTRIES_ON_DISK THEN FromDisk(v.entries[i])
                   ELSE ZeroEntry
        BY LoadedFields
      <3> HIDE DEF e
      <3>2. /\ v.kind = "table" /\ i <= ENTRIES_ON_DISK /\ e[i] = FromDisk(v.entries[i])
        BY <3>1 DEF ZeroEntry, FILE_TYPE_FILE
      <3>3. v \in StartUpSectors
        BY <3>2, SectorFacts DEF FAILED
      <3>4. Unfindable(v.entries, ENTRIES_ON_DISK)
        BY <3>2, <3>3 DEF StartUpSectors, FromStartUp
      <3>5. i \in 1..ENTRIES_ON_DISK
        BY <3>2, DeviceAssumption, TableAssumption DEF Slots
      <3>6. v.entries[i].type = e[i].type /\ v.entries[i].name = e[i].name
        BY <3>2 DEF FromDisk
      <3> QED
        BY <3>2, <3>4, <3>5, <3>6 DEF Unfindable
    <2> HIDE DEF u, e
    <2>4. 1..total \subseteq Slots /\ 1..8 \subseteq Slots
      BY <2>1, TableAssumption DEF Slots
    <2>5. files \in SUBSET Files(u) /\ \A g \in files : u.entries[g].data = NULL
      BY <2>2, <2>4 DEF FilesToLoad, Flat, Files, Used
    <2>6. FsOK(t) /\ SameTree(u, t) /\ t.mem[NULL] = u.mem[NULL]
      <3>1. t = FilesLoaded(u, files, view)
        BY <1>4 DEF u
      <3> HIDE DEF t, files
      <3> QED
        BY <2>2, <2>5, <3>1, FilesLoadedKeeps
    <2> HIDE DEF t
    <2>7. \A f \in Slots : t.entries[f].type = FILE_TYPE_FILE => Len(t.entries[f].name) # 1
      BY <2>2, <2>3, <2>6 DEF Flat, SameTree
    <2>8. t.next_entry = total
      BY <2>2, <2>6 DEF Flat, SameTree
    <2>9. HeldOK(t)
      <3>1. \A f \in Files(t) : f \in Slots /\ t.entries[f].type = FILE_TYPE_FILE
        BY <2>4, <2>8 DEF Files, Used
      <3> QED
        BY <2>7, <3>1 DEF HeldOK
    <2>10. Unfindable(t.entries, 8)
      BY <2>4, <2>7 DEF Unfindable
    <2> QED
      BY <2>1, <2>2, <2>6, <2>8, <2>9, <2>10 DEF FsHeld, t
  <1>5. \/ t = s
        \/ t = [s EXCEPT !.entries = [i \in Slots |-> ZeroEntry]]
        \/ SectorOK(v) /\ t = filesystem_init([s EXCEPT !.entries = e])
        \/ /\ HeaderAt(view[0]) /\ SectorOK(v) /\ e[1].used = 1
           /\ t = FilesLoaded(Emptied(s, e, total), FilesToLoad(e, total), view)
    <2> HIDE DEF t
    <2> QED
      BY LoadCases DEF t
  <1> QED
    BY <1>1, <1>2, <1>3, <1>4, <1>5

LEMMA HeldInit == PInit => HeldInv
  <1> SUFFICES ASSUME PInit PROVE HeldInv
    OBVIOUS
  <1>1. FsHeld(fs)
    BY InitHeld DEF PInit, Init
  <1>2. Blank \in StartUpSectors
    BY DEF StartUpSectors, SectorValues, FromStartUp, Blank
  <1>3. /\ disk = [l \in Dev!LBAs |-> Blank] /\ buffer = [s \in Dev!Sectors |-> Blank]
        /\ queue = <<>>
    BY DEF PInit
  <1> QED
    BY <1>1, <1>2, <1>3 DEF HeldInv

LEMMA HeldStep ==
    ASSUME ENTRIES_ON_DISK <= 8, PIInv, HeldInv, [PNext]_vars
    PROVE  HeldInv'
  <1>1. CASE UNCHANGED vars
    BY <1>1 DEF vars, HeldInv
  <1>2. CASE Command
    <2>1. PICK path \in Paths : Keeps(fs, fs')
      BY <1>2, StepKeeps DEF Command, PIInv
    <2>2. HeldOK(fs') /\ fs'.mem[NULL] = fs.mem[NULL]
      BY <2>1 DEF Keeps, HoldsOn, HeldInv, FsHeld
    <2>3. fs'.next_entry >= 8
      <3>1. fs.next_entry >= 8 /\ fs.next_entry <= fs'.next_entry
        BY <2>1 DEF Keeps, Extends, HeldInv, FsHeld
      <3>2. fs.next_entry \in Nat /\ fs'.next_entry \in Nat
        BY <2>1, SlotFacts DEF Keeps, PIInv
      <3> QED
        BY <3>1, <3>2
    <2>4. Unfindable(fs'.entries, 8)
      <3>1. \A i \in 1..8 : i \in Slots /\ ~(i > fs.next_entry)
        BY TableAssumption, SlotFacts DEF Slots, HeldInv, FsHeld, PIInv
      <3>2. \A i \in 1..8 : /\ fs'.entries[i].name = fs.entries[i].name
                            /\ fs'.entries[i].type = fs.entries[i].type
        BY <2>1, <3>1 DEF Keeps, Extends
      <3> QED
        BY <3>2 DEF HeldInv, FsHeld, Unfindable
    <2>5. FsHeld(fs')
      BY <2>2, <2>3, <2>4 DEF FsHeld, HeldInv
    <2> QED
      BY <1>2, <2>5 DEF Command, store, HeldInv
  <1>3. CASE Save
    <2>1. fs' = fs /\ UNCHANGED store /\ queue' = SaveWrites(fs)
      BY <1>3 DEF Save, Enqueue
    <2>2. SaveWrites(fs) \in Seq(StartUpWrites)
      BY SaveWritesHeld DEF PIInv, HeldInv
    <2> QED
      BY <2>1, <2>2 DEF HeldInv, store
  <1>4. CASE Format
    <2>1. fs' = fs /\ UNCHANGED store /\ queue' = FormatWrites
      BY <1>4 DEF Format, Enqueue
    <2> QED
      BY <2>1, FormatWritesHeld DEF HeldInv, store
  <1>5. CASE WriteSector
    <2> DEFINE h == Head(queue)
    <2>1. PICK o \in Dev!WriteOutcomes(device, h.sector, h.value) :
             /\ disk' = o.disk /\ buffer' = o.buffer
             /\ queue' = IF o.ret = 0 THEN Tail(queue) ELSE <<>>
      BY <1>5 DEF WriteSector
    <2>2. fs' = fs /\ queue # <<>> /\ queue \in Seq(StartUpWrites)
      BY <1>5 DEF WriteSector, HeldInv
    <2>3. h \in StartUpWrites /\ Tail(queue) \in Seq(StartUpWrites)
      BY <2>2
    <2> HIDE DEF h
    <2>4. h.value \in StartUpSectors
      BY <2>3 DEF StartUpWrites
    <2>5. disk' \in [Dev!LBAs -> StartUpSectors] /\ buffer' \in [Dev!Sectors -> StartUpSectors]
      BY <2>1, <2>4, WriteSpreads DEF HeldInv
    <2>6. queue' \in Seq(StartUpWrites)
      BY <2>1, <2>3
    <2> QED
      BY <2>2, <2>5, <2>6 DEF HeldInv
  <1>6. CASE Load
    <2>1. PICK answering \in SUBSET Dev!Sectors :
             fs' = filesystem_load_from_storage(fs, View(answering)).fs
      BY <1>6 DEF Load
    <2>2. ViewOK(View(answering))
      BY ViewsOK DEF PIInv
    <2>3. FsHeld(fs')
      BY <2>1, <2>2, ViewsHeld, LoadHeld DEF PIInv, HeldInv
    <2> QED
      BY <1>6, <2>3 DEF Load, store, HeldInv
  <1>7. CASE PowerCycle
    <2>1. /\ fs' = InitialFs /\ queue' = <<>> /\ disk' = disk
          /\ buffer' \in {buffer, [s \in Dev!Sectors |-> Blank]}
      BY <1>7 DEF PowerCycle
    <2>2. Blank \in StartUpSectors
      BY DEF StartUpSectors, SectorValues, FromStartUp, Blank
    <2> QED
      BY <2>1, <2>2, InitHeld DEF HeldInv
  <1> QED
    BY <1>1, <1>2, <1>3, <1>4, <1>5, <1>6, <1>7 DEF PNext

\* No write through the missing buffer of a loaded file reaches address 0, when
\* the table sector has room for start-up's eight entries at most, as it has on
\* the machine.
THEOREM NothingAtAddressZeroCorrect ==
    ASSUME ENTRIES_ON_DISK <= 8
    PROVE  PSpec => []NothingAtAddressZero
  <1>1. HeldInv => NothingAtAddressZero
    BY DEF HeldInv, FsHeld, Untouched, NothingAtAddressZero
  <1>2. PIInv /\ HeldInv /\ [PNext]_vars => HeldInv'
    BY HeldStep
  <1> QED
    BY <1>1, <1>2, HeldInit, PersistenceInvariant, PTL DEF PSpec
=============================================================================
