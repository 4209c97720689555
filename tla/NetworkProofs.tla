--------------------------- MODULE NetworkProofs ---------------------------
(***************************************************************************)
(* Proofs about the network interfaces and the PCI scan, for every machine, *)
(* every size of rings, tables and heap, and every order of commands.      *)
(***************************************************************************)
EXTENDS Network, TLAPS, FiniteSetTheorems, NaturalsInduction, WellFoundedInduction

\* Every non-empty set of naturals has a least element.
LEMMA LeastNatural ==
    ASSUME NEW S \in SUBSET Nat, S # {}
    PROVE  \E x \in S : \A y \in S : x <= y
  <1>1. PICK x \in S : \A y \in S : ~(<<y, x>> \in OpToRel(<, Nat))
    BY NatLessThanWellFounded, WFMin
  <1>2. \A y \in S : ~(y < x)
    BY <1>1 DEF OpToRel
  <1> QED
    BY <1>2, SMT

-----------------------------------------------------------------------------
(* Slots: the functions of a device are neighbours.                          *)

LEMMA SlotParts ==
    ASSUME NEW s \in Nat
    PROVE  /\ Device(s) \in Nat /\ Function(s) \in 0..(PCI_FUNCTIONS - 1)
           /\ s = PCI_FUNCTIONS * Device(s) + Function(s)
           /\ FirstFunction(s) = PCI_FUNCTIONS * Device(s)
           /\ FirstFunction(s) \in Nat /\ FirstFunction(s) <= s
  BY PciAssumption, SMT DEF Device, Function, FirstFunction

\* A slot is determined by its device and function, and the other way round.
LEMMA PartsUnique ==
    ASSUME NEW F \in Nat \ {0}, NEW p \in Nat, NEW q \in Nat,
           NEW i \in 0..(F - 1), NEW j \in 0..(F - 1), F * p + i = F * q + j
    PROVE  p = q
  <1>1. CASE p < q
    <2>1. PICK d \in Nat : q = p + 1 + d
      BY <1>1
    <2>2. F * q = F * p + F + F * d
      BY <2>1, SMT
    <2>3. F * d \in Nat /\ F * p \in Nat
      BY <2>1, SMT
    <2> QED
      BY <2>2, <2>3, SMT
  <1>2. CASE q < p
    <2>1. PICK d \in Nat : p = q + 1 + d
      BY <1>2
    <2>2. F * p = F * q + F + F * d
      BY <2>1, SMT
    <2>3. F * d \in Nat /\ F * q \in Nat
      BY <2>1, SMT
    <2> QED
      BY <2>2, <2>3, SMT
  <1> QED
    BY <1>1, <1>2

\* What lies between a slot and its first function belongs to the same device.
LEMMA SameDevice ==
    ASSUME NEW s \in Nat, NEW n \in Nat, FirstFunction(s) <= n, n <= s
    PROVE  Device(n) = Device(s) /\ FirstFunction(n) = FirstFunction(s)
  <1> DEFINE F == PCI_FUNCTIONS
             q == Device(s)
             p == Device(n)
             j == n - FirstFunction(s)
  <1>1. F \in Nat \ {0}
    BY PciAssumption
  <1>2. /\ q \in Nat /\ p \in Nat /\ FirstFunction(s) = F * q /\ FirstFunction(n) = F * p
        /\ Function(n) \in 0..(F - 1) /\ Function(s) \in 0..(F - 1)
        /\ n = F * p + Function(n) /\ s = F * q + Function(s)
        /\ FirstFunction(s) \in Nat
    BY SlotParts
  <1>3. j \in 0..(F - 1) /\ n = FirstFunction(s) + j
    BY <1>1, <1>2
  <1>4. F * p + Function(n) = F * q + j
    BY <1>2, <1>3
  <1> HIDE DEF F, q, p, j
  <1>5. p = q
    BY <1>1, <1>2, <1>3, <1>4, PartsUnique
  <1> QED
    BY <1>2, <1>5 DEF p, q

\* The first function of a device is function 0 of it.
LEMMA FirstIsFunctionZero ==
    ASSUME NEW s \in Nat
    PROVE  /\ Function(FirstFunction(s)) = 0
           /\ Device(FirstFunction(s)) = Device(s)
           /\ Function(s) = 0 <=> FirstFunction(s) = s
  <1>1. /\ FirstFunction(s) \in Nat /\ FirstFunction(s) <= s
        /\ s = FirstFunction(s) + Function(s) /\ Function(s) \in Int
    BY SlotParts, PciAssumption
  <1>2. Device(FirstFunction(s)) = Device(s) /\ FirstFunction(FirstFunction(s)) = FirstFunction(s)
    BY <1>1, SameDevice
  <1>3. /\ FirstFunction(s) = FirstFunction(FirstFunction(s)) + Function(FirstFunction(s))
        /\ Function(FirstFunction(s)) \in Int
    BY <1>1, SlotParts, PciAssumption
  <1> QED
    BY <1>1, <1>2, <1>3

-----------------------------------------------------------------------------
(* The PCI scan.                                                             *)

Entries(machine) == {PciEntry(machine, slot) : slot \in Slots}

\* The scan after n slots, as a function of n.
IsScan(f, machine, n) ==
    f = [k \in 0..n |-> IF k = 0 THEN [table |-> <<>>, skip |-> -1, full |-> FALSE]
                        ELSE Scanned(f[k - 1], machine, k - 1)]

LEMMA ScanExists ==
    ASSUME NEW machine, NEW n \in Nat
    PROVE  \E f : IsScan(f, machine, n)
  <1> DEFINE start == [table |-> <<>>, skip |-> -1, full |-> FALSE]
             Bad == {m \in Nat : ~\E f : IsScan(f, machine, m)}
  <1>1. SUFFICES ASSUME Bad # {} PROVE FALSE
    OBVIOUS
  <1>2. PICK m \in Bad : \A k \in Bad : m <= k
    <2>1. Bad \in SUBSET Nat
      OBVIOUS
    <2> HIDE DEF Bad
    <2> QED
      BY <1>1, <2>1, LeastNatural
  <1>3. m \in Nat /\ \A f : ~IsScan(f, machine, m)
    OBVIOUS
  <1>4. CASE m = 0
    <2> DEFINE f == [k \in 0..0 |-> start]
    <2>1. IsScan(f, machine, 0)
      BY DEF IsScan
    <2> QED
      BY <1>3, <1>4, <2>1
  <1>5. CASE m # 0
    <2>1. m - 1 \in Nat /\ m - 1 \notin Bad
      BY <1>2, <1>3, <1>5
    <2>2. PICK f : IsScan(f, machine, m - 1)
      BY <2>1
    <2> HIDE DEF start
    <2> DEFINE g == [k \in 0..m |-> IF k = m THEN Scanned(f[m - 1], machine, m - 1) ELSE f[k]]
    <2>3. \A k \in 0..(m - 1) :
             f[k] = IF k = 0 THEN start ELSE Scanned(f[k - 1], machine, k - 1)
      BY <2>2 DEF IsScan, start
    <2>4. ASSUME NEW k \in 0..m
          PROVE  g[k] = IF k = 0 THEN start ELSE Scanned(g[k - 1], machine, k - 1)
      <3>1. CASE k = m
        <4>1. m # 0 /\ m - 1 \in 0..m /\ m - 1 # m
          BY <1>3, <1>5
        <4>2. g[m - 1] = f[m - 1]
          BY <4>1
        <4>3. g[m] = Scanned(f[m - 1], machine, m - 1)
          BY <1>3
        <4> QED
          BY <3>1, <4>1, <4>2, <4>3
      <3>2. CASE k # m
        <4>1. k \in 0..(m - 1) /\ g[k] = f[k]
          BY <1>3, <3>2
        <4>2. CASE k = 0
          BY <2>3, <4>1, <4>2
        <4>3. CASE k # 0
          <5>1. k - 1 \in 0..m /\ k - 1 # m
            BY <1>3, <3>2, <4>3
          <5>2. g[k - 1] = f[k - 1]
            BY <5>1
          <5> QED
            BY <2>3, <4>1, <4>3, <5>2
        <4> QED
          BY <4>2, <4>3
      <3> QED
        BY <3>1, <3>2
    <2>5. g = [k \in 0..m |-> g[k]]
      OBVIOUS
    <2> HIDE DEF g
    <2>6. IsScan(g, machine, m)
      BY <2>4, <2>5 DEF IsScan, start
    <2> QED
      BY <1>3, <2>6
  <1> QED
    BY <1>4, <1>5

Listed(table) == {table[i].slot : i \in DOMAIN table}

\* The other functions of this slot's device are not to be looked at.
Hidden(machine, slot) == Skips(machine, FirstFunction(slot))

\* The table lists visible slots in order, and those it leaves out do not fit.
TableOK(table, machine) ==
    /\ table \in Seq(Entries(machine)) /\ Len(table) <= MAX_PCI_DEVICES
    /\ Listed(table) \subseteq VisibleSlots(machine)
    /\ \A i \in DOMAIN table : table[i] = PciEntry(machine, table[i].slot)
    /\ \A i, j \in DOMAIN table : i < j => table[i].slot < table[j].slot
    /\ \A slot \in VisibleSlots(machine) \ Listed(table) :
          \A listed \in Listed(table) : listed < slot

\* Before slot n the scan has listed what it could, and until the table is full
\* it knows whether it has to skip the rest of a device.
ScanOK(r, machine, n) ==
    /\ r = [table |-> r.table, skip |-> r.skip, full |-> r.full]
    /\ TableOK(r.table, machine)
    /\ \A slot \in Listed(r.table) : slot < n
    /\ \A slot \in VisibleSlots(machine) :
          slot < n /\ slot \notin Listed(r.table) => Len(r.table) = MAX_PCI_DEVICES
    /\ r.full \in BOOLEAN
    /\ r.full => Len(r.table) = MAX_PCI_DEVICES
    /\ r.skip \in Int
    /\ ~r.full => \A slot \in Slots : slot >= n =>
          (Device(slot) = r.skip <=> FirstFunction(slot) < n /\ Hidden(machine, slot))

LEMMA SlotsAreNaturals ==
    Slots \subseteq Nat /\ \A n \in Nat : n < PCI_DEVICES * PCI_FUNCTIONS <=> n \in Slots
  <1>1. PCI_DEVICES * PCI_FUNCTIONS \in Nat
    BY PciAssumption, SMT
  <1> QED
    BY <1>1 DEF Slots

\* A slot that answers is visible unless it is to be skipped.
LEMMA VisibleUnlessHidden ==
    ASSUME NEW machine, DOMAIN machine \subseteq Slots, NEW n \in Slots
    PROVE  n \in VisibleSlots(machine)
             <=> n \in DOMAIN machine /\ ~(FirstFunction(n) < n /\ Hidden(machine, n))
  <1>1. n \in Nat /\ FirstFunction(n) \in Nat /\ FirstFunction(n) <= n
    BY SlotsAreNaturals, SlotParts
  <1>2. /\ Function(FirstFunction(n)) = 0
        /\ Function(n) = 0 <=> FirstFunction(n) = n
    BY <1>1, FirstIsFunctionZero
  <1>3. FirstFunction(n) < n <=> Function(n) # 0
    BY <1>1, <1>2
  <1>4. Hidden(machine, n)
          <=> ~(FirstFunction(n) \in DOMAIN machine /\ machine[FirstFunction(n)].multi)
    BY <1>2, Zenon DEF Hidden, Skips
  <1> HIDE DEF Hidden
  <1> QED
    BY <1>3, <1>4, Zenon DEF VisibleSlots

\* One more visible slot at the end of the table.
LEMMA TableGrows ==
    ASSUME NEW machine, NEW table, TableOK(table, machine), NEW n \in Slots,
           n \in VisibleSlots(machine), DOMAIN machine \subseteq Slots,
           Len(table) < MAX_PCI_DEVICES,
           \A slot \in Listed(table) : slot < n,
           \A slot \in VisibleSlots(machine) :
              slot < n /\ slot \notin Listed(table) => Len(table) = MAX_PCI_DEVICES
    PROVE  LET t == Append(table, PciEntry(machine, n)) IN
           TableOK(t, machine) /\ Listed(t) = Listed(table) \cup {n}
  <1> DEFINE e == PciEntry(machine, n)
             t == Append(table, e)
  <1>1. /\ table \in Seq(Entries(machine)) /\ Len(table) \in Nat
        /\ DOMAIN table = 1..Len(table)
    BY DEF TableOK
  <1>2. e \in Entries(machine) /\ e.slot = n
    BY DEF Entries, PciEntry
  <1> HIDE DEF e
  <1>3. /\ t \in Seq(Entries(machine)) /\ Len(t) = Len(table) + 1
        /\ DOMAIN t = 1..(Len(table) + 1)
        /\ \A i \in 1..Len(table) : t[i] = table[i]
        /\ t[Len(table) + 1] = e
    BY <1>1, <1>2
  <1> HIDE DEF t
  <1>4. Listed(t) = Listed(table) \cup {n}
    <2>1. ASSUME NEW slot \in Listed(t) PROVE slot \in Listed(table) \cup {n}
      <3>1. PICK i \in 1..(Len(table) + 1) : slot = t[i].slot
        BY <1>3, <2>1 DEF Listed
      <3>2. CASE i = Len(table) + 1
        BY <1>2, <1>3, <3>1, <3>2
      <3>3. CASE i # Len(table) + 1
        <4>1. i \in 1..Len(table)
          BY <1>1, <3>3
        <4> QED
          BY <1>1, <1>3, <3>1, <4>1 DEF Listed
      <3> QED
        BY <3>2, <3>3
    <2>2. ASSUME NEW slot \in Listed(table) PROVE slot \in Listed(t)
      <3>1. PICK i \in 1..Len(table) : slot = table[i].slot
        BY <1>1 DEF Listed
      <3>2. i \in DOMAIN t /\ t[i] = table[i]
        BY <1>1, <1>3, <3>1
      <3> QED
        BY <3>1, <3>2 DEF Listed
    <2>3. n \in Listed(t)
      <3>1. Len(table) + 1 \in DOMAIN t
        BY <1>1, <1>3
      <3> QED
        BY <1>2, <1>3, <3>1 DEF Listed
    <2> QED
      BY <2>1, <2>2, <2>3
  <1>5. Len(t) <= MAX_PCI_DEVICES
    <2>1. Len(table) \in Nat /\ Len(t) = Len(table) + 1 /\ MAX_PCI_DEVICES \in Nat
      BY <1>1, <1>3, PciAssumption
    <2> QED
      BY <2>1
  <1>6. Listed(t) \subseteq VisibleSlots(machine)
    BY <1>4 DEF TableOK
  <1>7. ASSUME NEW i \in DOMAIN t PROVE t[i] = PciEntry(machine, t[i].slot)
    <2>1. CASE i = Len(table) + 1
      BY <1>2, <1>3, <2>1 DEF e
    <2>2. CASE i # Len(table) + 1
      <3>1. i \in DOMAIN table
        BY <1>1, <1>3, <2>2
      <3> QED
        BY <1>1, <1>3, <3>1 DEF TableOK
    <2> QED
      BY <2>1, <2>2
  <1>8. ASSUME NEW i \in DOMAIN t, NEW j \in DOMAIN t, i < j PROVE t[i].slot < t[j].slot
    <2>1. i \in 1..Len(table)
      BY <1>1, <1>3, <1>8
    <2>2. CASE j = Len(table) + 1
      <3>1. table[i].slot \in Listed(table)
        BY <1>1, <2>1 DEF Listed
      <3> QED
        BY <1>2, <1>3, <2>1, <2>2, <3>1
    <2>3. CASE j # Len(table) + 1
      <3>1. j \in 1..Len(table)
        BY <1>1, <1>3, <2>3
      <3> QED
        BY <1>1, <1>3, <1>8, <2>1, <3>1 DEF TableOK
    <2> QED
      BY <2>2, <2>3
  <1>9. ASSUME NEW slot \in VisibleSlots(machine) \ Listed(t), NEW listed \in Listed(t)
        PROVE  listed < slot
    <2>1. slot \notin Listed(table) /\ slot # n
      BY <1>4
    <2>2. CASE listed \in Listed(table)
      BY <2>1, <2>2 DEF TableOK
    <2>3. CASE listed = n
      <3>1. ~(slot < n)
        BY <1>1, <2>1
      <3>2. slot \in Nat /\ n \in Nat
        BY SlotsAreNaturals DEF VisibleSlots
      <3> QED
        BY <2>1, <2>3, <3>1, <3>2
    <2> QED
      BY <1>4, <2>2, <2>3
  <1>10. TableOK(t, machine)
    BY <1>3, <1>5, <1>6, <1>7, <1>8, <1>9 DEF TableOK
  <1> QED
    BY <1>4, <1>10 DEF t, e

\* What is no longer true of a full table is not needed.
LEMMA ScannedKeeps ==
    ASSUME NEW machine, DOMAIN machine \subseteq Slots, NEW n \in Slots,
           NEW r, ScanOK(r, machine, n)
    PROVE  ScanOK(Scanned(r, machine, n), machine, n + 1)
  <1> DEFINE new == Scanned(r, machine, n)
  <1>1. n \in Nat /\ Slots \subseteq Nat
    BY SlotsAreNaturals
  <1>2. /\ r = [table |-> r.table, skip |-> r.skip, full |-> r.full]
        /\ TableOK(r.table, machine) /\ r.full \in BOOLEAN /\ r.skip \in Int
        /\ \A slot \in Listed(r.table) : slot < n
        /\ r.full => Len(r.table) = MAX_PCI_DEVICES
        /\ \A slot \in VisibleSlots(machine) :
              slot < n /\ slot \notin Listed(r.table) => Len(r.table) = MAX_PCI_DEVICES
    BY DEF ScanOK
  <1>3. Listed(r.table) \subseteq Nat /\ VisibleSlots(machine) \subseteq Nat
    BY <1>1, <1>2 DEF TableOK, VisibleSlots
  <1>4. /\ MAX_PCI_DEVICES \in Nat /\ Len(r.table) \in Nat /\ Len(r.table) <= MAX_PCI_DEVICES
    BY <1>2, PciAssumption DEF TableOK
  <1>5. \A slot \in Listed(r.table) : slot < n + 1
    BY <1>1, <1>2, <1>3
  \* Nothing is listed, and slot n is not visible or there is no room for it.
  <1>6. ASSUME new.table = r.table,
               n \in VisibleSlots(machine) => Len(r.table) = MAX_PCI_DEVICES
        PROVE  /\ TableOK(new.table, machine)
               /\ \A slot \in Listed(new.table) : slot < n + 1
               /\ \A slot \in VisibleSlots(machine) :
                     slot < n + 1 /\ slot \notin Listed(new.table)
                       => Len(new.table) = MAX_PCI_DEVICES
    <2>1. ASSUME NEW slot \in VisibleSlots(machine), slot < n + 1, slot \notin Listed(r.table)
          PROVE  Len(r.table) = MAX_PCI_DEVICES
      <3>1. slot < n \/ slot = n
        BY <1>1, <1>3, <2>1
      <3> QED
        BY <1>2, <1>6, <2>1, <3>1
    <2> HIDE DEF new
    <2> QED
      BY <1>2, <1>5, <1>6, <2>1
  <1>7. CASE r.full
    <2>1. new = r
      BY <1>7 DEF Scanned
    <2> HIDE DEF new
    <2> QED
      BY <1>2, <1>6, <1>7, <2>1 DEF ScanOK, new
  <1>8. CASE ~r.full /\ Device(n) = r.skip
    <2>1. new = r
      BY <1>8 DEF Scanned
    <2>2. n \notin VisibleSlots(machine)
      BY <1>1, <1>8, VisibleUnlessHidden DEF ScanOK
    <2>3. ASSUME NEW slot \in Slots, slot >= n + 1
          PROVE  Device(slot) = r.skip <=> FirstFunction(slot) < n + 1 /\ Hidden(machine, slot)
      <3>1. Device(slot) = r.skip <=> FirstFunction(slot) < n /\ Hidden(machine, slot)
        BY <1>1, <1>8, <2>3 DEF ScanOK
      <3>2. FirstFunction(slot) # n
        <4>1. FirstFunction(n) < n
          BY <1>1, <1>8 DEF ScanOK
        <4>2. FirstFunction(slot) = n => FirstFunction(n) = n
          BY <1>1, <2>3, SameDevice
        <4> QED
          BY <1>1, <4>1, <4>2
      <3>3. FirstFunction(slot) \in Nat
        BY <1>1, SlotParts
      <3> QED
        BY <1>1, <3>1, <3>2, <3>3
    <2> HIDE DEF new
    <2> QED
      BY <1>2, <1>6, <1>8, <2>1, <2>2, <2>3 DEF ScanOK, new
  <1>9. CASE /\ ~r.full /\ Device(n) # r.skip
             /\ n \in DOMAIN machine /\ Len(r.table) >= MAX_PCI_DEVICES
    <2>1. new = [r EXCEPT !.full = TRUE]
      BY <1>9 DEF Scanned
    <2>2. new = [table |-> r.table, skip |-> r.skip, full |-> TRUE]
      BY <1>2, <2>1
    <2>3. Len(r.table) = MAX_PCI_DEVICES
      BY <1>4, <1>9
    <2> HIDE DEF new
    <2>4. new.table = r.table /\ new.skip = r.skip /\ new.full = TRUE
      BY <2>2
    <2> QED
      BY <1>2, <1>6, <2>2, <2>3, <2>4 DEF ScanOK, new
  <1>10. CASE /\ ~r.full /\ Device(n) # r.skip
              /\ ~(n \in DOMAIN machine /\ Len(r.table) >= MAX_PCI_DEVICES)
    <2> DEFINE table == IF n \in DOMAIN machine
                        THEN Append(r.table, PciEntry(machine, n)) ELSE r.table
               skip == IF Skips(machine, n) THEN Device(n) ELSE r.skip
    <2>1. new = [r EXCEPT !.table = table, !.skip = skip]
      BY <1>10, Zenon DEF Scanned
    <2> HIDE DEF table, skip
    <2>2. new = [table |-> table, skip |-> skip, full |-> FALSE]
      BY <1>2, <1>10, <2>1
    <2> HIDE DEF new
    <2>3. new.table = table /\ new.skip = skip /\ new.full = FALSE
      BY <2>2
    <2>4. n \in VisibleSlots(machine) <=> n \in DOMAIN machine
      <3>1. ~(FirstFunction(n) < n /\ Hidden(machine, n))
        BY <1>1, <1>10 DEF ScanOK
      <3> QED
        BY <3>1, VisibleUnlessHidden
    <2>5. /\ TableOK(table, machine)
          /\ \A slot \in Listed(table) : slot < n + 1
          /\ \A slot \in VisibleSlots(machine) :
                slot < n + 1 /\ slot \notin Listed(table) => Len(table) = MAX_PCI_DEVICES
      <3>1. CASE n \in DOMAIN machine
        <4>1. table = Append(r.table, PciEntry(machine, n)) /\ Len(r.table) < MAX_PCI_DEVICES
          BY <1>4, <1>10, <3>1 DEF table
        <4>2. TableOK(table, machine) /\ Listed(table) = Listed(r.table) \cup {n}
          BY <1>2, <2>4, <3>1, <4>1, TableGrows
        <4>3. ASSUME NEW slot \in VisibleSlots(machine), slot < n + 1
              PROVE  slot \in Listed(table)
          <5>1. slot = n \/ slot < n
            BY <1>1, <1>3, <4>3
          <5>2. slot < n => slot \in Listed(r.table)
            BY <1>2, <1>4, <4>1
          <5> QED
            BY <4>2, <5>1, <5>2
        <4> QED
          BY <1>1, <1>5, <4>2, <4>3
      <3>2. CASE n \notin DOMAIN machine
        <4>1. table = r.table
          BY <3>2 DEF table
        <4>2. new.table = r.table /\ n \notin VisibleSlots(machine)
          BY <2>3, <2>4, <3>2, <4>1
        <4> QED
          BY <1>6, <2>3, <4>2 DEF new
      <3> QED
        BY <3>1, <3>2
    <2>6. skip \in Int
      BY <1>1, <1>2, SlotParts DEF skip
    <2>7. ASSUME NEW slot \in Slots, slot >= n + 1
          PROVE  Device(slot) = skip <=> FirstFunction(slot) < n + 1 /\ Hidden(machine, slot)
      <3>1. Device(slot) = r.skip <=> FirstFunction(slot) < n /\ Hidden(machine, slot)
        BY <1>1, <1>10, <2>7 DEF ScanOK
      <3>2. slot \in Nat /\ FirstFunction(slot) \in Nat /\ FirstFunction(n) \in Nat
        BY <1>1, SlotParts
      <3>3. Device(n) = Device(slot) <=> FirstFunction(n) = FirstFunction(slot)
        BY <1>1, <3>2, SlotParts, FirstIsFunctionZero
      <3>4. Skips(machine, n) => FirstFunction(n) = n
        BY <1>1, FirstIsFunctionZero DEF Skips
      <3>5. FirstFunction(slot) <= n => FirstFunction(n) = FirstFunction(slot)
        BY <1>1, <2>7, <3>2, SameDevice
      <3>6. CASE FirstFunction(slot) = n
        <4>1. FirstFunction(n) = n /\ Device(n) = Device(slot)
          BY <1>1, <3>3, <3>5, <3>6
        <4>2. Hidden(machine, slot) <=> Skips(machine, n)
          BY <3>6 DEF Hidden
        <4>3. Device(slot) # r.skip
          BY <1>10, <4>1
        <4>4. Device(slot) = skip <=> Skips(machine, n)
          BY <4>1, <4>3 DEF skip
        <4> QED
          BY <1>1, <3>6, <4>2, <4>4
      <3>7. CASE FirstFunction(slot) # n
        <4>1. FirstFunction(slot) < n + 1 <=> FirstFunction(slot) < n
          BY <1>1, <3>2, <3>7
        <4>2. CASE Skips(machine, n)
          <5>1. FirstFunction(n) = n /\ skip = Device(n)
            BY <3>4, <4>2 DEF skip
          <5>2. Device(slot) # skip
            BY <3>3, <3>7, <5>1
          <5>3. ~(FirstFunction(slot) < n)
            BY <1>1, <3>2, <3>5, <3>7, <5>1
          <5> QED
            BY <4>1, <5>2, <5>3
        <4>3. CASE ~Skips(machine, n)
          BY <3>1, <4>1, <4>3 DEF skip
        <4> QED
          BY <4>2, <4>3
      <3> QED
        BY <3>6, <3>7
    <2> QED
      BY <2>2, <2>3, <2>5, <2>6, <2>7 DEF ScanOK, new
  <1> QED
    BY <1>7, <1>8, <1>9, <1>10

\* A scan lists what can be seen, whatever is plugged in.
LEMMA ScanLists ==
    ASSUME NEW machine, DOMAIN machine \subseteq Slots
    PROVE  Lists(pci_scan_devices(machine), machine)
  <1> DEFINE N == PCI_DEVICES * PCI_FUNCTIONS
             after == CHOOSE f : IsScan(f, machine, N)
             start == [table |-> <<>>, skip |-> -1, full |-> FALSE]
  <1>1. N \in Nat
    BY PciAssumption, SMT
  <1>2. pci_scan_devices(machine) = after[N].table
    BY DEF pci_scan_devices, IsScan
  <1> HIDE DEF N
  <1>3. IsScan(after, machine, N)
    BY <1>1, ScanExists
  <1> HIDE DEF after
  <1>4. \A k \in 0..N : after[k] = IF k = 0 THEN start ELSE Scanned(after[k - 1], machine, k - 1)
    BY <1>3 DEF IsScan
  <1>5. ScanOK(start, machine, 0)
    <2>1. /\ start.table = <<>> /\ start.skip = -1 /\ start.full = FALSE
          /\ start = [table |-> start.table, skip |-> start.skip, full |-> start.full]
      OBVIOUS
    <2> HIDE DEF start
    <2>2. Listed(<<>>) = {}
      BY DEF Listed
    <2>3. TableOK(<<>>, machine)
      BY <2>2, PciAssumption DEF TableOK
    <2>4. ASSUME NEW slot \in Slots
          PROVE  Device(slot) # -1 /\ ~(FirstFunction(slot) < 0) /\ ~(slot < 0)
      BY SlotsAreNaturals, SlotParts
    <2>5. VisibleSlots(machine) \subseteq Slots
      BY DEF VisibleSlots
    <2>6. \A slot \in VisibleSlots(machine) : ~(slot < 0)
      BY <2>4, <2>5
    <2>7. \A slot \in Slots : Device(slot) = start.skip
                                <=> FirstFunction(slot) < 0 /\ Hidden(machine, slot)
      BY <2>1, <2>4
    <2>8. start.skip \in Int
      BY <2>1
    <2>9. start.full \in BOOLEAN /\ ~start.full
      BY <2>1, Zenon
    <2> QED
      BY <2>1, <2>2, <2>3, <2>6, <2>7, <2>8, <2>9 DEF ScanOK
  <1> HIDE DEF start
  <1> DEFINE Bad == {k \in 0..N : ~ScanOK(after[k], machine, k)}
  <1>6. ASSUME Bad # {} PROVE FALSE
    <2>1. Bad \in SUBSET Nat
      BY <1>1
    <2>2. PICK m \in Bad : \A k \in Bad : m <= k
      <3> HIDE DEF Bad
      <3> QED
        BY <1>6, <2>1, LeastNatural
    <2>3. m \in 0..N /\ ~ScanOK(after[m], machine, m)
      BY <2>2
    <2>4. m # 0
      BY <1>1, <1>4, <1>5, <2>3
    <2>5. m - 1 \in 0..N /\ m - 1 \notin Bad
      BY <1>1, <2>2, <2>3, <2>4
    <2>6. ScanOK(after[m - 1], machine, m - 1)
      BY <2>5
    <2>7. after[m] = Scanned(after[m - 1], machine, m - 1)
      BY <1>4, <2>3, <2>4
    <2>8. m - 1 \in Slots /\ (m - 1) + 1 = m
      BY <1>1, <2>3, <2>4, SlotsAreNaturals DEF N
    <2>9. ScanOK(after[m], machine, m)
      BY <2>6, <2>7, <2>8, ScannedKeeps
    <2> QED
      BY <2>3, <2>9
  <1>7. N \in 0..N
    BY <1>1
  <1>8. ScanOK(after[N], machine, N)
    BY <1>6, <1>7
  <1>9. VisibleSlots(machine) \subseteq Slots /\ \A slot \in Slots : slot < N
    BY SlotsAreNaturals DEF VisibleSlots, N
  <1> QED
    BY <1>2, <1>8, <1>9 DEF ScanOK, TableOK, Listed, Lists

-----------------------------------------------------------------------------
(* What holds of the interfaces in every state.                              *)

Names(networks) == {networks[i].ssid : i \in DOMAIN networks}
Ssid == Names(ScannedNetworks) \cup Names(BridgedNetworks) \cup {NoSSID}
WifiNetwork == [used : {0, 1}, ssid : Ssid, secured : {0, 1}]

State == {NET_STATE_DOWN, NET_STATE_UP, NET_STATE_CONNECTED, NET_STATE_ERROR}
DhcpState == {DHCP_STATE_IDLE, DHCP_STATE_DISCOVER, DHCP_STATE_BOUND}
Address == {None, Loopback, Fallback}
Iface == [state : State, dhcp_state : DhcpState, ip : Address,
          driver : Drivers \cup {None}, connected_ssid : Ssid]

IsNet(s) ==
    /\ s = [machine |-> s.machine, pci |-> s.pci, heap |-> s.heap, ifaces |-> s.ifaces,
            wifi_networks |-> s.wifi_networks, wifi_network_count |-> s.wifi_network_count,
            buffers |-> s.buffers, initialized |-> s.initialized]
    /\ s.ifaces \in [Interfaces -> Iface]
    /\ s.wifi_networks \in [1..MAX_WIFI_NETWORKS -> WifiNetwork]
    /\ s.buffers \in [Drivers -> Nat] /\ s.initialized \in [Drivers -> {0, 1}]

\* Nobody stays CONNECTED, which is why wifi_disconnect never takes an address
\* from an interface that has a lease.
IfaceOK(iface) ==
    /\ iface.state # NET_STATE_CONNECTED
    /\ iface.dhcp_state = DHCP_STATE_BOUND => iface.ip = Fallback /\ iface.driver # None
    /\ iface.state = NET_STATE_DOWN => iface.dhcp_state = DHCP_STATE_IDLE

\* A driver that is in use found its card and has all it needs.
Ready(s, d) ==
    Detected(s.pci, d) # 0 /\ s.initialized[d] = 1 /\ s.buffers[d] = Len(Needs(d))

\* The first networks of the array are those of the last scan.
NetworksOK(s) ==
    \E n \in 0..MAX_WIFI_NETWORKS :
        /\ s.wifi_network_count = n
        /\ \A i \in 1..MAX_WIFI_NETWORKS : s.wifi_networks[i].used = 1 <=> i <= n
        /\ \A i, j \in 1..n : s.wifi_networks[i].ssid = s.wifi_networks[j].ssid => i = j

\* All of it but the networks, which a scan changes in several steps.
InterfacesOK(s) ==
    /\ IsNet(s) /\ s.machine \in Machines /\ s.pci = pci_scan_devices(s.machine)
    /\ \A i \in Interfaces : /\ IfaceOK(s.ifaces[i])
                             /\ s.ifaces[i].driver # None => Ready(s, s.ifaces[i].driver)

NetOK(s) == InterfacesOK(s) /\ NetworksOK(s)

\* An interface changes, and keeps its driver.
LEMMA InterfaceChanges ==
    ASSUME NEW s, NetOK(s), NEW name \in Interfaces, NEW f \in Iface,
           f.driver = s.ifaces[name].driver, IfaceOK(f)
    PROVE  NetOK([s EXCEPT !.ifaces[name] = f])
  <1> DEFINE t == [s EXCEPT !.ifaces[name] = f]
             ifaces == [s.ifaces EXCEPT ![name] = f]
  <1>1. IsNet(s)
    BY DEF NetOK, InterfacesOK
  <1>2. t = [machine |-> s.machine, pci |-> s.pci, heap |-> s.heap, ifaces |-> ifaces,
             wifi_networks |-> s.wifi_networks, wifi_network_count |-> s.wifi_network_count,
             buffers |-> s.buffers, initialized |-> s.initialized]
    BY <1>1 DEF IsNet
  <1>3. /\ ifaces \in [Interfaces -> Iface] /\ ifaces[name] = f
        /\ \A i \in Interfaces : i # name => ifaces[i] = s.ifaces[i]
    BY <1>1 DEF IsNet
  <1> HIDE DEF t, ifaces
  <1>4. /\ t.machine = s.machine /\ t.pci = s.pci /\ t.ifaces = ifaces /\ t.heap = s.heap
        /\ t.wifi_networks = s.wifi_networks /\ t.wifi_network_count = s.wifi_network_count
        /\ t.buffers = s.buffers /\ t.initialized = s.initialized
    BY <1>2
  <1>5. IsNet(t)
    BY <1>1, <1>2, <1>3, <1>4 DEF IsNet
  <1>6. \A d \in Drivers : Ready(t, d) <=> Ready(s, d)
    BY <1>4 DEF Ready
  <1>7. ASSUME NEW i \in Interfaces
        PROVE  IfaceOK(t.ifaces[i]) /\ (t.ifaces[i].driver # None => Ready(t, t.ifaces[i].driver))
    <2>1. t.ifaces[i].driver = s.ifaces[i].driver /\ IfaceOK(t.ifaces[i])
      BY <1>3, <1>4 DEF NetOK, InterfacesOK
    <2>2. s.ifaces[i].driver # None => s.ifaces[i].driver \in Drivers
      BY <1>1 DEF IsNet, Iface
    <2> QED
      BY <1>6, <2>1, <2>2 DEF NetOK, InterfacesOK
  <1>8. NetworksOK(t)
    BY <1>4 DEF NetOK, NetworksOK
  <1>9. t.machine \in Machines /\ t.pci = pci_scan_devices(t.machine)
    BY <1>4 DEF NetOK, InterfacesOK
  <1> QED
    BY <1>5, <1>7, <1>8, <1>9 DEF NetOK, InterfacesOK, t

\* The fields that commands change.
LEMMA FieldsChange ==
    ASSUME NEW s, NetOK(s), NEW name \in Interfaces,
           NEW state \in State, NEW dhcp_state \in DhcpState, NEW ip \in Address,
           NEW ssid \in Ssid
    PROVE  LET f == [state |-> state, dhcp_state |-> dhcp_state, ip |-> ip,
                     driver |-> s.ifaces[name].driver, connected_ssid |-> ssid]
           IN  f \in Iface /\ (IfaceOK(f) => NetOK([s EXCEPT !.ifaces[name] = f]))
  <1> DEFINE f == [state |-> state, dhcp_state |-> dhcp_state, ip |-> ip,
                   driver |-> s.ifaces[name].driver, connected_ssid |-> ssid]
  <1>1. s.ifaces[name].driver \in Drivers \cup {None}
    BY DEF NetOK, InterfacesOK, IsNet, Iface
  <1>2. f \in Iface /\ f.driver = s.ifaces[name].driver
    BY <1>1 DEF Iface
  <1> HIDE DEF f
  <1>3. IfaceOK(f) => NetOK([s EXCEPT !.ifaces[name] = f])
    BY <1>2, InterfaceChanges
  <1> QED
    BY <1>2, <1>3 DEF f

LEMMA InterfaceFields ==
    ASSUME NEW s, NetOK(s), NEW name \in Interfaces
    PROVE  LET f == s.ifaces[name] IN
           /\ f = [state |-> f.state, dhcp_state |-> f.dhcp_state, ip |-> f.ip,
                   driver |-> f.driver, connected_ssid |-> f.connected_ssid]
           /\ f.state \in State /\ f.dhcp_state \in DhcpState /\ f.ip \in Address
           /\ f.connected_ssid \in Ssid /\ f.driver \in Drivers \cup {None}
           /\ IfaceOK(f)
  <1>1. s.ifaces[name] \in Iface
    BY DEF NetOK, InterfacesOK, IsNet
  <1> QED
    BY <1>1 DEF Iface, NetOK, InterfacesOK

LEMMA UpKeeps ==
    ASSUME NEW s, NetOK(s), NEW name \in Interfaces
    PROVE  /\ NetOK(network_interface_up(s, name))
           /\ network_interface_up(s, name).ifaces[name].state = NET_STATE_UP
  <1> DEFINE f == s.ifaces[name]
             g == [state |-> NET_STATE_UP, dhcp_state |-> f.dhcp_state, ip |-> f.ip,
                   driver |-> f.driver, connected_ssid |-> f.connected_ssid]
  <1>1. /\ f = [state |-> f.state, dhcp_state |-> f.dhcp_state, ip |-> f.ip,
                driver |-> f.driver, connected_ssid |-> f.connected_ssid]
        /\ f.dhcp_state \in DhcpState /\ f.ip \in Address /\ f.connected_ssid \in Ssid
        /\ IfaceOK(f)
    BY InterfaceFields
  <1>2. IfaceOK(g)
    BY <1>1 DEF IfaceOK, NET_STATE_UP, NET_STATE_DOWN, NET_STATE_CONNECTED
  <1>3. NET_STATE_UP \in State
    BY DEF State
  <1>4. NetOK([s EXCEPT !.ifaces[name] = g])
    BY <1>1, <1>2, <1>3, FieldsChange
  <1>5. s.ifaces \in [Interfaces -> Iface] /\ IsNet(s)
    BY DEF NetOK, InterfacesOK, IsNet
  <1>6. [f EXCEPT !.state = NET_STATE_UP] = g
    BY <1>1
  <1>7. network_interface_up(s, name) = [s EXCEPT !.ifaces[name] = g]
    BY <1>6, Zenon DEF network_interface_up
  <1>8. [s EXCEPT !.ifaces[name] = g].ifaces[name] = g
    BY <1>5 DEF IsNet
  <1> QED
    BY <1>4, <1>7, <1>8

LEMMA DownKeeps ==
    ASSUME NEW s, NetOK(s), NEW name \in Interfaces
    PROVE  NetOK(network_interface_down(s, name))
  <1> DEFINE f == s.ifaces[name]
             g == [state |-> NET_STATE_DOWN, dhcp_state |-> DHCP_STATE_IDLE, ip |-> f.ip,
                   driver |-> f.driver, connected_ssid |-> f.connected_ssid]
  <1>1. /\ f = [state |-> f.state, dhcp_state |-> f.dhcp_state, ip |-> f.ip,
                driver |-> f.driver, connected_ssid |-> f.connected_ssid]
        /\ f.ip \in Address /\ f.connected_ssid \in Ssid
    BY InterfaceFields
  <1>2. IfaceOK(g)
    BY DEF IfaceOK, NET_STATE_DOWN, NET_STATE_CONNECTED, DHCP_STATE_IDLE, DHCP_STATE_BOUND
  <1>3. NET_STATE_DOWN \in State /\ DHCP_STATE_IDLE \in DhcpState
    BY DEF State, DhcpState
  <1>4. NetOK([s EXCEPT !.ifaces[name] = g])
    BY <1>1, <1>2, <1>3, FieldsChange
  <1>5. s.ifaces \in [Interfaces -> Iface] /\ IsNet(s)
    BY DEF NetOK, InterfacesOK, IsNet
  <1>6. [[f EXCEPT !.state = NET_STATE_DOWN] EXCEPT !.dhcp_state = DHCP_STATE_IDLE] = g
    <2> DEFINE h == [state |-> NET_STATE_DOWN, dhcp_state |-> f.dhcp_state, ip |-> f.ip,
                     driver |-> f.driver, connected_ssid |-> f.connected_ssid]
    <2>1. [f EXCEPT !.state = NET_STATE_DOWN] = h
      BY <1>1
    <2>2. [h EXCEPT !.dhcp_state = DHCP_STATE_IDLE] = g
      OBVIOUS
    <2> HIDE DEF f, g, h
    <2> QED
      BY <2>1, <2>2
  <1>7. network_interface_down(s, name)
          = [s EXCEPT !.ifaces[name] =
                [[f EXCEPT !.state = NET_STATE_DOWN] EXCEPT !.dhcp_state = DHCP_STATE_IDLE]]
    BY Zenon DEF network_interface_down
  <1> HIDE DEF f, g
  <1> QED
    BY <1>4, <1>6, <1>7

LEMMA DhcpKeeps ==
    ASSUME NEW s, NetOK(s), NEW name \in Interfaces, s.ifaces[name].state # NET_STATE_DOWN
    PROVE  NetOK(dhcp_client_start(s, name).net)
  <1> DEFINE f == s.ifaces[name]
             g == [state |-> f.state, dhcp_state |-> DHCP_STATE_BOUND, ip |-> Fallback,
                   driver |-> f.driver, connected_ssid |-> f.connected_ssid]
             h == [state |-> f.state, dhcp_state |-> DHCP_STATE_DISCOVER, ip |-> f.ip,
                   driver |-> f.driver, connected_ssid |-> f.connected_ssid]
  <1>1. /\ f = [state |-> f.state, dhcp_state |-> f.dhcp_state, ip |-> f.ip,
                driver |-> f.driver, connected_ssid |-> f.connected_ssid]
        /\ f.state \in State /\ f.ip \in Address /\ f.connected_ssid \in Ssid /\ IfaceOK(f)
    BY InterfaceFields
  <1>2. CASE Sends(s, name)
    <2>1. IfaceOK(g)
      BY <1>1, <1>2 DEF IfaceOK, Sends
    <2>2. DHCP_STATE_BOUND \in DhcpState /\ Fallback \in Address
      BY DEF DhcpState, Address
    <2>3. NetOK([s EXCEPT !.ifaces[name] = g])
      BY <1>1, <2>1, <2>2, FieldsChange
    <2>4. dhcp_client_start(s, name).net
            = [s EXCEPT !.ifaces[name].dhcp_state = DHCP_STATE_BOUND, !.ifaces[name].ip = Fallback]
      BY <1>2 DEF dhcp_client_start, Result
    <2>5. [[f EXCEPT !.dhcp_state = DHCP_STATE_BOUND] EXCEPT !.ip = Fallback] = g
      <3> DEFINE b == [state |-> f.state, dhcp_state |-> DHCP_STATE_BOUND, ip |-> f.ip,
                       driver |-> f.driver, connected_ssid |-> f.connected_ssid]
      <3>1. [f EXCEPT !.dhcp_state = DHCP_STATE_BOUND] = b
        BY <1>1
      <3>2. [b EXCEPT !.ip = Fallback] = g
        OBVIOUS
      <3> HIDE DEF f, g, b
      <3> QED
        BY <3>1, <3>2
    <2>6. [s EXCEPT !.ifaces[name].dhcp_state = DHCP_STATE_BOUND, !.ifaces[name].ip = Fallback]
            = [s EXCEPT !.ifaces[name] =
                  [[f EXCEPT !.dhcp_state = DHCP_STATE_BOUND] EXCEPT !.ip = Fallback]]
      OBVIOUS
    <2>7. dhcp_client_start(s, name).net
            = [s EXCEPT !.ifaces[name] =
                  [[f EXCEPT !.dhcp_state = DHCP_STATE_BOUND] EXCEPT !.ip = Fallback]]
      BY <2>4, <2>6, Zenon
    <2> HIDE DEF f, g
    <2> QED
      BY <2>3, <2>5, <2>7
  <1>3. CASE ~Sends(s, name)
    <2>1. IfaceOK(h)
      BY <1>1 DEF IfaceOK, DHCP_STATE_DISCOVER, DHCP_STATE_BOUND
    <2>2. DHCP_STATE_DISCOVER \in DhcpState
      BY DEF DhcpState
    <2>3. NetOK([s EXCEPT !.ifaces[name] = h])
      BY <1>1, <2>1, <2>2, FieldsChange
    <2>4. dhcp_client_start(s, name).net
            = [s EXCEPT !.ifaces[name].dhcp_state = DHCP_STATE_DISCOVER]
      BY <1>3 DEF dhcp_client_start, Result
    <2>5. [f EXCEPT !.dhcp_state = DHCP_STATE_DISCOVER] = h
      BY <1>1
    <2>6. dhcp_client_start(s, name).net = [s EXCEPT !.ifaces[name] = h]
      BY <2>4, <2>5, Zenon
    <2> QED
      BY <2>3, <2>6
  <1> QED
    BY <1>2, <1>3

LEMMA StartDhcpKeeps ==
    ASSUME NEW s, NetOK(s), NEW name \in Interfaces
    PROVE  NetOK(network_start_dhcp(s, name).net)
  <1>1. CASE s.ifaces[name].state # NET_STATE_UP
    BY <1>1 DEF network_start_dhcp, Result
  <1>2. CASE s.ifaces[name].state = NET_STATE_UP
    <2>1. s.ifaces[name].state # NET_STATE_DOWN
      BY <1>2 DEF NET_STATE_UP, NET_STATE_DOWN
    <2> QED
      BY <1>2, <2>1, DhcpKeeps DEF network_start_dhcp
  <1> QED
    BY <1>1, <1>2

\* wifi_connect is never left with the interface CONNECTED.
LEMMA ConnectKeeps ==
    ASSUME NEW s, NetOK(s), NEW ssid \in Ssid, NEW password
    PROVE  NetOK(wifi_connect(s, ssid, password).net)
  <1> DEFINE found == SelectInSeq(s.wifi_networks, LAMBDA w : w.used = 1 /\ w.ssid = ssid)
             joined == [s EXCEPT !.ifaces["wlan0"].state = NET_STATE_CONNECTED,
                                 !.ifaces["wlan0"].connected_ssid = ssid]
             f == s.ifaces["wlan0"]
             F(state, id) == [state |-> state, dhcp_state |-> f.dhcp_state, ip |-> f.ip,
                              driver |-> f.driver, connected_ssid |-> id]
  <1>1. "wlan0" \in Interfaces
    BY DEF Interfaces
  <1>2. /\ f = F(f.state, f.connected_ssid)
        /\ f.dhcp_state \in DhcpState /\ f.ip \in Address /\ f.connected_ssid \in Ssid
        /\ IfaceOK(f)
    BY <1>1, InterfaceFields
  <1>3. NetOK([s EXCEPT !.ifaces["wlan0"].state = NET_STATE_ERROR])
    <2>1. IfaceOK(F(NET_STATE_ERROR, f.connected_ssid))
      BY <1>2 DEF IfaceOK, NET_STATE_ERROR, NET_STATE_DOWN, NET_STATE_CONNECTED
    <2>2. NET_STATE_ERROR \in State
      BY DEF State
    <2>3. NetOK([s EXCEPT !.ifaces["wlan0"] = F(NET_STATE_ERROR, f.connected_ssid)])
      BY <1>1, <1>2, <2>1, <2>2, FieldsChange
    <2>4. [f EXCEPT !.state = NET_STATE_ERROR] = F(NET_STATE_ERROR, f.connected_ssid)
      BY <1>2
    <2> QED
      BY <2>3, <2>4, Zenon
  <1>4. NetOK(network_interface_up(joined, "wlan0"))
    <2>1. IfaceOK(F(NET_STATE_UP, ssid))
      BY <1>2 DEF IfaceOK, NET_STATE_UP, NET_STATE_DOWN, NET_STATE_CONNECTED
    <2>2. NET_STATE_UP \in State
      BY DEF State
    <2>3. NetOK([s EXCEPT !.ifaces["wlan0"] = F(NET_STATE_UP, ssid)])
      BY <1>1, <1>2, <2>1, <2>2, FieldsChange
    <2> DEFINE i == s.ifaces
               j == [i EXCEPT !["wlan0"] = F(NET_STATE_CONNECTED, ssid)]
    <2>4. [[f EXCEPT !.state = NET_STATE_CONNECTED] EXCEPT !.connected_ssid = ssid]
            = F(NET_STATE_CONNECTED, ssid)
      <3>1. [f EXCEPT !.state = NET_STATE_CONNECTED] = F(NET_STATE_CONNECTED, f.connected_ssid)
        BY <1>2
      <3>2. [F(NET_STATE_CONNECTED, f.connected_ssid) EXCEPT !.connected_ssid = ssid]
              = F(NET_STATE_CONNECTED, ssid)
        OBVIOUS
      <3> HIDE DEF f, F
      <3> QED
        BY <3>1, <3>2
    <2>5. joined = [s EXCEPT !.ifaces =
                       [i EXCEPT !["wlan0"] =
                           [[f EXCEPT !.state = NET_STATE_CONNECTED] EXCEPT !.connected_ssid = ssid]]]
      BY Zenon
    <2>6. joined = [s EXCEPT !.ifaces = j]
      <3> HIDE DEF f, F, i, joined
      <3> QED
        BY <2>4, <2>5
    <2>7. joined.ifaces = j
      <3>1. IsNet(s)
        BY DEF NetOK, InterfacesOK
      <3> HIDE DEF j, joined
      <3> QED
        BY <2>6, <3>1 DEF IsNet
    <2>8. j["wlan0"] = F(NET_STATE_CONNECTED, ssid)
      BY <1>1 DEF NetOK, InterfacesOK, IsNet
    <2>9. [F(NET_STATE_CONNECTED, ssid) EXCEPT !.state = NET_STATE_UP] = F(NET_STATE_UP, ssid)
      OBVIOUS
    <2>10. network_interface_up(joined, "wlan0")
             = [joined EXCEPT !.ifaces =
                   [j EXCEPT !["wlan0"] = [j["wlan0"] EXCEPT !.state = NET_STATE_UP]]]
      <3> HIDE DEF j, joined
      <3> QED
        BY <2>7, Zenon DEF network_interface_up
    <2>11. [j EXCEPT !["wlan0"] = [j["wlan0"] EXCEPT !.state = NET_STATE_UP]]
             = [i EXCEPT !["wlan0"] = F(NET_STATE_UP, ssid)]
      <3>1. [j EXCEPT !["wlan0"] = F(NET_STATE_UP, ssid)]
              = [i EXCEPT !["wlan0"] = F(NET_STATE_UP, ssid)]
        OBVIOUS
      <3> HIDE DEF j, F
      <3> QED
        BY <2>8, <2>9, <3>1
    <2>12. \A x, y : [[s EXCEPT !.ifaces = x] EXCEPT !.ifaces = y] = [s EXCEPT !.ifaces = y]
      OBVIOUS
    <2>13. network_interface_up(joined, "wlan0")
             = [s EXCEPT !.ifaces = [i EXCEPT !["wlan0"] = F(NET_STATE_UP, ssid)]]
      <3> HIDE DEF j, joined, F, i
      <3> QED
        BY <2>6, <2>10, <2>11, <2>12
    <2> QED
      BY <2>3, <2>13, Zenon
  <1>5. NetOK(network_start_dhcp(network_interface_up(joined, "wlan0"), "wlan0").net)
    BY <1>1, <1>4, StartDhcpKeeps
  <1> HIDE DEF found, joined
  <1>6. wifi_connect(s, ssid, password).net
          \in {s, [s EXCEPT !.ifaces["wlan0"].state = NET_STATE_ERROR],
               network_start_dhcp(network_interface_up(joined, "wlan0"), "wlan0").net}
    BY DEF wifi_connect, Result, found, joined
  <1> QED
    BY <1>3, <1>5, <1>6

LEMMA DisconnectKeeps ==
    ASSUME NEW s, NetOK(s)
    PROVE  wifi_disconnect(s).net = s
  <1>1. "wlan0" \in Interfaces
    BY DEF Interfaces
  <1>2. s.ifaces["wlan0"].state # NET_STATE_CONNECTED
    BY <1>1 DEF NetOK, InterfacesOK, IfaceOK
  <1> QED
    BY <1>2 DEF wifi_disconnect, Result

-----------------------------------------------------------------------------
(* Scanning.                                                                 *)

WithNetworks(s, networks, count) ==
    [s EXCEPT !.wifi_networks = networks, !.wifi_network_count = count]

\* A step that changes the networks only.
LEMMA NetworksChange ==
    ASSUME NEW s, InterfacesOK(s), NEW count,
           NEW networks \in [1..MAX_WIFI_NETWORKS -> WifiNetwork]
    PROVE  LET t == WithNetworks(s, networks, count) IN
           /\ InterfacesOK(t)
           /\ t.wifi_networks = networks /\ t.wifi_network_count = count
           /\ t.machine = s.machine /\ t.pci = s.pci
  <1> DEFINE t == WithNetworks(s, networks, count)
             With(n, c) == [machine |-> s.machine, pci |-> s.pci, heap |-> s.heap,
                            ifaces |-> s.ifaces, wifi_networks |-> n, wifi_network_count |-> c,
                            buffers |-> s.buffers, initialized |-> s.initialized]
  <1>1. IsNet(s)
    BY DEF InterfacesOK
  <1>2. t = With(networks, count)
    <2>1. s = With(s.wifi_networks, s.wifi_network_count)
      BY <1>1 DEF IsNet
    <2>2. [s EXCEPT !.wifi_networks = networks] = With(networks, s.wifi_network_count)
      BY <2>1
    <2>3. [With(networks, s.wifi_network_count) EXCEPT !.wifi_network_count = count]
            = With(networks, count)
      OBVIOUS
    <2>4. t = [[s EXCEPT !.wifi_networks = networks] EXCEPT !.wifi_network_count = count]
      BY Zenon DEF WithNetworks
    <2> HIDE DEF t, With
    <2> QED
      BY <2>2, <2>3, <2>4
  <1> HIDE DEF t
  <1>3. /\ t.machine = s.machine /\ t.pci = s.pci /\ t.ifaces = s.ifaces /\ t.heap = s.heap
        /\ t.wifi_networks = networks /\ t.wifi_network_count = count
        /\ t.buffers = s.buffers /\ t.initialized = s.initialized
    BY <1>2
  <1>4. IsNet(t)
    BY <1>1, <1>2, <1>3 DEF IsNet
  <1>5. \A d : Ready(t, d) <=> Ready(s, d)
    BY <1>3 DEF Ready
  <1>6. InterfacesOK(t)
    BY <1>3, <1>4, <1>5 DEF InterfacesOK
  <1> QED
    BY <1>3, <1>6 DEF t

LEMMA ClearedKeeps ==
    ASSUME NEW s, InterfacesOK(s)
    PROVE  /\ InterfacesOK(Cleared(s)) /\ Cleared(s).wifi_network_count = 0
           /\ \A i \in 1..MAX_WIFI_NETWORKS : Cleared(s).wifi_networks[i].used = 0
           /\ Cleared(s).machine = s.machine /\ Cleared(s).pci = s.pci
  <1> DEFINE w == s.wifi_networks
             networks == [i \in DOMAIN w |-> [w[i] EXCEPT !.used = 0]]
             t == WithNetworks(s, networks, 0)
  <1>1. IsNet(s) /\ w \in [1..MAX_WIFI_NETWORKS -> WifiNetwork]
    BY DEF InterfacesOK, IsNet
  <1>2. ASSUME NEW i \in DOMAIN w
        PROVE  [w[i] EXCEPT !.used = 0] \in WifiNetwork /\ [w[i] EXCEPT !.used = 0].used = 0
    BY <1>1 DEF WifiNetwork
  <1>3. networks \in [1..MAX_WIFI_NETWORKS -> WifiNetwork]
    BY <1>1, <1>2
  <1>4. \A i \in 1..MAX_WIFI_NETWORKS : networks[i].used = 0
    BY <1>1, <1>2
  <1>5. Cleared(s) = t
    BY Zenon DEF Cleared, WithNetworks
  <1> HIDE DEF networks
  <1>6. /\ InterfacesOK(t) /\ t.wifi_networks = networks /\ t.wifi_network_count = 0
        /\ t.machine = s.machine /\ t.pci = s.pci
    BY <1>3, NetworksChange
  <1> HIDE DEF t
  <1> QED
    BY <1>4, <1>5, <1>6

LEMMA FilledKeeps ==
    ASSUME NEW s, InterfacesOK(s), NEW found \in Seq([ssid : STRING, secured : {0, 1}]),
           Names(found) \subseteq Ssid
    PROVE  /\ InterfacesOK(Filled(s, found))
           /\ Filled(s, found).machine = s.machine /\ Filled(s, found).pci = s.pci
           /\ (/\ \A i \in 1..MAX_WIFI_NETWORKS : s.wifi_networks[i].used = 0
               /\ \A i, j \in 1..Len(found) : found[i].ssid = found[j].ssid => i = j)
              => NetworksOK(Filled(s, found))
  <1> DEFINE n == IF Len(found) < MAX_WIFI_NETWORKS THEN Len(found) ELSE MAX_WIFI_NETWORKS
             w == s.wifi_networks
             New(i) == [used |-> 1, ssid |-> found[i].ssid, secured |-> found[i].secured]
             networks == [i \in DOMAIN w |-> IF i <= n THEN New(i) ELSE w[i]]
             t == WithNetworks(s, networks, n)
  <1>1. IsNet(s) /\ w \in [1..MAX_WIFI_NETWORKS -> WifiNetwork]
    BY DEF InterfacesOK, IsNet
  <1>2. /\ Len(found) \in Nat /\ MAX_WIFI_NETWORKS \in Nat
        /\ n \in 0..MAX_WIFI_NETWORKS /\ n <= Len(found)
    BY NetworkAssumption
  <1>3. \A i \in 1..n : New(i) \in WifiNetwork
    <2>1. SUFFICES ASSUME NEW i \in 1..n PROVE New(i) \in WifiNetwork
      OBVIOUS
    <2>2. i \in 1..Len(found) /\ DOMAIN found = 1..Len(found)
      BY <1>2
    <2>3. found[i].ssid \in Names(found)
      BY <2>2 DEF Names
    <2>4. found[i] \in [ssid : STRING, secured : {0, 1}]
      <3> DEFINE Found == [ssid : STRING, secured : {0, 1}]
      <3>1. found \in Seq(Found)
        OBVIOUS
      <3> HIDE DEF Found
      <3>2. found[i] \in Found
        BY <2>2, <3>1
      <3> QED
        BY <3>2 DEF Found
    <2> QED
      BY <2>3, <2>4 DEF WifiNetwork
  <1>4. Filled(s, found) = t
    BY Zenon DEF Filled, WithNetworks
  <1>9. \A i : New(i).used = 1 /\ New(i).ssid = found[i].ssid
    OBVIOUS
  <1> HIDE DEF n, New
  <1>5. networks \in [1..MAX_WIFI_NETWORKS -> WifiNetwork]
    <2>1. ASSUME NEW i \in 1..MAX_WIFI_NETWORKS
          PROVE  (IF i <= n THEN New(i) ELSE w[i]) \in WifiNetwork
      BY <1>1, <1>2, <1>3
    <2> QED
      BY <1>1, <2>1
  <1>6. \A i \in 1..MAX_WIFI_NETWORKS : networks[i] = IF i <= n THEN New(i) ELSE w[i]
    BY <1>1
  <1> HIDE DEF networks, w
  <1>7. /\ InterfacesOK(t) /\ t.wifi_networks = networks /\ t.wifi_network_count = n
        /\ t.machine = s.machine /\ t.pci = s.pci
    BY <1>5, NetworksChange
  <1> HIDE DEF t
  <1>8. ASSUME \A i \in 1..MAX_WIFI_NETWORKS : w[i].used = 0,
               \A i, j \in 1..Len(found) : found[i].ssid = found[j].ssid => i = j
        PROVE  NetworksOK(t)
    <2>1. ASSUME NEW i \in 1..MAX_WIFI_NETWORKS PROVE networks[i].used = 1 <=> i <= n
      BY <1>6, <1>8, <1>9
    <2>2. ASSUME NEW i \in 1..n, NEW j \in 1..n, networks[i].ssid = networks[j].ssid
          PROVE  i = j
      <3>1. /\ i \in 1..MAX_WIFI_NETWORKS /\ j \in 1..MAX_WIFI_NETWORKS /\ i <= n /\ j <= n
            /\ i \in 1..Len(found) /\ j \in 1..Len(found)
        BY <1>2
      <3>2. networks[i].ssid = found[i].ssid /\ networks[j].ssid = found[j].ssid
        BY <1>6, <1>9, <3>1
      <3> QED
        BY <1>8, <2>2, <3>1, <3>2
    <2> QED
      BY <1>2, <1>7, <2>1, <2>2 DEF NetworksOK
  <1> QED
    BY <1>4, <1>7, <1>8 DEF w

\* Whatever the hardware check leaves, the list is that of the scan or empty.
LEMMA ScanKeeps ==
    ASSUME NEW s, NetOK(s)
    PROVE  NetOK(wifi_scan_networks(s))
  <1> DEFINE c == Cleared(s)
             again == [c EXCEPT !.pci = pci_scan_devices(c.machine)]
             hardware == wifi_hardware_init(c)
  <1>1. /\ InterfacesOK(c) /\ c.wifi_network_count = 0
        /\ \A i \in 1..MAX_WIFI_NETWORKS : c.wifi_networks[i].used = 0
    BY ClearedKeeps DEF NetOK
  <1> HIDE DEF c
  <1>2. again = c
    <2>1. c.pci = pci_scan_devices(c.machine) /\ IsNet(c)
      BY <1>1 DEF InterfacesOK
    <2>2. [c EXCEPT !.pci = c.pci] = c
      BY <2>1 DEF IsNet
    <2> QED
      BY <2>1, <2>2
  <1>3. NetOK(c)
    <2>1. MAX_WIFI_NETWORKS \in Nat
      BY NetworkAssumption
    <2>2. NetworksOK(c)
      BY <1>1, <2>1 DEF NetworksOK
    <2> QED
      BY <1>1, <2>2 DEF NetOK
  <1>4. /\ ScannedNetworks \in Seq([ssid : STRING, secured : {0, 1}])
        /\ BridgedNetworks \in Seq([ssid : STRING, secured : {0, 1}])
        /\ Names(ScannedNetworks) \subseteq Ssid /\ Names(BridgedNetworks) \subseteq Ssid
        /\ \A i, j \in 1..Len(ScannedNetworks) :
              ScannedNetworks[i].ssid = ScannedNetworks[j].ssid => i = j
    BY NetworkAssumption DEF Ssid
  <1>5. \/ hardware.ret # 0 /\ hardware.net = c
        \/ hardware.net = c
        \/ hardware.ret = 0 /\ hardware.net = Filled(Cleared(c), BridgedNetworks)
    <2> HIDE DEF again
    <2> DEFINE wifi == pci_find_class(c.pci, WifiCards)
               found == pci_find_device(c.pci, "e1000")
    <2>1. hardware = LET ready == \/ c.pci[wifi].card = "ax201" /\ ~c.pci[wifi].io
                                  \/ c.pci[wifi].card = "wifi"
                     IN  CASE wifi # 0 -> Result(c, IF ready THEN 0 ELSE -1)
                           [] wifi = 0 /\ found # 0 ->
                                 Result(Filled(Cleared(c), BridgedNetworks), 0)
                           [] OTHER -> Failed(c)
      BY <1>2, Zenon DEF wifi_hardware_init, again
    <2> HIDE DEF wifi, found, hardware
    <2>2. CASE wifi # 0
      BY <2>1, <2>2 DEF Result
    <2>3. CASE wifi = 0 /\ found # 0
      BY <2>1, <2>3 DEF Result
    <2>4. CASE wifi = 0 /\ found = 0
      BY <2>1, <2>4 DEF Result, Failed
    <2> QED
      BY <2>2, <2>3, <2>4
  <1>6. InterfacesOK(hardware.net)
    <2>1. InterfacesOK(Filled(Cleared(c), BridgedNetworks))
      BY <1>1, <1>4, ClearedKeeps, FilledKeeps
    <2> QED
      BY <1>1, <1>5, <2>1
  <1>7. NetOK(wifi_hardware_scan(hardware.net))
    <2> HIDE DEF hardware
    <2> DEFINE d == Cleared(hardware.net)
    <2>1. InterfacesOK(d) /\ \A i \in 1..MAX_WIFI_NETWORKS : d.wifi_networks[i].used = 0
      BY <1>6, ClearedKeeps
    <2> HIDE DEF d
    <2>2. InterfacesOK(Filled(d, ScannedNetworks)) /\ NetworksOK(Filled(d, ScannedNetworks))
      BY <1>4, <2>1, FilledKeeps
    <2> QED
      BY <2>2 DEF NetOK, wifi_hardware_scan, d
  <1>8. wifi_scan_networks(s)
          = IF hardware.ret # 0 THEN hardware.net ELSE wifi_hardware_scan(hardware.net)
    BY Zenon DEF wifi_scan_networks, c
  <1> HIDE DEF hardware
  <1> QED
    BY <1>3, <1>5, <1>7, <1>8

LEMMA NetTestKeeps ==
    ASSUME NEW s, NetOK(s)
    PROVE  NetOK(nettest(s))
  <1> DEFINE t == network_interface_up(wifi_scan_networks(s), "eth0")
  <1>1. "eth0" \in Interfaces
    BY DEF Interfaces
  <1>2. NetOK(t) /\ t.ifaces["eth0"].state = NET_STATE_UP
    BY <1>1, ScanKeeps, UpKeeps
  <1> HIDE DEF t
  <1>3. NetOK(dhcp_client_start(t, "eth0").net)
    BY <1>1, <1>2, DhcpKeeps DEF NET_STATE_UP, NET_STATE_DOWN
  <1> QED
    BY <1>3 DEF nettest, t

-----------------------------------------------------------------------------
(* Start-up.                                                                 *)

\* No driver so far, and those still to be tried hold no buffers.
Fresh(s, machine, todo) ==
    /\ IsNet(s) /\ s.machine = machine /\ s.pci = pci_scan_devices(machine)
    /\ \A i \in Interfaces : s.ifaces[i].driver = None /\ IfaceOK(s.ifaces[i])
    /\ s.wifi_network_count = 0
    /\ \A i \in 1..MAX_WIFI_NETWORKS : s.wifi_networks[i].used = 0
    /\ \A d \in todo : s.buffers[d] = 0

WithBuffers(s, heap, buffers) == [s EXCEPT !.heap = heap, !.buffers = buffers]
WithInitialized(s, initialized) == [s EXCEPT !.initialized = initialized]

\* What set-up may change of a state without drivers: the heap and the buffers,
LEMMA BuffersChange ==
    ASSUME NEW s, NEW machine, NEW todo, Fresh(s, machine, todo), NEW heap,
           NEW buffers \in [Drivers -> Nat],
           NEW left \in SUBSET todo, \A d \in left : buffers[d] = 0
    PROVE  /\ Fresh(WithBuffers(s, heap, buffers), machine, left)
           /\ WithBuffers(s, heap, buffers).buffers = buffers
  <1> DEFINE With(h, b) ==
                [machine |-> s.machine, pci |-> s.pci, heap |-> h, ifaces |-> s.ifaces,
                 wifi_networks |-> s.wifi_networks,
                 wifi_network_count |-> s.wifi_network_count, buffers |-> b,
                 initialized |-> s.initialized]
             t == With(heap, buffers)
  <1>1. IsNet(s)
    BY DEF Fresh
  <1>2. s = With(s.heap, s.buffers)
    BY <1>1 DEF IsNet
  <1>3. WithBuffers(s, heap, buffers) = t
    <2>1. WithBuffers(s, heap, buffers) = [[s EXCEPT !.heap = heap] EXCEPT !.buffers = buffers]
      BY Zenon DEF WithBuffers
    <2>2. [s EXCEPT !.heap = heap] = With(heap, s.buffers)
      BY <1>2
    <2>3. [With(heap, s.buffers) EXCEPT !.buffers = buffers] = t
      OBVIOUS
    <2> HIDE DEF With, t
    <2> QED
      BY <2>1, <2>2, <2>3
  <1>4. /\ t.machine = s.machine /\ t.pci = s.pci /\ t.heap = heap /\ t.ifaces = s.ifaces
        /\ t.wifi_networks = s.wifi_networks /\ t.wifi_network_count = s.wifi_network_count
        /\ t.buffers = buffers /\ t.initialized = s.initialized
        /\ t = [machine |-> t.machine, pci |-> t.pci, heap |-> t.heap, ifaces |-> t.ifaces,
                wifi_networks |-> t.wifi_networks,
                wifi_network_count |-> t.wifi_network_count,
                buffers |-> t.buffers, initialized |-> t.initialized]
    OBVIOUS
  <1> HIDE DEF t
  <1>5. IsNet(t)
    BY <1>1, <1>4 DEF IsNet
  <1>6. Fresh(t, machine, left)
    BY <1>4, <1>5 DEF Fresh
  <1> QED
    BY <1>3, <1>4, <1>6

\* and which cards have been set up.
LEMMA InitializedChanges ==
    ASSUME NEW s, NEW machine, NEW todo, Fresh(s, machine, todo),
           NEW initialized \in [Drivers -> {0, 1}]
    PROVE  /\ Fresh(WithInitialized(s, initialized), machine, todo)
           /\ WithInitialized(s, initialized).initialized = initialized
           /\ WithInitialized(s, initialized).buffers = s.buffers
  <1> DEFINE t == [machine |-> s.machine, pci |-> s.pci, heap |-> s.heap, ifaces |-> s.ifaces,
                   wifi_networks |-> s.wifi_networks,
                   wifi_network_count |-> s.wifi_network_count, buffers |-> s.buffers,
                   initialized |-> initialized]
  <1>1. IsNet(s)
    BY DEF Fresh
  <1>2. WithInitialized(s, initialized) = t
    <2> DEFINE With(i) ==
                  [machine |-> s.machine, pci |-> s.pci, heap |-> s.heap, ifaces |-> s.ifaces,
                   wifi_networks |-> s.wifi_networks,
                   wifi_network_count |-> s.wifi_network_count, buffers |-> s.buffers,
                   initialized |-> i]
    <2>1. s = With(s.initialized)
      BY <1>1 DEF IsNet
    <2>2. [With(s.initialized) EXCEPT !.initialized = initialized] = With(initialized)
      OBVIOUS
    <2>3. WithInitialized(s, initialized) = [s EXCEPT !.initialized = initialized]
      BY DEF WithInitialized
    <2>4. With(initialized) = t
      OBVIOUS
    <2> HIDE DEF With, t
    <2> QED
      BY <2>1, <2>2, <2>3, <2>4
  <1>3. /\ t.machine = s.machine /\ t.pci = s.pci /\ t.heap = s.heap /\ t.ifaces = s.ifaces
        /\ t.wifi_networks = s.wifi_networks /\ t.wifi_network_count = s.wifi_network_count
        /\ t.buffers = s.buffers /\ t.initialized = initialized
        /\ t = [machine |-> t.machine, pci |-> t.pci, heap |-> t.heap, ifaces |-> t.ifaces,
                wifi_networks |-> t.wifi_networks,
                wifi_network_count |-> t.wifi_network_count,
                buffers |-> t.buffers, initialized |-> t.initialized]
    OBVIOUS
  <1> HIDE DEF t
  <1>4. IsNet(t)
    BY <1>1, <1>3 DEF IsNet
  <1>5. Fresh(t, machine, todo)
    BY <1>3, <1>4 DEF Fresh
  <1> QED
    BY <1>2, <1>3, <1>5

\* Nothing changes but what is still to be tried.
LEMMA FreshLess ==
    ASSUME NEW s, NEW machine, NEW todo, Fresh(s, machine, todo), NEW left \in SUBSET todo
    PROVE  Fresh(s, machine, left)
  BY DEF Fresh

LEMMA InitializedKeeps ==
    ASSUME NEW s, NEW machine, NEW todo, Fresh(s, machine, todo), NEW d \in Drivers
    PROVE  LET t == Initialized(s, d).net IN
           /\ Fresh(t, machine, todo) /\ t.initialized[d] = 1 /\ t.buffers = s.buffers
           /\ Initialized(s, d).ret = 0
  <1> DEFINE i == [s.initialized EXCEPT ![d] = 1]
  <1>1. i \in [Drivers -> {0, 1}] /\ i[d] = 1 /\ s.buffers \in [Drivers -> Nat]
    BY DEF Fresh, IsNet
  <1>2. Initialized(s, d).net = WithInitialized(s, i) /\ Initialized(s, d).ret = 0
    BY DEF Initialized, Result, WithInitialized
  <1> HIDE DEF i
  <1>3. /\ Fresh(WithInitialized(s, i), machine, todo)
        /\ WithInitialized(s, i).initialized = i
        /\ WithInitialized(s, i).buffers = s.buffers
    BY <1>1, InitializedChanges
  <1> QED
    BY <1>1, <1>2, <1>3

\* The allocations so far, as a function of their number.
IsAllocation(f, s, d, sizes, n) ==
    f = [k \in 0..n |-> IF k = 0 THEN Result(s, 0) ELSE Allocate(f[k - 1], d, sizes[k])]

LEMMA AllocationExists ==
    ASSUME NEW s, NEW d, NEW sizes, NEW n \in Nat
    PROVE  \E f : IsAllocation(f, s, d, sizes, n)
  <1> DEFINE Bad == {m \in Nat : ~\E f : IsAllocation(f, s, d, sizes, m)}
  <1>1. SUFFICES ASSUME Bad # {} PROVE FALSE
    OBVIOUS
  <1>2. PICK m \in Bad : \A k \in Bad : m <= k
    <2>1. Bad \in SUBSET Nat
      OBVIOUS
    <2> HIDE DEF Bad
    <2> QED
      BY <1>1, <2>1, LeastNatural
  <1>3. m \in Nat /\ \A f : ~IsAllocation(f, s, d, sizes, m)
    OBVIOUS
  <1>4. CASE m = 0
    <2> DEFINE f == [k \in 0..0 |-> Result(s, 0)]
    <2>1. IsAllocation(f, s, d, sizes, 0)
      BY DEF IsAllocation
    <2> QED
      BY <1>3, <1>4, <2>1
  <1>5. CASE m # 0
    <2>1. m - 1 \in Nat /\ m - 1 \notin Bad
      BY <1>2, <1>3, <1>5
    <2>2. PICK f : IsAllocation(f, s, d, sizes, m - 1)
      BY <2>1
    <2> DEFINE g == [k \in 0..m |-> IF k = m THEN Allocate(f[m - 1], d, sizes[m]) ELSE f[k]]
    <2>3. \A k \in 0..(m - 1) :
             f[k] = IF k = 0 THEN Result(s, 0) ELSE Allocate(f[k - 1], d, sizes[k])
      BY <2>2 DEF IsAllocation
    <2>4. ASSUME NEW k \in 0..m
          PROVE  g[k] = IF k = 0 THEN Result(s, 0) ELSE Allocate(g[k - 1], d, sizes[k])
      <3>1. CASE k = m
        <4>1. m # 0 /\ m - 1 \in 0..m /\ m - 1 # m
          BY <1>3, <1>5
        <4>2. g[m - 1] = f[m - 1]
          BY <4>1
        <4>3. g[m] = Allocate(f[m - 1], d, sizes[m])
          BY <1>3
        <4> QED
          BY <3>1, <4>1, <4>2, <4>3
      <3>2. CASE k # m
        <4>1. k \in 0..(m - 1) /\ g[k] = f[k]
          BY <1>3, <3>2
        <4>2. CASE k = 0
          BY <2>3, <4>1, <4>2
        <4>3. CASE k # 0
          <5>1. k - 1 \in 0..m /\ k - 1 # m
            BY <1>3, <3>2, <4>3
          <5>2. g[k - 1] = f[k - 1]
            BY <5>1
          <5> QED
            BY <2>3, <4>1, <4>3, <5>2
        <4> QED
          BY <4>2, <4>3
      <3> QED
        BY <3>1, <3>2
    <2>5. g = [k \in 0..m |-> g[k]]
      OBVIOUS
    <2> HIDE DEF g
    <2>6. IsAllocation(g, s, d, sizes, m)
      BY <2>4, <2>5 DEF IsAllocation
    <2> QED
      BY <1>3, <2>6
  <1> QED
    BY <1>4, <1>5

\* As long as nothing has failed, the driver has one buffer for each allocation.
Allocated(r, machine, todo, d, n) ==
    Fresh(r.net, machine, todo \ {d}) /\ (r.ret = 0 => r.net.buffers[d] = n)

LEMMA AllocateKeeps ==
    ASSUME NEW r, NEW machine, NEW todo \in SUBSET Drivers, NEW d \in Drivers, NEW n \in Nat,
           Allocated(r, machine, todo, d, n), NEW size
    PROVE  Allocated(Allocate(r, d, size), machine, todo, d, n + 1)
  <1>1. CASE r.ret # 0 \/ r.net.heap < size
    BY <1>1 DEF Allocate, Result, Allocated
  <1>2. CASE ~(r.ret # 0 \/ r.net.heap < size)
    <2> DEFINE s == r.net
               h == IF s.heap > size + HEADER + SPLIT_SLACK THEN s.heap - size - HEADER ELSE 0
               b == [s.buffers EXCEPT ![d] = @ + 1]
    <2>1. /\ s.buffers \in [Drivers -> Nat] /\ s.buffers[d] = n
          /\ s.initialized \in [Drivers -> {0, 1}]
          /\ \A e \in todo \ {d} : s.buffers[e] = 0 /\ e \in Drivers
      BY <1>2 DEF Allocated, Fresh, IsNet
    <2>2. /\ b \in [Drivers -> Nat] /\ b[d] = n + 1
          /\ \A e \in todo \ {d} : b[e] = 0
      BY <2>1
    <2>3. Allocate(r, d, size) = Result([s EXCEPT !.heap = h, !.buffers = b], 0)
      BY <1>2, Zenon DEF Allocate
    <2>4. /\ Allocate(r, d, size).net = WithBuffers(s, h, b)
          /\ Allocate(r, d, size).ret = 0
      BY <2>3 DEF Result, WithBuffers
    <2>5. Fresh(s, machine, todo \ {d})
      BY DEF Allocated
    <2> HIDE DEF h, b, s
    <2>6. /\ Fresh(WithBuffers(s, h, b), machine, todo \ {d})
          /\ WithBuffers(s, h, b).buffers = b
      BY <2>1, <2>2, <2>5, BuffersChange
    <2> QED
      BY <2>2, <2>4, <2>6 DEF Allocated
  <1> QED
    BY <1>1, <1>2

LEMMA AllocateAllKeeps ==
    ASSUME NEW s, NEW machine, NEW todo \in SUBSET Drivers, NEW d \in todo,
           Fresh(s, machine, todo), NEW sizes, Len(sizes) \in Nat
    PROVE  Allocated(AllocateAll(s, d, sizes), machine, todo, d, Len(sizes))
  <1> DEFINE N == Len(sizes)
             after == CHOOSE f : IsAllocation(f, s, d, sizes, N)
  <1>1. AllocateAll(s, d, sizes) = after[N]
    BY DEF AllocateAll, IsAllocation
  <1> HIDE DEF N
  <1>2. N \in Nat
    BY DEF N
  <1>3. IsAllocation(after, s, d, sizes, N)
    BY <1>2, AllocationExists
  <1> HIDE DEF after
  <1>4. \A k \in 0..N :
           after[k] = IF k = 0 THEN Result(s, 0) ELSE Allocate(after[k - 1], d, sizes[k])
    BY <1>3 DEF IsAllocation
  <1>5. Allocated(Result(s, 0), machine, todo, d, 0)
    BY FreshLess DEF Allocated, Result, Fresh
  <1> DEFINE Bad == {k \in 0..N : ~Allocated(after[k], machine, todo, d, k)}
  <1>6. ASSUME Bad # {} PROVE FALSE
    <2>1. Bad \in SUBSET Nat
      BY <1>2
    <2>2. PICK m \in Bad : \A k \in Bad : m <= k
      <3> HIDE DEF Bad
      <3> QED
        BY <1>6, <2>1, LeastNatural
    <2>3. m \in 0..N /\ ~Allocated(after[m], machine, todo, d, m)
      BY <2>2
    <2>4. m # 0
      BY <1>2, <1>4, <1>5, <2>3
    <2>5. m - 1 \in 0..N /\ m - 1 \notin Bad
      BY <1>2, <2>2, <2>3, <2>4
    <2>6. Allocated(after[m - 1], machine, todo, d, m - 1)
      BY <2>5
    <2>7. after[m] = Allocate(after[m - 1], d, sizes[m])
      BY <1>4, <2>3, <2>4
    <2>8. m - 1 \in Nat /\ (m - 1) + 1 = m
      BY <1>2, <2>3, <2>4
    <2>9. Allocated(after[m], machine, todo, d, m)
      BY <2>6, <2>7, <2>8, AllocateKeeps
    <2> QED
      BY <2>3, <2>9
  <1>7. N \in 0..N
    BY <1>2
  <1>8. Allocated(after[N], machine, todo, d, N)
    BY <1>6, <1>7
  <1> QED
    BY <1>1, <1>8 DEF N

LEMMA NeedsHaveLength ==
    ASSUME NEW d \in Drivers
    PROVE  /\ Len(Needs(d)) \in Nat /\ Len(Sizes(1, VIRTIO_BUFFER)) \in Nat
           /\ d = "ax201" => Len(Needs(d)) = 0
  <1>1. ASSUME NEW count \in Nat, NEW size, NEW S, size \in S PROVE Sizes(count, size) \in Seq(S)
    BY <1>1 DEF Sizes
  <1>2. Len(Sizes(1, VIRTIO_BUFFER)) \in Nat
    BY DEF Sizes
  <1>3. CASE d = "e1000"
    <2> DEFINE S == {DESCS_SIZE, E1000_BUFFER}
               buffers == Sizes(E1000_RING, E1000_BUFFER)
               ring == <<DESCS_SIZE>> \o buffers
    <2>1. buffers \in Seq(S) /\ <<DESCS_SIZE>> \in Seq(S)
      BY <1>1, NetworkAssumption
    <2>2. Needs(d) = ring \o ring
      BY <1>3 DEF Needs
    <2> HIDE DEF S, buffers
    <2>3. ring \in Seq(S)
      BY <2>1
    <2> HIDE DEF ring
    <2>4. ring \o ring \in Seq(S)
      BY <2>3
    <2> QED
      BY <1>2, <1>3, <2>2, <2>4
  <1>4. CASE d = "pcnet"
    <2>1. Needs(d) = Sizes(2 * PCNET_RING, PCNET_BUFFER)
      BY <1>4 DEF Needs
    <2>2. 2 * PCNET_RING \in Nat
      BY NetworkAssumption
    <2> QED
      BY <1>2, <1>4, <2>1, <2>2 DEF Sizes
  <1>5. CASE d = "virtio"
    <2>1. Needs(d) = Sizes(2, VIRTIO_BUFFER)
      BY <1>5 DEF Needs
    <2> QED
      BY <1>2, <1>5, <2>1 DEF Sizes
  <1>6. CASE d = "ax201"
    <2>1. Needs(d) = <<>>
      BY <1>6 DEF Needs
    <2> QED
      BY <1>2, <2>1
  <1> QED
    BY <1>3, <1>4, <1>5, <1>6 DEF Drivers

\* What trying a driver leaves: a state without drivers, and a driver that is
\* ready when it says so.
TriedOK(t, machine, todo, d) ==
    Fresh(t.net, machine, todo \ {d}) /\ (t.ret = 0 => Ready(t.net, d))

LEMMA FailedOK ==
    ASSUME NEW s, NEW machine, NEW todo, NEW d, Fresh(s, machine, todo \ {d})
    PROVE  TriedOK(Failed(s), machine, todo, d)
  BY DEF TriedOK, Failed, Result

\* A set-up that has all its buffers succeeds.
LEMMA SetUpSucceeds ==
    ASSUME NEW s, NEW machine, NEW todo, NEW d \in Drivers, Fresh(s, machine, todo \ {d}),
           s.buffers[d] = Len(Needs(d)), Detected(pci_scan_devices(machine), d) # 0
    PROVE  TriedOK(Initialized(s, d), machine, todo, d)
  <1> DEFINE t == Initialized(s, d).net
  <1>1. Fresh(t, machine, todo \ {d}) /\ t.initialized[d] = 1 /\ t.buffers = s.buffers
    BY InitializedKeeps
  <1> HIDE DEF t
  <1>2. Ready(t, d)
    BY <1>1 DEF Ready, Fresh
  <1> QED
    BY <1>1, <1>2 DEF TriedOK, t

LEMMA DriverTried ==
    ASSUME NEW s, NEW machine, NEW todo \in SUBSET Drivers, NEW d \in todo,
           Fresh(s, machine, todo), NEW t \in DriverInit(s, d)
    PROVE  TriedOK(t, machine, todo, d)
  <1> DEFINE found == Detected(s.pci, d)
             entry == s.pci[found]
             all == AllocateAll(s, d, Needs(d))
  <1>1. d \in Drivers /\ Fresh(s, machine, todo \ {d}) /\ s.pci = pci_scan_devices(machine)
    BY FreshLess DEF Fresh
  <1>2. /\ Fresh(all.net, machine, todo \ {d})
        /\ all.ret = 0 => all.net.buffers[d] = Len(Needs(d))
    <2>1. Len(Needs(d)) \in Nat
      BY <1>1, NeedsHaveLength, Zenon
    <2>2. Allocated(all, machine, todo, d, Len(Needs(d)))
      BY <2>1, AllocateAllKeeps, Zenon
    <2> QED
      BY <2>2, Zenon DEF Allocated
  <1>3. TriedOK(Failed(s), machine, todo, d)
    BY <1>1, FailedOK
  <1> HIDE DEF entry, all
  <1>4. CASE found = 0
    <2>1. t = Failed(s)
      BY <1>4 DEF DriverInit
    <2> QED
      BY <1>3, <2>1
  <1>5. CASE found # 0
    <2>1. Detected(pci_scan_devices(machine), d) # 0
      BY <1>1, <1>5
    <2>2. all.ret = 0 => TriedOK(Initialized(all.net, d), machine, todo, d)
      BY <1>1, <1>2, <2>1, SetUpSucceeds
    <2>3. all.ret # 0 => TriedOK(all, machine, todo, d)
      BY <1>2 DEF TriedOK
    <2>4. TriedOK(Failed(all.net), machine, todo, d)
      BY <1>2, FailedOK
    <2> HIDE DEF found
    <2>5. CASE d = "ax201"
      <3>1. s.buffers[d] = Len(Needs(d))
        BY <1>1, <2>5, NeedsHaveLength DEF Fresh
      <3>2. TriedOK(Initialized(s, d), machine, todo, d)
        BY <1>1, <2>1, <3>1, SetUpSucceeds
      <3>3. t \in ax201_setup_device(s, entry)
        BY <1>5, <2>5 DEF DriverInit, found, entry
      <3>4. t \in {Failed(s), Initialized(s, d)}
        BY <2>5, <3>3 DEF ax201_setup_device
      <3> QED
        BY <1>3, <3>2, <3>4
    <2>6. CASE d = "e1000"
      <3>1. t \in e1000_setup_device(s, entry)
        BY <1>5, <2>6 DEF DriverInit, found, entry
      <3>2. t = Failed(s) \/ (all.ret # 0 /\ t = all)
              \/ (all.ret = 0 /\ t = Initialized(all.net, d))
        BY <2>6, <3>1 DEF e1000_setup_device, all
      <3> QED
        BY <1>3, <2>2, <2>3, <3>2
    <2>7. CASE d = "pcnet"
      <3>1. t \in amd_pcnet_setup_device(s, entry)
        BY <1>5, <2>7 DEF DriverInit, found, entry
      <3>2. t = Failed(s) \/ t = Failed(all.net)
              \/ (all.ret = 0 /\ t = Initialized(all.net, d))
        BY <2>7, <3>1 DEF amd_pcnet_setup_device, all
      <3> QED
        BY <1>3, <2>2, <2>4, <3>2
    <2>8. CASE d = "virtio"
      <3> DEFINE rx == AllocateAll(s, d, Sizes(1, VIRTIO_BUFFER))
      <3>1. Fresh(rx.net, machine, todo \ {d})
        BY <1>1, NeedsHaveLength, AllocateAllKeeps DEF Allocated
      <3>2. TriedOK(Failed(rx.net), machine, todo, d)
        BY <3>1, FailedOK
      <3>3. t \in virtio_net_setup_device(s, entry)
        BY <1>5, <2>8 DEF DriverInit, found, entry
      <3>4. t = Failed(s) \/ t = Failed(rx.net) \/ (all.ret # 0 /\ t = all)
              \/ (all.ret = 0 /\ t = Initialized(all.net, d))
        BY <2>8, <3>3 DEF virtio_net_setup_device, all
      <3> QED
        BY <1>3, <2>2, <2>3, <3>2, <3>4
    <2> QED
      BY <1>1, <2>5, <2>6, <2>7, <2>8 DEF Drivers
  <1> QED
    BY <1>4, <1>5

\* A state without drivers, or one that is in order.
Outcome(r, machine, todo) ==
    (r.ret # 0 /\ Fresh(r.net, machine, todo)) \/ (r.ret = 0 /\ NetOK(r.net))

LEMMA FreshIsOK ==
    ASSUME NEW s, NEW machine \in Machines, NEW todo, Fresh(s, machine, todo)
    PROVE  NetOK(s)
  <1>1. MAX_WIFI_NETWORKS \in Nat
    BY NetworkAssumption
  <1>2. IsNet(s) /\ s.wifi_networks \in [1..MAX_WIFI_NETWORKS -> WifiNetwork]
    BY DEF Fresh, IsNet
  <1>3. NetworksOK(s)
    BY <1>1, <1>2 DEF Fresh, NetworksOK
  <1> QED
    BY <1>3 DEF Fresh, NetOK, InterfacesOK

LEMMA ConfiguredKeeps ==
    ASSUME NEW s, NEW machine \in Machines, NEW todo, Fresh(s, machine, todo),
           NEW iface \in Interfaces, NEW d \in Drivers, Ready(s, d)
    PROVE  NetOK(Configured(s, iface, d))
  <1> DEFINE f == s.ifaces[iface]
             state == IF d = "ax201" THEN NET_STATE_UP ELSE f.state
             F(st, dr) == [state |-> st, dhcp_state |-> f.dhcp_state, ip |-> f.ip,
                           driver |-> dr, connected_ssid |-> f.connected_ssid]
             g == F(state, d)
             ifaces == [s.ifaces EXCEPT ![iface] = g]
             t == [s EXCEPT !.ifaces = ifaces]
  <1>1. /\ IsNet(s) /\ s.ifaces \in [Interfaces -> Iface] /\ f \in Iface
        /\ f.driver = None /\ IfaceOK(f) /\ s.machine = machine
    BY DEF Fresh, IsNet
  <1>2. f = F(f.state, f.driver) /\ g \in Iface
    BY <1>1 DEF Iface, State
  <1>3. IfaceOK(g)
    <2>1. state = NET_STATE_DOWN => f.state = NET_STATE_DOWN
      BY DEF NET_STATE_UP, NET_STATE_DOWN
    <2>2. state # NET_STATE_CONNECTED
      BY <1>1 DEF IfaceOK, NET_STATE_UP, NET_STATE_CONNECTED
    <2>3. f.dhcp_state # DHCP_STATE_BOUND
      BY <1>1 DEF IfaceOK
    <2> HIDE DEF state
    <2> QED
      BY <1>1, <2>1, <2>2, <2>3 DEF IfaceOK
  <1>4. Configured(s, iface, d) = t
    <2>1. [[f EXCEPT !.driver = d] EXCEPT !.state = state] = g
      <3>1. [f EXCEPT !.driver = d] = F(f.state, d)
        BY <1>2
      <3>2. [F(f.state, d) EXCEPT !.state = state] = g
        OBVIOUS
      <3> HIDE DEF f, F, g, state
      <3> QED
        BY <3>1, <3>2
    <2>2. [s EXCEPT !.ifaces[iface].driver = d, !.ifaces[iface].state = state]
            = [s EXCEPT !.ifaces =
                  [s.ifaces EXCEPT ![iface] = [[f EXCEPT !.driver = d] EXCEPT !.state = state]]]
      <3> HIDE DEF state
      <3> QED
        OBVIOUS
    <2>3. Configured(s, iface, d)
            = [s EXCEPT !.ifaces[iface].driver = d, !.ifaces[iface].state = state]
      <3>1. CASE d = "ax201"
        BY <3>1 DEF Configured
      <3>2. CASE d # "ax201"
        BY <1>1, <3>2 DEF Configured
      <3> QED
        BY <3>1, <3>2
    <2> HIDE DEF f, g, state
    <2> QED
      BY <2>1, <2>2, <2>3
  <1>5. /\ ifaces \in [Interfaces -> Iface] /\ ifaces[iface] = g
        /\ \A i \in Interfaces : i # iface => ifaces[i] = s.ifaces[i]
    BY <1>1, <1>2
  <1>6. g.driver = d
    OBVIOUS
  <1> HIDE DEF ifaces, g
  <1>7. /\ t.machine = s.machine /\ t.pci = s.pci /\ t.ifaces = ifaces /\ t.heap = s.heap
        /\ t.wifi_networks = s.wifi_networks /\ t.wifi_network_count = s.wifi_network_count
        /\ t.buffers = s.buffers /\ t.initialized = s.initialized
        /\ t = [machine |-> t.machine, pci |-> t.pci, heap |-> t.heap, ifaces |-> t.ifaces,
                wifi_networks |-> t.wifi_networks,
                wifi_network_count |-> t.wifi_network_count,
                buffers |-> t.buffers, initialized |-> t.initialized]
    BY <1>1 DEF IsNet
  <1> HIDE DEF t
  <1>8. IsNet(t)
    BY <1>1, <1>5, <1>7 DEF IsNet
  <1>9. Ready(t, d)
    BY <1>7 DEF Ready
  <1>10. \A i \in Interfaces : IfaceOK(t.ifaces[i])
                               /\ (t.ifaces[i].driver # None => Ready(t, t.ifaces[i].driver))
    BY <1>3, <1>5, <1>6, <1>7, <1>9 DEF Fresh
  <1>11. NetworksOK(t)
    BY <1>7, FreshIsOK DEF NetOK, NetworksOK
  <1>12. NetOK(t)
    BY <1>7, <1>8, <1>10, <1>11 DEF Fresh, NetOK, InterfacesOK
  <1> QED
    BY <1>4, <1>12

LEMMA TryKeeps ==
    ASSUME NEW outcomes, NEW machine \in Machines, NEW todo \in SUBSET Drivers, NEW d \in todo,
           \A r \in outcomes : Outcome(r, machine, todo)
    PROVE  \A r \in Tried(outcomes, d) : Outcome(r, machine, todo \ {d})
  <1> DEFINE iface == IF d = "ax201" THEN "wlan0" ELSE "eth0"
  <1>1. SUFFICES ASSUME NEW q \in Tried(outcomes, d) PROVE Outcome(q, machine, todo \ {d})
    OBVIOUS
  <1>2. PICK r \in outcomes :
           q \in IF r.ret = 0 THEN {r}
                 ELSE {IF t.ret = 0 THEN Result(Configured(t.net, iface, d), 0) ELSE t :
                          t \in DriverInit(r.net, d)}
    BY DEF Tried
  <1>3. iface \in Interfaces /\ d \in Drivers
    BY DEF Interfaces
  <1> HIDE DEF iface
  <1>4. CASE r.ret = 0
    BY <1>2, <1>4 DEF Outcome
  <1>5. CASE r.ret # 0
    <2>1. PICK t \in DriverInit(r.net, d) :
             q = IF t.ret = 0 THEN Result(Configured(t.net, iface, d), 0) ELSE t
      BY <1>2, <1>5
    <2>2. Fresh(r.net, machine, todo)
      BY <1>5 DEF Outcome
    <2>3. TriedOK(t, machine, todo, d)
      BY <2>2, DriverTried
    <2>4. CASE t.ret = 0
      <3>1. NetOK(Configured(t.net, iface, d))
        BY <1>3, <2>3, <2>4, ConfiguredKeeps DEF TriedOK
      <3> QED
        BY <2>1, <2>4, <3>1 DEF Outcome, Result
    <2>5. CASE t.ret # 0
      BY <2>1, <2>3, <2>5 DEF Outcome, TriedOK
    <2> QED
      BY <2>4, <2>5
  <1> QED
    BY <1>4, <1>5

LEMMA StartUpOK ==
    ASSUME NEW machine \in Machines, NEW s \in network_init(machine)
    PROVE  NetOK(s)
  <1> DEFINE n == NoInterfaces(machine)
             start == {Failed(n)}
             one == Tried(start, "ax201")
             two == Tried(one, "e1000")
             three == Tried(two, "pcnet")
             four == Tried(three, "virtio")
             after == Drivers \ {"ax201"}
             then == after \ {"e1000"}
             last == then \ {"pcnet"}
  <1>1. Fresh(n, machine, Drivers)
    <2>1. /\ n.machine = machine /\ n.pci = pci_scan_devices(machine) /\ n.wifi_network_count = 0
          /\ n.buffers = [d \in Drivers |-> 0] /\ n.initialized = [d \in Drivers |-> 0]
          /\ n.wifi_networks = [i \in 1..MAX_WIFI_NETWORKS |-> UnusedNetwork]
          /\ n.ifaces = [i \in Interfaces |->
                   IF i = "lo"
                   THEN [network_create_interface EXCEPT !.ip = Loopback, !.state = NET_STATE_UP]
                   ELSE network_create_interface]
          /\ n = [machine |-> n.machine, pci |-> n.pci, heap |-> n.heap, ifaces |-> n.ifaces,
                  wifi_networks |-> n.wifi_networks,
                  wifi_network_count |-> n.wifi_network_count,
                  buffers |-> n.buffers, initialized |-> n.initialized]
      BY DEF NoInterfaces
    <2> HIDE DEF n
    <2> DEFINE new == network_create_interface
               lo == [new EXCEPT !.ip = Loopback, !.state = NET_STATE_UP]
    <2>2. new = [state |-> NET_STATE_DOWN, dhcp_state |-> DHCP_STATE_IDLE, ip |-> None,
                 driver |-> None, connected_ssid |-> NoSSID]
      BY DEF network_create_interface
    <2>3. lo = [state |-> NET_STATE_UP, dhcp_state |-> DHCP_STATE_IDLE, ip |-> Loopback,
                driver |-> None, connected_ssid |-> NoSSID]
      <3> DEFINE l == [state |-> NET_STATE_DOWN, dhcp_state |-> DHCP_STATE_IDLE,
                       ip |-> Loopback, driver |-> None, connected_ssid |-> NoSSID]
      <3>1. [new EXCEPT !.ip = Loopback] = l
        BY <2>2
      <3>2. [l EXCEPT !.state = NET_STATE_UP]
              = [state |-> NET_STATE_UP, dhcp_state |-> DHCP_STATE_IDLE, ip |-> Loopback,
                 driver |-> None, connected_ssid |-> NoSSID]
        OBVIOUS
      <3>3. lo = [[new EXCEPT !.ip = Loopback] EXCEPT !.state = NET_STATE_UP]
        BY Zenon
      <3> HIDE DEF l, lo, new
      <3> QED
        BY <3>1, <3>2, <3>3
    <2> HIDE DEF new, lo
    <2>4. new \in Iface /\ lo \in Iface
      BY <2>2, <2>3 DEF Iface, State, DhcpState, Address, Ssid
    <2>5. new.driver = None /\ lo.driver = None /\ IfaceOK(new) /\ IfaceOK(lo)
      BY <2>2, <2>3 DEF IfaceOK, NET_STATE_UP, NET_STATE_DOWN, NET_STATE_CONNECTED,
                        DHCP_STATE_IDLE, DHCP_STATE_BOUND
    <2>6. n.ifaces = [i \in Interfaces |-> IF i = "lo" THEN lo ELSE new]
      BY <2>1 DEF new, lo
    <2>7. UnusedNetwork \in WifiNetwork /\ UnusedNetwork.used = 0
      BY DEF UnusedNetwork, WifiNetwork, Ssid
    <2>8. IsNet(n)
      BY <2>1, <2>4, <2>6, <2>7 DEF IsNet
    <2> QED
      BY <2>1, <2>5, <2>6, <2>7, <2>8 DEF Fresh
  <1>2. \A r \in start : Outcome(r, machine, Drivers)
    BY <1>1 DEF Outcome, Failed, Result
  <1>3. /\ "ax201" \in Drivers /\ "e1000" \in after /\ "pcnet" \in then /\ "virtio" \in last
        /\ after \in SUBSET Drivers /\ then \in SUBSET Drivers /\ last \in SUBSET Drivers
    BY DEF Drivers
  <1>4. s \in {r.net : r \in four}
    BY DEF network_init
  <1> HIDE DEF n, start, one, two, three, four
  <1>5. \A r \in one : Outcome(r, machine, after)
    BY <1>2, <1>3, TryKeeps DEF one
  <1>6. \A r \in two : Outcome(r, machine, then)
    BY <1>3, <1>5, TryKeeps DEF two
  <1>7. \A r \in three : Outcome(r, machine, last)
    BY <1>3, <1>6, TryKeeps DEF three
  <1>8. \A r \in four : Outcome(r, machine, last \ {"virtio"})
    BY <1>3, <1>7, TryKeeps DEF four
  <1>9. PICK r \in four : s = r.net
    BY <1>4
  <1> QED
    BY <1>8, <1>9, FreshIsOK DEF Outcome

-----------------------------------------------------------------------------
(* The properties.                                                           *)

\* Every command keeps the invariant.
LEMMA StepKeeps ==
    ASSUME NetOK(net), Next
    PROVE  NetOK(net')
  <1>1. CASE IfconfigUp
    BY <1>1, UpKeeps DEF IfconfigUp
  <1>2. CASE IfconfigDown
    BY <1>2, DownKeeps DEF IfconfigDown
  <1>3. CASE Dhcp
    BY <1>3, StartDhcpKeeps DEF Dhcp
  <1>4. CASE WifiScan
    BY <1>4, ScanKeeps DEF WifiScan
  <1>5. CASE WifiConnect
    <2>1. PICK ssid \in Ssid, password \in {0, 1} : net' = wifi_connect(net, ssid, password).net
      BY <1>5 DEF WifiConnect, Ssid, Names
    <2> QED
      BY <2>1, ConnectKeeps
  <1>6. CASE WifiDisconnect
    BY <1>6, DisconnectKeeps DEF WifiDisconnect
  <1>7. CASE NetTest
    BY <1>7, NetTestKeeps DEF NetTest
  <1> QED
    BY <1>1, <1>2, <1>3, <1>4, <1>5, <1>6, <1>7 DEF Next

\* What start-up finds, gives and allocates, and what the commands of the shell do
\* with it in any order, leaves the interfaces, the networks and the device table
\* consistent: NetOK, from which the properties of network.c and pci.c follow.
THEOREM NetworkInvariant == Spec => []NetOK(net)
  <1>1. Init => NetOK(net)
    BY StartUpOK DEF Init
  <1>2. NetOK(net) /\ [Next]_net => NetOK(net)'
    BY StepKeeps
  <1> QED
    BY <1>1, <1>2, PTL DEF Spec

\* pci_scan_devices, at start-up and again at every WiFi scan, lists exactly the
\* functions that can be seen, in order, up to the size of the table, whatever is
\* plugged in; and no interface has a driver whose card is not listed.
THEOREM PciTableCompleteCorrect == Spec => []PciTableComplete
  <1>1. NetOK(net) => PciTableComplete
    <2>1. SUFFICES ASSUME NetOK(net) PROVE PciTableComplete
      OBVIOUS
    <2>2. Lists(net.pci, net.machine)
      BY <2>1, NetworkAssumption, ScanLists DEF NetOK, InterfacesOK
    <2>3. ASSUME NEW i \in Interfaces, net.ifaces[i].driver # None
          PROVE  Detected(net.pci, net.ifaces[i].driver) # 0
      BY <2>1, <2>3 DEF NetOK, InterfacesOK, Ready
    <2> QED
      BY <2>2, <2>3 DEF PciTableComplete
  <1> QED
    BY <1>1, NetworkInvariant, PTL

\* A lease has an address and a driver it was had over, and an interface that is
\* down has neither lease nor search, after any sequence of commands.
THEOREM DhcpStateFitsCorrect == Spec => []DhcpStateFits
  <1>1. NetOK(net) => DhcpStateFits
    BY DEF NetOK, InterfacesOK, IfaceOK, DhcpStateFits
  <1> QED
    BY <1>1, NetworkInvariant, PTL

\* wifi_network_count is the number of networks that can be joined, each with a
\* name of its own, also when the scan finds more than there are slots for, and
\* when the hardware check before it has made up networks of its own.
THEOREM ScanCountsNetworksCorrect == Spec => []ScanCountsNetworks
  <1>1. NetOK(net) => ScanCountsNetworks
    <2>1. SUFFICES ASSUME NetOK(net) PROVE ScanCountsNetworks
      OBVIOUS
    <2>2. /\ net.wifi_networks \in [1..MAX_WIFI_NETWORKS -> WifiNetwork]
          /\ NetworksOK(net)
      BY <2>1 DEF NetOK, InterfacesOK, IsNet
    <2>3. PICK n \in 0..MAX_WIFI_NETWORKS :
             /\ net.wifi_network_count = n
             /\ \A i \in 1..MAX_WIFI_NETWORKS : net.wifi_networks[i].used = 1 <=> i <= n
             /\ \A i, j \in 1..n :
                    net.wifi_networks[i].ssid = net.wifi_networks[j].ssid => i = j
      BY <2>2 DEF NetworksOK
    <2> DEFINE used == {i \in DOMAIN net.wifi_networks : net.wifi_networks[i].used = 1}
    <2>4. used = 1..n
      <3>1. DOMAIN net.wifi_networks = 1..MAX_WIFI_NETWORKS
        BY <2>2
      <3> QED
        BY <2>3, <3>1, NetworkAssumption
    <2>5. Cardinality(1..n) = n
      BY <2>3, NetworkAssumption, FS_Interval
    <2> QED
      BY <2>3, <2>4, <2>5 DEF ScanCountsNetworks
  <1> QED
    BY <1>1, NetworkInvariant, PTL

\* An interface has a driver only when every buffer of that driver could be
\* allocated: start-up gives the heap out to one card after the other, and a card
\* that comes away with too little is left without an interface.
THEOREM DriversOwnBuffersCorrect == Spec => []DriversOwnBuffers
  <1>1. NetOK(net) => DriversOwnBuffers
    BY DEF NetOK, InterfacesOK, Ready, DriversOwnBuffers
  <1> QED
    BY <1>1, NetworkInvariant, PTL
=============================================================================
