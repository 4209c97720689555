---------------------------- MODULE E1000Proofs ----------------------------
(***************************************************************************)
(* Proofs that both descriptor rings of module E1000 implement FrameQueue, *)
(* for every number of descriptors.                                        *)
(***************************************************************************)
EXTENDS E1000, FiniteSetTheorems, SequenceTheorems, TLAPS

-----------------------------------------------------------------------------
(* Going round a ring. *)

\* The descriptor k places after h.
At(h, k) == (h + k) % RING

LEMMA AtIs ==
    \A h \in Descriptors, k \in 0..RING :
        /\ At(h, k) \in Descriptors
        /\ At(h, k) = IF h + k < RING THEN h + k ELSE h + k - RING
  <1>1. \A x \in 0..(RING - 1) : x % RING = x
    BY RingAssumption
  <1>2. \A x \in RING..(2 * RING - 1) : x % RING = x - RING
    BY RingAssumption
  <1> QED
    BY <1>1, <1>2, RingAssumption DEF At, Descriptors

LEMMA AfterIsAt == \A h \in Descriptors : After(h) = At(h, 1) /\ After(h) \in Descriptors
  <1>1. \A h \in Descriptors : After(h) = At(h, 1)
    BY DEF After, At
  <1> QED
    BY <1>1, AtIs, RingAssumption DEF Descriptors

\* Different places are different descriptors; going all the way round leads back.
LEMMA AtFacts ==
    ASSUME NEW h \in Descriptors
    PROVE  /\ At(h, 0) = h /\ At(h, RING) = h
           /\ \A j, k \in 0..(RING - 1) : At(h, j) = At(h, k) => j = k
           /\ \A k \in 0..(RING - 1) : At(After(h), k) = At(h, k + 1)
           /\ At(After(h), RING - 1) = h
  <1>1. h \in 0..(RING - 1) /\ RING \in Nat /\ RING >= 2
    BY RingAssumption DEF Descriptors
  <1>2. \A k \in 0..RING : At(h, k) = IF h + k < RING THEN h + k ELSE h + k - RING
    BY AtIs
  <1>3. /\ After(h) \in 0..(RING - 1)
        /\ After(h) = IF h + 1 < RING THEN h + 1 ELSE 0
    BY <1>1, <1>2, AfterIsAt DEF Descriptors
  <1>4. \A k \in 0..RING :
           At(After(h), k) = IF After(h) + k < RING THEN After(h) + k ELSE After(h) + k - RING
    BY AtIs, AfterIsAt
  <1>5. At(h, 0) = h /\ At(h, RING) = h
    BY <1>1, <1>2
  <1>6. \A j, k \in 0..(RING - 1) : At(h, j) = At(h, k) => j = k
    BY <1>1, <1>2
  <1>7. \A k \in 0..(RING - 1) : At(After(h), k) = At(h, k + 1)
    BY <1>1, <1>2, <1>3, <1>4
  <1>8. At(After(h), RING - 1) = h
    BY <1>1, <1>3, <1>4
  <1> QED
    BY <1>5, <1>6, <1>7, <1>8

\* The place after a place.
LEMMA AfterAt ==
    ASSUME NEW h \in Descriptors, NEW k \in 0..(RING - 1)
    PROVE  After(At(h, k)) = At(h, k + 1) /\ At(h, k + 1) \in Descriptors
  <1>1. h \in 0..(RING - 1) /\ RING \in Nat /\ RING >= 2 /\ k \in 0..RING /\ k + 1 \in 0..RING
    BY RingAssumption DEF Descriptors
  <1>2. /\ At(h, k) = IF h + k < RING THEN h + k ELSE h + k - RING
        /\ At(h, k) \in Descriptors
    BY <1>1, AtIs
  <1>3. /\ At(h, k + 1) = IF h + (k + 1) < RING THEN h + (k + 1) ELSE h + (k + 1) - RING
        /\ At(h, k + 1) \in Descriptors
    BY <1>1, AtIs
  <1>4. 1 \in 0..RING
    BY RingAssumption
  <1>5. After(At(h, k)) = IF At(h, k) + 1 < RING THEN At(h, k) + 1 ELSE At(h, k) + 1 - RING
    BY <1>2, <1>4, AtIs, AfterIsAt
  <1> QED
    BY <1>1, <1>2, <1>3, <1>5

-----------------------------------------------------------------------------
(* The frames in a ring as a sequence. *)

LEMMA InRingType ==
    ASSUME NEW S, NEW b \in [Descriptors -> S], NEW h \in Descriptors, NEW n \in 0..RING
    PROVE  /\ InRing(b, h, n) \in Seq(S) /\ Len(InRing(b, h, n)) = n
           /\ \A i \in 1..n : InRing(b, h, n)[i] = b[At(h, i - 1)]
  <1>1. \A i \in 1..n : i - 1 \in 0..RING /\ (h + i - 1) % RING = At(h, i - 1)
    BY RingAssumption DEF At, Descriptors
  <1>2. \A i \in 1..n : b[(h + i - 1) % RING] \in S
    BY <1>1, AtIs
  <1>3. InRing(b, h, n) \in Seq(S)
    BY <1>2, IsASeq, RingAssumption DEF InRing
  <1> QED
    BY <1>1, <1>3, LenProperties, RingAssumption DEF InRing

\* The same as one predicate.
ShowsRing(S, b, h, n, s) ==
    s \in Seq(S) /\ Len(s) = n /\ \A i \in 1..n : s[i] = b[At(h, i - 1)]

LEMMA InRingShows ==
    ASSUME NEW S, NEW b \in [Descriptors -> S], NEW h \in Descriptors, NEW n \in 0..RING
    PROVE  ShowsRing(S, b, h, n, InRing(b, h, n))
  BY InRingType DEF ShowsRing

\* A frame stored behind the last one is appended.
LEMMA RingPut ==
    ASSUME NEW S, NEW b \in [Descriptors -> S], NEW h \in Descriptors,
           NEW n \in 0..(RING - 1), NEW f \in S
    PROVE  InRing([b EXCEPT ![At(h, n)] = f], h, n + 1) = Append(InRing(b, h, n), f)
  <1> DEFINE c == [b EXCEPT ![At(h, n)] = f]
             s == InRing(c, h, n + 1)
             t == Append(InRing(b, h, n), f)
  <1>1. c \in [Descriptors -> S] /\ n \in 0..RING /\ n + 1 \in 0..RING
    BY AtIs, RingAssumption
  <1>4. c[At(h, n)] = f
    BY <1>1, AtIs
  <1>5. \A d \in Descriptors \ {At(h, n)} : c[d] = b[d]
    OBVIOUS
  <1> HIDE DEF c
  <1>2. /\ s \in Seq(S) /\ Len(s) = n + 1
        /\ \A i \in 1..(n + 1) : s[i] = c[At(h, i - 1)]
    <2>1. ShowsRing(S, c, h, n + 1, s)
      BY <1>1, InRingShows, Zenon
    <2> QED
      BY <2>1, Zenon DEF ShowsRing
  <1>3. /\ t \in Seq(S) /\ Len(t) = n + 1
        /\ \A i \in 1..n : t[i] = b[At(h, i - 1)]
        /\ t[n + 1] = f
    <2>1. /\ InRing(b, h, n) \in Seq(S) /\ Len(InRing(b, h, n)) = n
          /\ \A i \in 1..n : InRing(b, h, n)[i] = b[At(h, i - 1)]
      <3>1. ShowsRing(S, b, h, n, InRing(b, h, n))
        BY <1>1, InRingShows, Zenon
      <3> QED
        BY <3>1, Zenon DEF ShowsRing
    <2> QED
      BY <2>1, AppendProperties
  <1>6. \A i \in 1..(n + 1) : s[i] = t[i]
    <2> SUFFICES ASSUME NEW i \in 1..(n + 1) PROVE s[i] = t[i]
      OBVIOUS
    <2> HIDE DEF s, t
    <2>1. CASE i \in 1..n
      <3>1. i - 1 \in 0..(RING - 1) /\ i - 1 \in 0..RING /\ i - 1 # n
        BY <2>1, RingAssumption
      <3>2. At(h, i - 1) # At(h, n) /\ At(h, i - 1) \in Descriptors
        BY <3>1, AtIs, AtFacts
      <3> QED
        BY <2>1, <3>2, <1>2, <1>3, <1>5
    <2>2. CASE i = n + 1
      <3>1. i - 1 = n
        BY <2>2, RingAssumption
      <3> QED
        BY <2>2, <3>1, <1>2, <1>3, <1>4
    <2> QED
      BY <2>1, <2>2, RingAssumption
  <1> HIDE DEF s, t
  <1>7. s = t
    BY <1>2, <1>3, <1>6, SeqEqual
  <1> QED
    BY <1>7 DEF s, t, c

\* The frame at the head is the first, and what follows it is the rest.
LEMMA RingTake ==
    ASSUME NEW S, NEW b \in [Descriptors -> S], NEW h \in Descriptors, NEW n \in 1..RING
    PROVE  /\ InRing(b, h, n) # <<>> /\ Head(InRing(b, h, n)) = b[h]
           /\ Tail(InRing(b, h, n)) = InRing(b, After(h), n - 1)
  <1> DEFINE s == InRing(b, h, n)
             t == InRing(b, After(h), n - 1)
  <1>1. n \in 0..RING /\ n - 1 \in 0..RING /\ After(h) \in Descriptors
    BY AfterIsAt, RingAssumption
  <1>2. s \in Seq(S) /\ Len(s) = n /\ \A i \in 1..n : s[i] = b[At(h, i - 1)]
    <2>1. ShowsRing(S, b, h, n, s)
      BY <1>1, InRingShows, Zenon
    <2> QED
      BY <2>1, Zenon DEF ShowsRing
  <1>3. /\ t \in Seq(S) /\ Len(t) = n - 1
        /\ \A i \in 1..(n - 1) : t[i] = b[At(After(h), i - 1)]
    <2>1. ShowsRing(S, b, After(h), n - 1, t)
      BY <1>1, InRingShows, Zenon
    <2> QED
      BY <2>1, Zenon DEF ShowsRing
  <1>4. s # <<>> /\ s[1] = b[h]
    <2>1. s[1] = b[At(h, 1 - 1)]
      BY <1>2
    <2>2. At(h, 1 - 1) = h
      BY AtFacts
    <2> QED
      BY <1>2, <2>1, <2>2
  <1>5. /\ Tail(s) \in Seq(S) /\ Len(Tail(s)) = n - 1
        /\ \A i \in 1..(n - 1) : Tail(s)[i] = s[i + 1]
    BY <1>2, <1>4, HeadTailProperties
  <1>6. \A i \in 1..(n - 1) : Tail(s)[i] = t[i]
    <2> SUFFICES ASSUME NEW i \in 1..(n - 1) PROVE Tail(s)[i] = t[i]
      OBVIOUS
    <2>1. i - 1 \in 0..(RING - 1) /\ (i - 1) + 1 = i /\ i + 1 \in 1..n /\ (i + 1) - 1 = i
      BY RingAssumption
    <2>2. At(After(h), i - 1) = At(h, i)
      BY <2>1, AtFacts
    <2> QED
      BY <2>1, <2>2, <1>2, <1>3, <1>5
  <1> HIDE DEF s, t
  <1>7. Tail(s) = t
    BY <1>3, <1>5, <1>6, SeqEqual
  <1> QED
    BY <1>2, <1>4, <1>7 DEF s, t

-----------------------------------------------------------------------------
(* The invariants. *)

Buffered == Frames \cup {NoFrame}

\* A transmit ring holds its unsent frames from the head of the card on, as many
\* as descriptors are not DD.  The driver fills next the descriptor behind them;
\* the tail is there too, or one before while a filled descriptor waits for it.
TxInv ==
    LET n == Cardinality(Unsent) IN
    /\ tx_dd \in [Descriptors -> {0, 1}] /\ tx_buffers \in [Descriptors -> Buffered]
    /\ TDH \in Descriptors /\ tx_cur \in Descriptors /\ TDT = tx_cur
    /\ sending \in {"no", "waits", "filled"} /\ (sending # "no" => frame \in Frames)
    /\ n \in 0..RING
    /\ \A k \in 0..(RING - 1) : tx_dd[At(TDH, k)] = 0 <=> k < n
    /\ sending # "filled" => tx_cur = At(TDH, n)
    /\ sending = "filled" => n >= 1 /\ tx_cur = At(TDH, n - 1)

\* A receive ring holds its unread frames from the driver's index on, as many as
\* descriptors are DD, the card's head is behind them, and the tail is the
\* descriptor before the driver's.
RxInv ==
    LET n == Cardinality(Unread) IN
    /\ rx_dd \in [Descriptors -> {0, 1}] /\ rx_buffers \in [Descriptors -> Buffered]
    /\ rx_cur \in Descriptors
    /\ n \in 0..(RING - 1)
    /\ \A k \in 0..(RING - 1) : rx_dd[At(rx_cur, k)] = 1 <=> k < n
    /\ RDH = At(rx_cur, n) /\ RDT = At(rx_cur, RING - 1)

\* The descriptors of a ring, and any set of them, are finitely many.
LEMMA DescriptorsFinite == \A D \in SUBSET Descriptors : IsFiniteSet(D)
  <1>1. IsFiniteSet(Descriptors)
    BY FS_Interval, RingAssumption DEF Descriptors
  <1> QED
    BY <1>1, FS_Subset

LEMMA TxInit == Init => TxInv /\ Cardinality(Unsent) = 0
  <1> SUFFICES ASSUME Init PROVE TxInv /\ Cardinality(Unsent) = 0
    OBVIOUS
  <1>1. Unsent = {}
    BY DEF Init, e1000_setup_tx, Unsent
  <1>2. Cardinality(Unsent) = 0
    BY <1>1, FS_EmptySet
  <1>3. 0 \in Descriptors
    BY RingAssumption DEF Descriptors
  <1> QED
    BY <1>2, <1>3, AtIs, AtFacts, RingAssumption DEF Init, e1000_setup_tx, TxInv, Buffered

LEMMA RxInit == Init => RxInv /\ Cardinality(Unread) = 0
  <1> SUFFICES ASSUME Init PROVE RxInv /\ Cardinality(Unread) = 0
    OBVIOUS
  <1>1. Unread = {}
    BY DEF Init, e1000_setup_rx, Unread
  <1>2. Cardinality(Unread) = 0
    BY <1>1, FS_EmptySet
  <1>3. 0 \in Descriptors
    BY RingAssumption DEF Descriptors
  <1>4. At(0, 0) = 0 /\ At(0, RING - 1) = RING - 1
    BY <1>3, AtIs, RingAssumption
  <1> QED
    BY <1>2, <1>3, <1>4, AtIs, RingAssumption DEF Init, e1000_setup_rx, RxInv, Buffered

\* Filling a descriptor: one more unsent frame, at the end of the queue.
LEMMA FillAppends ==
    ASSUME TxInv, Fill
    PROVE  LET n == Cardinality(Unsent) IN
           /\ n < RING /\ tx_cur = At(TDH, n)
           /\ Cardinality(Unsent') = n + 1
           /\ TxInv'
  <1> DEFINE n == Cardinality(Unsent)
  <1>1. n \in 0..RING /\ tx_cur = At(TDH, n) /\ TDH \in Descriptors
    BY DEF TxInv, Fill
  <1>2. n < RING
    <2> SUFFICES ASSUME n = RING PROVE FALSE
      BY <1>1, RingAssumption
    <2>1. tx_cur = At(TDH, 0)
      BY <1>1, AtFacts
    <2>2. tx_dd[At(TDH, 0)] = 0
      BY RingAssumption DEF TxInv
    <2> QED
      BY <2>1, <2>2 DEF Fill
  <1>3. Unsent' = Unsent \cup {tx_cur} /\ tx_cur \notin Unsent
    BY DEF Unsent, Fill, TxInv
  <1>4. Cardinality(Unsent') = n + 1
    BY <1>3, FS_AddElement, DescriptorsFinite DEF Unsent
  <1>5. \A k \in 0..(RING - 1) : tx_dd'[At(TDH, k)] = 0 <=> k < n + 1
    <2> SUFFICES ASSUME NEW k \in 0..(RING - 1)
                 PROVE  tx_dd'[At(TDH, k)] = 0 <=> k < n + 1
      OBVIOUS
    <2>1. tx_dd[At(TDH, k)] = 0 <=> k < n
      BY DEF TxInv
    <2>2. At(TDH, k) \in Descriptors /\ (At(TDH, k) = tx_cur <=> k = n)
      BY <1>1, <1>2, AtIs, AtFacts, RingAssumption
    <2>3. tx_dd'[At(TDH, k)] = IF k = n THEN 0 ELSE tx_dd[At(TDH, k)]
      BY <2>2 DEF Fill, TxInv
    <2> QED
      BY <2>1, <2>3, <1>1
  <1>6. TxInv'
    <2>1. /\ tx_dd' \in [Descriptors -> {0, 1}]
          /\ tx_buffers' \in [Descriptors -> Buffered]
      BY DEF Fill, TxInv, Buffered
    <2>2. /\ TDH' = TDH /\ tx_cur' = tx_cur /\ TDT' = TDT /\ frame' = frame
          /\ sending = "waits" /\ sending' = "filled"
      BY DEF Fill
    <2>3. n + 1 \in 0..RING /\ n + 1 >= 1 /\ (n + 1) - 1 = n
      BY <1>1, <1>2, RingAssumption
    <2> HIDE DEF n
    <2> QED
      BY <1>1, <1>4, <1>5, <2>1, <2>2, <2>3 DEF TxInv
  <1> QED
    BY <1>1, <1>2, <1>4, <1>6

\* The card sending: one unsent frame less, at the head.
LEMMA CardSendsTakes ==
    ASSUME TxInv, CardSends
    PROVE  LET n == Cardinality(Unsent) IN
           /\ n >= 1 /\ Cardinality(Unsent') = n - 1
           /\ TxInv'
  <1> DEFINE n == Cardinality(Unsent)
  <1>1. n \in 0..RING /\ TDH \in Descriptors /\ tx_cur \in Descriptors
    BY DEF TxInv
  <1>2. /\ n >= 1
        /\ sending = "filled" => n >= 2
    <2>1. CASE sending = "filled"
      <3>1. n >= 1 /\ tx_cur = At(TDH, n - 1) /\ tx_cur # TDH
        BY <2>1 DEF TxInv, CardSends
      <3>2. At(TDH, 0) = TDH
        BY <1>1, AtFacts
      <3>3. n # 1
        BY <3>1, <3>2
      <3> QED
        BY <1>1, <3>1, <3>3
    <2>2. CASE sending # "filled"
      <3>1. tx_cur = At(TDH, n) /\ tx_cur # TDH
        BY <2>2 DEF TxInv, CardSends
      <3>2. At(TDH, 0) = TDH
        BY <1>1, AtFacts
      <3>3. n # 0
        BY <3>1, <3>2
      <3> QED
        BY <1>1, <2>2, <3>3
    <2> QED
      BY <2>1, <2>2
  <1>3. tx_dd[TDH] = 0
    <2>1. tx_dd[At(TDH, 0)] = 0
      BY <1>1, <1>2, RingAssumption DEF TxInv
    <2> QED
      BY <1>1, <2>1, AtFacts
  <1>4. Unsent' = Unsent \ {TDH} /\ TDH \in Unsent
    BY <1>1, <1>3 DEF Unsent, CardSends, TxInv
  <1>5. Cardinality(Unsent') = n - 1
    BY <1>4, FS_RemoveElement, DescriptorsFinite DEF Unsent
  <1>6. TDH' = After(TDH) /\ TDH' \in Descriptors
    BY <1>1, AfterIsAt DEF CardSends
  <1>7. \A k \in 0..(RING - 1) : tx_dd'[At(TDH', k)] = 0 <=> k < n - 1
    <2> SUFFICES ASSUME NEW k \in 0..(RING - 1)
                 PROVE  tx_dd'[At(TDH', k)] = 0 <=> k < n - 1
      OBVIOUS
    <2>1. At(TDH', k) = At(TDH, k + 1)
      BY <1>1, <1>6, AtFacts
    <2>2. CASE k + 1 = RING
      <3>1. At(TDH', k) = TDH
        BY <1>1, <2>1, <2>2, AtFacts
      <3>2. tx_dd'[TDH] = 1
        BY <1>1 DEF CardSends, TxInv
      <3> QED
        BY <1>1, <2>2, <3>1, <3>2, RingAssumption
    <2>3. CASE k + 1 # RING
      <3>1. k + 1 \in 0..(RING - 1) /\ k + 1 # 0
        BY <2>3, RingAssumption
      <3>2. At(TDH, k + 1) \in Descriptors
        BY <1>1, <3>1, AtIs, RingAssumption
      <3>3. At(TDH, k + 1) # TDH
        BY <1>1, <3>1, AtFacts, RingAssumption
      <3>4. tx_dd'[At(TDH, k + 1)] = tx_dd[At(TDH, k + 1)]
        BY <3>2, <3>3 DEF CardSends, TxInv
      <3>5. tx_dd[At(TDH, k + 1)] = 0 <=> k + 1 < n
        BY <3>1 DEF TxInv
      <3> QED
        BY <1>1, <2>1, <3>4, <3>5
    <2> QED
      BY <2>2, <2>3
  <1>8. /\ sending # "filled" => tx_cur = At(TDH', n - 1)
        /\ sending = "filled" => n - 1 >= 1 /\ tx_cur = At(TDH', (n - 1) - 1)
    <2>1. n - 1 \in 0..(RING - 1) /\ (n - 1) + 1 = n
      BY <1>1, <1>2, RingAssumption
    <2>2. At(TDH', n - 1) = At(TDH, n)
      BY <2>1, <1>1, <1>6, AtFacts
    <2>3. CASE sending = "filled"
      <3>1. (n - 1) - 1 \in 0..(RING - 1) /\ ((n - 1) - 1) + 1 = n - 1
        BY <1>1, <1>2, <2>3, RingAssumption
      <3>2. At(TDH', (n - 1) - 1) = At(TDH, n - 1)
        BY <3>1, <1>1, <1>6, AtFacts
      <3> QED
        BY <1>1, <1>2, <2>3, <3>2 DEF TxInv
    <2> QED
      BY <2>2, <2>3 DEF TxInv
  <1>9. TxInv'
    <2>1. tx_dd' \in [Descriptors -> {0, 1}] /\ tx_buffers' = tx_buffers
      BY DEF CardSends, TxInv
    <2>2. tx_cur' = tx_cur /\ TDT' = TDT /\ frame' = frame /\ sending' = sending
      BY DEF CardSends
    <2>3. n - 1 \in 0..RING
      BY <1>1, <1>2, RingAssumption
    <2> HIDE DEF n
    <2> QED
      BY <1>5, <1>6, <1>7, <1>8, <2>1, <2>2, <2>3 DEF TxInv
  <1> QED
    BY <1>2, <1>5, <1>9

\* A frame coming in: one more unread frame, at the end of the queue.
LEMMA CardReceivesAppends ==
    ASSUME RxInv, NEW f \in Frames, CardReceives(f)
    PROVE  LET n == Cardinality(Unread) IN
           /\ n < RING - 1 /\ RDH = At(rx_cur, n)
           /\ Cardinality(Unread') = n + 1
           /\ RxInv'
  <1> DEFINE n == Cardinality(Unread)
  <1>1. n \in 0..(RING - 1) /\ RDH = At(rx_cur, n) /\ rx_cur \in Descriptors
    BY DEF RxInv
  <1>2. n < RING - 1
    BY <1>1, RingAssumption DEF RxInv, CardReceives
  <1>3. RDH \in Descriptors /\ rx_dd[RDH] # 1
    BY <1>1, <1>2, AtIs, RingAssumption DEF RxInv
  <1>4. Unread' = Unread \cup {RDH} /\ RDH \notin Unread
    BY <1>3 DEF Unread, CardReceives, RxInv
  <1>5. Cardinality(Unread') = n + 1
    BY <1>4, FS_AddElement, DescriptorsFinite DEF Unread
  <1>6. \A k \in 0..(RING - 1) : rx_dd'[At(rx_cur, k)] = 1 <=> k < n + 1
    <2> SUFFICES ASSUME NEW k \in 0..(RING - 1)
                 PROVE  rx_dd'[At(rx_cur, k)] = 1 <=> k < n + 1
      OBVIOUS
    <2>1. rx_dd[At(rx_cur, k)] = 1 <=> k < n
      BY DEF RxInv
    <2>2. At(rx_cur, k) \in Descriptors /\ (At(rx_cur, k) = RDH <=> k = n)
      <3>1. k \in 0..RING
        BY RingAssumption
      <3>2. At(rx_cur, k) \in Descriptors
        BY <1>1, <3>1, AtIs, Zenon
      <3>3. \A j, m \in 0..(RING - 1) : At(rx_cur, j) = At(rx_cur, m) => j = m
        BY <1>1, AtFacts, Zenon
      <3> QED
        BY <1>1, <3>2, <3>3, Zenon
    <2>3. rx_dd'[At(rx_cur, k)] = IF k = n THEN 1 ELSE rx_dd[At(rx_cur, k)]
      BY <2>2 DEF CardReceives, RxInv
    <2> QED
      BY <2>1, <2>3, <1>1
  <1>7. RxInv'
    <2>1. /\ rx_dd' \in [Descriptors -> {0, 1}]
          /\ rx_buffers' \in [Descriptors -> Buffered]
      BY DEF CardReceives, RxInv, Buffered
    <2>2. rx_cur' = rx_cur /\ RDT' = RDT /\ RDH' = After(RDH)
      BY DEF CardReceives
    <2>3. n + 1 \in 0..(RING - 1)
      BY <1>1, <1>2, RingAssumption
    <2>4. After(RDH) = At(rx_cur, n + 1)
      BY <1>1, AfterAt
    <2> HIDE DEF n
    <2> QED
      BY <1>1, <1>5, <1>6, <2>1, <2>2, <2>3, <2>4 DEF RxInv
  <1> QED
    BY <1>1, <1>2, <1>5, <1>7

\* The driver reading: one unread frame less, at the driver's index.
LEMMA ReceiveTakes ==
    ASSUME RxInv, e1000_receive_packet
    PROVE  LET n == Cardinality(Unread) IN
           /\ n >= 1 /\ Cardinality(Unread') = n - 1
           /\ RxInv'
  <1> DEFINE n == Cardinality(Unread)
  <1>1. n \in 0..(RING - 1) /\ rx_cur \in Descriptors /\ rx_dd[rx_cur] = 1
    BY DEF RxInv, e1000_receive_packet
  <1>2. n >= 1
    <2>1. rx_dd[At(rx_cur, 0)] = 1
      BY <1>1, AtFacts
    <2>2. 0 < n
      BY <2>1, RingAssumption DEF RxInv
    <2> QED
      BY <1>1, <2>2
  <1>3. Unread' = Unread \ {rx_cur} /\ rx_cur \in Unread
    BY <1>1 DEF Unread, e1000_receive_packet, RxInv
  <1>4. Cardinality(Unread') = n - 1
    BY <1>3, FS_RemoveElement, DescriptorsFinite DEF Unread
  <1>5. rx_cur' = After(rx_cur) /\ rx_cur' \in Descriptors
    BY <1>1, AfterIsAt DEF e1000_receive_packet
  <1>6. \A k \in 0..(RING - 1) : rx_dd'[At(rx_cur', k)] = 1 <=> k < n - 1
    <2> SUFFICES ASSUME NEW k \in 0..(RING - 1)
                 PROVE  rx_dd'[At(rx_cur', k)] = 1 <=> k < n - 1
      OBVIOUS
    <2>1. At(rx_cur', k) = At(rx_cur, k + 1)
      BY <1>1, <1>5, AtFacts
    <2>2. CASE k + 1 = RING
      <3>1. At(rx_cur', k) = rx_cur
        BY <1>1, <2>1, <2>2, AtFacts
      <3>2. rx_dd'[rx_cur] = 0
        BY <1>1 DEF e1000_receive_packet, RxInv
      <3> QED
        BY <1>1, <2>2, <3>1, <3>2, RingAssumption
    <2>3. CASE k + 1 # RING
      <3>1. k + 1 \in 0..(RING - 1) /\ k + 1 # 0
        BY <2>3, RingAssumption
      <3>2. At(rx_cur, k + 1) \in Descriptors
        BY <1>1, <3>1, AtIs, RingAssumption
      <3>3. At(rx_cur, k + 1) # rx_cur
        BY <1>1, <3>1, AtFacts, RingAssumption
      <3>4. rx_dd'[At(rx_cur, k + 1)] = rx_dd[At(rx_cur, k + 1)]
        BY <3>2, <3>3 DEF e1000_receive_packet, RxInv
      <3>5. rx_dd[At(rx_cur, k + 1)] = 1 <=> k + 1 < n
        BY <3>1 DEF RxInv
      <3> QED
        BY <1>1, <2>1, <3>4, <3>5
    <2> QED
      BY <2>2, <2>3
  <1>7. RxInv'
    <2>1. rx_dd' \in [Descriptors -> {0, 1}] /\ rx_buffers' = rx_buffers
      BY DEF e1000_receive_packet, RxInv
    <2>2. n - 1 \in 0..(RING - 1) /\ (n - 1) + 1 = n
      BY <1>1, <1>2, RingAssumption
    <2>3. RDH' = At(rx_cur', n - 1)
      <3>1. At(rx_cur', n - 1) = At(rx_cur, n)
        BY <2>2, <1>1, <1>5, AtFacts
      <3> QED
        BY <3>1 DEF e1000_receive_packet, RxInv
    <2>4. RDT' = At(rx_cur', RING - 1)
      BY <1>1, <1>5, AtFacts DEF e1000_receive_packet
    <2> HIDE DEF n
    <2> QED
      BY <1>4, <1>5, <1>6, <2>1, <2>2, <2>3, <2>4 DEF RxInv
  <1> QED
    BY <1>2, <1>4, <1>7

-----------------------------------------------------------------------------
(* The rings implement the queues. *)

\* What a step of the transmit side is for its queue.  A call, and moving the
\* tail, leave it alone, as the receive side does.
LEMMA TxStep ==
    ASSUME TxInv, [Next]_vars
    PROVE  TxInv' /\ [TxQueue!Next]_<<InRing(tx_buffers, TDH, Cardinality(Unsent)), wire>>
  <1> DEFINE n == Cardinality(Unsent)
             queue == InRing(tx_buffers, TDH, n)
  <1>0. n \in 0..RING /\ TDH \in Descriptors /\ tx_buffers \in [Descriptors -> Buffered]
    BY DEF TxInv
  <1>1. ASSUME UNCHANGED tx PROVE TxInv' /\ UNCHANGED <<queue, wire>>
    BY <1>1 DEF tx, TxInv, Unsent
  <1>2. ASSUME NEW f \in Frames, Call(f) PROVE TxInv' /\ UNCHANGED <<queue, wire>>
    BY <1>2 DEF Call, TxInv, Unsent
  <1>3. CASE Fill
    <2>1. /\ n < RING /\ tx_cur = At(TDH, n) /\ TxInv'
          /\ Cardinality(Unsent') = n + 1
      BY <1>3, FillAppends
    <2>2. frame \in Frames /\ frame \in Buffered
      BY <1>3 DEF TxInv, Fill, Buffered
    <2>3. TDH' = TDH /\ wire' = wire /\ tx_buffers' = [tx_buffers EXCEPT ![At(TDH, n)] = frame]
      BY <1>3, <2>1 DEF Fill
    <2>4. n \in 0..(RING - 1)
      BY <1>0, <2>1, RingAssumption
    <2>5. queue' = Append(queue, frame)
      <3>1. InRing([tx_buffers EXCEPT ![At(TDH, n)] = frame], TDH, n + 1) = Append(queue, frame)
        BY <1>0, <2>2, <2>4, RingPut
      <3>2. queue' = InRing([tx_buffers EXCEPT ![At(TDH, n)] = frame], TDH, n + 1)
        BY <2>1, <2>3
      <3> QED
        BY <3>1, <3>2
    <2>6. Len(queue) = n
      BY <1>0, InRingType
    <2> HIDE DEF queue
    <2>7. TxQueue!Put(frame)
      BY <2>1, <2>3, <2>5, <2>6 DEF TxQueue!Put, queue, n
    <2> QED
      BY <2>1, <2>2, <2>7 DEF TxQueue!Next
  <1>4. CASE Kick
    <2>1. UNCHANGED <<queue, wire>>
      BY <1>4 DEF Kick, Unsent
    <2>2. tx_cur' = At(TDH, n) /\ tx_cur' \in Descriptors /\ n \in 1..RING
      <3>1. n - 1 \in 0..(RING - 1) /\ (n - 1) + 1 = n /\ n \in 1..RING /\ tx_cur = At(TDH, n - 1)
        BY <1>0, <1>4, RingAssumption DEF Kick, TxInv
      <3>2. After(tx_cur) = At(TDH, n) /\ At(TDH, n) \in Descriptors
        BY <1>0, <3>1, AfterAt
      <3> QED
        BY <1>4, <3>1, <3>2 DEF Kick
    <2>3. TxInv'
      BY <1>4, <2>2 DEF Kick, TxInv, Unsent
    <2> QED
      BY <2>1, <2>3
  <1>5. CASE CardSends
    <2>1. n >= 1 /\ Cardinality(Unsent') = n - 1 /\ TxInv'
      BY <1>5, CardSendsTakes
    <2>2. TDH' = After(TDH) /\ tx_buffers' = tx_buffers /\ wire' = tx_buffers[TDH]
      BY <1>5 DEF CardSends
    <2>3. n \in 1..RING
      BY <1>0, <2>1, RingAssumption
    <2>4. queue # <<>> /\ Head(queue) = tx_buffers[TDH] /\ queue' = Tail(queue)
      <3>1. tx_buffers \in [Descriptors -> Buffered] /\ TDH \in Descriptors
        BY <1>0
      <3>2. /\ queue # <<>> /\ Head(queue) = tx_buffers[TDH]
            /\ Tail(queue) = InRing(tx_buffers, After(TDH), n - 1)
        BY <2>3, <3>1, RingTake, Zenon
      <3>3. queue' = InRing(tx_buffers, After(TDH), n - 1)
        BY <2>1, <2>2
      <3> QED
        BY <3>2, <3>3, Zenon
    <2>5. TxQueue!Take
      BY <2>2, <2>4 DEF TxQueue!Take
    <2> QED
      BY <2>1, <2>5 DEF TxQueue!Next
  <1>6. ASSUME NEW f \in Frames, CardReceives(f) PROVE UNCHANGED tx
    BY <1>6 DEF CardReceives
  <1>7. ASSUME e1000_receive_packet PROVE UNCHANGED tx
    BY <1>7 DEF e1000_receive_packet
  <1>8. ASSUME UNCHANGED vars PROVE UNCHANGED tx
    BY <1>8 DEF vars
  <1> QED
    BY <1>1, <1>2, <1>3, <1>4, <1>5, <1>6, <1>7, <1>8 DEF Next

\* The same of the receive side.
LEMMA RxStep ==
    ASSUME RxInv, [Next]_vars
    PROVE  RxInv' /\ [RxQueue!Next]_<<InRing(rx_buffers, rx_cur, Cardinality(Unread)), received>>
  <1> DEFINE n == Cardinality(Unread)
             queue == InRing(rx_buffers, rx_cur, n)
  <1>0. /\ n \in 0..(RING - 1) /\ n \in 0..RING /\ rx_cur \in Descriptors
        /\ rx_buffers \in [Descriptors -> Buffered]
    BY RingAssumption DEF RxInv
  <1>1. ASSUME UNCHANGED rx PROVE RxInv' /\ UNCHANGED <<queue, received>>
    BY <1>1 DEF rx, RxInv, Unread
  <1>2. ASSUME NEW f \in Frames, CardReceives(f) PROVE RxInv' /\ RxQueue!Put(f)
    <2>1. /\ n < RING - 1 /\ RDH = At(rx_cur, n) /\ RxInv'
          /\ Cardinality(Unread') = n + 1
      BY <1>2, CardReceivesAppends
    <2>2. f \in Buffered
      BY DEF Buffered
    <2>3. /\ rx_cur' = rx_cur /\ received' = received
          /\ rx_buffers' = [rx_buffers EXCEPT ![At(rx_cur, n)] = f]
      BY <1>2, <2>1 DEF CardReceives
    <2>4. queue' = Append(queue, f)
      <3>1. n \in 0..(RING - 1)
        BY <1>0
      <3>2. InRing([rx_buffers EXCEPT ![At(rx_cur, n)] = f], rx_cur, n + 1) = Append(queue, f)
        BY <1>0, <2>2, <3>1, RingPut
      <3>3. queue' = InRing([rx_buffers EXCEPT ![At(rx_cur, n)] = f], rx_cur, n + 1)
        BY <2>1, <2>3
      <3> QED
        BY <3>2, <3>3
    <2>5. Len(queue) = n
      BY <1>0, InRingType
    <2> HIDE DEF queue
    <2> QED
      BY <2>1, <2>3, <2>4, <2>5 DEF RxQueue!Put, queue, n
  <1>3. CASE e1000_receive_packet
    <2>1. n >= 1 /\ Cardinality(Unread') = n - 1 /\ RxInv'
      BY <1>3, ReceiveTakes
    <2>2. /\ rx_cur' = After(rx_cur) /\ rx_buffers' = rx_buffers
          /\ received' = rx_buffers[rx_cur]
      BY <1>3 DEF e1000_receive_packet
    <2>3. n \in 1..RING
      BY <1>0, <2>1, RingAssumption
    <2>4. queue # <<>> /\ Head(queue) = rx_buffers[rx_cur] /\ queue' = Tail(queue)
      BY <1>0, <2>1, <2>2, <2>3, RingTake
    <2>5. RxQueue!Take
      BY <2>2, <2>4 DEF RxQueue!Take
    <2> QED
      BY <2>1, <2>5 DEF RxQueue!Next
  <1>4. ASSUME NEW f \in Frames, Call(f) PROVE UNCHANGED rx
    BY <1>4 DEF Call
  <1>5. ASSUME Fill \/ Kick \/ CardSends PROVE UNCHANGED rx
    BY <1>5 DEF Fill, Kick, CardSends
  <1>6. ASSUME UNCHANGED vars PROVE UNCHANGED rx
    BY <1>6 DEF vars
  <1> QED
    BY <1>1, <1>2, <1>3, <1>4, <1>5, <1>6 DEF Next, RxQueue!Next

\* The descriptors that wait for either side are one stretch of the ring, between
\* the indices and registers of driver and card, in every reachable state.
THEOREM RingsCorrect == Spec => [](TxInv /\ RxInv)
  <1>1. TxInv /\ RxInv /\ [Next]_vars => TxInv' /\ RxInv'
    BY TxStep, RxStep
  <1> QED
    BY <1>1, TxInit, RxInit, PTL DEF Spec

\* The transmit ring implements a queue of RING frames (e1000_send_packet).
THEOREM SendsInOrderCorrect == Spec => SendsInOrder
  <1>1. Init => TxQueue!Init
    <2> SUFFICES ASSUME Init PROVE TxQueue!Init
      OBVIOUS
    <2>1. InRing(tx_buffers, TDH, 0) = <<>>
      BY DEF InRing
    <2> QED
      BY <2>1, TxInit DEF Init, e1000_setup_tx, TxQueue!Init
  <1>2. TxInv /\ [Next]_vars
          => [TxQueue!Next]_<<InRing(tx_buffers, TDH, Cardinality(Unsent)), wire>>
    BY TxStep
  <1> QED
    BY <1>1, <1>2, RingsCorrect, PTL DEF Spec, SendsInOrder, TxQueue!Spec

\* The receive ring implements a queue of RING - 1 frames (e1000_receive_packet).
THEOREM ReceivesInOrderCorrect == Spec => ReceivesInOrder
  <1>1. Init => RxQueue!Init
    <2> SUFFICES ASSUME Init PROVE RxQueue!Init
      OBVIOUS
    <2>1. InRing(rx_buffers, rx_cur, 0) = <<>>
      BY DEF InRing
    <2> QED
      BY <2>1, RxInit DEF Init, e1000_setup_rx, RxQueue!Init
  <1>2. RxInv /\ [Next]_vars
          => [RxQueue!Next]_<<InRing(rx_buffers, rx_cur, Cardinality(Unread)), received>>
    BY RxStep
  <1> QED
    BY <1>1, <1>2, RingsCorrect, PTL DEF Spec, ReceivesInOrder, RxQueue!Spec
=============================================================================
