-------------------------------- MODULE E1000 --------------------------------
(***************************************************************************)
(* The descriptor rings of kernel/e1000.c after a set-up that succeeded,   *)
(* shared by the driver and the card.                                      *)
(*                                                                         *)
(* The card works at its own pace.  It owns the descriptors from its head  *)
(* register up to, and not including, the tail register: that is how       *)
(* e1000_setup_tx says "nothing to send" and e1000_setup_rx "room for all  *)
(* but one".  It sets DD in a descriptor it is done with.                  *)
(*                                                                         *)
(* The driver is one thread.  e1000_send_packet is split where the card    *)
(* can look: the wait for DD, filling the descriptor, moving the tail.     *)
(***************************************************************************)
EXTENDS Integers, Sequences, FiniteSets

CONSTANTS
    RING,     \* descriptors of a ring (256)
    Frames,   \* what a frame can hold
    NoFrame   \* what a buffer holds before its first frame

ASSUME RingAssumption == RING \in Nat /\ RING >= 2 /\ NoFrame \notin Frames

Descriptors == 0..(RING - 1)
After(i) == (i + 1) % RING

VARIABLES
    tx_dd, tx_buffers,  \* status bit DD and buffer of the transmit descriptors
    tx_cur, TDH, TDT,   \* the driver's index, the card's head and tail registers
    sending,            \* where e1000_send_packet is
    frame,              \* its argument, while it runs
    wire,               \* the last frame the card has sent
    rx_dd, rx_buffers, rx_cur, RDH, RDT,  \* the same of the receive descriptors
    received            \* the last frame e1000_receive_packet has returned

tx == <<tx_dd, tx_buffers, tx_cur, TDH, TDT, sending, frame, wire>>
rx == <<rx_dd, rx_buffers, rx_cur, RDH, RDT, received>>
vars == <<tx, rx>>

-----------------------------------------------------------------------------
(* Set-up. *)

\* All descriptors but the last are the card's.
e1000_setup_rx ==
    /\ rx_dd = [i \in Descriptors |-> 0]
    /\ rx_buffers = [i \in Descriptors |-> NoFrame]
    /\ rx_cur = 0 /\ RDH = 0 /\ RDT = RING - 1
    /\ received = NoFrame

\* Mutant of e1000_setup_tx: the loop ends before the last descriptor.
e1000_setup_tx_OneShort ==
    /\ tx_dd = [i \in Descriptors |-> IF i < RING - 1 THEN 1 ELSE 0]
    /\ tx_buffers = [i \in Descriptors |-> NoFrame]
    /\ tx_cur = 0 /\ TDH = 0 /\ TDT = 0
    /\ sending = "no" /\ frame = NoFrame /\ wire = NoFrame

\* All descriptors are DD, the driver's to fill.
e1000_setup_tx ==
    /\ tx_dd = [i \in Descriptors |-> 1]
    /\ tx_buffers = [i \in Descriptors |-> NoFrame]
    /\ tx_cur = 0 /\ TDH = 0 /\ TDT = 0
    /\ sending = "no" /\ frame = NoFrame /\ wire = NoFrame

Init == e1000_setup_rx /\ e1000_setup_tx

-----------------------------------------------------------------------------
(* The driver. *)

\* e1000_send_packet(f) up to the wait.
Call(f) ==
    /\ sending = "no"
    /\ sending' = "waits" /\ frame' = f
    /\ UNCHANGED <<tx_dd, tx_buffers, tx_cur, TDH, TDT, wire, rx>>

\* Mutant of Fill: it does not wait for the card.
Fill_NoWait ==
    /\ sending = "waits"
    /\ tx_buffers' = [tx_buffers EXCEPT ![tx_cur] = frame]
    /\ tx_dd' = [tx_dd EXCEPT ![tx_cur] = 0]
    /\ sending' = "filled"
    /\ UNCHANGED <<tx_cur, TDH, TDT, frame, wire, rx>>

\* The wait is over when the descriptor is DD; frame and descriptor are filled
\* in and DD cleared.
Fill ==
    /\ sending = "waits" /\ tx_dd[tx_cur] = 1
    /\ tx_buffers' = [tx_buffers EXCEPT ![tx_cur] = frame]
    /\ tx_dd' = [tx_dd EXCEPT ![tx_cur] = 0]
    /\ sending' = "filled"
    /\ UNCHANGED <<tx_cur, TDH, TDT, frame, wire, rx>>

\* The tail register moves behind the frame, and the call returns.
Kick ==
    /\ sending = "filled"
    /\ tx_cur' = After(tx_cur) /\ TDT' = After(tx_cur)
    /\ sending' = "no" /\ frame' = NoFrame
    /\ UNCHANGED <<tx_dd, tx_buffers, TDH, wire, rx>>

\* Mutant of e1000_receive_packet: the tail runs ahead to the next descriptor.
e1000_receive_packet_TailAhead ==
    /\ sending = "no" /\ rx_dd[rx_cur] = 1
    /\ received' = rx_buffers[rx_cur]
    /\ rx_dd' = [rx_dd EXCEPT ![rx_cur] = 0]
    /\ RDT' = After(rx_cur) /\ rx_cur' = After(rx_cur)
    /\ UNCHANGED <<rx_buffers, RDH, tx>>

\* e1000_receive_packet; it returns -1 and changes nothing while the current
\* descriptor is not DD.
e1000_receive_packet ==
    /\ sending = "no" /\ rx_dd[rx_cur] = 1
    /\ received' = rx_buffers[rx_cur]
    /\ rx_dd' = [rx_dd EXCEPT ![rx_cur] = 0]
    /\ RDT' = rx_cur /\ rx_cur' = After(rx_cur)
    /\ UNCHANGED <<rx_buffers, RDH, tx>>

-----------------------------------------------------------------------------
(* The card. *)

\* The frame at the head goes out.
CardSends ==
    /\ TDH # TDT
    /\ wire' = tx_buffers[TDH]
    /\ tx_dd' = [tx_dd EXCEPT ![TDH] = 1]
    /\ TDH' = After(TDH)
    /\ UNCHANGED <<tx_buffers, tx_cur, TDT, sending, frame, rx>>

\* A frame comes in; without a descriptor the card drops it.
CardReceives(f) ==
    /\ RDH # RDT
    /\ rx_buffers' = [rx_buffers EXCEPT ![RDH] = f]
    /\ rx_dd' = [rx_dd EXCEPT ![RDH] = 1]
    /\ RDH' = After(RDH)
    /\ UNCHANGED <<rx_cur, RDT, received, tx>>

Next == \/ \E f \in Frames : Call(f) \/ CardReceives(f)
        \/ Fill \/ Kick \/ e1000_receive_packet \/ CardSends

\* A call that has begun goes on while it can, and the card sends what it owns:
\* the wait in the code counts on both.
Fairness == WF_vars(Fill) /\ WF_vars(Kick) /\ WF_vars(CardSends)

Spec == Init /\ [][Next]_vars /\ Fairness

-----------------------------------------------------------------------------
(* Properties. *)

\* The frames in a ring: from the head on, as many as there are descriptors in
\* this state.
InRing(buffers, head, number) == [i \in 1..number |-> buffers[(head + i - 1) % RING]]

Unsent == {i \in Descriptors : tx_dd[i] = 0}
Unread == {i \in Descriptors : rx_dd[i] = 1}

TxQueue == INSTANCE FrameQueue WITH
              Capacity <- RING, delivered <- wire,
              queue <- InRing(tx_buffers, TDH, Cardinality(Unsent))

RxQueue == INSTANCE FrameQueue WITH
              Capacity <- RING - 1, delivered <- received,
              queue <- InRing(rx_buffers, rx_cur, Cardinality(Unread))

\* The transmit ring is a queue of up to RING frames: however the card's and
\* the driver's steps interleave, every frame goes out once and in order.
SendsInOrder == TxQueue!Spec

\* The receive ring is a queue of up to RING - 1 frames: the card never writes
\* over a frame that was not read, and the driver reads none twice.
ReceivesInOrder == RxQueue!Spec

\* The driver has filled every descriptor, and the tail has caught up with the
\* head: the card sees an empty ring.
Lapped == TDT = TDH /\ Unsent = Descriptors

\* "Wait for previous transmission to complete" (e1000.c:308): a call of
\* e1000_send_packet returns, unless the driver has lapped the card.
SendReturnsUnlessLapped == sending # "no" ~> sending = "no" \/ Lapped
=============================================================================
