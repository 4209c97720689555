----------------------------- MODULE FrameQueue -----------------------------
(***************************************************************************)
(* What a ring of descriptors promises the two sides of a network card: a  *)
(* bounded queue that loses, duplicates and reorders nothing.              *)
(***************************************************************************)
EXTENDS Naturals, Sequences

CONSTANTS Frames, NoFrame, Capacity

VARIABLES
    queue,     \* frames handed over and not yet taken
    delivered  \* the frame that was taken last

Init == queue = <<>> /\ delivered = NoFrame

Put(frame) == /\ Len(queue) < Capacity
              /\ queue' = Append(queue, frame)
              /\ UNCHANGED delivered

Take == /\ queue # <<>>
        /\ delivered' = Head(queue)
        /\ queue' = Tail(queue)

Next == Take \/ \E frame \in Frames : Put(frame)

Spec == Init /\ [][Next]_<<queue, delivered>>
=============================================================================
