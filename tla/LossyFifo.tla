------------------------------ MODULE LossyFifo ------------------------------
(***************************************************************************)
(* What the frame queue between the decoder thread and the render loop     *)
(* promises (FrameQueue, video_decoder.h): a first-in first-out sequence   *)
(* of frames with presentation times that never holds more than Capacity   *)
(* of them.  A push on a full queue loses the oldest frame; taking a frame *)
(* loses the frames that are older than the one taken.                     *)
(* A frame is a record with a field pts; the rest of it is the user's.     *)
(***************************************************************************)
EXTENDS Integers, Sequences

CONSTANT Capacity

ASSUME CapacityAssumption == Capacity \in Nat \ {0}

\* push with blocking = false, the only way the decoder thread calls it.
Pushed(q, f) == Append(IF Len(q) >= Capacity THEN Tail(q) ELSE q, f)

\* The frames getFrameForTime may return at media time t.
Due(q, t) == {i \in DOMAIN q : q[i].pts <= t}

\* The frame it does return: the largest pts, the oldest of equal ones.
IsBest(q, t, i) ==
    \A j \in Due(q, t) : q[j].pts < q[i].pts \/ (q[j].pts = q[i].pts /\ i <= j)

Best(q, t) == CHOOSE i \in Due(q, t) : IsBest(q, t, i)

\* The queue once the frame at i was taken with everything older than it.
After(q, i) == SubSeq(q, i + 1, Len(q))
=============================================================================
