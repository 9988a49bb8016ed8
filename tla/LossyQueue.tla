----------------------------- MODULE LossyQueue -----------------------------
(***************************************************************************)
(* What FrameQueue (video_decoder.h) promises to the decoder thread and to *)
(* the render loop, as a specification of two variables.                   *)
(***************************************************************************)
EXTENDS LossyFifo

CONSTANTS
    Times,        \* presentation times and readings of the media clock
    Pictures      \* what a frame may show

VARIABLES
    queue,        \* the frames in it, [pts, picture], oldest first
    taken         \* the picture handed out last

Init == queue = <<>> /\ taken \in Pictures

Push(pts, picture) ==
    /\ queue' = Pushed(queue, [pts |-> pts, picture |-> picture])
    /\ UNCHANGED taken

\* Hand out the frame at i, and lose the older ones.
TakeAt(i) == taken' = queue[i].picture /\ queue' = After(queue, i)

TakeNext == queue # <<>> /\ TakeAt(1)

TakeDue(t) == \E i \in Due(queue, t) : IsBest(queue, t, i) /\ TakeAt(i)

Next ==
    \/ \E pts \in Times, picture \in Pictures : Push(pts, picture)
    \/ TakeNext
    \/ \E t \in Times : TakeDue(t)

Spec == Init /\ [][Next]_<<queue, taken>>
=============================================================================
