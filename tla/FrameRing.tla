------------------------------ MODULE FrameRing ------------------------------
(***************************************************************************)
(* FrameQueue of video_decoder.h as it is written: a ring of Capacity      *)
(* slots with the index written next and a count, between the decoder      *)
(* thread and the render loop.  Every method holds the queue's mutex from  *)
(* its first line to its last, so that each is one action.                 *)
(*                                                                         *)
(* A Texture is reduced to what its copies and moves distinguish: the      *)
(* picture (pixels, size and format, numbered in decode order), whether it *)
(* lives on the GPU, and the DMA-BUF descriptor by which it can be reached *)
(* there.  Descriptors are numbered by the picture they were exported for. *)
(***************************************************************************)
EXTENDS Integers, Sequences

CONSTANTS
    Capacity,     \* FrameQueue::CAPACITY
    MaxPicture,   \* bound: frames decoded in a behaviour
    MaxPts        \* bound: the largest presentation time

ASSUME RingAssumption ==
    /\ Capacity \in Nat \ {0}
    /\ MaxPicture \in Nat /\ MaxPts \in Nat

VARIABLES
    buffer,       \* m_buffer
    writeIdx,     \* m_writeIdx
    count,        \* m_count
    decoded,      \* number of frames decoded so far
    videoFrame,   \* the Texture main hands to getNext and getFrameForTime
    descriptors   \* the exported descriptors that are still open

ringVars == <<buffer, writeIdx, count, decoded, videoFrame, descriptors>>

NoFd == 0
Times == 0..MaxPts
Texture == [picture : 0..MaxPicture, gpu : BOOLEAN, fd : 0..MaxPicture]
Empty == [picture |-> 0, gpu |-> FALSE, fd |-> NoFd]
Slot == [pts : Times, frame : Texture, valid : BOOLEAN]

RingInit ==
    /\ buffer = [i \in 0..(Capacity - 1) |-> [pts |-> 0, frame |-> Empty, valid |-> FALSE]]
    /\ writeIdx = 0 /\ count = 0
    /\ decoded = 0 /\ videoFrame = Empty /\ descriptors = {}

\* Neither assignment of Texture copies or moves the descriptor: the target
\* keeps its own.
Assign(to, from) == [to EXCEPT !.picture = from.picture, !.gpu = from.gpu]

\* isValid: pixels, or a descriptor in their place.  A software frame has pixels.
IsValid(t) == (t.picture # 0 /\ ~t.gpu) \/ t.fd # NoFd

Oldest == (writeIdx - count + Capacity) % Capacity

\* Mutant: the frame after the k-th.
NthOffByOne(k) == (Oldest + k) % Capacity

\* The slot of the k-th frame, from 1.
Nth(k) == (Oldest + k - 1) % Capacity

\* What is closed with a slot that is overwritten or dropped.
Held(slot) == IF slot.valid /\ slot.frame.fd # NoFd THEN {slot.frame.fd} ELSE {}

\* The slots without the n oldest frames.
Dropped(n) ==
    [i \in DOMAIN buffer |->
        IF \E k \in 1..n : i = Nth(k) THEN [buffer[i] EXCEPT !.valid = FALSE] ELSE buffer[i]]

Counted == IF count < Capacity THEN count + 1 ELSE count

\* push without blocking, as the decoder thread calls it: a full ring drops its
\* oldest frame, whose slot is the one written.  A frame of VA-API (gpu) is
\* exported first.
RingPush(pts, gpu) ==
    LET pushed  == [picture |-> decoded + 1, gpu |-> gpu, fd |-> IF gpu THEN decoded + 1 ELSE NoFd]
        slot    == buffer[writeIdx]
    IN  /\ decoded < MaxPicture
        /\ decoded' = decoded + 1
        /\ buffer' = [buffer EXCEPT ![writeIdx] =
                        [pts |-> pts, frame |-> Assign(slot.frame, pushed), valid |-> TRUE]]
        /\ writeIdx' = (writeIdx + 1) % Capacity
        /\ count' = Counted
        /\ descriptors' = (descriptors \ Held(slot)) \cup ({pushed.fd} \ {NoFd})
        /\ UNCHANGED videoFrame

\* getNext hands out the oldest frame; it leaves the slot's descriptor alone.
RingNext ==
    /\ count > 0
    /\ videoFrame' = Assign(videoFrame, buffer[Oldest].frame)
    /\ buffer' = Dropped(1)
    /\ count' = count - 1
    /\ UNCHANGED <<writeIdx, decoded, descriptors>>

\* The frames at or before t, and the one with the largest time, the oldest of equals.
RingDue(t) == {k \in 1..count : buffer[Nth(k)].valid /\ buffer[Nth(k)].pts <= t}
RingBest(t, k) ==
    \A j \in RingDue(t) : \/ buffer[Nth(j)].pts < buffer[Nth(k)].pts
                          \/ buffer[Nth(j)].pts = buffer[Nth(k)].pts /\ k <= j

\* getFrameForTime drops everything up to the frame it hands out.
RingTake(t) ==
    \E best \in RingDue(t) :
        /\ RingBest(t, best)
        /\ videoFrame' = Assign(videoFrame, buffer[Nth(best)].frame)
        /\ buffer' = Dropped(best)
        /\ count' = count - best
        /\ descriptors' = descriptors \ UNION {Held(buffer[Nth(k)]) : k \in 1..best}
        /\ UNCHANGED <<writeIdx, decoded>>
-----------------------------------------------------------------------------
SlotTypes ==
    /\ buffer \in [0..(Capacity - 1) -> Slot]
    /\ writeIdx \in 0..(Capacity - 1)
    /\ count \in 0..Capacity

RingTypeOK ==
    /\ SlotTypes
    /\ decoded \in 0..MaxPicture
    /\ videoFrame \in Texture
    /\ descriptors \subseteq 1..MaxPicture

\* The frames in the ring, as its users see them.
Contents == [k \in 1..count |-> [pts     |-> buffer[Nth(k)].pts,
                                 picture |-> buffer[Nth(k)].frame.picture]]

Abstract == INSTANCE LossyQueue WITH
    queue <- Contents, taken <- videoFrame.picture, Pictures <- 0..MaxPicture
=============================================================================
