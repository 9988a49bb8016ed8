----------------------------- MODULE FramePath -----------------------------
(***************************************************************************)
(* A decoded frame's way to the display: the decoder thread pushes it into *)
(* the ring, the render loop of main.cpp takes it, draws it and presents   *)
(* it with the DRM renderer.  The loop is one thread: it takes the next    *)
(* frame when present() has returned.                                      *)
(*                                                                         *)
(* A video is active throughout.  Which times the frames have and what the *)
(* media clock reads is left open, for new files and rewinds start over.   *)
(***************************************************************************)
EXTENDS FrameRing, PageFlip

Background == 0   \* the texture drawn when there is no video frame
Blank == -1       \* an upload without pixels

ASSUME ShownAssumption == {Blank} \cup 0..MaxPicture \subseteq Shown /\ Shown \subseteq Int

vars == <<ringVars, flipVars>>

Init == RingInit /\ FlipInit /\ \A b \in Buffers : drawn[b] = Background

\* The decoder thread.
Push ==
    /\ \E pts \in Times, gpu \in BOOLEAN : RingPush(pts, gpu)
    /\ UNCHANGED flipVars

\* A frame that was just taken is drawn whatever it holds.
DrawTaken == Draw(IF IsValid(videoFrame') THEN videoFrame'.picture ELSE Blank)

\* Mutant: the frames before the one that is taken stay in the queue.
TakeDueKeepingOlder ==
    \E t \in Times : \E best \in RingDue(t) :
        /\ RingBest(t, best)
        /\ videoFrame' = Assign(videoFrame, buffer[Nth(best)].frame)
        /\ buffer' = [buffer EXCEPT ![Nth(best)].valid = FALSE]
        /\ UNCHANGED <<writeIdx, count, decoded, descriptors>>
        /\ DrawTaken

TakeDue == (\E t \in Times : RingTake(t)) /\ DrawTaken

\* The branch for streams.
TakeNext == RingNext /\ DrawTaken

\* No frame is due, or a stream's queue is low: the last frame again, or the texture.
Repeat ==
    /\ Draw(IF IsValid(videoFrame) THEN videoFrame.picture ELSE Background)
    /\ UNCHANGED ringVars

Next ==
    \/ Push
    \/ TakeDue
    \/ TakeNext
    \/ Repeat
    \/ Present /\ UNCHANGED ringVars
    \/ VBlank /\ UNCHANGED ringVars

Spec == Init /\ [][Next]_vars
-----------------------------------------------------------------------------
TypeOK == RingTypeOK /\ FlipTypeOK

\* The ring with its indices is the lossy first-in first-out queue that the
\* decoder and the render loop take it for: wrapping around, overwriting and
\* dropping never lose, repeat or reorder a frame beyond what LossyQueue says.
QueueRefined == Abstract!Spec

\* From the decoder to the display frames are never overtaken: a video frame that
\* becomes what is displayed is at least as new as everything drawn before it,
\* however full the queue, however late or failing the flips.
FlipsForward ==
    [][crtc'.fb \in Buffers /\ drawn[crtc'.fb] > Background
       => \A b \in Buffers : drawn[b] <= drawn[crtc'.fb]]_(crtc.fb)

\* A texture on the GPU carries its descriptor (texture.h:11), so that the
\* frame can be drawn and the descriptor closed: none is open that no texture
\* in the queue or in the render loop carries.
DescriptorsCarried ==
    descriptors \subseteq {videoFrame.fd} \cup {buffer[i].frame.fd : i \in DOMAIN buffer}
=============================================================================
