------------------------------ MODULE PageFlip ------------------------------
(***************************************************************************)
(* DrmEglRenderer::present: the buffers of the GBM surface on their way    *)
(* from drawing to the display, and the kernel's side of it.               *)
(*                                                                         *)
(* The kernel (external): a page flip is accepted only by a CRTC that is   *)
(* on and has no flip under way; it completes at a later vertical blank,   *)
(* which sends an event.  Removing the framebuffer that was committed last *)
(* turns the CRTC off, and only a mode set would turn it on again.         *)
(***************************************************************************)
EXTENDS Integers, FiniteSets

CONSTANTS
    Buffers,      \* the buffers of the GBM surface
    NoBuffer,     \* the null gbm_bo*
    Shown         \* what can be drawn

ASSUME BufferAssumption == NoBuffer \notin Buffers /\ Buffers # {}

VARIABLES
    state,        \* of each buffer: "free", "back" (drawn to) or "locked" (by the program)
    drawn,        \* what was drawn to it last
    at,           \* where the main thread is: "draw", or in present()
    bo,           \* the buffer present() has locked
    prev,         \* m_prevBo, with its framebuffer m_prevFb
    first,        \* m_firstFrame
    pending,      \* m_flipPending
    fbs,          \* the buffers that have a framebuffer
    crtc,         \* [on, fb, flipping]: the kernel's, fb as committed last
    event,        \* a completion event waits in the DRM descriptor
    fault         \* history: a flip outlasted the wait, or the kernel refused one it could take

flipVars == <<state, drawn, at, bo, prev, first, pending, fbs, crtc, event, fault>>

FlipInit ==
    /\ state = [b \in Buffers |-> "free"]
    /\ drawn \in [Buffers -> Shown] /\ \A b, c \in Buffers : drawn[b] = drawn[c]
    /\ at = "draw" /\ bo = NoBuffer
    /\ prev = NoBuffer /\ first = TRUE /\ pending = FALSE
    /\ fbs = {} /\ crtc = [on |-> TRUE, fb |-> NoBuffer, flipping |-> FALSE]
    /\ event = FALSE /\ fault = FALSE

\* render(): EGL takes any free buffer of the surface as its back buffer.
Draw(picture) ==
    /\ at = "draw"
    /\ \E b \in Buffers :
        /\ state[b] = "free"
        /\ state' = [state EXCEPT ![b] = "back"]
        /\ drawn' = [drawn EXCEPT ![b] = picture]
        /\ bo' = b
    /\ at' = IF pending THEN "wait" ELSE "swap"
    /\ UNCHANGED <<prev, first, pending, fbs, crtc, event, fault>>

\* poll finds the event, drmHandleEvent reads it.
FlipDone ==
    /\ at = "wait" /\ event
    /\ event' = FALSE
    /\ pending' = FALSE /\ at' = "swap"
    /\ UNCHANGED <<state, drawn, bo, prev, first, fbs, crtc, fault>>

\* poll gives up after 200 ms: the flip is taken as done all the same.
FlipTimesOut ==
    /\ at = "wait" /\ ~event
    /\ fault' = TRUE
    /\ pending' = FALSE /\ at' = "swap"
    /\ UNCHANGED <<state, drawn, bo, prev, first, fbs, crtc, event>>

Swap ==
    /\ at = "swap"
    /\ state' = [state EXCEPT ![bo] = "locked"]
    /\ at' = "addFb"
    /\ UNCHANGED <<drawn, bo, prev, first, pending, fbs, crtc, event, fault>>

\* present() returns without a flip; the buffer goes back to the surface.
GiveUp ==
    /\ state' = [state EXCEPT ![bo] = "free"]
    /\ bo' = NoBuffer /\ at' = "draw"
    /\ UNCHANGED <<drawn, prev, first, pending, fbs, crtc, event, fault>>

\* gbm_surface_lock_front_buffer returns null.
SwapFails == at = "swap" /\ GiveUp

\* Mutant: the buffer stays locked when it gets no framebuffer.
AddFbFailsLocked ==
    /\ at = "addFb"
    /\ bo' = NoBuffer /\ at' = "draw"
    /\ UNCHANGED <<state, drawn, prev, first, pending, fbs, crtc, event, fault>>

AddFbFails == at = "addFb" /\ GiveUp

AddFb ==
    /\ at = "addFb"
    /\ fbs' = fbs \cup {bo}
    /\ at' = "flip"
    /\ UNCHANGED <<state, drawn, bo, prev, first, pending, crtc, event, fault>>

\* The status of drmModeSetCrtc is not looked at.
SetCrtc ==
    /\ at = "flip" /\ first
    /\ \/ crtc' = [on |-> TRUE, fb |-> bo, flipping |-> FALSE] /\ UNCHANGED fault
       \/ fault' = TRUE /\ UNCHANGED crtc
    /\ first' = FALSE
    /\ at' = "release"
    /\ UNCHANGED <<state, drawn, bo, prev, pending, fbs, event>>

Flippable == crtc.on /\ ~crtc.flipping

\* Mutant: the next frame does not wait for the flip.
FlipUnawaited ==
    /\ at = "flip" /\ ~first
    /\ IF Flippable THEN crtc' = [crtc EXCEPT !.fb = bo, !.flipping = TRUE] ELSE UNCHANGED crtc
    /\ at' = "release"
    /\ UNCHANGED <<state, drawn, bo, prev, first, pending, fbs, event, fault>>

Flip ==
    /\ at = "flip" /\ ~first
    /\ \/ /\ Flippable
          /\ crtc' = [crtc EXCEPT !.fb = bo, !.flipping = TRUE]
          /\ pending' = TRUE
          /\ UNCHANGED fault
       \/ /\ fault' = (fault \/ Flippable)
          /\ UNCHANGED <<crtc, pending>>
    /\ at' = "release"
    /\ UNCHANGED <<state, drawn, bo, prev, first, fbs, event>>

\* The buffer before is released whether or not the new one was accepted.  The
\* kernel ends a flip under way when it turns the CRTC off.
Release ==
    /\ at = "release"
    /\ IF prev = NoBuffer THEN UNCHANGED <<state, fbs, crtc, event>>
       ELSE /\ state' = [state EXCEPT ![prev] = "free"]
            /\ fbs' = fbs \ {prev}
            /\ IF crtc.fb # prev THEN UNCHANGED <<crtc, event>>
               ELSE /\ crtc' = [on |-> FALSE, fb |-> NoBuffer, flipping |-> FALSE]
                    /\ event' = (event \/ crtc.flipping)
    /\ prev' = bo /\ bo' = NoBuffer /\ at' = "draw"
    /\ UNCHANGED <<drawn, first, pending, fault>>

\* The kernel completes a flip.
VBlank ==
    /\ crtc.flipping
    /\ crtc' = [crtc EXCEPT !.flipping = FALSE]
    /\ event' = TRUE
    /\ UNCHANGED <<state, drawn, at, bo, prev, first, pending, fbs, fault>>

Present ==
    \/ FlipDone
    \/ FlipTimesOut
    \/ Swap
    \/ SwapFails
    \/ AddFb
    \/ AddFbFails
    \/ SetCrtc
    \/ Flip
    \/ Release
-----------------------------------------------------------------------------
FlipTypeOK ==
    /\ state \in [Buffers -> {"free", "back", "locked"}]
    /\ drawn \in [Buffers -> Shown]
    /\ at \in {"draw", "wait", "swap", "addFb", "flip", "release"}
    /\ {bo, prev} \subseteq Buffers \cup {NoBuffer}
    /\ {first, pending, event, fault} \subseteq BOOLEAN
    /\ fbs \subseteq Buffers
    /\ crtc \in [on : BOOLEAN, fb : Buffers \cup {NoBuffer}, flipping : BOOLEAN]

\* Whatever fails on the way, present() gives every buffer and framebuffer back
\* but those of the frame before, which may be on the display, and of the frame
\* it is at work on: the surface never runs out of buffers.
OnlyTwoHeld ==
    /\ \A b \in Buffers : state[b] # "free" => b \in {prev, bo}
    /\ fbs \subseteq {prev, bo}

\* The display goes dark only after a flip outlasted the wait of 200 ms or was
\* refused by the kernel without cause: waiting for the event keeps the program
\* from flipping too early, and what it removes is never what is displayed.
StaysLit == ~fault => crtc.on /\ (crtc.fb # NoBuffer => crtc.fb \in fbs)
=============================================================================
