--------------------------- MODULE DecoderSession ---------------------------
(***************************************************************************)
(* What the video decoder promises to those who command it, about its      *)
(* flags and its reader thread: a session starts only when the reader of   *)
(* the one before was joined, nothing raises m_running or m_active but the *)
(* start of a session, and m_loop stays as it is while a reader reads it.  *)
(* VideoDecoder implements it with all of its threads, Playlist with the   *)
(* little of the decoder that it models.                                   *)
(***************************************************************************)
VARIABLES
    running,   \* m_running
    active,    \* m_active
    loop,      \* m_loop
    reader     \* the reader thread: none or joined, live, or done with its function

session == <<running, active, loop, reader>>

Init == running = FALSE /\ active = FALSE /\ loop = TRUE /\ reader = "none"

Stop == running' = FALSE /\ UNCHANGED <<active, loop, reader>>

\* The reader has ended and is joined; until the next start its owner may
\* close the source and choose whether the next one loops.
Join ==
    /\ ~running /\ reader # "live"
    /\ reader' = "none"
    /\ active' \in {active, FALSE} /\ loop' \in BOOLEAN
    /\ UNCHANGED running

Start ==
    /\ ~running /\ reader = "none"
    /\ running' = TRUE /\ active' = TRUE /\ reader' = "live"
    /\ UNCHANGED loop

\* A file that does not loop ends, and the reader with it, unless it calls
\* back first.
End ==
    /\ reader = "live" /\ ~loop
    /\ active' = FALSE /\ reader' \in {"live", "done"}
    /\ UNCHANGED <<running, loop>>

\* The reader ends only when it was told to or after the end of its file.
Exit ==
    /\ reader = "live" /\ (~running \/ ~active)
    /\ reader' = "done"
    /\ UNCHANGED <<running, active, loop>>

Next == Stop \/ Join \/ Start \/ End \/ Exit

Spec == Init /\ [][Next]_session

\* A reader that was told to end does so.
ReaderHeedsStop == reader = "live" /\ ~running ~> reader # "live"
=============================================================================
