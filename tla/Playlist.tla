------------------------------ MODULE Playlist ------------------------------
(***************************************************************************)
(* PlaylistController on top of the video decoder: the WebSocket thread    *)
(* runs the playlist and video commands, and the reader thread of the      *)
(* decoder calls onVideoEnd when a file that does not loop has ended.      *)
(* Both take m_mutex; stop() and the video commands do not.                *)
(*                                                                         *)
(* Of the decoder (module VideoDecoder) only what the playlist meets is    *)
(* kept: m_running, m_active, m_loop and the reader thread, which stop()   *)
(* joins, as in module DecoderSession.  An uncaught exception on a thread  *)
(* terminates the program.                                                 *)
(***************************************************************************)
EXTENDS Integers, Sequences

CONSTANTS
    Sources,   \* the entries a playlist may have
    Broken,    \* the sources that open() fails on
    MaxLen,    \* bound: entries of a playlist
    MaxTries   \* bound: recursion depth of playIndex

ASSUME PlaylistAssumption ==
    /\ Broken \subseteq Sources
    /\ MaxLen \in Nat
    /\ MaxTries \in Nat /\ MaxTries > MaxLen

VARIABLES
    up,        \* the program has not terminated
    ws,        \* [pc, cmd, loop, tries]: the command the WebSocket thread runs
    reader,    \* the decoder's reader thread
    mutex,     \* m_mutex is free or held by the WebSocket thread
    playlist,  \* m_playlist
    loop,      \* PlaylistController::m_loop
    index,     \* m_currentIndex
    active,    \* PlaylistController::m_active
    callback,  \* m_onEndCallback is set
    decoder    \* [running, active, loop] of VideoDecoder

vars == <<up, ws, reader, mutex, playlist, loop, index, active, callback, decoder>>

Lists == UNION {[1..n -> Sources] : n \in 0..MaxLen}
Indices == -1..MaxLen
IsEntry(i) == 0 <= i /\ i < Len(playlist)

Idle == [pc |-> "idle", cmd |-> "none", loop |-> FALSE, tries |-> 0]

Init ==
    /\ up = TRUE
    /\ ws = Idle /\ reader = "none" /\ mutex = "free"
    /\ playlist \in Lists /\ loop \in BOOLEAN /\ index = 0 /\ active = FALSE
    /\ callback = FALSE
    /\ decoder = [running |-> FALSE, active |-> FALSE, loop |-> TRUE]

listVars == <<playlist, loop, active, callback>>
-----------------------------------------------------------------------------
(* The commands, as the WebSocket thread receives them. *)

Ready(needs) == ws.pc = "idle" /\ (needs = "mutex" => mutex = "free")

\* stop(), open() and start() of the decoder follow, step by step.
Begin(cmd, lp) == ws' = [pc |-> "clearRunning", cmd |-> cmd, loop |-> lp, tries |-> 0]

\* playIndex, up to its call of stop(), with the mutex taken and kept.
PlayIndex(i, tries) ==
    IF IsEntry(i)
    THEN /\ index' = i
         /\ ws' = [pc |-> "clearRunning", cmd |-> "list", loop |-> FALSE, tries |-> tries + 1]
         /\ mutex' = "ws"
    ELSE UNCHANGED <<index, ws, mutex>>

SetPlaylist(list, lp) ==
    /\ Ready("mutex")
    /\ playlist' = list /\ loop' = lp /\ index' = 0
    /\ UNCHANGED <<up, ws, reader, mutex, active, callback, decoder>>

StartPlaylist(i) ==
    /\ Ready("mutex") /\ playlist # <<>>
    /\ active' = TRUE /\ callback' = TRUE
    /\ PlayIndex(i, 0)
    /\ UNCHANGED <<up, reader, playlist, loop, decoder>>

NextVideo ==
    /\ Ready("mutex") /\ active /\ playlist # <<>>
    /\ IsEntry(index + 1) \/ loop
    /\ PlayIndex(IF IsEntry(index + 1) THEN index + 1 ELSE 0, 0)
    /\ UNCHANGED <<up, reader, listVars, decoder>>

PrevVideo ==
    /\ Ready("mutex") /\ active /\ playlist # <<>>
    /\ PlayIndex(IF index > 0 THEN index - 1 ELSE IF loop THEN Len(playlist) - 1 ELSE 0, 0)
    /\ UNCHANGED <<up, reader, listVars, decoder>>

\* Mutant: stop() takes m_mutex like its siblings, and keeps it meanwhile.
StopPlaylistLocked ==
    /\ Ready("mutex")
    /\ active' = FALSE /\ mutex' = "ws"
    /\ ws' = [Idle EXCEPT !.pc = "dropCallback", !.cmd = "stopList"]
    /\ UNCHANGED <<up, reader, playlist, loop, index, callback, decoder>>

StopPlaylist ==
    /\ Ready("nothing")
    /\ active' = FALSE
    /\ ws' = [Idle EXCEPT !.pc = "dropCallback", !.cmd = "stopList"]
    /\ UNCHANGED <<up, reader, mutex, playlist, loop, index, callback, decoder>>

PlayVideo(lp) ==
    /\ Ready("nothing")
    /\ Begin("video", lp)
    /\ UNCHANGED <<up, reader, mutex, listVars, index, decoder>>

StopVideo ==
    /\ Ready("nothing")
    /\ Begin("stopVideo", FALSE)
    /\ UNCHANGED <<up, reader, mutex, listVars, index, decoder>>
-----------------------------------------------------------------------------
(* What a command does once it was received. *)

DropCallback ==
    /\ ws.pc = "dropCallback"
    /\ callback' = FALSE
    /\ ws' = [ws EXCEPT !.pc = "clearRunning"]
    /\ UNCHANGED <<up, reader, mutex, playlist, loop, index, active, decoder>>

\* VideoDecoder::stop up to its join of the reader.
ClearRunning ==
    /\ ws.pc = "clearRunning"
    /\ decoder' = [decoder EXCEPT !.running = FALSE]
    /\ ws' = [ws EXCEPT !.pc = "join"]
    /\ UNCHANGED <<up, reader, mutex, listVars, index>>

\* After stop(): the end of stop_playlist, the close() of stop_video, or
\* setLoop() and the close() at the head of open().
AfterJoin ==
    LET close == [decoder EXCEPT !.active = FALSE] IN
    \/ ws.cmd = "stopList" /\ ws' = Idle /\ mutex' = "free" /\ UNCHANGED decoder
    \/ ws.cmd = "stopVideo" /\ ws' = Idle /\ decoder' = close /\ UNCHANGED mutex
    \/ /\ ws.cmd \in {"video", "list"}
       /\ ws' = [ws EXCEPT !.pc = "open"]
       /\ decoder' = [close EXCEPT !.loop = ws.loop]
       /\ UNCHANGED mutex

\* Mutant: stop() leaves the reader to finish on its own.
JoinDetached ==
    /\ ws.pc = "join"
    /\ AfterJoin
    /\ UNCHANGED <<up, reader, listVars, index>>

Join ==
    /\ ws.pc = "join"
    /\ reader \in {"none", "done"}
    /\ reader' = "none"
    /\ AfterJoin
    /\ UNCHANGED <<up, listVars, index>>

\* open() succeeds and start() launches the reader.
OpenAndStart ==
    /\ ws.pc = "open"
    /\ ws.cmd = "list" => playlist[index + 1] \notin Broken
    /\ decoder' = [decoder EXCEPT !.running = TRUE, !.active = TRUE]
    /\ reader' = "play"
    /\ ws' = Idle
    /\ mutex' = "free"
    /\ UNCHANGED <<up, listVars, index>>

OpenVideoFails ==
    /\ ws.pc = "open" /\ ws.cmd = "video"
    /\ ws' = Idle
    /\ UNCHANGED <<up, reader, mutex, listVars, index, decoder>>

\* Mutant: the next entry is looked up from the start of the list.
NextTryFromStart == IF Len(playlist) > 1 THEN 0 ELSE 1

\* Mutant: a failed last entry is followed by the first one in any case.
NextTryWraps == IF IsEntry(index + 1) THEN index + 1 ELSE 0

\* The entry to try after the one at index failed; past the end, none.
NextTry == IF ~IsEntry(index + 1) /\ loop THEN 0 ELSE index + 1

\* playIndex skips an entry that cannot be opened by calling itself.
OpenEntryFails ==
    /\ ws.pc = "open" /\ ws.cmd = "list"
    /\ playlist[index + 1] \in Broken
    /\ IF IsEntry(NextTry)
       THEN /\ ws.tries < MaxTries
            /\ PlayIndex(NextTry, ws.tries)
            /\ UNCHANGED active
       ELSE /\ active' = FALSE
            /\ ws' = Idle /\ mutex' = "free"
            /\ UNCHANGED index
    /\ UNCHANGED <<up, reader, playlist, loop, callback, decoder>>

WsStep ==
    \/ DropCallback
    \/ ClearRunning
    \/ Join
    \/ OpenAndStart
    \/ OpenVideoFails
    \/ OpenEntryFails
-----------------------------------------------------------------------------
(* The reader thread, from start() to the end of its function. *)

readerRest == <<ws, mutex, playlist, loop, callback>>

ReaderExit ==
    /\ reader = "play" /\ ~decoder.running
    /\ reader' = "done"
    /\ UNCHANGED <<up, readerRest, index, active, decoder>>

\* A file that does not loop ends; m_running was tested before the read.
ReaderEnd ==
    /\ reader = "play" /\ ~decoder.loop
    /\ decoder' = [decoder EXCEPT !.active = FALSE]
    /\ reader' = IF callback THEN "call" ELSE "done"
    /\ UNCHANGED <<up, readerRest, index, active>>

\* m_onEndCallback is read without a lock: emptied since it was tested, the
\* call throws bad_function_call.
ReaderCall ==
    /\ reader = "call"
    /\ IF callback
       THEN reader' = "lock" /\ UNCHANGED up
       ELSE up' = FALSE /\ UNCHANGED reader
    /\ UNCHANGED <<readerRest, index, active, decoder>>

\* onVideoEnd with nothing left to play.
Finish ==
    /\ reader = "lock" /\ mutex = "free"
    /\ ~active \/ (~IsEntry(index + 1) /\ ~loop)
    /\ active' = FALSE
    /\ reader' = "done"
    /\ UNCHANGED <<up, readerRest, index, decoder>>

\* onVideoEnd moves on: playIndex calls stop(), which joins the very thread
\* it runs on; std::thread::join throws and nothing catches it.
Advance ==
    LET i == IF IsEntry(index + 1) THEN index + 1 ELSE 0 IN
    /\ reader = "lock" /\ mutex = "free"
    /\ active /\ (IsEntry(index + 1) \/ loop)
    /\ IF IsEntry(i)
       THEN /\ index' = i
            /\ decoder' = [decoder EXCEPT !.running = FALSE]
            /\ up' = FALSE
            /\ UNCHANGED reader
       ELSE reader' = "done" /\ UNCHANGED <<up, index, decoder>>
    /\ UNCHANGED <<readerRest, active>>

ReaderStep ==
    \/ ReaderExit
    \/ ReaderEnd
    \/ ReaderCall
    \/ Finish
    \/ Advance
-----------------------------------------------------------------------------
Command ==
    \/ \E list \in Lists, lp \in BOOLEAN : SetPlaylist(list, lp)
    \/ \E i \in Indices : StartPlaylist(i)
    \/ NextVideo
    \/ PrevVideo
    \/ StopPlaylist
    \/ \E lp \in BOOLEAN : PlayVideo(lp)
    \/ StopVideo

Next == up /\ (Command \/ WsStep \/ ReaderStep)

Spec == Init /\ [][Next]_vars

\* Both threads are scheduled; a file need not end, nor a client call.
FairSpec ==
    /\ Spec
    /\ WF_vars(up /\ WsStep)
    /\ WF_vars(up /\ (ReaderExit \/ ReaderCall \/ Finish \/ Advance))
-----------------------------------------------------------------------------
Commands == {"none", "list", "video", "stopList", "stopVideo"}
WsStates == [pc : {"idle", "dropCallback", "clearRunning", "join", "open"},
             cmd : Commands, loop : BOOLEAN, tries : 0..MaxTries]
DecoderStates == [running : BOOLEAN, active : BOOLEAN, loop : BOOLEAN]

TypeOK ==
    /\ up \in BOOLEAN
    /\ ws \in WsStates
    /\ reader \in {"none", "play", "call", "lock", "done"} /\ mutex \in {"free", "ws"}
    /\ playlist \in Lists /\ loop \in BOOLEAN /\ index \in 0..MaxLen
    /\ active \in BOOLEAN /\ callback \in BOOLEAN
    /\ decoder \in DecoderStates

\* Entries that cannot be opened are skipped: if any entry can be opened,
\* playIndex tries none of them twice before it plays one.
SkippingEnds ==
    (\E i \in DOMAIN playlist : playlist[i] \notin Broken) => ws.tries <= Len(playlist)

\* A playlist that does not loop never goes from its last entry to its first
\* by itself: only start_playlist, set_playlist and prev_video lower the index.
NoWrapWithoutLoop ==
    [][~loop /\ ws.pc # "idle" => index' >= index]_index

\* The playlist meets the decoder that VideoDecoder is: whatever commands,
\* callbacks and ends of files do, flags and reader change as the decoder
\* promises; above all, start() never assigns a thread over an unjoined one,
\* which would terminate the program.
Promise == INSTANCE DecoderSession WITH
    running <- decoder.running, active <- decoder.active, loop <- decoder.loop,
    reader  <- IF reader \in {"none", "done"} THEN reader ELSE "live"
PromiseKept == Promise!Spec

\* What the guards come to, the hypothesis of the liveness theorem: nobody is
\* stuck but for a join or the mutex; a command that does not hold the mutex can
\* go on unless it joins a live reader, and so can a reader that was told to end
\* unless it waits for the mutex.
NobodyStuck ==
    /\ up /\ ws.pc # "idle" /\ ws.cmd # "list" /\ (ws.pc = "join" => reader \in {"none", "done"})
       => ENABLED <<up /\ WsStep>>_vars
    /\ up /\ \/ reader = "play" /\ ~decoder.running
             \/ reader = "call"
             \/ reader = "lock" /\ mutex = "free"
       => ENABLED <<up /\ (ReaderExit \/ ReaderCall \/ Finish \/ Advance)>>_vars

\* The commands that do not hold m_mutex return, even when the video ends
\* while they wait for its reader, unless the program terminates.
StopReturns ==
    ws.pc # "idle" /\ ws.cmd # "list" ~> ws.pc = "idle" \/ ~up

\* A playlist plays its videos in order (WEBSOCKET-API.md): the program
\* survives the end of a video.
PlaysInOrder == up

\* One response per request (WEBSOCKET-API.md): every command is answered as
\* long as the program runs.
RequestAnswered == ws.pc # "idle" ~> ws.pc = "idle" \/ ~up
=============================================================================
