---------------------------- MODULE VideoDecoder ----------------------------
(***************************************************************************)
(* The video pipeline: the reader thread fills the packet queue from the   *)
(* demuxer, the decoder thread turns packets into frames, the render loop  *)
(* of main.cpp takes frames at the media clock's pace, and the caller (the *)
(* WebSocket thread) opens, starts, stops and closes the decoder.          *)
(*                                                                         *)
(* A session is one successful open(): it owns the FFmpeg context m_ff.    *)
(* Times (pts, media clock, playback time) are counted in frames.          *)
(* Packets and frames carry, beside what the code stores, the session, the *)
(* pass over the file and the position in it that they came from.          *)
(***************************************************************************)
EXTENDS LossyFifo

CONSTANTS
    MaxPackets,   \* PacketQueue::MAX_PACKETS
    LastPos,      \* position of the last packet of every source
    Undecodable,  \* positions whose packets yield no frame
    Lookahead,    \* how far a file's decoder may run ahead (1 s in the code)
    MaxSessions,  \* bound: sessions opened in a behaviour
    MaxPasses,    \* bound: times a looping file is rewound
    MaxTime       \* bound: the media clock saturates here

ASSUME VideoAssumption ==
    /\ MaxPackets \in Nat \ {0}
    /\ Undecodable \subseteq Nat
    /\ {LastPos, Lookahead, MaxSessions, MaxPasses, MaxTime} \subseteq Nat

VARIABLES
    caller,       \* [pc, play, inClose]: the command the WebSocket thread runs
    context,      \* m_ff: the session that owns it, 0 when null
    session,      \* how many contexts were opened so far
    running,      \* m_running
    active,       \* m_active
    kind,         \* m_isStream and hwDecode: "stream", "file" or "hwFile"
    loop,         \* m_loop
    reader,       \* [pc, session, pass, pos]: the reader thread
    decoder,      \* [pc, session, packet, first, pts]: the decoder thread
    packets,      \* m_packetQueue.packets
    stopped,      \* m_packetQueue.stopped
    frames,       \* m_frameQueue
    playbackTime, \* m_playbackTime
    render,       \* [pc, started, time, frame]: main's loop, mediaClock, videoFrame
    screen        \* the frame rendered last, NoFrame for the texture

vars == <<caller, context, session, running, active, kind, loop, reader,
          decoder, packets, stopped, frames, playbackTime, render, screen>>

Kinds == {"stream", "file", "hwFile"}
IsStream == kind = "stream"

Sessions == 0..MaxSessions
Passes == 0..MaxPasses
Packet == [session : Sessions, pass : Passes, pos : -1..LastPos]
Frame == [session : Sessions, pass : Passes, pos : -1..LastPos, pts : 0..LastPos]

\* A null AVPacket*, the flush signal; the code has one, the session is ours.
Flush(s) == [session |-> s, pass |-> 0, pos |-> -1]
NoFrame == [session |-> 0, pass |-> 0, pos |-> -1, pts |-> 0]

NoReader  == [pc |-> "none", session |-> 0, pass |-> 0, pos |-> 0]
NoDecoder == [pc |-> "none", session |-> 0, packet |-> Flush(0), first |-> -1, pts |-> 0]

Idle == [pc |-> "idle", play |-> FALSE, inClose |-> FALSE]

Init ==
    /\ caller = Idle
    /\ context = 0 /\ session = 0
    /\ running = FALSE /\ active = FALSE /\ kind = "file" /\ loop = TRUE
    /\ reader = NoReader /\ decoder = NoDecoder
    /\ packets = <<>> /\ stopped = FALSE
    /\ frames = <<>> /\ playbackTime = 0
    /\ render = [pc |-> "check", started |-> FALSE, time |-> 0, frame |-> NoFrame]
    /\ screen = NoFrame
-----------------------------------------------------------------------------
(* The caller: play_video is stop(), setLoop(), open(), start(), where      *)
(* open() begins with close(); stop_video is stop(), close(); close() is    *)
(* stop() and then the release of the context.                              *)

queueVars  == <<reader, decoder, packets, stopped, frames>>
renderVars == <<playbackTime, render, screen>>
flagVars   == <<running, active, kind, loop>>

Goto(pc) == caller' = [caller EXCEPT !.pc = pc]
Done == caller' = Idle

\* The WebSocket thread receives play_video (play) or stop_video.
Command(play) ==
    /\ caller.pc = "idle"
    /\ play => session < MaxSessions
    /\ caller' = [pc |-> "clearRunning", play |-> play, inClose |-> FALSE]
    /\ UNCHANGED <<context, session, flagVars, queueVars, renderVars>>

ClearRunning ==
    /\ caller.pc = "clearRunning"
    /\ running' = FALSE
    /\ Goto("stopPackets")
    /\ UNCHANGED <<context, session, active, kind, loop, queueVars, renderVars>>

\* Mutant of Emptied: the loop over the packets skips the null ones.
EmptiedButFlushes(q) == SelectSeq(q, LAMBDA p : p.pos = -1)

\* What PacketQueue::stop and PacketQueue::reset leave of the queue.
Emptied(q) == <<>>

\* Mutant: stop() wakes nobody.
StopPacketsKeepsWaiters ==
    /\ caller.pc = "stopPackets"
    /\ packets' = Emptied(packets)
    /\ Goto("joinReader")
    /\ UNCHANGED <<context, session, flagVars, reader, decoder, stopped, frames, renderVars>>

\* PacketQueue::stop; FrameQueue::stop only sets a flag nobody waits on.
StopPackets ==
    /\ caller.pc = "stopPackets"
    /\ packets' = Emptied(packets)
    /\ stopped' = TRUE
    /\ Goto("joinReader")
    /\ UNCHANGED <<context, session, flagVars, reader, decoder, frames, renderVars>>

JoinReader ==
    /\ caller.pc = "joinReader"
    /\ reader.pc \in {"none", "done"}
    /\ reader' = NoReader
    /\ Goto("joinDecoder")
    /\ UNCHANGED <<context, session, flagVars, decoder, packets, stopped, frames, renderVars>>

\* After the outer stop() of play_video and stop_video comes the one inside
\* close(); play_video calls setLoop between the two.
AfterStop ==
    /\ IF caller.inClose THEN Goto("free")
       ELSE caller' = [caller EXCEPT !.pc = "clearRunning", !.inClose = TRUE]
    /\ IF caller.play /\ ~caller.inClose THEN loop' \in BOOLEAN ELSE UNCHANGED loop

\* Mutant: stop() does not wait for the decoder thread.
JoinDecoderDetached ==
    /\ caller.pc = "joinDecoder"
    /\ AfterStop
    /\ UNCHANGED <<context, session, running, active, kind, queueVars, renderVars>>

JoinDecoder ==
    /\ caller.pc = "joinDecoder"
    /\ decoder.pc \in {"none", "done"}
    /\ decoder' = NoDecoder
    /\ AfterStop
    /\ UNCHANGED <<context, session, running, active, kind, reader, packets, stopped,
                   frames, renderVars>>

\* Mutant: close() forgets that the decoder is no longer active.
FreeStaysActive ==
    /\ caller.pc = "free"
    /\ context' = 0
    /\ IF caller.play THEN Goto("open") ELSE Done
    /\ UNCHANGED <<session, flagVars, queueVars, renderVars>>

\* The rest of close().
Free ==
    /\ caller.pc = "free"
    /\ context' = 0
    /\ active' = FALSE
    /\ IF caller.play THEN Goto("open") ELSE Done
    /\ UNCHANGED <<session, running, kind, loop, queueVars, renderVars>>

\* open() after its close(): the source is a stream (which ignores loop, so
\* that one value of it is enough), a file, or a file that VA-API decodes;
\* any of the FFmpeg calls may fail, which releases the new context again.
Open ==
    /\ caller.pc = "open"
    /\ kind' \in IF loop THEN Kinds ELSE Kinds \ {"stream"}
    /\ \/ session' = session + 1 /\ context' = session + 1 /\ Goto("start")
       \/ Done /\ UNCHANGED <<session, context>>
    /\ UNCHANGED <<running, active, loop, queueVars, renderVars>>

Start ==
    /\ caller.pc = "start"
    /\ Done
    /\ IF context = 0 \/ running
       THEN UNCHANGED <<running, active, reader, decoder, packets, stopped>>
       ELSE /\ running' = TRUE
            /\ active' = TRUE
            /\ packets' = Emptied(packets)
            /\ stopped' = FALSE
            /\ reader' = [pc |-> "read", session |-> context, pass |-> 0, pos |-> 0]
            /\ decoder' = [NoDecoder EXCEPT !.pc = "pop", !.session = context]
    /\ UNCHANGED <<context, session, kind, loop, frames, renderVars>>

CallerStep ==
    \/ ClearRunning
    \/ StopPackets
    \/ JoinReader
    \/ JoinDecoder
    \/ Free
    \/ Open
    \/ Start
-----------------------------------------------------------------------------
(* The reader thread.  The test of m_running at the head of its loop is     *)
(* taken with the step before; at "read" the test is passed, and stop() may *)
(* have come since.  Read errors other than the end of the source, and the  *)
(* end of a stream, are retried after a sleep and change nothing.  The      *)
(* pre-buffering loop of a stream takes the same steps as the main one.     *)

callVars == <<caller, context, session, running, kind, loop>>

\* The head of the loop.
ReaderLoop == IF running THEN "read" ELSE "done"

\* A failed read is not retried once the session was stopped.
ReaderExit ==
    /\ reader.pc = "read"
    /\ ~running
    /\ reader' = [reader EXCEPT !.pc = "done"]
    /\ UNCHANGED <<callVars, active, decoder, packets, stopped, frames, renderVars>>

\* av_read_frame: the packet at pos is in the thread's hands until the push.
ReaderRead ==
    /\ reader.pc = "read"
    /\ reader.pos <= LastPos
    /\ reader' = [reader EXCEPT !.pc = "push"]
    /\ UNCHANGED <<callVars, active, decoder, packets, stopped, frames, renderVars>>

\* Mutant of HasRoom: one packet too many.
HasRoomOffByOne == Len(packets) <= MaxPackets

HasRoom == Len(packets) < MaxPackets

\* push(pkt) blocks while the queue is full, and frees pkt once it is stopped.
ReaderPush ==
    /\ reader.pc = "push"
    /\ HasRoom \/ stopped
    /\ reader' = [reader EXCEPT !.pc = ReaderLoop, !.pos = @ + 1]
    /\ packets' = IF stopped THEN packets
                  ELSE Append(packets, [session |-> reader.session, pass |-> reader.pass,
                                        pos |-> reader.pos])
    /\ UNCHANGED <<callVars, active, decoder, stopped, frames, renderVars>>

\* End of a looping file: seek to its start; push(nullptr) never waits, and
\* queues the flush signal on a stopped queue too.
ReaderRewind ==
    /\ reader.pc = "read"
    /\ reader.pos > LastPos /\ ~IsStream /\ loop
    /\ reader.pass < MaxPasses
    /\ reader' = [reader EXCEPT !.pc = "flush"]
    /\ UNCHANGED <<callVars, active, decoder, packets, stopped, frames, renderVars>>

ReaderFlush ==
    /\ reader.pc = "flush"
    /\ packets' = Append(packets, Flush(reader.session))
    /\ reader' = [reader EXCEPT !.pc = ReaderLoop, !.pass = @ + 1, !.pos = 0]
    /\ UNCHANGED <<callVars, active, decoder, stopped, frames, renderVars>>

\* Mutant: m_active is left to close().
ReaderEndStaysActive ==
    /\ reader.pc = "read"
    /\ reader.pos > LastPos /\ ~IsStream /\ ~loop
    /\ reader' = [reader EXCEPT !.pc = "done"]
    /\ UNCHANGED <<callVars, active, decoder, packets, stopped, frames, renderVars>>

\* End of a file that does not loop.  m_onEndCallback belongs to the playlist
\* (module Playlist) and is empty here.
ReaderEnd ==
    /\ reader.pc = "read"
    /\ reader.pos > LastPos /\ ~IsStream /\ ~loop
    /\ active' = FALSE
    /\ reader' = [reader EXCEPT !.pc = "done"]
    /\ UNCHANGED <<callVars, decoder, packets, stopped, frames, renderVars>>

ReaderStep ==
    \/ ReaderExit
    \/ ReaderRead
    \/ ReaderPush
    \/ ReaderRewind
    \/ ReaderFlush
    \/ ReaderEnd
-----------------------------------------------------------------------------
(* The decoder thread. *)

decoderRest == <<callVars, active, reader, stopped, renderVars>>

\* The test of m_running at the head of the loop, taken with the step before.
Loop == IF running THEN "pop" ELSE "done"

\* What the thread does with a null packet.
OnFlush == decoder' = [decoder EXCEPT !.pc = Loop, !.first = IF running THEN -1 ELSE @]

DecoderPop ==
    /\ decoder.pc = "pop"
    /\ packets # <<>>
    /\ packets' = Tail(packets)
    /\ IF Head(packets).pos = -1 THEN OnFlush
       ELSE decoder' = [decoder EXCEPT !.pc = "decode", !.packet = Head(packets)]
    /\ UNCHANGED <<decoderRest, frames>>

\* pop() on a stopped, empty queue returns a null packet.
DecoderWoken ==
    /\ decoder.pc = "pop"
    /\ packets = <<>> /\ stopped
    /\ OnFlush
    /\ UNCHANGED <<decoderRest, packets, frames>>

\* A packet is rejected by the codec, or yields no frame for the queue.
DecodeNothing ==
    /\ decoder.pc = "decode"
    /\ decoder.packet.pos \in Undecodable
    /\ decoder' = [decoder EXCEPT !.pc = Loop, !.packet = Flush(0), !.pts = 0]
    /\ UNCHANGED <<decoderRest, packets, frames>>

\* The loop over the frames of VA-API continues before it comes to the wait.
\* pts is normalised to start from 0 at the first frame after open or a flush.
Decode ==
    LET packet == decoder.packet
        first  == IF decoder.first < 0 THEN packet.pos ELSE decoder.first
        pts    == packet.pos - first
    IN  /\ decoder.pc = "decode"
        /\ packet.pos \notin Undecodable
        /\ frames' = Pushed(frames, [session |-> packet.session, pass |-> packet.pass,
                                     pos |-> packet.pos, pts |-> pts])
        /\ decoder' = [decoder EXCEPT !.pc = IF kind = "file" THEN "throttle" ELSE Loop,
                                      !.packet = Flush(0), !.first = first,
                                      !.pts = IF kind = "file" THEN pts ELSE 0]
        /\ UNCHANGED <<decoderRest, packets>>

\* Mutant: only the end of the session ends the wait, as if for a stream.
ThrottleNever ==
    /\ decoder.pc = "throttle"
    /\ decoder' = [decoder EXCEPT !.pc = Loop, !.packet = Flush(0), !.pts = 0]
    /\ UNCHANGED <<decoderRest, packets, frames>>

\* For files: do not decode more than Lookahead ahead of playback.
Throttle ==
    /\ decoder.pc = "throttle"
    /\ ~running \/ decoder.pts <= playbackTime + Lookahead
    /\ decoder' = [decoder EXCEPT !.pc = Loop, !.packet = Flush(0), !.pts = 0]
    /\ UNCHANGED <<decoderRest, packets, frames>>

DecoderStep ==
    \/ DecoderPop
    \/ DecoderWoken
    \/ DecodeNothing
    \/ Decode
    \/ Throttle
-----------------------------------------------------------------------------
(* The render loop of main.cpp; NDI and the overlay are left out. *)

renderRest == <<callVars, active, reader, decoder, packets, stopped>>

\* isActive() decides between the video branch and the texture.
RenderCheck ==
    /\ render.pc = "check"
    /\ IF active
       THEN render' = [render EXCEPT !.pc = "frame"] /\ UNCHANGED screen
       ELSE render' = [render EXCEPT !.started = FALSE, !.time = 0] /\ screen' = NoFrame
    /\ UNCHANGED <<renderRest, frames, playbackTime>>

\* The tick shows videoFrame, the texture while there was none yet.
Show(frame, started, time) ==
    /\ render' = [pc |-> "check", started |-> started, time |-> time, frame |-> frame]
    /\ screen' = frame

Repeat == Show(render.frame, render.started, render.time) /\ UNCHANGED frames

\* A stream's frames are consumed in order, one per tick or, when the queue
\* is low, not at every tick.
RenderStream ==
    /\ render.pc = "frame" /\ IsStream
    /\ \/ Repeat
       \/ /\ frames # <<>>
          /\ Show(Head(frames), render.started, render.time)
          /\ frames' = Tail(frames)
    /\ UNCHANGED <<renderRest, playbackTime>>

\* Mutant: the older frames are not dropped with the one that is shown.
TakeKeepingOlder(t, started) ==
    /\ Due(frames, t) # {}
    /\ Show(frames[Best(frames, t)], started, t)
    /\ frames' = SubSeq(frames, 1, Best(frames, t) - 1) \o After(frames, Best(frames, t))

\* getFrameForTime(t) finds a frame, which becomes videoFrame.
Take(t, started) ==
    /\ Due(frames, t) # {}
    /\ Show(frames[Best(frames, t)], started, t)
    /\ frames' = After(frames, Best(frames, t))

\* The clock starts with the first frame at or before pts 0.
RenderFirst ==
    /\ render.pc = "frame" /\ ~IsStream /\ ~render.started
    /\ \/ Take(0, TRUE)
       \/ Due(frames, 0) = {} /\ Repeat
    /\ UNCHANGED <<renderRest, playbackTime>>

\* The clock may have advanced since the last tick.
RenderNext ==
    /\ render.pc = "frame" /\ ~IsStream /\ render.started
    /\ \E t \in {render.time, render.time + 1} \cap 0..MaxTime :
        /\ playbackTime' = t
        /\ \/ Take(t, TRUE)
           \/ /\ Due(frames, t) = {}
              /\ Show(render.frame, TRUE, t) /\ UNCHANGED frames
    /\ UNCHANGED renderRest

RenderStep == RenderCheck \/ RenderStream \/ RenderFirst \/ RenderNext
-----------------------------------------------------------------------------
Next ==
    \/ \E play \in BOOLEAN : Command(play)
    \/ CallerStep
    \/ ReaderStep
    \/ DecoderStep
    \/ RenderStep

Spec == Init /\ [][Next]_vars

\* The threads are scheduled and av_read_frame returns; a client need not
\* send another command.
FairSpec ==
    /\ Spec
    /\ WF_vars(CallerStep)
    /\ WF_vars(ReaderStep)
    /\ WF_vars(DecoderStep)
    /\ WF_vars(RenderStep)
-----------------------------------------------------------------------------
CallerStates == [pc : {"idle", "clearRunning", "stopPackets", "joinReader", "joinDecoder",
                       "free", "open", "start"}, play : BOOLEAN, inClose : BOOLEAN]
ReaderStates == [pc : {"none", "read", "push", "flush", "done"}, session : Sessions,
                 pass : Passes, pos : 0..(LastPos + 1)]
DecoderStates == [pc : {"none", "pop", "decode", "throttle", "done"}, session : Sessions,
                  packet : Packet, first : -1..LastPos, pts : 0..LastPos]
RenderStates == [pc : {"check", "frame"}, started : BOOLEAN, time : 0..MaxTime, frame : Frame]

ThreadTypes ==
    /\ caller \in CallerStates /\ reader \in ReaderStates /\ decoder \in DecoderStates
    /\ context \in Sessions /\ session \in Sessions
    /\ running \in BOOLEAN /\ active \in BOOLEAN /\ stopped \in BOOLEAN
    /\ loop \in BOOLEAN /\ kind \in Kinds
    /\ packets \in Seq(Packet)

PictureTypes ==
    /\ frames \in Seq(Frame)
    /\ playbackTime \in 0..MaxTime
    /\ render \in RenderStates
    /\ screen \in Frame

TypeOK == ThreadTypes /\ PictureTypes

ReaderLive == reader.pc \notin {"none", "done"}
DecoderLive == decoder.pc \notin {"none", "done"}

\* The FFmpeg context is released or replaced only when neither thread can
\* still touch it: stop() joins both before close() resets m_ff.
ContextOutlivesThreads ==
    /\ ReaderLive => context # 0 /\ reader.session = context
    /\ DecoderLive => context # 0 /\ decoder.session = context

\* The decoder thread of a session finds only packets and flush signals of
\* that session, although the queue object is shared by all of them and the
\* old reader may queue a flush signal after the queue was stopped.
PacketsOfLiveSession ==
    DecoderLive => \A i \in DOMAIN packets : packets[i].session = decoder.session

\* Backpressure: the flush signal of a rewind, which never waits, is the only
\* element the packet queue may hold beyond its limit.
PacketQueueBounded == Len(packets) <= MaxPackets + 1

\* What is shown moves forward: in the order of sessions, passes and
\* positions, the render loop never fetches an older frame after a newer one.
Later(f, g) ==
    \/ f.session > g.session
    \/ f.session = g.session /\ f.pass > g.pass
    \/ f.session = g.session /\ f.pass = g.pass /\ f.pos > g.pos
NeverShowsOlderFrame == [][Later(render'.frame, render.frame)]_(render.frame)

\* On its first pass the first file, decoded in software, loses to a full frame
\* queue only frames that playback has passed, whose successor is due as well,
\* as long as the queue holds more than the throttle lets the decoder run ahead.
OnlyLateFramesLost ==
    [][/\ context = 1 /\ kind = "file"
       /\ Capacity >= Lookahead + 2
       /\ \A i \in DOMAIN frames' : frames'[i].pass = 0
       /\ Len(frames) = Capacity /\ Len(frames') = Capacity
       => frames'[1].pts <= playbackTime]_frames

\* Flags and reader change as the playlist and other callers of the decoder
\* may rely on, with two commands' worth of stops, joins and starts between.
Promise == INSTANCE DecoderSession WITH
    reader <- IF ReaderLive THEN "live" ELSE reader.pc
PromiseKept == Promise!Spec

\* What the guards of the threads come to, the hypothesis of the liveness
\* theorems: nobody is stuck but where the code waits, for the end of a joined
\* thread, for room, packets or playback as long as nothing was stopped, and
\* for the end of a source.
NobodyStuck ==
    /\ /\ caller.pc # "idle"
       /\ caller.pc = "joinReader" => ~ReaderLive
       /\ caller.pc = "joinDecoder" => ~DecoderLive
       => ENABLED <<CallerStep>>_vars
    /\ \/ reader.pc = "read" /\ (~running \/ reader.pos <= LastPos)
       \/ reader.pc = "push" /\ (HasRoom \/ stopped)
       \/ reader.pc = "flush"
       => ENABLED <<ReaderStep>>_vars
    /\ \/ decoder.pc = "pop" /\ (packets # <<>> \/ stopped)
       \/ decoder.pc = "decode"
       \/ decoder.pc = "throttle" /\ (~running \/ decoder.pts <= playbackTime + Lookahead)
       => ENABLED <<DecoderStep>>_vars
    /\ active \/ render.pc = "frame" \/ screen # NoFrame => ENABLED <<RenderStep>>_vars

\* stop(), open() and close() return: no join waits forever on a thread that
\* sleeps on a full or an empty queue.
CallReturns == caller.pc # "idle" ~> caller.pc = "idle"

\* After stop_video the display returns to the texture.
StopShowsTexture ==
    caller.pc = "idle" /\ context = 0 ~> screen = NoFrame \/ caller.pc # "idle"
=============================================================================
