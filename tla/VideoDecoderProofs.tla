------------------------- MODULE VideoDecoderProofs -------------------------
(***************************************************************************)
(* The properties of VideoDecoder, for any number of sessions, any length  *)
(* of the files and any sizes of the queues.                               *)
(***************************************************************************)
EXTENDS VideoDecoder, TLAPS, SequenceTheorems, WellFoundedInduction

\* Where in a command which threads are joined: stop() clears m_running
\* before it joins, and what follows it in a command finds both joined.
CallerInv ==
    /\ \/ caller.pc \in {"stopPackets", "joinReader", "joinDecoder", "free", "open", "start"}
       \/ caller.inClose
       \/ stopped
       => ~running
    /\ caller.pc \in {"joinDecoder", "free", "open", "start"} \/ caller.inClose
       => reader.pc = "none"
    /\ caller.pc \in {"free", "open", "start"} \/ caller.inClose => decoder.pc = "none"
    /\ caller.pc = "open" => caller.play
    /\ caller.play /\ caller.pc # "start" => session < MaxSessions

\* The reader comes to a flush only after a push of its own, which found
\* room, so that the flush is the only packet beyond the limit.
ReaderInv ==
    /\ reader.pc = "push" => reader.pos <= LastPos
    /\ reader.pc = "flush" => reader.pass < MaxPasses
    /\ reader.pc = "flush" \/ (reader.pc = "read" /\ reader.pos > 0)
       => Len(packets) <= MaxPackets

\* Positions do not decrease from the decoder through the queue to the
\* reader, except across a flush signal, whose position is -1.
Follows(p, q) == q = -1 \/ p <= q
Mark == IF decoder.pc = "decode" THEN decoder.packet.pos ELSE decoder.first
Rising(q) == \A i \in 1..(Len(q) - 1) : Follows(q[i].pos, q[i + 1].pos)
Ordered ==
    DecoderLive =>
        /\ decoder.pc = "decode" => 0 <= decoder.packet.pos /\ decoder.first <= decoder.packet.pos
        /\ Rising(packets)
        /\ packets # <<>> => Follows(Mark, packets[1].pos)
        /\ ReaderLive /\ ~stopped
           => IF packets = <<>> THEN Mark <= reader.pos
              ELSE packets[Len(packets)].pos <= reader.pos

IInv ==
    /\ ThreadTypes
    /\ CallerInv
    /\ ReaderInv
    /\ Ordered
    /\ ContextOutlivesThreads
    /\ PacketsOfLiveSession
    /\ PacketQueueBounded
-----------------------------------------------------------------------------
\* The bounds are natural numbers.
LEMMA Sizes ==
  /\ LastPos \in Nat /\ MaxPackets \in Nat \ {0} /\ Lookahead \in Nat
  /\ MaxSessions \in Nat /\ MaxPasses \in Nat /\ MaxTime \in Nat
  BY VideoAssumption

\* Null packets, empty thread objects and the first record of each kind.
LEMMA Constants ==
  /\ 0 \in Sessions /\ 0 \in Passes /\ Sessions \subseteq Nat /\ Passes \subseteq Nat
  /\ \A s \in Sessions : Flush(s) \in Packet /\ Flush(s).pos = -1 /\ Flush(s).session = s
  BY VideoAssumption DEF Sessions, Passes, Packet, Flush

\* Empty thread objects and an idle caller are states of theirs.
LEMMA NoThreads == Idle \in CallerStates /\ NoReader \in ReaderStates /\ NoDecoder \in DecoderStates
<1>1. Flush(0) \in Packet /\ 0 \in Sessions /\ 0 \in Passes
  BY Constants
<1>2. -1 \in -1..LastPos /\ 0 \in 0..LastPos /\ 0 \in 0..(LastPos + 1)
  BY Sizes
<1> QED
  BY <1>1, <1>2 DEF Idle, CallerStates, NoReader, ReaderStates, NoDecoder, DecoderStates

\* The program starts in IInv.
LEMMA InitIInv == Init => IInv
<1> SUFFICES ASSUME Init PROVE IInv
  OBVIOUS
<1>1. ThreadTypes
  <2>1. /\ caller = Idle /\ reader = NoReader /\ decoder = NoDecoder
        /\ context = 0 /\ session = 0 /\ packets = <<>> /\ kind = "file"
        /\ running = FALSE /\ active = FALSE /\ loop = TRUE /\ stopped = FALSE
    BY DEF Init
  <2>2. packets \in Seq(Packet) /\ kind \in Kinds
    BY <2>1 DEF Kinds
  <2> QED
    BY <2>1, <2>2, Constants, NoThreads DEF ThreadTypes
<1> QED
  BY <1>1, Sizes DEF Init, IInv, CallerInv, ReaderInv, Ordered, ContextOutlivesThreads,
     PacketsOfLiveSession, PacketQueueBounded, ReaderLive, DecoderLive, Idle, NoReader, NoDecoder

\* What the threads and the caller share with the render loop does not touch
\* the invariant.
threadVars == <<caller, context, session, running, active, kind, loop, reader, decoder,
                packets, stopped>>

\* The render loop touches none of them.
LEMMA RenderStutters == RenderStep => UNCHANGED threadVars
  BY DEF RenderStep, RenderCheck, RenderStream, RenderFirst, RenderNext, renderRest, callVars,
     threadVars

\* The invariant speaks of nothing else.
LEMMA StutterStep == IInv /\ UNCHANGED threadVars => IInv'
  BY DEF IInv, threadVars, ThreadTypes, CallerInv, ReaderInv, Ordered, ContextOutlivesThreads,
     PacketsOfLiveSession, PacketQueueBounded, ReaderLive, DecoderLive, Mark, Follows, Rising
-----------------------------------------------------------------------------
(* The caller's steps. *)

CallerNext == (\E play \in BOOLEAN : Command(play)) \/ CallerStep

\* The caller's record after each of its steps.
LEMMA CallerStateTypes == caller \in CallerStates /\ CallerNext => caller' \in CallerStates
<1> SUFFICES ASSUME caller \in CallerStates, CallerNext PROVE caller' \in CallerStates
  OBVIOUS
<1>1. ASSUME NEW pc \in {"stopPackets", "joinReader", "joinDecoder", "free", "open", "start",
                         "clearRunning"}
      PROVE  /\ [caller EXCEPT !.pc = pc] \in CallerStates
             /\ [caller EXCEPT !.pc = pc, !.inClose = TRUE] \in CallerStates
  BY DEF CallerStates
<1>2. \A play \in BOOLEAN : [pc |-> "clearRunning", play |-> play, inClose |-> FALSE] \in CallerStates
  BY DEF CallerStates
<1> QED
  BY <1>1, <1>2, NoThreads DEF CallerNext, CallerStep, Command, ClearRunning, StopPackets,
     JoinReader, JoinDecoder, AfterStop, Free, Open, Start, Goto, Done

\* The caller's steps keep the threads' state in its types.
LEMMA CallerTypes == IInv /\ CallerNext => ThreadTypes'
<1> SUFFICES ASSUME IInv, CallerNext PROVE ThreadTypes'
  OBVIOUS
<1> USE CallerStateTypes DEF IInv, ThreadTypes, flagVars, queueVars, renderVars
<1>1. ASSUME NEW play \in BOOLEAN, Command(play) PROVE ThreadTypes'
  BY <1>1 DEF Command
<1>2. CASE ClearRunning
  BY <1>2 DEF ClearRunning
<1>3. CASE StopPackets
  BY <1>3 DEF StopPackets, Emptied
<1>4. CASE JoinReader
  BY <1>4, NoThreads DEF JoinReader
<1>5. CASE JoinDecoder
  BY <1>5, NoThreads DEF JoinDecoder, AfterStop
<1>6. CASE Free
  BY <1>6, Constants DEF Free
<1>7. CASE Open
  <2>1. caller.pc = "open" /\ caller.play /\ session < MaxSessions
    BY <1>7 DEF Open, CallerInv
  <2>2. session' \in Sessions /\ context' \in Sessions
    BY <1>7, <2>1, Sizes DEF Open, Sessions
  <2>3. kind' \in Kinds
    BY <1>7 DEF Open
  <2> QED
    BY <1>7, <2>2, <2>3 DEF Open
<1>8. CASE Start
  <2>1. [pc |-> "read", session |-> context, pass |-> 0, pos |-> 0] \in ReaderStates
    BY Constants, Sizes DEF ReaderStates
  <2>2. [NoDecoder EXCEPT !.pc = "pop", !.session = context] \in DecoderStates
    BY NoThreads DEF DecoderStates
  <2>3. packets' \in Seq(Packet)
    <3>1. packets' = packets \/ packets' = <<>>
      BY <1>8 DEF Start, Emptied
    <3> QED
      BY <3>1, EmptySeq
  <2>4. reader' \in ReaderStates /\ decoder' \in DecoderStates
    BY <1>8, <2>1, <2>2 DEF Start
  <2>5. running' \in BOOLEAN /\ active' \in BOOLEAN /\ stopped' \in BOOLEAN
    BY <1>8 DEF Start
  <2> QED
    BY <1>8, <2>3, <2>4, <2>5 DEF Start
<1> QED
  BY <1>1, <1>2, <1>3, <1>4, <1>5, <1>6, <1>7, <1>8 DEF CallerNext, CallerStep

\* The caller's steps keep the invariant: it frees the context and replaces the
\* session only when both threads are joined.
LEMMA CallerKeeps == IInv /\ CallerNext => IInv'
<1> SUFFICES ASSUME IInv, CallerNext
             PROVE  /\ CallerInv' /\ ReaderInv' /\ Ordered' /\ ContextOutlivesThreads'
                    /\ PacketsOfLiveSession' /\ PacketQueueBounded'
  BY CallerTypes DEF IInv
<1> USE DEF IInv, ThreadTypes, CallerStates, CallerInv, ReaderInv, Ordered, ContextOutlivesThreads,
        PacketsOfLiveSession, PacketQueueBounded, ReaderLive, DecoderLive, Mark, Follows, Rising,
        flagVars, queueVars, renderVars, Goto, Done, Idle
<1>1. ASSUME NEW play \in BOOLEAN, Command(play)
      PROVE  /\ CallerInv' /\ ReaderInv' /\ Ordered' /\ ContextOutlivesThreads'
             /\ PacketsOfLiveSession' /\ PacketQueueBounded'
  BY <1>1 DEF Command
<1>2. CASE ClearRunning
  BY <1>2 DEF ClearRunning
<1>3. CASE StopPackets
  BY <1>3, Sizes DEF StopPackets, Emptied
<1>4. CASE JoinReader
  BY <1>4 DEF JoinReader, NoReader
<1>5. CASE JoinDecoder
  BY <1>5 DEF JoinDecoder, NoDecoder, AfterStop
<1>6. CASE Free
  BY <1>6 DEF Free
<1>7. CASE Open
  BY <1>7 DEF Open
<1>8. CASE Start
  <2>1. CASE context = 0 \/ running
    BY <1>8, <2>1 DEF Start
  <2>2. CASE context # 0 /\ ~running
    <3>1. /\ reader' = [pc |-> "read", session |-> context, pass |-> 0, pos |-> 0]
          /\ decoder'.pc = "pop" /\ decoder'.session = context /\ decoder'.first = -1
          /\ packets' = <<>> /\ ~stopped' /\ running' /\ context' = context /\ session' = session
          /\ caller' = Idle
      BY <1>8, <2>2 DEF Start, NoDecoder, Emptied
    <3> QED
      BY <3>1, <2>2, Sizes
  <2> QED
    BY <2>1, <2>2
<1> QED
  BY <1>1, <1>2, <1>3, <1>4, <1>5, <1>6, <1>7, <1>8 DEF CallerNext, CallerStep
-----------------------------------------------------------------------------
(* The reader's steps. *)

\* What is pushed goes behind the rest.
LEMMA AppendPacket ==
  ASSUME NEW q \in Seq(Packet), NEW p \in Packet
  PROVE  /\ Append(q, p) \in Seq(Packet) /\ Append(q, p) # <<>>
         /\ Len(q) \in Nat /\ Len(Append(q, p)) = Len(q) + 1
         /\ \A i \in 1..Len(q) : Append(q, p)[i] = q[i] /\ q[i] \in Packet
         /\ Append(q, p)[Len(q) + 1] = p
         /\ q = <<>> <=> Len(q) = 0
  OBVIOUS

\* The packet that the reader holds, once it is read.
LEMMA ReadPacket ==
  ASSUME ThreadTypes, reader.pos <= LastPos
  PROVE  [session |-> reader.session, pass |-> reader.pass, pos |-> reader.pos] \in Packet
  BY Sizes DEF ThreadTypes, ReaderStates, Packet

\* The record of the reader after a step.
LEMMA ReaderRecords ==
  ASSUME reader \in ReaderStates
  PROVE  /\ \A pc \in {"read", "push", "flush", "done"} : [reader EXCEPT !.pc = pc] \in ReaderStates
         /\ \A pc \in {"read", "done"} : reader.pos <= LastPos =>
              [reader EXCEPT !.pc = pc, !.pos = reader.pos + 1] \in ReaderStates
         /\ \A pc \in {"read", "done"} : reader.pass < MaxPasses =>
              [reader EXCEPT !.pc = pc, !.pass = reader.pass + 1, !.pos = 0] \in ReaderStates
         /\ ReaderLoop \in {"read", "done"}
<1>1. reader.pos <= LastPos => reader.pos + 1 \in 0..(LastPos + 1)
  BY Sizes DEF ReaderStates
<1>2. reader.pass < MaxPasses => reader.pass + 1 \in Passes
  BY Sizes DEF ReaderStates, Passes
<1>3. 0 \in 0..(LastPos + 1)
  BY Sizes
<1> QED
  BY <1>1, <1>2, <1>3 DEF ReaderStates, ReaderLoop

\* The reader's steps keep the threads' state in its types.
LEMMA ReaderTypes == IInv /\ ReaderStep => ThreadTypes'
<1> SUFFICES ASSUME IInv, ReaderStep PROVE ThreadTypes'
  OBVIOUS
<1> USE Sizes DEF IInv, ThreadTypes, callVars, renderVars
<1>1. CASE ReaderExit
  BY <1>1, ReaderRecords DEF ReaderExit
<1>2. CASE ReaderRead
  BY <1>2, ReaderRecords DEF ReaderRead
<1>3. CASE ReaderPush
  <2>1. reader.pos <= LastPos
    BY <1>3 DEF ReaderPush, ReaderInv
  <2>2. packets' \in Seq(Packet)
    BY <1>3, <2>1, ReadPacket, AppendPacket DEF ReaderPush
  <2>3. reader' \in ReaderStates
    BY <1>3, <2>1, ReaderRecords DEF ReaderPush
  <2> QED
    BY <1>3, <2>2, <2>3 DEF ReaderPush
<1>4. CASE ReaderRewind
  BY <1>4, ReaderRecords DEF ReaderRewind
<1>5. CASE ReaderFlush
  <2>1. reader.session \in Sessions
    BY DEF ReaderStates
  <2>2. packets' \in Seq(Packet)
    BY <1>5, <2>1, Constants, AppendPacket DEF ReaderFlush
  <2>3. reader' \in ReaderStates
    BY <1>5, ReaderRecords DEF ReaderFlush, ReaderInv
  <2> QED
    BY <1>5, <2>2, <2>3 DEF ReaderFlush
<1>6. CASE ReaderEnd
  BY <1>6, ReaderRecords DEF ReaderEnd
<1> QED
  BY <1>1, <1>2, <1>3, <1>4, <1>5, <1>6 DEF ReaderStep

\* What a push does to the order.
LEMMA RisingAppend ==
  ASSUME NEW q \in Seq(Packet), NEW p \in Packet, Rising(q),
         q # <<>> => Follows(q[Len(q)].pos, p.pos)
  PROVE  Rising(Append(q, p)) /\ (q # <<>> => Append(q, p)[1] = q[1])
<1>1. ASSUME NEW i \in 1..Len(q) PROVE Follows(Append(q, p)[i].pos, Append(q, p)[i + 1].pos)
  <2>1. CASE i = Len(q)
    BY <2>1, AppendPacket
  <2>2. CASE i # Len(q)
    <3>1. i \in 1..(Len(q) - 1) /\ i + 1 \in 1..Len(q)
      BY <2>2, AppendPacket
    <3> QED
      BY <3>1, AppendPacket DEF Rising
  <2> QED
    BY <2>1, <2>2
<1> QED
  BY <1>1, AppendPacket DEF Rising

\* Steps of the reader that leave the queue alone.
LEMMA ReaderAlone ==
  ASSUME IInv, ReaderExit \/ ReaderRead \/ ReaderRewind \/ ReaderEnd
  PROVE  IInv'
<1>1. ThreadTypes'
  BY ReaderTypes DEF ReaderStep
<1>2. /\ UNCHANGED <<caller, context, session, running, decoder, packets, stopped>>
      /\ reader' \in ReaderStates
      /\ ReaderLive /\ reader'.session = reader.session /\ reader'.pos = reader.pos
      /\ reader'.pass = reader.pass
      /\ \/ reader'.pc = "done"
         \/ reader'.pc = "push" /\ reader.pos <= LastPos
         \/ reader'.pc = "flush" /\ reader.pc = "read" /\ reader.pos > LastPos
            /\ reader.pass < MaxPasses
      /\ reader.pos \in Nat
  BY <1>1, Sizes DEF IInv, ThreadTypes, ReaderStates, ReaderExit, ReaderRead, ReaderRewind, ReaderEnd,
     ReaderLive, callVars
<1>3. CallerInv'
  BY <1>2 DEF IInv, CallerInv, ReaderLive
<1>4. ReaderInv'
  BY <1>2, Sizes DEF IInv, ReaderInv
<1>5. Ordered' /\ ContextOutlivesThreads' /\ PacketsOfLiveSession' /\ PacketQueueBounded'
  BY <1>2 DEF IInv, Ordered, ContextOutlivesThreads, PacketsOfLiveSession, PacketQueueBounded,
     ReaderLive, DecoderLive, Mark
<1> QED
  BY <1>1, <1>3, <1>4, <1>5 DEF IInv

\* A push, or a flush, appends one packet of the reader's session.
LEMMA ReaderAppends ==
  ASSUME IInv, NEW p \in Packet, p.session = reader.session, packets' = Append(packets, p),
         UNCHANGED <<caller, context, session, running, decoder, stopped>>, ReaderLive,
         ReaderLive' => reader'.session = reader.session, reader'.pc # "none",
         Follows(reader.pos, p.pos), p.pos <= reader'.pos, ~stopped \/ p.pos = -1
  PROVE  CallerInv' /\ Ordered' /\ ContextOutlivesThreads' /\ PacketsOfLiveSession'
<1>1. CallerInv'
  BY DEF IInv, CallerInv, ReaderLive
<1>2. ContextOutlivesThreads'
  BY DEF IInv, ContextOutlivesThreads, DecoderLive
<1>3. PacketsOfLiveSession'
  BY AppendPacket DEF IInv, ThreadTypes, PacketsOfLiveSession, ContextOutlivesThreads, DecoderLive
<1>4. Ordered'
  <2> SUFFICES ASSUME DecoderLive PROVE Ordered'
    BY DEF Ordered, DecoderLive
  <2>1. /\ packets \in Seq(Packet) /\ Mark' = Mark /\ DecoderLive' /\ Mark \in Int
        /\ reader.pos \in Nat /\ p.pos \in Int
    BY Sizes DEF IInv, ThreadTypes, Mark, DecoderLive, ReaderStates, DecoderStates, Packet
  <2>2. Rising(packets) /\ (packets # <<>> => Follows(Mark, packets[1].pos))
    BY DEF IInv, Ordered
  <2>3. packets # <<>> => packets[Len(packets)] \in Packet
    BY <2>1
  <2>4. packets # <<>> => packets[Len(packets)].pos \in Int
    BY <2>3 DEF Packet
  <2>5. packets # <<>> => Follows(packets[Len(packets)].pos, p.pos)
    BY <2>1, <2>4 DEF IInv, Ordered, Follows
  <2>6. packets = <<>> => Follows(Mark, p.pos)
    BY <2>1 DEF IInv, Ordered, Follows
  <2>7. /\ Rising(packets') /\ (packets # <<>> => packets'[1] = packets[1])
        /\ packets' # <<>> /\ packets'[Len(packets')] = p
        /\ packets = <<>> => packets'[1] = p
    BY <2>1, <2>2, <2>5, RisingAppend, AppendPacket
  <2> QED
    BY <2>1, <2>2, <2>6, <2>7 DEF IInv, Ordered, DecoderLive
<1> QED
  BY <1>1, <1>2, <1>3, <1>4

\* The reader's steps keep the invariant: what it pushes is of the session of
\* the context, and follows what is queued.
LEMMA ReaderKeeps == IInv /\ ReaderStep => IInv'
<1> SUFFICES ASSUME IInv, ReaderStep PROVE IInv'
  OBVIOUS
<1>0. ThreadTypes' /\ reader \in ReaderStates /\ packets \in Seq(Packet)
  BY ReaderTypes DEF IInv, ThreadTypes
<1>1. CASE ReaderPush
  <2>1. /\ reader' = [reader EXCEPT !.pc = ReaderLoop, !.pos = reader.pos + 1]
        /\ UNCHANGED <<caller, context, session, running, decoder, stopped>>
        /\ reader.pc = "push" /\ reader.pos <= LastPos
    BY <1>1 DEF ReaderPush, callVars, IInv, ReaderInv
  <2>2. /\ reader'.pc = ReaderLoop /\ reader'.pos = reader.pos + 1
        /\ reader'.session = reader.session /\ reader.pos \in Nat
    BY <1>0, <2>1 DEF ReaderStates
  <2>3. CASE stopped
    <3>1. reader'.pc = "done" /\ packets' = packets
      BY <1>1, <2>2, <2>3 DEF ReaderPush, ReaderLoop, IInv, CallerInv
    <3> QED
      BY <1>0, <2>1, <3>1 DEF IInv, CallerInv, ReaderInv, Ordered, ContextOutlivesThreads,
         PacketsOfLiveSession, PacketQueueBounded, ReaderLive, DecoderLive, Mark
  <2>4. CASE ~stopped
    <3> DEFINE p == [session |-> reader.session, pass |-> reader.pass, pos |-> reader.pos]
    <3>1. /\ packets' = Append(packets, p) /\ Len(packets) < MaxPackets /\ p \in Packet
          /\ p.session = reader.session /\ p.pos = reader.pos
      BY <1>1, <2>1, <2>4, ReadPacket DEF ReaderPush, HasRoom, IInv
    <3> HIDE DEF p
    <3>2. CallerInv' /\ Ordered' /\ ContextOutlivesThreads' /\ PacketsOfLiveSession'
      <4>1. ReaderLive /\ reader'.pc # "none"
        BY <2>1, <2>2 DEF ReaderLive, ReaderLoop
      <4>2. Follows(reader.pos, p.pos) /\ p.pos <= reader'.pos
        BY <2>2, <3>1 DEF Follows
      <4> QED
        BY <2>1, <2>2, <2>4, <3>1, <4>1, <4>2, ReaderAppends
    <3>3. Len(packets') <= MaxPackets
      BY <1>0, <3>1, AppendPacket, Sizes
    <3>4. ReaderInv' /\ PacketQueueBounded'
      BY <2>2, <3>1, <3>3, <1>0, AppendPacket, Sizes
      DEF ReaderInv, PacketQueueBounded, ReaderLoop
    <3> QED
      BY <1>0, <3>2, <3>4 DEF IInv
  <2> QED
    BY <2>3, <2>4
<1>2. CASE ReaderFlush
  <2>1. /\ reader' = [reader EXCEPT !.pc = ReaderLoop, !.pass = reader.pass + 1, !.pos = 0]
        /\ packets' = Append(packets, Flush(reader.session))
        /\ UNCHANGED <<caller, context, session, running, decoder, stopped>>
        /\ reader.pc = "flush" /\ Len(packets) <= MaxPackets
    BY <1>2 DEF ReaderFlush, callVars, IInv, ReaderInv
  <2>2. /\ reader'.pc = ReaderLoop /\ reader'.pos = 0 /\ reader'.session = reader.session
        /\ reader.session \in Sessions
    BY <1>0, <2>1 DEF ReaderStates
  <2>3. /\ Flush(reader.session) \in Packet /\ Flush(reader.session).pos = -1
        /\ Flush(reader.session).session = reader.session
    BY <2>2, Constants
  <2>4. CallerInv' /\ Ordered' /\ ContextOutlivesThreads' /\ PacketsOfLiveSession'
    <3>1. ReaderLive /\ reader'.pc # "none"
      BY <2>1, <2>2 DEF ReaderLive, ReaderLoop
    <3>2. /\ Follows(reader.pos, Flush(reader.session).pos)
          /\ Flush(reader.session).pos <= reader'.pos
      BY <2>2, <2>3 DEF Follows
    <3> QED
      BY <2>1, <2>2, <2>3, <3>1, <3>2, ReaderAppends
  <2>5. ReaderInv' /\ PacketQueueBounded'
    BY <1>0, <2>1, <2>2, <2>3, AppendPacket, Sizes
    DEF ReaderInv, PacketQueueBounded, ReaderLoop
  <2> QED
    BY <1>0, <2>4, <2>5 DEF IInv
<1> QED
  BY <1>1, <1>2, ReaderAlone DEF ReaderStep
-----------------------------------------------------------------------------
(* The decoder's steps. *)

\* The record of the decoder after a step.
LEMMA DecoderRecords ==
  ASSUME decoder \in DecoderStates
  PROVE  /\ Loop \in {"pop", "done"}
         /\ \A pc \in {"pop", "done"}, n \in -1..LastPos :
              [decoder EXCEPT !.pc = pc, !.first = n] \in DecoderStates
         /\ \A p \in Packet : [decoder EXCEPT !.pc = "decode", !.packet = p] \in DecoderStates
         /\ \A pc \in {"pop", "done"} :
              [decoder EXCEPT !.pc = pc, !.packet = Flush(0), !.pts = 0] \in DecoderStates
         /\ \A pc \in {"pop", "throttle", "done"}, n \in -1..LastPos, t \in 0..LastPos :
              [decoder EXCEPT !.pc = pc, !.packet = Flush(0), !.first = n, !.pts = t]
              \in DecoderStates
<1>1. Flush(0) \in Packet /\ 0 \in 0..LastPos
  BY Constants, Sizes
<1> QED
  BY <1>1 DEF DecoderStates, Loop

\* The loop over the queue ends, or goes on with nothing in its hands.
LEMMA DecoderRelaxes ==
  ASSUME IInv, UNCHANGED <<caller, context, session, running, reader, packets, stopped>>,
         decoder' \in DecoderStates, DecoderLive, decoder'.session = decoder.session,
         decoder'.pc \in {"pop", "throttle", "done"},
         decoder'.first <= Mark
  PROVE  /\ CallerInv' /\ ReaderInv' /\ Ordered' /\ ContextOutlivesThreads'
         /\ PacketsOfLiveSession' /\ PacketQueueBounded'
<1>1. CallerInv' /\ ReaderInv' /\ ContextOutlivesThreads' /\ PacketsOfLiveSession'
      /\ PacketQueueBounded'
  BY DEF IInv, CallerInv, ReaderInv, ContextOutlivesThreads, PacketsOfLiveSession,
     PacketQueueBounded, ReaderLive, DecoderLive
<1>2. Ordered'
  <2>1. /\ Mark' = decoder'.first /\ Mark' \in Int /\ Mark \in Int /\ reader.pos \in Int
        /\ packets # <<>> => packets[1].pos \in Int
    <3>1. decoder.first \in Int /\ decoder.packet.pos \in Int /\ decoder'.first \in Int
      BY Sizes DEF IInv, ThreadTypes, DecoderStates, Packet
    <3>2. reader.pos \in Int
      BY Sizes DEF IInv, ThreadTypes, ReaderStates
    <3>3. packets # <<>> => packets[1] \in Packet
      BY DEF IInv, ThreadTypes
    <3>4. packets # <<>> => packets[1].pos \in Int
      BY <3>3, Sizes DEF Packet
    <3> QED
      BY <3>1, <3>2, <3>4 DEF Mark
  <2> QED
    BY <2>1 DEF IInv, Ordered, ReaderLive, DecoderLive, Follows
<1> QED
  BY <1>1, <1>2

\* The oldest packet leaves the queue.
LEMMA TailPacket ==
  ASSUME NEW q \in Seq(Packet), q # <<>>
  PROVE  /\ Head(q) = q[1] /\ Head(q) \in Packet /\ Tail(q) \in Seq(Packet)
         /\ Len(Tail(q)) = Len(q) - 1 /\ Len(q) \in Nat \ {0}
         /\ \A i \in 1..Len(Tail(q)) : Tail(q)[i] = q[i + 1]
         /\ Tail(q) = <<>> <=> Len(q) = 1
<1>1. Head(q) = q[1]
  OBVIOUS
<1>2. Len(q) \in Nat \ {0}
  BY EmptySeq
<1>3. /\ Head(q) \in Packet /\ Tail(q) \in Seq(Packet) /\ Len(Tail(q)) = Len(q) - 1
      /\ \A i \in 1..Len(Tail(q)) : Tail(q)[i] = q[i + 1]
  BY HeadTailProperties
<1>4. Tail(q) = <<>> <=> Len(q) = 1
  BY <1>2, <1>3, EmptySeq
<1> QED
  BY <1>1, <1>2, <1>3, <1>4

\* Without its head a queue still rises.
LEMMA RisingTail ==
  ASSUME NEW q \in Seq(Packet), q # <<>>, Rising(q)
  PROVE  /\ Rising(Tail(q))
         /\ Tail(q) # <<>> => /\ Follows(Head(q).pos, Tail(q)[1].pos)
                              /\ Tail(q)[Len(Tail(q))] = q[Len(q)]
<1>1. ASSUME NEW i \in 1..(Len(Tail(q)) - 1)
      PROVE  Follows(Tail(q)[i].pos, Tail(q)[i + 1].pos)
  <2>1. i \in 1..Len(Tail(q)) /\ i + 1 \in 1..Len(Tail(q)) /\ i + 1 \in 1..(Len(q) - 1)
    BY TailPacket
  <2> QED
    BY <2>1, TailPacket DEF Rising
<1>2. ASSUME Tail(q) # <<>>
      PROVE  Follows(Head(q).pos, Tail(q)[1].pos) /\ Tail(q)[Len(Tail(q))] = q[Len(q)]
  <2>1. 1 \in 1..(Len(q) - 1) /\ 1 \in 1..Len(Tail(q)) /\ Len(Tail(q)) \in 1..Len(Tail(q))
    BY <1>2, TailPacket
  <2> QED
    BY <2>1, TailPacket DEF Rising
<1> QED
  BY <1>1, <1>2 DEF Rising

\* Taking a packet keeps the invariant: the packet is not before the last one.
LEMMA PopKeeps == IInv /\ DecoderPop => IInv'
<1> SUFFICES ASSUME IInv, DecoderPop PROVE IInv'
  OBVIOUS
<1>0. /\ decoder \in DecoderStates /\ packets \in Seq(Packet) /\ packets # <<>>
      /\ packets' = Tail(packets) /\ DecoderLive /\ decoder.pc = "pop" /\ Head(packets) \in Packet
      /\ UNCHANGED <<caller, context, session, running, active, kind, loop, reader, stopped>>
      /\ Head(packets) = packets[1]
  BY TailPacket DEF IInv, ThreadTypes, DecoderPop, DecoderLive, decoderRest, callVars
<1>1. \/ /\ Head(packets).pos = -1
         /\ decoder' = [decoder EXCEPT !.pc = Loop, !.first = IF running THEN -1 ELSE decoder.first]
      \/ /\ Head(packets).pos # -1
         /\ decoder' = [decoder EXCEPT !.pc = "decode", !.packet = Head(packets)]
  BY DEF DecoderPop, OnFlush
<1>2. /\ decoder' \in DecoderStates /\ decoder'.session = decoder.session
      /\ \/ decoder'.pc = "done"
         \/ decoder'.pc = "pop" /\ Head(packets).pos = -1 /\ decoder'.first = -1
         \/ /\ decoder'.pc = "decode" /\ Head(packets).pos # -1
            /\ decoder'.packet = Head(packets) /\ decoder'.first = decoder.first
  <2>1. -1 \in -1..LastPos /\ decoder.first \in -1..LastPos
    BY <1>0, Sizes DEF DecoderStates
  <2>2. decoder' \in DecoderStates
    <3>1. Loop \in {"pop", "done"} /\ (IF running THEN -1 ELSE decoder.first) \in -1..LastPos
      BY <2>1, DecoderRecords, <1>0
    <3>2. /\ \A pc \in {"pop", "done"}, n \in -1..LastPos :
                [decoder EXCEPT !.pc = pc, !.first = n] \in DecoderStates
          /\ \A q \in Packet : [decoder EXCEPT !.pc = "decode", !.packet = q] \in DecoderStates
      BY <1>0, DecoderRecords
    <3>3. CASE Head(packets).pos = -1
      BY <1>1, <3>1, <3>2, <3>3
    <3>4. CASE Head(packets).pos # -1
      BY <1>0, <1>1, <3>2, <3>4
    <3> QED
      BY <3>3, <3>4
  <2> QED
    BY <1>0, <1>1, <2>2 DEF DecoderStates, Loop
<1>3. ThreadTypes'
  BY <1>0, <1>2, TailPacket DEF IInv, ThreadTypes
<1>4. CallerInv' /\ ReaderInv' /\ ContextOutlivesThreads' /\ PacketQueueBounded'
  <2>1. Len(packets') = Len(packets) - 1 /\ Len(packets) \in Nat
    BY <1>0, TailPacket
  <2> QED
    BY <1>0, <1>2, <2>1, Sizes DEF IInv, CallerInv, ReaderInv, ContextOutlivesThreads,
       PacketQueueBounded, ReaderLive, DecoderLive
<1>5. PacketsOfLiveSession'
  <2>1. \A i \in 1..Len(packets') : i + 1 \in 1..Len(packets) /\ packets'[i] = packets[i + 1]
    BY <1>0, TailPacket
  <2> QED
    BY <1>0, <1>2, <1>3, <2>1 DEF IInv, ThreadTypes, PacketsOfLiveSession, DecoderLive
<1>6. Ordered'
  <2>1. Rising(packets) /\ Follows(Mark, packets[1].pos) /\ Mark = decoder.first
    BY <1>0 DEF IInv, Ordered, Mark
  <2>2. /\ Rising(packets')
        /\ packets' # <<>> => /\ Follows(Head(packets).pos, packets'[1].pos)
                              /\ packets'[Len(packets')] = packets[Len(packets)]
        /\ packets' = <<>> => Head(packets) = packets[Len(packets)]
    BY <1>0, <2>1, RisingTail, TailPacket
  <2>3. ReaderLive /\ ~stopped => packets[Len(packets)].pos <= reader.pos
    BY <1>0 DEF IInv, Ordered
  <2>4. decoder'.pc # "done" => Mark' = Head(packets).pos
    BY <1>2 DEF Mark
  <2>5. decoder'.pc = "decode" => 0 <= Head(packets).pos /\ decoder.first <= Head(packets).pos
    BY <1>0, <1>2, <2>1 DEF Follows, Packet
  <2> QED
    BY <1>0, <1>2, <2>2, <2>3, <2>4, <2>5 DEF Ordered, DecoderLive, ReaderLive
<1> QED
  BY <1>3, <1>4, <1>5, <1>6 DEF IInv

\* The steps of the decoder that leave the queue alone.
LEMMA DecoderAlone ==
  ASSUME IInv, DecoderWoken \/ DecodeNothing \/ Decode \/ Throttle
  PROVE  IInv' /\ (Decode => decoder.packet.pos - (IF decoder.first < 0 THEN decoder.packet.pos
                                                    ELSE decoder.first) \in 0..LastPos)
<1>0. /\ UNCHANGED <<caller, context, session, running, active, kind, loop, reader, packets,
                     stopped>>
      /\ decoder \in DecoderStates /\ decoder.first \in -1..LastPos /\ DecoderLive
      /\ -1 \in -1..LastPos /\ 0 \in 0..LastPos /\ Loop \in {"pop", "done"}
  <2>1. /\ UNCHANGED <<caller, context, session, running, active, kind, loop, reader, packets,
                       stopped>>
        /\ DecoderLive
    BY DEF DecoderWoken, DecodeNothing, Decode, Throttle, decoderRest, callVars, DecoderLive
  <2>2. decoder \in DecoderStates
    BY DEF IInv, ThreadTypes
  <2>3. decoder.first \in -1..LastPos
    BY <2>2 DEF DecoderStates
  <2> QED
    BY <2>1, <2>2, <2>3, Sizes DEF Loop
<1>1. decoder.pc = "decode" => /\ 0 <= decoder.packet.pos /\ decoder.first <= decoder.packet.pos
                               /\ decoder.packet.pos \in 0..LastPos
  BY <1>0 DEF IInv, Ordered, DecoderStates, Packet
<1> DEFINE Result == /\ decoder' \in DecoderStates /\ decoder'.session = decoder.session
                     /\ decoder'.pc \in {"pop", "throttle", "done"} /\ decoder'.first <= Mark
<1>2. CASE DecoderWoken
  <2>1. decoder' = [decoder EXCEPT !.pc = Loop, !.first = IF running THEN -1 ELSE decoder.first]
        /\ decoder.pc = "pop"
    BY <1>2 DEF DecoderWoken, OnFlush
  <2>2. decoder' \in DecoderStates
    BY <1>0, <2>1, DecoderRecords
  <2>3. Result
    BY <1>0, <2>1, <2>2 DEF Mark, DecoderStates
  <2>4. ~Decode
    BY <1>2 DEF DecoderWoken, Decode
  <2> QED
    BY <1>0, <2>3, <2>4, DecoderRelaxes DEF IInv, ThreadTypes
<1>3. CASE DecodeNothing \/ Throttle
  <2>1. decoder' = [decoder EXCEPT !.pc = Loop, !.packet = Flush(0), !.pts = 0]
        /\ decoder.pc \in {"decode", "throttle"}
    BY <1>3 DEF DecodeNothing, Throttle
  <2>2. decoder' \in DecoderStates
    BY <1>0, <2>1, DecoderRecords
  <2>3. Result
    BY <1>0, <1>1, <2>1, <2>2 DEF Mark, DecoderStates
  <2>4. ~Decode
    BY <1>3 DEF DecodeNothing, Throttle, Decode
  <2> QED
    BY <1>0, <2>3, <2>4, DecoderRelaxes DEF IInv, ThreadTypes
<1>4. CASE Decode
  <2> DEFINE first == IF decoder.first < 0 THEN decoder.packet.pos ELSE decoder.first
             pts == decoder.packet.pos - first
             pc == IF kind = "file" THEN "throttle" ELSE Loop
             stored == IF kind = "file" THEN pts ELSE 0
  <2>1. decoder' = [decoder EXCEPT !.pc = pc, !.packet = Flush(0), !.first = first,
                                   !.pts = stored]
        /\ decoder.pc = "decode"
    BY <1>4 DEF Decode
  <2>2. first \in 0..LastPos /\ first <= decoder.packet.pos /\ pts \in 0..LastPos
    BY <1>0, <1>1, <2>1, Sizes
  <2>3. pc \in {"pop", "throttle", "done"} /\ stored \in 0..LastPos /\ first \in -1..LastPos
    BY <1>0, <2>2, Sizes
  <2> HIDE DEF first, pts, pc, stored
  <2>4. decoder' \in DecoderStates
    BY <1>0, <2>1, <2>3, DecoderRecords
  <2>5. Result
    BY <1>0, <2>1, <2>2, <2>3, <2>4 DEF Mark, DecoderStates
  <2> QED
    BY <1>0, <2>2, <2>5, DecoderRelaxes DEF IInv, ThreadTypes, pts, first
<1> QED
  BY <1>2, <1>3, <1>4

\* The decoder's steps keep the invariant.
LEMMA DecoderKeeps == IInv /\ DecoderStep => IInv'
  BY PopKeeps, DecoderAlone DEF DecoderStep
-----------------------------------------------------------------------------
\* IInv is inductive: the threads and the caller keep it.
THEOREM AlwaysIInv == Spec => []IInv
<1>1. IInv /\ [Next]_vars => IInv'
  <2> SUFFICES ASSUME IInv, [Next]_vars PROVE IInv'
    OBVIOUS
  <2>1. CASE UNCHANGED vars
    BY <2>1, StutterStep DEF vars, threadVars
  <2>2. CASE Next
    BY <2>2, CallerKeeps, ReaderKeeps, DecoderKeeps, RenderStutters, StutterStep
    DEF Next, CallerNext
  <2> QED
    BY <2>1, <2>2
<1> QED
  BY InitIInv, <1>1, PTL DEF Spec

\* The FFmpeg context is never released under a thread: whatever the sizes
\* and sessions, stop() has joined both threads before close() frees m_ff.
THEOREM ContextIsSafe == Spec => []ContextOutlivesThreads
  BY AlwaysIInv, PTL DEF IInv

\* No packet and no flush signal crosses from one session into another.
THEOREM SessionsAreSeparate == Spec => []PacketsOfLiveSession
  BY AlwaysIInv, PTL DEF IInv

\* The packet queue holds at most one flush signal beyond MAX_PACKETS.
THEOREM QueueIsBounded == Spec => []PacketQueueBounded
  BY AlwaysIInv, PTL DEF IInv
-----------------------------------------------------------------------------
(* What the render loop takes from the frame queue. *)

\* A set of naturals that is not empty has a least member.
LEMMA Least ==
  ASSUME NEW T \in SUBSET Nat, T # {}
  PROVE  \E x \in T : \A y \in T : x <= y
<1>1. \E x \in T : \A y \in T : ~(<<y, x>> \in OpToRel(<, Nat))
  BY NatLessThanWellFounded, WFMin
<1>2. PICK x \in T : \A y \in T : ~(<<y, x>> \in OpToRel(<, Nat))
  BY <1>1
<1>3. ASSUME NEW y \in T PROVE x <= y
  <2>1. x \in Nat /\ y \in Nat
    OBVIOUS
  <2>2. y < x => <<y, x>> \in OpToRel(<, Nat)
    BY <2>1 DEF OpToRel
  <2>3. ~(y < x)
    BY <1>2, <2>2, Zenon
  <2> QED
    BY <2>1, <2>3
<1> QED
  BY <1>3

\* getFrameForTime returns a frame of the queue whenever one is due.
LEMMA BestIsDue ==
  ASSUME NEW q \in Seq(Frame), NEW t \in Int, Due(q, t) # {}
  PROVE  Best(q, t) \in Due(q, t) /\ IsBest(q, t, Best(q, t))
<1> DEFINE D == Due(q, t)
           Gaps == {LastPos - q[i].pts : i \in D}
<1>1. \A i \in D : i \in Nat /\ q[i].pts \in 0..LastPos
  <2>1. \A i \in D : i \in 1..Len(q) /\ q[i] \in Frame
    BY DEF Due
  <2> QED
    BY <2>1 DEF Frame
<1>2. Gaps \in SUBSET Nat /\ Gaps # {}
  BY <1>1, Sizes
<1>3. PICK g \in Gaps : \A h \in Gaps : g <= h
  BY <1>2, Least
<1>4. PICK k \in D : g = LastPos - q[k].pts
  BY <1>3
<1> DEFINE Latest == {i \in D : q[i].pts = q[k].pts}
<1>5. Latest \in SUBSET Nat /\ Latest # {}
  BY <1>1, <1>4
<1>6. PICK i \in Latest : \A j \in Latest : i <= j
  BY <1>5, Least
<1>7. ASSUME NEW j \in D
      PROVE  q[j].pts < q[i].pts \/ (q[j].pts = q[i].pts /\ i <= j)
  <2>1. LastPos - q[k].pts <= LastPos - q[j].pts
    BY <1>3, <1>4
  <2>2. q[j].pts <= q[k].pts /\ q[i].pts = q[k].pts
    BY <1>1, <1>4, <1>6, <2>1, Sizes
  <2>3. q[j].pts = q[k].pts => i <= j
    BY <1>6
  <2> QED
    BY <1>1, <1>4, <2>2, <2>3
<1> QED
  BY <1>6, <1>7 DEF Best, IsBest

\* Both ways in which a frame leaves the queue.
LEMMA TakenFrame ==
  ASSUME NEW q \in Seq(Frame), NEW i \in DOMAIN q
  PROVE  q[i] \in Frame /\ After(q, i) \in Seq(Frame)
<1>1. i \in 1..Len(q) /\ Len(q) \in Nat
  OBVIOUS
<1>2. \A j \in (i + 1)..Len(q) : q[j] \in Frame
  BY <1>1
<1>3. SubSeq(q, i + 1, Len(q)) \in Seq(Frame)
  BY <1>1, <1>2, SubSeqProperties
<1> QED
  BY <1>1, <1>3 DEF After

\* A frame that is pushed goes behind the rest and may push the first one out.
LEMMA PushedFrame ==
  ASSUME NEW q \in Seq(Frame), NEW f \in Frame
  PROVE  Pushed(q, f) \in Seq(Frame) /\ (Len(q) <= Capacity => Len(Pushed(q, f)) <= Capacity)
<1>1. Len(q) >= Capacity => q # <<>>
  BY CapacityAssumption, EmptySeq
<1>2. q # <<>> => Tail(q) \in Seq(Frame) /\ Len(Tail(q)) = Len(q) - 1
  BY HeadTailProperties
<1> QED
  BY <1>1, <1>2, CapacityAssumption DEF Pushed

\* The record of the render loop after a step.
LEMMA RenderRecords ==
  /\ NoFrame \in Frame
  /\ \A f \in Frame, b \in BOOLEAN, t \in 0..MaxTime :
       [pc |-> "check", started |-> b, time |-> t, frame |-> f] \in RenderStates
  /\ render \in RenderStates =>
       /\ [render EXCEPT !.pc = "frame"] \in RenderStates
       /\ [render EXCEPT !.started = FALSE, !.time = 0] \in RenderStates
       /\ render.frame \in Frame /\ render.started \in BOOLEAN /\ render.time \in 0..MaxTime
<1>1. NoFrame \in Frame
  BY Constants, Sizes DEF NoFrame, Frame
<1>2. 0 \in 0..MaxTime
  BY Sizes
<1> QED
  BY <1>1, <1>2 DEF RenderStates

\* Showing a frame of the queue keeps the types.
LEMMA TakeTypes ==
  ASSUME PictureTypes, NEW t \in 0..MaxTime, NEW b \in BOOLEAN, Take(t, b)
  PROVE  frames' \in Seq(Frame) /\ render' \in RenderStates /\ screen' \in Frame
<1>1. Best(frames, t) \in DOMAIN frames
  BY BestIsDue, Sizes DEF Take, PictureTypes, Due
<1>2. frames[Best(frames, t)] \in Frame /\ After(frames, Best(frames, t)) \in Seq(Frame)
  BY <1>1, TakenFrame DEF PictureTypes
<1> QED
  BY <1>2, RenderRecords DEF Take, Show

\* Showing the last frame again keeps the types.
LEMMA RepeatTypes ==
  ASSUME PictureTypes, Repeat
  PROVE  frames' \in Seq(Frame) /\ render' \in RenderStates /\ screen' \in Frame
  BY RenderRecords DEF PictureTypes, Repeat, Show

\* The render loop's steps keep the pictures' state in its types.
LEMMA RenderTypes == PictureTypes /\ RenderStep => PictureTypes'
<1> SUFFICES ASSUME PictureTypes, RenderStep PROVE PictureTypes'
  OBVIOUS
<1>1. CASE RenderCheck
  <2>1. render \in RenderStates
    BY DEF PictureTypes
  <2>2. render' \in RenderStates /\ screen' \in Frame
    BY <1>1, <2>1, RenderRecords DEF RenderCheck, PictureTypes
  <2> QED
    BY <1>1, <2>2 DEF RenderCheck, PictureTypes
<1>2. CASE RenderStream
  <2>1. CASE Repeat
    BY <1>2, <2>1, RepeatTypes DEF RenderStream, PictureTypes
  <2>2. CASE frames # <<>> /\ Show(Head(frames), render.started, render.time)
             /\ frames' = Tail(frames)
    <3>1. Head(frames) \in Frame /\ Tail(frames) \in Seq(Frame)
      BY <2>2, HeadTailProperties DEF PictureTypes
    <3> QED
      BY <1>2, <2>2, <3>1, RenderRecords DEF RenderStream, PictureTypes, Show
  <2> QED
    BY <1>2, <2>1, <2>2 DEF RenderStream
<1>3. CASE RenderFirst
  <2>1. 0 \in 0..MaxTime
    BY Sizes
  <2> QED
    BY <1>3, <2>1, TakeTypes, RepeatTypes DEF RenderFirst, PictureTypes
<1>4. CASE RenderNext
  <2>1. PICK t \in {render.time, render.time + 1} \cap 0..MaxTime :
          /\ playbackTime' = t
          /\ \/ Take(t, TRUE)
             \/ Show(render.frame, TRUE, t) /\ UNCHANGED frames
    BY <1>4 DEF RenderNext
  <2>2. CASE Take(t, TRUE)
    BY <2>1, <2>2, TakeTypes DEF PictureTypes
  <2>3. CASE Show(render.frame, TRUE, t) /\ UNCHANGED frames
    BY <2>1, <2>3, RenderRecords DEF PictureTypes, Show
  <2> QED
    BY <2>1, <2>2, <2>3
<1> QED
  BY <1>1, <1>2, <1>3, <1>4 DEF RenderStep

\* Of the other threads only the decoder touches the frame queue.
LEMMA PushedByDecode ==
  IInv /\ Decode => UNCHANGED renderVars /\ \E f \in Frame : frames' = Pushed(frames, f)
<1> SUFFICES ASSUME IInv, Decode
             PROVE  UNCHANGED renderVars /\ \E f \in Frame : frames' = Pushed(frames, f)
  OBVIOUS
<1> DEFINE first == IF decoder.first < 0 THEN decoder.packet.pos ELSE decoder.first
           frame == [session |-> decoder.packet.session, pass |-> decoder.packet.pass,
                     pos |-> decoder.packet.pos, pts |-> decoder.packet.pos - first]
<1>1. frames' = Pushed(frames, frame) /\ UNCHANGED renderVars
  BY DEF Decode, decoderRest
<1>2. decoder.packet \in Packet
  BY DEF IInv, ThreadTypes, DecoderStates
<1>3. decoder.packet.pos - first \in 0..LastPos
  BY DecoderAlone
<1>4. frame \in Frame
  <2> HIDE DEF first
  <2> QED
    BY <1>2, <1>3 DEF Packet, Frame
<1> HIDE DEF frame
<1> QED
  BY <1>1, <1>4

LEMMA DecodeTypes == IInv /\ PictureTypes /\ Decode => PictureTypes'
  BY PushedByDecode, PushedFrame DEF PictureTypes, renderVars

\* The caller, the reader and most steps of the decoder leave the pictures alone.
LEMMA OthersTypes ==
  /\ CallerNext => UNCHANGED <<frames, renderVars>>
  /\ ReaderStep => UNCHANGED <<frames, renderVars>>
  /\ DecoderPop \/ DecoderWoken \/ DecodeNothing \/ Throttle => UNCHANGED <<frames, renderVars>>
<1>1. CallerNext => UNCHANGED <<frames, renderVars>>
  BY DEF CallerNext, CallerStep, Command, ClearRunning, StopPackets, JoinReader, JoinDecoder, Free,
     Open, Start, queueVars
<1>2. ReaderStep => UNCHANGED <<frames, renderVars>>
  BY DEF ReaderStep, ReaderExit, ReaderRead, ReaderPush, ReaderRewind, ReaderFlush, ReaderEnd
<1>3. DecoderPop \/ DecoderWoken \/ DecodeNothing \/ Throttle => UNCHANGED <<frames, renderVars>>
  BY DEF DecoderPop, DecoderWoken, DecodeNothing, Throttle, decoderRest
<1> QED
  BY <1>1, <1>2, <1>3

\* Every step keeps the types of frames and pictures.
LEMMA PictureStep == IInv /\ PictureTypes /\ [Next]_vars => PictureTypes'
<1> SUFFICES ASSUME IInv, PictureTypes, [Next]_vars PROVE PictureTypes'
  OBVIOUS
<1>1. CASE UNCHANGED <<frames, renderVars>>
  BY <1>1 DEF PictureTypes, renderVars
<1>2. CASE UNCHANGED vars
  BY <1>2 DEF PictureTypes, vars
<1> QED
  BY <1>1, <1>2, RenderTypes, DecodeTypes, OthersTypes DEF Next, CallerNext, DecoderStep

\* Every variable keeps its type; in particular no frame gets a negative
\* presentation time, although times are counted from the first frame decoded.
THEOREM TypeCorrect == Spec => []TypeOK
<1>1. Init => PictureTypes
  <2>1. NoFrame \in Frame /\ 0 \in 0..MaxTime
    BY RenderRecords, Sizes
  <2>2. Init => render \in RenderStates
    BY <2>1 DEF Init, RenderStates
  <2> QED
    BY <2>1, <2>2 DEF Init, PictureTypes
<1>2. IInv /\ PictureTypes => TypeOK
  BY DEF IInv, TypeOK
<1> QED
  BY <1>1, <1>2, AlwaysIInv, PictureStep, PTL DEF Spec
-----------------------------------------------------------------------------
(* The order of frames.                                                    *)

\* Newer than what is shown and than everything in the frame queue.
NewerThanFrames(x) ==
    Later(x, render.frame) /\ \A i \in DOMAIN frames : Later(x, frames[i])

FramesInOrder ==
    /\ \A i, j \in DOMAIN frames : i < j => Later(frames[j], frames[i])
    /\ \A i \in DOMAIN frames : Later(frames[i], render.frame)

DecodeInOrder ==
    decoder.pc = "decode" =>
        NewerThanFrames(decoder.packet) /\ decoder.packet.session = decoder.session

\* Flush signals carry no position.
QueueInOrder ==
    DecoderLive => \A i \in DOMAIN packets : packets[i].pos # -1 =>
        /\ NewerThanFrames(packets[i])
        /\ decoder.pc = "decode" => Later(packets[i], decoder.packet)
        /\ \A j \in DOMAIN packets : i < j /\ packets[j].pos # -1 => Later(packets[j], packets[i])

\* What the reader reads next.
ReadInOrder ==
    ReaderLive =>
        /\ NewerThanFrames(reader)
        /\ decoder.pc = "decode" => Later(reader, decoder.packet)
        /\ DecoderLive => \A i \in DOMAIN packets : packets[i].pos # -1 => Later(reader, packets[i])

NoFrameOf(s) == render.frame.session < s /\ \A i \in DOMAIN frames : frames[i].session < s

\* A context that was just opened has no frames yet.
SessionInv ==
    /\ context \in {0, session}
    /\ NoFrameOf(session + 1)
    /\ caller.pc = "start" => context = session /\ NoFrameOf(session)

OrderInv == FramesInOrder /\ DecodeInOrder /\ QueueInOrder /\ ReadInOrder /\ SessionInv

\* Packets, frames and the reader can be compared.
Stamp(x) == x.session \in Nat /\ x.pass \in Nat /\ x.pos \in Int

LEMMA LaterTrans ==
  ASSUME NEW x, NEW y, NEW z, Stamp(x), Stamp(y), Stamp(z), Later(x, y), Later(y, z)
  PROVE  Later(x, z)
  BY DEF Later, Stamp

LEMMA Stamps ==
  ASSUME IInv, PictureTypes
  PROVE  /\ Stamp(reader) /\ Stamp(decoder.packet) /\ Stamp(render.frame)
         /\ packets \in Seq(Packet) /\ DOMAIN packets = 1..Len(packets) /\ Len(packets) \in Nat
         /\ frames \in Seq(Frame) /\ DOMAIN frames = 1..Len(frames) /\ Len(frames) \in Nat
         /\ \A i \in DOMAIN packets : Stamp(packets[i])
         /\ \A i \in DOMAIN frames : Stamp(frames[i])
         /\ context \in Nat /\ session \in Nat
<1>0. /\ \A s \in Sessions : s \in Nat
      /\ \A p \in Passes : p \in Nat
      /\ \A n \in -1..LastPos : n \in Int
      /\ \A n \in 0..(LastPos + 1) : n \in Int
  BY Sizes DEF Sessions, Passes
<1>1. \A p \in Packet : Stamp(p)
  BY <1>0 DEF Packet, Stamp
<1>2. \A f \in Frame : Stamp(f)
  BY <1>0 DEF Frame, Stamp
<1>3. reader \in ReaderStates /\ decoder \in DecoderStates /\ render \in RenderStates
      /\ packets \in Seq(Packet) /\ frames \in Seq(Frame)
      /\ context \in Sessions /\ session \in Sessions
  BY DEF IInv, ThreadTypes, PictureTypes
<1>4. Stamp(reader)
  BY <1>0, <1>3 DEF ReaderStates, Stamp
<1>5. Stamp(decoder.packet) /\ Stamp(render.frame)
  BY <1>1, <1>2, <1>3 DEF DecoderStates, RenderStates
<1>6. \A i \in 1..Len(packets) : packets[i] \in Packet
  BY <1>3
<1>7. \A i \in 1..Len(frames) : frames[i] \in Frame
  BY <1>3
<1>8. context \in Nat /\ session \in Nat
  BY <1>0, <1>3
<1> QED
  BY <1>1, <1>2, <1>3, <1>4, <1>5, <1>6, <1>7, <1>8

\* The queue after a push.
LEMMA PushedIs ==
  ASSUME NEW q \in Seq(Frame), NEW f \in Frame
  PROVE  LET d == IF Len(q) >= Capacity THEN 1 ELSE 0
         IN  /\ Pushed(q, f) \in Seq(Frame) /\ Len(Pushed(q, f)) = Len(q) - d + 1
             /\ Len(q) - d \in Nat
             /\ Pushed(q, f)[Len(q) - d + 1] = f
             /\ \A k \in 1..(Len(q) - d) : Pushed(q, f)[k] = q[k + d] /\ k + d \in 1..Len(q)
<1>1. CASE Len(q) >= Capacity
  <2>1. q # <<>> /\ Len(q) \in Nat \ {0}
    BY <1>1, CapacityAssumption, EmptySeq
  <2>2. /\ Tail(q) \in Seq(Frame) /\ Len(Tail(q)) = Len(q) - 1
        /\ \A k \in 1..Len(Tail(q)) : Tail(q)[k] = q[k + 1]
    BY <2>1, HeadTailProperties
  <2>3. Pushed(q, f) = Append(Tail(q), f)
    BY <1>1 DEF Pushed
  <2>4. /\ Append(Tail(q), f) \in Seq(Frame) /\ Len(Append(Tail(q), f)) = Len(Tail(q)) + 1
        /\ Append(Tail(q), f)[Len(Tail(q)) + 1] = f
        /\ \A k \in 1..Len(Tail(q)) : Append(Tail(q), f)[k] = Tail(q)[k]
    BY <2>2
  <2> QED
    BY <1>1, <2>1, <2>2, <2>3, <2>4
<1>2. CASE ~(Len(q) >= Capacity)
  <2>1. Pushed(q, f) = Append(q, f)
    BY <1>2 DEF Pushed
  <2> QED
    BY <1>2, <2>1
<1> QED
  BY <1>1, <1>2

\* A step of the render loop takes nothing, or the frame at some i with the older ones.
Taken(i) ==
    /\ i \in 1..Len(frames) /\ render'.frame = frames[i]
    /\ Len(frames') = Len(frames) - i
    /\ \A k \in 1..Len(frames') : frames'[k] = frames[k + i]

LEMMA AfterIs ==
  ASSUME NEW q \in Seq(Frame), NEW i \in 1..Len(q)
  PROVE  /\ Len(After(q, i)) = Len(q) - i
         /\ \A k \in 1..Len(After(q, i)) : After(q, i)[k] = q[k + i]
<1>1. i \in 1..Len(q) /\ Len(q) \in Nat
  OBVIOUS
<1>2. \A j \in (i + 1)..Len(q) : q[j] \in Frame
  BY <1>1
<1>3. /\ Len(SubSeq(q, i + 1, Len(q))) = IF i + 1 <= Len(q) THEN Len(q) - (i + 1) + 1 ELSE 0
      /\ \A k \in 1..(Len(q) - (i + 1) + 1) : SubSeq(q, i + 1, Len(q))[k] = q[(i + 1) + k - 1]
  BY <1>1, <1>2, SubSeqProperties
<1>4. Len(After(q, i)) = Len(q) - i
  BY <1>1, <1>3 DEF After
<1>5. ASSUME NEW k \in 1..(Len(q) - i) PROVE After(q, i)[k] = q[k + i]
  <2>1. k \in 1..(Len(q) - (i + 1) + 1) /\ (i + 1) + k - 1 = k + i
    BY <1>1
  <2> QED
    BY <1>3, <2>1 DEF After
<1> QED
  BY <1>4, <1>5

LEMMA RenderTakes ==
  ASSUME IInv, PictureTypes, RenderStep
  PROVE  UNCHANGED <<frames, render.frame>> \/ \E i \in DOMAIN frames : Taken(i)
<1>0. /\ frames \in Seq(Frame) /\ DOMAIN frames = 1..Len(frames) /\ Len(frames) \in Nat
      /\ render \in RenderStates
  BY Stamps DEF PictureTypes
<1>1. ASSUME NEW t \in 0..MaxTime, NEW b \in BOOLEAN, Take(t, b)
      PROVE  \E i \in DOMAIN frames : Taken(i)
  <2>1. Best(frames, t) \in DOMAIN frames
    BY <1>0, <1>1, BestIsDue, Sizes DEF Take, Due
  <2>2. frames' = After(frames, Best(frames, t)) /\ render'.frame = frames[Best(frames, t)]
    BY <1>1 DEF Take, Show
  <2> QED
    BY <1>0, <2>1, <2>2, AfterIs DEF Taken
<1>2. CASE RenderCheck
  BY <1>0, <1>2 DEF RenderCheck, RenderStates
<1>3. CASE RenderStream
  <2>1. CASE Repeat
    BY <2>1 DEF Repeat, Show
  <2>2. CASE frames # <<>> /\ Show(Head(frames), render.started, render.time)
             /\ frames' = Tail(frames)
    <3>1. /\ Head(frames) = frames[1] /\ Len(Tail(frames)) = Len(frames) - 1 /\ 1 \in 1..Len(frames)
          /\ \A k \in 1..Len(Tail(frames)) : Tail(frames)[k] = frames[k + 1]
      BY <1>0, <2>2, HeadTailProperties, EmptySeq
    <3>2. render'.frame = Head(frames)
      BY <2>2 DEF Show
    <3>3. Taken(1)
      BY <2>2, <3>1, <3>2 DEF Taken
    <3> QED
      BY <1>0, <3>1, <3>3
  <2> QED
    BY <1>3, <2>1, <2>2 DEF RenderStream
<1>4. CASE RenderFirst
  <2>1. 0 \in 0..MaxTime
    BY Sizes
  <2>2. CASE Repeat
    BY <2>2 DEF Repeat, Show
  <2> QED
    BY <1>1, <1>4, <2>1, <2>2 DEF RenderFirst
<1>5. CASE RenderNext
  <2>1. PICK t \in {render.time, render.time + 1} \cap 0..MaxTime :
          \/ Take(t, TRUE)
          \/ Show(render.frame, TRUE, t) /\ UNCHANGED frames
    BY <1>5 DEF RenderNext
  <2>2. CASE Take(t, TRUE)
    BY <1>1, <2>1, <2>2
  <2>3. CASE Show(render.frame, TRUE, t) /\ UNCHANGED frames
    BY <2>3 DEF Show
  <2> QED
    BY <2>1, <2>2, <2>3
<1> QED
  BY <1>2, <1>3, <1>4, <1>5 DEF RenderStep

\* Nothing that was newer than the frames becomes older when the loop takes one.
LEMMA TakeNewer ==
  ASSUME IInv, PictureTypes, frames' \in Seq(Frame), FramesInOrder, NEW i, Taken(i)
  PROVE  FramesInOrder' /\ \A x : NewerThanFrames(x) => NewerThanFrames(x)'
<1>1. /\ i \in 1..Len(frames) /\ render'.frame = frames[i]
      /\ DOMAIN frames = 1..Len(frames) /\ Len(frames) \in Nat
      /\ DOMAIN frames' = 1..Len(frames') /\ Len(frames') = Len(frames) - i
      /\ \A k \in 1..Len(frames') : frames'[k] = frames[k + i]
  BY Stamps DEF Taken
<1>2. \A k \in 1..Len(frames') : k + i \in 1..Len(frames) /\ i < k + i
  BY <1>1
<1>3. FramesInOrder'
  <2>1. ASSUME NEW j \in 1..Len(frames'), NEW k \in 1..Len(frames'), j < k
        PROVE  Later(frames'[k], frames'[j])
    <3>1. j + i < k + i
      BY <1>1, <2>1
    <3> QED
      BY <1>1, <1>2, <3>1 DEF FramesInOrder
  <2> QED
    BY <1>1, <1>2, <2>1 DEF FramesInOrder
<1>4. ASSUME NEW x, NewerThanFrames(x) PROVE NewerThanFrames(x)'
  BY <1>1, <1>2, <1>4 DEF NewerThanFrames
<1> QED
  BY <1>3, <1>4

\* The render loop keeps the order.
LEMMA RenderOrders ==
  ASSUME IInv, PictureTypes, PictureTypes', OrderInv, RenderStep
  PROVE  OrderInv'
<1>1. UNCHANGED threadVars
  BY RenderStutters
<1>2. FramesInOrder' /\ \A x : NewerThanFrames(x) => NewerThanFrames(x)'
  <2>1. CASE UNCHANGED <<frames, render.frame>>
    BY <2>1 DEF OrderInv, FramesInOrder, NewerThanFrames
  <2>2. CASE \E i \in DOMAIN frames : Taken(i)
    BY <2>2, TakeNewer DEF OrderInv, PictureTypes
  <2> QED
    BY <2>1, <2>2, RenderTakes
<1>3. \A s : NoFrameOf(s) => NoFrameOf(s)'
  <2>1. CASE UNCHANGED <<frames, render.frame>>
    BY <2>1 DEF NoFrameOf
  <2>2. CASE \E i \in DOMAIN frames : Taken(i)
    <3>1. PICK i \in DOMAIN frames : Taken(i)
      BY <2>2
    <3>2. /\ DOMAIN frames = 1..Len(frames) /\ Len(frames) \in Nat
          /\ DOMAIN frames' = 1..Len(frames') /\ i \in 1..Len(frames)
          /\ \A k \in 1..Len(frames') : frames'[k] = frames[k + i] /\ k + i \in 1..Len(frames)
      BY <3>1, Stamps DEF PictureTypes, Taken
    <3> QED
      BY <3>1, <3>2 DEF NoFrameOf, Taken
  <2> QED
    BY <2>1, <2>2, RenderTakes
<1>4. DecodeInOrder'
  BY <1>1, <1>2 DEF OrderInv, DecodeInOrder, threadVars
<1>5. QueueInOrder'
  BY <1>1, <1>2 DEF OrderInv, QueueInOrder, DecoderLive, threadVars
<1>6. ReadInOrder'
  BY <1>1, <1>2 DEF OrderInv, ReadInOrder, DecoderLive, ReaderLive, threadVars
<1>7. SessionInv'
  BY <1>1, <1>3 DEF OrderInv, SessionInv, threadVars
<1> QED
  BY <1>2, <1>4, <1>5, <1>6, <1>7 DEF OrderInv

\* What is behind the decoder's packet is newer than the frame made of it.
LEMMA PushNewer ==
  ASSUME IInv, PictureTypes, OrderInv, UNCHANGED <<render, session>>, decoder.pc = "decode",
         NEW f \in Frame, frames' = Pushed(frames, f),
         f.session = decoder.packet.session, f.pass = decoder.packet.pass,
         f.pos = decoder.packet.pos
  PROVE  /\ FramesInOrder'
         /\ \A x : NewerThanFrames(x) /\ Later(x, decoder.packet) => NewerThanFrames(x)'
         /\ NoFrameOf(session + 1)'
<1> DEFINE d == IF Len(frames) >= Capacity THEN 1 ELSE 0
           last == Len(frames) - d + 1
<1>1. /\ DOMAIN frames = 1..Len(frames) /\ Len(frames) \in Nat /\ frames \in Seq(Frame)
      /\ frames' \in Seq(Frame) /\ DOMAIN frames' = 1..last /\ last \in Nat \ {0}
      /\ frames'[last] = f
      /\ \A k \in 1..last : k # last => frames'[k] = frames[k + d] /\ k + d \in 1..Len(frames)
  <2>1. /\ DOMAIN frames = 1..Len(frames) /\ Len(frames) \in Nat /\ frames \in Seq(Frame)
    BY Stamps
  <2>2. /\ Pushed(frames, f) \in Seq(Frame) /\ Len(Pushed(frames, f)) = Len(frames) - d + 1
        /\ Len(frames) - d \in Nat
        /\ Pushed(frames, f)[Len(frames) - d + 1] = f
        /\ \A k \in 1..(Len(frames) - d) :
             Pushed(frames, f)[k] = frames[k + d] /\ k + d \in 1..Len(frames)
    BY <2>1, PushedIs
  <2> HIDE DEF d
  <2>3. frames' = Pushed(frames, f) /\ DOMAIN frames' = 1..Len(frames')
    BY <2>2
  <2> QED
    BY <2>1, <2>2, <2>3
<1>d. d \in Int
  OBVIOUS
<1>2. \A x : Later(x, f) <=> Later(x, decoder.packet)
  BY DEF Later
<1>3. \A x : Later(f, x) <=> Later(decoder.packet, x)
  BY DEF Later
<1>4. NewerThanFrames(decoder.packet)
  BY DEF OrderInv, DecodeInOrder
<1> HIDE DEF d, last
<1>5. FramesInOrder'
  <2>1. ASSUME NEW j \in 1..last, NEW k \in 1..last, j < k
        PROVE  Later(frames'[k], frames'[j])
    <3>1. j # last /\ frames'[j] = frames[j + d] /\ j + d \in 1..Len(frames)
      BY <1>1, <2>1
    <3>2. CASE k = last
      BY <1>1, <1>3, <1>4, <3>1, <3>2 DEF NewerThanFrames
    <3>3. CASE k # last
      <4>1. frames'[k] = frames[k + d] /\ k + d \in 1..Len(frames) /\ j + d < k + d
        BY <1>1, <1>d, <2>1, <3>3
      <4> QED
        BY <1>1, <3>1, <4>1 DEF OrderInv, FramesInOrder
    <3> QED
      BY <3>2, <3>3
  <2>2. ASSUME NEW k \in 1..last PROVE Later(frames'[k], render.frame)
    <3>1. CASE k = last
      BY <1>1, <1>3, <1>4, <3>1 DEF NewerThanFrames
    <3>2. CASE k # last
      BY <1>1, <3>2 DEF OrderInv, FramesInOrder
    <3> QED
      BY <3>1, <3>2
  <2> QED
    BY <1>1, <2>1, <2>2 DEF FramesInOrder
<1>6. ASSUME NEW x, NewerThanFrames(x), Later(x, decoder.packet) PROVE NewerThanFrames(x)'
  <2>1. ASSUME NEW k \in 1..last PROVE Later(x, frames'[k])
    <3>1. CASE k = last
      BY <1>1, <1>2, <1>6, <3>1
    <3>2. CASE k # last
      BY <1>1, <1>6, <3>2 DEF NewerThanFrames
    <3> QED
      BY <3>1, <3>2
  <2> QED
    BY <1>1, <1>6, <2>1 DEF NewerThanFrames
<1>7. decoder.packet.session \in Nat /\ decoder.packet.session < session + 1
  <2>1. decoder.packet.session = context /\ context \in {0, session} /\ session \in Nat
    BY Stamps DEF OrderInv, DecodeInOrder, SessionInv, IInv, ContextOutlivesThreads, DecoderLive
  <2> QED
    BY <2>1
<1>8. \A k \in 1..last : frames'[k].session < session + 1
  <2>1. \A k \in DOMAIN frames : frames[k].session < session + 1
    BY DEF OrderInv, SessionInv, NoFrameOf
  <2> QED
    BY <1>1, <1>7, <2>1
<1>9. render'.frame.session < session + 1
  BY DEF OrderInv, SessionInv, NoFrameOf
<1> QED
  BY <1>1, <1>5, <1>6, <1>8, <1>9 DEF NoFrameOf

\* The decoder's other steps leave frames and packets alone and end a decode.
LEMMA DecoderOrders ==
  ASSUME IInv, PictureTypes, OrderInv, DecoderStep
  PROVE  OrderInv'
<1>0. decoder \in DecoderStates /\ Loop \in {"pop", "done"}
  BY DEF IInv, ThreadTypes, Loop
<1>1. CASE DecoderWoken \/ DecodeNothing \/ Throttle
  <2>1. /\ UNCHANGED <<caller, context, session, reader, packets, frames, render>>
        /\ DecoderLive /\ decoder'.pc # "decode" /\ decoder'.session = decoder.session
    BY <1>0, <1>1 DEF DecoderWoken, DecodeNothing, Throttle, OnFlush, decoderRest, callVars,
       renderVars, DecoderLive, DecoderStates
  <2> QED
    BY <2>1 DEF OrderInv, FramesInOrder, DecodeInOrder, QueueInOrder, ReadInOrder, SessionInv,
       NewerThanFrames, NoFrameOf, ReaderLive
<1>2. CASE DecoderPop
  <2>1. /\ UNCHANGED <<caller, context, session, reader, frames, render>>
        /\ DecoderLive /\ packets # <<>> /\ packets' = Tail(packets) /\ decoder.pc = "pop"
    BY <1>2 DEF DecoderPop, decoderRest, callVars, renderVars, DecoderLive
  <2>2. /\ DOMAIN packets = 1..Len(packets) /\ 1 \in 1..Len(packets) /\ Len(packets) \in Nat
        /\ Head(packets) = packets[1]
        /\ DOMAIN packets' = 1..(Len(packets) - 1)
        /\ \A i \in DOMAIN packets' : packets'[i] = packets[i + 1] /\ i + 1 \in DOMAIN packets
    <3>1. packets \in Seq(Packet) /\ DOMAIN packets = 1..Len(packets) /\ Len(packets) \in Nat
      BY Stamps
    <3>2. /\ Tail(packets) \in Seq(Packet) /\ Len(Tail(packets)) = Len(packets) - 1
          /\ \A i \in 1..Len(Tail(packets)) : Tail(packets)[i] = packets[i + 1]
          /\ Head(packets) = packets[1]
      BY <2>1, <3>1, HeadTailProperties
    <3>3. Len(packets) # 0
      BY <2>1, <3>1, EmptySeq
    <3> QED
      BY <2>1, <3>1, <3>2, <3>3
  <2>3. FramesInOrder' /\ SessionInv'
    BY <2>1 DEF OrderInv, FramesInOrder, SessionInv, NoFrameOf
  <2>4. \A x : NewerThanFrames(x) => NewerThanFrames(x)'
    BY <2>1 DEF NewerThanFrames
  <2>5. \A i, j \in DOMAIN packets' : i < j => i + 1 < j + 1
    BY <2>2
  <2>6. \A i \in DOMAIN packets' : 1 < i + 1
    BY <2>2
  <2>7. CASE packets[1].pos = -1
    <3>1. decoder'.pc # "decode" /\ decoder'.session = decoder.session
      BY <1>0, <1>2, <2>2, <2>7 DEF DecoderPop, OnFlush, DecoderStates
    <3>2. QueueInOrder'
      BY <2>1, <2>2, <2>4, <2>5, <3>1 DEF OrderInv, QueueInOrder
    <3>3. ReadInOrder' /\ DecodeInOrder'
      BY <2>1, <2>2, <2>4, <3>1 DEF OrderInv, ReadInOrder, DecodeInOrder, ReaderLive
    <3> QED
      BY <2>3, <3>2, <3>3 DEF OrderInv
  <2>8. CASE packets[1].pos # -1
    <3>1. decoder'.pc = "decode" /\ decoder'.session = decoder.session /\ decoder'.packet = packets[1]
      BY <1>0, <1>2, <2>2, <2>8 DEF DecoderPop, DecoderStates
    <3>2. DecodeInOrder'
      <4>1. NewerThanFrames(packets[1])
        BY <2>1, <2>2, <2>8 DEF OrderInv, QueueInOrder
      <4>2. packets[1].session = decoder.session
        BY <2>1, <2>2 DEF IInv, PacketsOfLiveSession
      <4> QED
        BY <2>1, <3>1, <4>1, <4>2 DEF DecodeInOrder, NewerThanFrames
    <3>3. QueueInOrder'
      BY <2>1, <2>2, <2>4, <2>5, <2>6, <2>8, <3>1 DEF OrderInv, QueueInOrder
    <3>4. ReadInOrder'
      BY <2>1, <2>2, <2>4, <2>8, <3>1 DEF OrderInv, ReadInOrder, ReaderLive
    <3> QED
      BY <2>3, <3>2, <3>3, <3>4 DEF OrderInv
  <2> QED
    BY <2>7, <2>8
<1>3. CASE Decode
  <2> DEFINE first == IF decoder.first < 0 THEN decoder.packet.pos ELSE decoder.first
             frame == [session |-> decoder.packet.session, pass |-> decoder.packet.pass,
                       pos |-> decoder.packet.pos, pts |-> decoder.packet.pos - first]
  <2>1. /\ frames' = Pushed(frames, frame)
        /\ UNCHANGED <<caller, context, session, reader, packets, render>>
        /\ decoder.pc = "decode" /\ decoder'.pc # "decode"
    BY <1>0, <1>3 DEF Decode, decoderRest, callVars, renderVars, DecoderStates
  <2>2. frame \in Frame
    <3>1. decoder.packet \in Packet /\ decoder.packet.pos - first \in 0..LastPos
      BY <1>3, DecoderAlone DEF IInv, ThreadTypes, DecoderStates
    <3> HIDE DEF first
    <3> QED
      BY <3>1 DEF Packet, Frame
  <2>3. /\ frame.session = decoder.packet.session /\ frame.pass = decoder.packet.pass
        /\ frame.pos = decoder.packet.pos
    OBVIOUS
  <2> HIDE DEF frame
  <2>4. /\ FramesInOrder'
        /\ \A x : NewerThanFrames(x) /\ Later(x, decoder.packet) => NewerThanFrames(x)'
        /\ NoFrameOf(session + 1)'
    BY <2>1, <2>2, <2>3, PushNewer
  <2>5. DecoderLive /\ caller.pc # "start"
    BY <2>1 DEF DecoderLive, IInv, CallerInv
  <2>6. SessionInv' /\ DecodeInOrder'
    BY <2>1, <2>4, <2>5 DEF OrderInv, SessionInv, DecodeInOrder
  <2>7. QueueInOrder'
    BY <2>1, <2>4, <2>5 DEF OrderInv, QueueInOrder
  <2>8. ReadInOrder'
    BY <2>1, <2>4, <2>5 DEF OrderInv, ReadInOrder, ReaderLive
  <2> QED
    BY <2>4, <2>6, <2>7, <2>8 DEF OrderInv
<1> QED
  BY <1>1, <1>2, <1>3 DEF DecoderStep

\* The reader advances: what came after its position, comes after the new one.
LEMMA ReaderOrders ==
  ASSUME IInv, PictureTypes, OrderInv, ReaderStep
  PROVE  OrderInv'
<1>0. /\ UNCHANGED <<caller, context, session, decoder, frames, render>>
      /\ reader \in ReaderStates /\ Stamp(reader) /\ ReaderLive /\ reader.pos \in Nat
  BY Stamps, Sizes DEF ReaderStep, ReaderExit, ReaderRead, ReaderPush, ReaderRewind, ReaderFlush,
     ReaderEnd, callVars, renderVars, ReaderLive, IInv, ThreadTypes, ReaderStates
<1>1. FramesInOrder' /\ DecodeInOrder' /\ SessionInv'
  BY <1>0 DEF OrderInv, FramesInOrder, DecodeInOrder, SessionInv, NoFrameOf, NewerThanFrames
<1>2. CASE ReaderExit \/ ReaderRead \/ ReaderRewind \/ ReaderEnd
  <2>1. /\ reader'.session = reader.session /\ reader'.pass = reader.pass
        /\ reader'.pos = reader.pos /\ packets' = packets
    BY <1>0, <1>2 DEF ReaderExit, ReaderRead, ReaderRewind, ReaderEnd, ReaderStates
  <2>3. QueueInOrder' /\ ReadInOrder'
    BY <1>0, <2>1 DEF OrderInv, QueueInOrder, ReadInOrder, NewerThanFrames, DecoderLive, Later
  <2> QED
    BY <1>1, <2>3 DEF OrderInv
<1>3. CASE ReaderPush \/ ReaderFlush
  <2> DEFINE p == IF reader.pc = "push"
                  THEN [session |-> reader.session, pass |-> reader.pass, pos |-> reader.pos]
                  ELSE Flush(reader.session)
  <2>1. /\ packets' = packets \/ packets' = Append(packets, p)
        /\ p \in Packet
        /\ p.pos # -1 => \A x : Later(reader, x) => Later(p, x)
    <3>1. CASE ReaderPush
      BY <1>0, <3>1, ReadPacket DEF ReaderPush, IInv, ReaderInv, Later
    <3>2. CASE ReaderFlush
      BY <1>0, <3>2, Constants DEF ReaderFlush, ReaderStates
    <3> QED
      BY <1>3, <3>1, <3>2
  <2>2. /\ \A x : Stamp(x) /\ Later(reader, x) => Later(reader', x)
        /\ p.pos # -1 => Later(reader', p)
    <3>1. CASE ReaderPush
      <4>1. /\ reader'.session = reader.session /\ reader'.pass = reader.pass
            /\ reader'.pos = reader.pos + 1
            /\ p.session = reader.session /\ p.pass = reader.pass /\ p.pos = reader.pos
        BY <1>0, <3>1 DEF ReaderPush, ReaderStates
      <4> HIDE DEF p
      <4> QED
        BY <1>0, <4>1 DEF Later, Stamp
    <3>2. CASE ReaderFlush
      <4>1. reader'.session = reader.session /\ reader'.pass = reader.pass + 1
            /\ p.pos = -1
        BY <1>0, <3>2 DEF ReaderFlush, ReaderStates, Flush
      <4> HIDE DEF p
      <4> QED
        BY <1>0, <4>1 DEF Later, Stamp
    <3> QED
      BY <1>3, <3>1, <3>2
  <2> HIDE DEF p
  <2>3. /\ DOMAIN packets = 1..Len(packets) /\ Len(packets) \in Nat
        /\ \A i \in DOMAIN packets : Stamp(packets[i])
        /\ \A i \in DOMAIN frames : Stamp(frames[i])
        /\ Stamp(render.frame) /\ Stamp(decoder.packet)
    BY Stamps
  <2>4. \A i \in DOMAIN packets' : \/ i \in DOMAIN packets /\ packets'[i] = packets[i]
                                   \/ i = Len(packets) + 1 /\ packets'[i] = p
    <3>1. CASE packets' = packets
      BY <3>1
    <3>2. CASE packets' = Append(packets, p)
      <4>1. packets \in Seq(Packet)
        BY Stamps
      <4>2. /\ Append(packets, p) \in Seq(Packet) /\ Len(Append(packets, p)) = Len(packets) + 1
            /\ \A i \in 1..Len(packets) : Append(packets, p)[i] = packets[i]
            /\ Append(packets, p)[Len(packets) + 1] = p
        BY <2>1, <4>1, AppendPacket
      <4>3. DOMAIN Append(packets, p) = 1..(Len(packets) + 1)
        BY <4>2
      <4> QED
        BY <2>3, <3>2, <4>2, <4>3
    <3> QED
      BY <2>1, <3>1, <3>2
  <2>5. ReadInOrder'
    <3>1. NewerThanFrames(reader)'
      BY <1>0, <2>2, <2>3 DEF OrderInv, ReadInOrder, NewerThanFrames
    <3>2. decoder.pc = "decode" => Later(reader', decoder.packet)
      BY <1>0, <2>2, <2>3 DEF OrderInv, ReadInOrder
    <3>3. DecoderLive => \A i \in DOMAIN packets' : packets'[i].pos # -1 => Later(reader', packets'[i])
      BY <1>0, <2>2, <2>3, <2>4 DEF OrderInv, ReadInOrder
    <3> QED
      BY <1>0, <3>1, <3>2, <3>3 DEF ReadInOrder, DecoderLive
  <2>6. QueueInOrder'
    <3> SUFFICES ASSUME DecoderLive', NEW i \in DOMAIN packets', packets'[i].pos # -1
                 PROVE  /\ NewerThanFrames(packets[i])'
                        /\ decoder'.pc = "decode" => Later(packets'[i], decoder'.packet)
                        /\ \A j \in DOMAIN packets' : i < j /\ packets'[j].pos # -1
                             => Later(packets'[j], packets'[i])
      BY DEF QueueInOrder
    <3>0. DecoderLive /\ decoder' = decoder
      BY <1>0 DEF DecoderLive
    <3>1. CASE i \in DOMAIN packets /\ packets'[i] = packets[i]
      <4>1. NewerThanFrames(packets[i]) /\ (decoder.pc = "decode" => Later(packets[i], decoder.packet))
        BY <3>0, <3>1 DEF OrderInv, QueueInOrder
      <4>2. ASSUME NEW j \in DOMAIN packets', i < j, packets'[j].pos # -1
            PROVE  Later(packets'[j], packets[i])
        <5>1. CASE j \in DOMAIN packets /\ packets'[j] = packets[j]
          BY <3>0, <3>1, <4>2, <5>1 DEF OrderInv, QueueInOrder
        <5>2. CASE packets'[j] = p
          BY <1>0, <2>1, <3>0, <3>1, <4>2, <5>2 DEF OrderInv, ReadInOrder
        <5> QED
          BY <2>4, <5>1, <5>2
      <4> QED
        BY <1>0, <3>0, <3>1, <4>1, <4>2 DEF NewerThanFrames
    <3>2. CASE i = Len(packets) + 1 /\ packets'[i] = p
      <4>1. NewerThanFrames(p) /\ (decoder.pc = "decode" => Later(p, decoder.packet))
        BY <1>0, <2>1, <3>2 DEF OrderInv, ReadInOrder, NewerThanFrames
      <4>2. \A j \in DOMAIN packets' : ~(i < j)
        BY <2>3, <2>4, <3>2
      <4> QED
        BY <1>0, <3>0, <3>2, <4>1, <4>2 DEF NewerThanFrames
    <3> QED
      BY <2>4, <3>1, <3>2
  <2> QED
    BY <1>1, <2>5, <2>6 DEF OrderInv
<1> QED
  BY <1>2, <1>3 DEF ReaderStep

\* A new session's reader is newer than all there is.
LEMMA CallerOrders ==
  ASSUME IInv, PictureTypes, OrderInv, CallerNext
  PROVE  OrderInv'
<1>0. UNCHANGED <<frames, render>>
  BY OthersTypes DEF renderVars
<1>1. FramesInOrder'
  BY <1>0 DEF OrderInv, FramesInOrder
<1>2. SessionInv'
  <2>0. session \in Nat /\ context \in Nat
    BY Stamps
  <2>1. \A s : NoFrameOf(s) => NoFrameOf(s)'
    BY <1>0 DEF NoFrameOf
  <2>2. CASE UNCHANGED session /\ context' \in {0, context} /\ caller'.pc # "start"
    BY <2>1, <2>2 DEF OrderInv, SessionInv
  <2>3. CASE session' = session + 1 /\ context' = session + 1
    <3>1. /\ render'.frame.session \in Nat /\ render'.frame.session < session + 1
          /\ \A i \in DOMAIN frames' : frames'[i].session \in Nat /\ frames'[i].session < session + 1
      BY <1>0, Stamps DEF Stamp, OrderInv, SessionInv, NoFrameOf
    <3>2. /\ render'.frame.session < session' /\ render'.frame.session < session' + 1
          /\ \A i \in DOMAIN frames' : frames'[i].session < session' /\ frames'[i].session < session' + 1
      BY <2>0, <2>3, <3>1
    <3> QED
      BY <2>3, <3>2 DEF SessionInv, NoFrameOf
  <2>4. \A pc : Goto(pc) => caller'.pc = pc
    BY DEF Goto, IInv, ThreadTypes, CallerStates
  <2>5. Done => caller'.pc = "idle"
    BY DEF Done, Idle
  <2>6. CASE CallerStep
    <3>1. CASE JoinDecoder
      <4>1. caller'.pc \in {"free", "clearRunning"} /\ UNCHANGED <<session, context>>
        BY <3>1, <2>4 DEF JoinDecoder, AfterStop, IInv, ThreadTypes, CallerStates
      <4> QED
        BY <2>2, <4>1
    <3>2. CASE Open
      BY <2>2, <2>3, <2>5, <3>2 DEF Open
    <3> QED
      BY <2>2, <2>4, <2>5, <2>6, <3>1, <3>2 DEF CallerStep, ClearRunning, StopPackets, JoinReader,
         Free, Start
  <2>7. CASE \E play \in BOOLEAN : Command(play)
    BY <2>2, <2>7 DEF Command
  <2> QED
    BY <2>6, <2>7 DEF CallerNext
<1>3. CASE UNCHANGED <<reader, decoder, packets>>
  BY <1>0, <1>1, <1>2, <1>3 DEF OrderInv, DecodeInOrder, QueueInOrder, ReadInOrder, NewerThanFrames,
     DecoderLive, ReaderLive
<1>4. CASE StopPackets
  <2>1. UNCHANGED <<reader, decoder>> /\ packets' = <<>>
    BY <1>4 DEF StopPackets, Emptied
  <2> QED
    BY <1>0, <1>1, <1>2, <2>1 DEF OrderInv, DecodeInOrder, QueueInOrder, ReadInOrder, NewerThanFrames,
       DecoderLive, ReaderLive
<1>5. CASE JoinReader
  <2>1. UNCHANGED <<packets, decoder>> /\ ~ReaderLive'
    BY <1>5 DEF JoinReader, NoReader, ReaderLive
  <2> QED
    BY <1>0, <1>1, <1>2, <2>1 DEF OrderInv, DecodeInOrder, QueueInOrder, ReadInOrder, NewerThanFrames,
       DecoderLive
<1>6. CASE JoinDecoder
  <2>1. UNCHANGED <<packets, reader>> /\ ~DecoderLive' /\ decoder'.pc # "decode"
    BY <1>6 DEF JoinDecoder, NoDecoder, DecoderLive
  <2> QED
    BY <1>0, <1>1, <1>2, <2>1 DEF OrderInv, DecodeInOrder, QueueInOrder, ReadInOrder, NewerThanFrames,
       ReaderLive
<1>7. CASE Start /\ context # 0 /\ ~running
  <2>1. /\ packets' = <<>> /\ decoder'.pc = "pop"
        /\ reader'.session = context
    <3>1. /\ packets' = <<>> /\ decoder' = [NoDecoder EXCEPT !.pc = "pop", !.session = context]
          /\ reader' = [pc |-> "read", session |-> context, pass |-> 0, pos |-> 0]
      BY <1>7 DEF Start, Emptied
    <3> QED
      BY <3>1 DEF NoDecoder
  <2>3. context = session /\ NoFrameOf(session)
    BY <1>7 DEF Start, OrderInv, SessionInv
  <2>2. NewerThanFrames(reader)'
    BY <1>0, <2>1, <2>3, Stamps DEF NewerThanFrames, NoFrameOf, Later, Stamp
  <2> QED
    BY <1>1, <1>2, <2>1, <2>2 DEF OrderInv, DecodeInOrder, QueueInOrder, ReadInOrder
<1> QED
  BY <1>3, <1>4, <1>5, <1>6, <1>7 DEF CallerNext, CallerStep, Command, ClearRunning, Free, Open,
     Start, queueVars

\* Every step keeps the order.
LEMMA OrderStep == IInv /\ PictureTypes /\ OrderInv /\ [Next]_vars => OrderInv'
<1> SUFFICES ASSUME IInv, PictureTypes, OrderInv, [Next]_vars PROVE OrderInv'
  OBVIOUS
<1>1. CASE UNCHANGED vars
  BY <1>1 DEF vars, OrderInv, FramesInOrder, DecodeInOrder, QueueInOrder, ReadInOrder, SessionInv,
     NewerThanFrames, NoFrameOf, DecoderLive, ReaderLive
<1>2. CASE RenderStep
  BY <1>2, PictureStep, RenderOrders DEF Next
<1> QED
  BY <1>1, <1>2, CallerOrders, ReaderOrders, DecoderOrders DEF Next, CallerNext

\* Nothing is shown, queued or read yet.
LEMMA InitOrder == Init => PictureTypes /\ OrderInv
<1>1. Init => PictureTypes
  <2>1. NoFrame \in Frame /\ 0 \in 0..MaxTime
    BY RenderRecords, Sizes
  <2>2. Init => render \in RenderStates
    BY <2>1 DEF Init, RenderStates
  <2> QED
    BY <2>1, <2>2 DEF Init, PictureTypes
<1>2. Init => OrderInv
  BY DEF Init, OrderInv, FramesInOrder, DecodeInOrder, QueueInOrder, ReadInOrder, SessionInv,
     NoFrameOf, DecoderLive, ReaderLive, NoReader, NoDecoder, NoFrame, Idle
<1> QED
  BY <1>1, <1>2

\* What is shown only moves forward, through all sessions, rewinds and stops:
\* the frame queue and the clock, which no session resets, never bring back an
\* older frame.
THEOREM ShownInOrder == Spec => NeverShowsOlderFrame
<1>2. IInv /\ PictureTypes /\ OrderInv /\ [Next]_vars
      => [Later(render'.frame, render.frame)]_(render.frame)
  <2> SUFFICES ASSUME IInv, PictureTypes, OrderInv, [Next]_vars, render'.frame # render.frame
               PROVE  Later(render'.frame, render.frame)
    OBVIOUS
  <2>1. RenderStep
    BY OthersTypes DEF vars, Next, CallerNext, DecoderStep, renderVars, Decode, decoderRest
  <2>2. PICK i \in DOMAIN frames : Taken(i)
    BY <2>1, RenderTakes
  <2> QED
    BY <2>2 DEF Taken, OrderInv, FramesInOrder
<1> QED
  BY InitOrder, <1>2, AlwaysIInv, PictureStep, OrderStep, PTL DEF Spec, NeverShowsOlderFrame
-----------------------------------------------------------------------------
(* The frames that a full queue loses. *)

\* Until the first session starts there is nothing to show.
Unstarted ==
    session = 0 \/ (session = 1 /\ caller.pc = "start") =>
        /\ frames = <<>> /\ playbackTime = 0 /\ render.time = 0
        /\ ~active /\ render.pc = "check"

\* In the first session the playback time is the media clock and never falls.
Clock == session <= 1 /\ (active \/ render.pc = "frame") => render.time = playbackTime
Stopwatch == ~render.started => render.time = 0

\* Behind a flush signal there is only a later pass.
FlushSplits ==
    DecoderLive => \A i \in DOMAIN packets : packets[i].pos = -1 =>
        /\ \A j \in DOMAIN packets : i < j /\ packets[j].pos # -1 => packets[j].pass > 0
        /\ ReaderLive => reader.pass > 0

\* The decoder still has something of its first pass to come.
PassZeroAhead ==
    \/ decoder.pc = "decode" /\ decoder.packet.pass = 0
    \/ \E i \in DOMAIN packets : packets[i].pos # -1 /\ packets[i].pass = 0
    \/ ReaderLive /\ reader.pass = 0

\* Until then the frames are at least one apart, up to where the throttle is.
Limit == IF decoder.pc = "throttle" THEN decoder.pts ELSE playbackTime + Lookahead
FirstFrames ==
    /\ decoder.first = -1 => frames = <<>>
    /\ \A i \in DOMAIN frames : /\ frames[i].session = 1 /\ frames[i].pass = 0
                                /\ frames[i].pts = frames[i].pos - decoder.first
                                /\ frames[i].pts <= Limit
    /\ \A i, j \in DOMAIN frames : i < j => frames[j].pts - frames[i].pts >= j - i
FirstPass == context = 1 /\ kind = "file" /\ DecoderLive /\ PassZeroAhead => FirstFrames

LateInv == Unstarted /\ Clock /\ Stopwatch /\ FlushSplits /\ FirstPass

\* Frames, clocks and the decoder count in integers.
LEMMA Counts ==
  ASSUME IInv, PictureTypes
  PROVE  /\ \A i \in DOMAIN frames : frames[i].pts \in Int /\ frames[i].pos \in Int
         /\ playbackTime \in Nat /\ render.time \in Nat /\ decoder.first \in Int /\ decoder.pts \in Int
         /\ reader.pass \in Nat /\ reader.pos \in Nat /\ Limit \in Int
<1>1. \A f \in Frame : f.pts \in Int /\ f.pos \in Int
  BY Sizes DEF Frame
<1>2. \A i \in DOMAIN frames : frames[i] \in Frame
  BY DEF PictureTypes
<1>3. playbackTime \in Nat /\ render.time \in Nat
  BY Sizes DEF PictureTypes, RenderStates
<1>4. decoder.first \in Int /\ decoder.pts \in Int
  BY Sizes DEF IInv, ThreadTypes, DecoderStates
<1>5. reader.pass \in Nat /\ reader.pos \in Nat
  BY Sizes DEF IInv, ThreadTypes, ReaderStates, Passes
<1> QED
  BY <1>1, <1>2, <1>3, <1>4, <1>5, Sizes DEF Limit

\* The playback time of the first session does not fall.
LEMMA ClockForward ==
  ASSUME IInv, PictureTypes, Clock, session <= 1, RenderStep
  PROVE  playbackTime <= playbackTime'
<1>0. playbackTime \in Nat /\ render.time \in Nat
  BY Counts
<1>1. CASE RenderNext
  <2>1. render.time = playbackTime
    BY <1>1 DEF RenderNext, Clock
  <2>2. playbackTime' \in {render.time, render.time + 1}
    BY <1>1 DEF RenderNext
  <2> QED
    BY <1>0, <2>1, <2>2
<1>2. CASE RenderCheck \/ RenderStream \/ RenderFirst
  <2>1. playbackTime' = playbackTime
    BY <1>2 DEF RenderCheck, RenderStream, RenderFirst
  <2> QED
    BY <1>0, <2>1
<1> QED
  BY <1>1, <1>2 DEF RenderStep

\* The render loop only takes away frames and lets time pass.
LEMMA RenderLate ==
  ASSUME IInv, PictureTypes, OrderInv, LateInv, RenderStep
  PROVE  LateInv'
<1>0. UNCHANGED threadVars
  BY RenderStutters
<1>t. /\ render \in RenderStates /\ playbackTime \in Nat /\ session \in Nat
      /\ render.time \in Nat
  BY Stamps, Counts DEF PictureTypes
<1>1. Unstarted'
  <2> SUFFICES ASSUME session = 0 \/ (session = 1 /\ caller.pc = "start")
               PROVE  frames' = <<>> /\ playbackTime' = 0 /\ render'.time = 0 /\ ~active'
                      /\ render'.pc = "check"
    BY <1>0 DEF Unstarted, threadVars
  <2>1. frames = <<>> /\ playbackTime = 0 /\ render.time = 0 /\ ~active /\ render.pc = "check"
    BY DEF LateInv, Unstarted
  <2>2. RenderCheck
    BY <2>1 DEF RenderStep, RenderStream, RenderFirst, RenderNext
  <2> QED
    BY <1>0, <1>t, <2>1, <2>2 DEF RenderCheck, RenderStates, threadVars
<1>2. Stopwatch' /\ Clock'
  <2>0. active' = active /\ session' = session
    BY <1>0 DEF threadVars
  <2>1. CASE RenderCheck
    BY <1>t, <2>0, <2>1 DEF RenderCheck, RenderStates, LateInv, Stopwatch, Clock
  <2>2. CASE RenderStream
    BY <1>t, <2>0, <2>2 DEF RenderStream, Repeat, Show, LateInv, Stopwatch, Clock
  <2>3. CASE RenderFirst
    BY <1>t, <2>0, <2>3 DEF RenderFirst, Take, Repeat, Show, LateInv, Stopwatch, Clock
  <2>4. CASE RenderNext
    BY <1>t, <2>0, <2>4 DEF RenderNext, Take, Show, LateInv, Stopwatch, Clock
  <2> QED
    BY <2>1, <2>2, <2>3, <2>4 DEF RenderStep
<1>3. FlushSplits'
  BY <1>0 DEF threadVars, LateInv, FlushSplits, DecoderLive, ReaderLive
<1>4. FirstPass'
  <2> SUFFICES ASSUME context = 1, kind = "file", DecoderLive, PassZeroAhead
               PROVE  FirstFrames'
    BY <1>0 DEF threadVars, FirstPass, DecoderLive, ReaderLive, PassZeroAhead
  <2>1. FirstFrames
    BY DEF LateInv, FirstPass
  <2>2. session = 1
    BY DEF OrderInv, SessionInv
  <2>3. playbackTime <= playbackTime' /\ playbackTime' \in Nat
    BY <2>2, ClockForward, RenderTypes, Sizes DEF LateInv, PictureTypes
  <2>4. decoder' = decoder /\ Limit \in Int /\ Limit' \in Int /\ Limit <= Limit'
    BY <1>0, <1>t, <2>3, Counts, Sizes DEF Limit, threadVars
  <2>5. CASE UNCHANGED frames
    BY <2>1, <2>4, <2>5, Counts DEF FirstFrames
  <2>6. CASE \E i \in DOMAIN frames : Taken(i)
    <3>1. PICK i \in DOMAIN frames : Taken(i)
      BY <2>6
    <3>2. /\ DOMAIN frames = 1..Len(frames) /\ Len(frames) \in Nat /\ frames # <<>>
          /\ DOMAIN frames' = 1..(Len(frames) - i) /\ i \in 1..Len(frames)
          /\ \A k \in DOMAIN frames' : frames'[k] = frames[k + i]
      BY <3>1, Stamps, RenderTypes DEF PictureTypes, Taken
    <3>3. \A k \in DOMAIN frames' : k \in Int /\ k + i \in DOMAIN frames
      BY <3>2
    <3>4. \A j, k \in DOMAIN frames' : j < k =>
            frames'[k].pts - frames'[j].pts >= k - j
      <4> SUFFICES ASSUME NEW j \in DOMAIN frames', NEW k \in DOMAIN frames', j < k
                   PROVE  frames'[k].pts - frames'[j].pts >= k - j
        OBVIOUS
      <4>1. j \in Int /\ k \in Int /\ i \in Int /\ j + i < k + i /\ (k + i) - (j + i) = k - j
        BY <3>2, <3>3
      <4>2. frames[k + i].pts - frames[j + i].pts >= (k + i) - (j + i)
        BY <2>1, <3>3, <4>1 DEF FirstFrames
      <4> QED
        BY <3>2, <4>1, <4>2
    <3>5. \A k \in DOMAIN frames' : frames'[k].pts <= Limit'
      BY <2>1, <2>4, <3>2, <3>3, Counts DEF FirstFrames
    <3> QED
      BY <2>1, <2>4, <3>2, <3>3, <3>4, <3>5 DEF FirstFrames
  <2> QED
    BY <2>5, <2>6, RenderTakes
<1> QED
  BY <1>1, <1>2, <1>3, <1>4 DEF LateInv

\* Without a step of the decoder or the render loop, what is ahead was ahead.
LEMMA ReaderLate ==
  ASSUME IInv, PictureTypes, OrderInv, LateInv, ReaderStep
  PROVE  LateInv'
<1>0. /\ UNCHANGED <<caller, context, session, kind, decoder, frames, render, playbackTime>>
      /\ ReaderLive /\ (active' => active)
      /\ reader \in ReaderStates /\ reader.pass \in Nat /\ reader.pos \in Nat
  BY Counts DEF ReaderStep, ReaderExit, ReaderRead, ReaderPush, ReaderRewind, ReaderFlush, ReaderEnd,
     callVars, renderVars, ReaderLive, IInv, ThreadTypes
<1>1. Unstarted' /\ Clock' /\ Stopwatch'
  BY <1>0 DEF LateInv, Unstarted, Clock, Stopwatch
<1>2. FirstFrames => FirstFrames'
  BY <1>0 DEF FirstFrames, Limit
<1>3. CASE UNCHANGED packets /\ reader'.pass = reader.pass
  BY <1>0, <1>1, <1>2, <1>3 DEF LateInv, FlushSplits, FirstPass, PassZeroAhead, DecoderLive
<1>4. ASSUME NEW p \in Packet, packets' = Append(packets, p), reader'.pass >= reader.pass,
             reader'.pass \in Nat,
             IF p.pos = -1 THEN reader'.pass > 0 ELSE p.pass = reader.pass
      PROVE  FlushSplits' /\ FirstPass'
  <2>1. /\ DOMAIN packets = 1..Len(packets) /\ Len(packets) \in Nat /\ packets \in Seq(Packet)
    BY Stamps
  <2>2. /\ DOMAIN packets' = 1..(Len(packets) + 1)
        /\ \A i \in 1..Len(packets) : packets'[i] = packets[i]
        /\ packets'[Len(packets) + 1] = p
    BY <1>4, <2>1, AppendPacket
  <2>3. \A i \in DOMAIN packets' : i \in DOMAIN packets \/ i = Len(packets) + 1
    BY <2>1, <2>2
  <2>4. FlushSplits'
    <3> SUFFICES ASSUME DecoderLive, NEW i \in DOMAIN packets', packets'[i].pos = -1
                 PROVE  /\ \A j \in DOMAIN packets' : i < j /\ packets'[j].pos # -1
                             => packets'[j].pass > 0
                        /\ reader'.pass > 0
      BY <1>0 DEF FlushSplits, DecoderLive
    <3>1. CASE i \in DOMAIN packets
      <4>1. /\ reader.pass > 0 /\ reader'.pass > 0
            /\ \A j \in DOMAIN packets : i < j /\ packets[j].pos # -1 => packets[j].pass > 0
        BY <1>0, <1>4, <2>1, <2>2, <3>1 DEF LateInv, FlushSplits
      <4> QED
        BY <1>4, <2>1, <2>2, <2>3, <4>1
    <3>2. CASE i = Len(packets) + 1
      <4>1. \A j \in DOMAIN packets' : ~(i < j)
        BY <2>1, <2>2, <3>2
      <4> QED
        BY <1>4, <2>2, <3>2, <4>1
    <3> QED
      BY <2>3, <3>1, <3>2
  <2>5. PassZeroAhead' => PassZeroAhead
    BY <1>0, <1>4, <2>1, <2>2, <2>3 DEF PassZeroAhead
  <2> QED
    BY <1>0, <1>2, <2>4, <2>5 DEF LateInv, FirstPass, DecoderLive
<1>5. CASE ReaderPush /\ packets' # packets
  <2> DEFINE p == [session |-> reader.session, pass |-> reader.pass, pos |-> reader.pos]
  <2>1. packets' = Append(packets, p) /\ p \in Packet
    BY <1>5, ReadPacket DEF ReaderPush, IInv, ReaderInv
  <2>2. reader'.pass = reader.pass
    BY <1>0, <1>5 DEF ReaderPush, ReaderStates
  <2>3. p.pos # -1 /\ p.pass = reader.pass
    BY <1>0
  <2> HIDE DEF p
  <2> QED
    BY <1>0, <1>1, <1>4, <2>1, <2>2, <2>3 DEF LateInv
<1>6. CASE ReaderFlush
  <2> DEFINE p == Flush(reader.session)
  <2>1. packets' = Append(packets, p) /\ p \in Packet /\ p.pos = -1
    BY <1>0, <1>6, Constants DEF ReaderFlush, ReaderStates
  <2>2. reader'.pass = reader.pass + 1
    BY <1>0, <1>6 DEF ReaderFlush, ReaderStates
  <2> HIDE DEF p
  <2> QED
    BY <1>0, <1>1, <1>4, <2>1, <2>2 DEF LateInv
<1>7. CASE ReaderExit \/ ReaderRead \/ ReaderRewind \/ ReaderEnd \/ (ReaderPush /\ packets' = packets)
  BY <1>0, <1>3, <1>7 DEF ReaderExit, ReaderRead, ReaderRewind, ReaderEnd, ReaderPush, ReaderStates
<1> QED
  BY <1>5, <1>6, <1>7 DEF ReaderStep

\* When the first session starts, nothing is there that could be lost.
LEMMA CallerLate ==
  ASSUME IInv, PictureTypes, OrderInv, LateInv, CallerNext
  PROVE  LateInv'
<1>0. UNCHANGED <<frames, render, playbackTime>>
  BY OthersTypes DEF renderVars
<1>t. session \in Nat /\ context \in Nat /\ caller \in CallerStates
  BY Stamps DEF IInv, ThreadTypes
<1>1. Stopwatch'
  BY <1>0 DEF LateInv, Stopwatch
<1>2. CASE Start
  <2>1. caller.pc = "start" /\ caller'.pc = "idle" /\ UNCHANGED <<context, session, kind>>
    BY <1>2 DEF Start, Done, Idle
  <2>3. Unstarted'
    <3>1. CASE session = 0
      <4>1. context = 0
        BY <3>1 DEF OrderInv, SessionInv
      <4> QED
        BY <1>0, <1>2, <2>1, <3>1, <4>1 DEF LateInv, Unstarted, Start
    <3> QED
      BY <2>1, <3>1 DEF Unstarted
  <2>4. Clock'
    <3>1. session <= 1 => render.time = playbackTime
      BY <1>t, <2>1 DEF LateInv, Unstarted
    <3> QED
      BY <1>0, <2>1, <3>1 DEF Clock
  <2>5. CASE context = 0 \/ running
    BY <1>0, <1>1, <1>2, <2>1, <2>3, <2>4, <2>5 DEF Start, LateInv, FlushSplits, FirstPass, FirstFrames,
       Limit, PassZeroAhead, DecoderLive, ReaderLive
  <2>6. CASE context # 0 /\ ~running
    <3>1. packets' = <<>> /\ decoder' = [NoDecoder EXCEPT !.pc = "pop", !.session = context]
      BY <1>2, <2>6 DEF Start, Emptied
    <3>2. context' = 1 => frames' = <<>>
      BY <1>0, <2>1 DEF LateInv, Unstarted, OrderInv, SessionInv
    <3> QED
      BY <1>1, <2>3, <2>4, <3>1, <3>2 DEF LateInv, FlushSplits, FirstPass, FirstFrames, Limit
  <2> QED
    BY <2>5, <2>6
<1>3. ASSUME (active' => active), UNCHANGED <<context, session, kind>>, caller.pc # "start",
             caller'.pc # "start",
             /\ packets' = packets \/ packets' = <<>>
             /\ reader' = reader \/ ~ReaderLive'
             /\ decoder' = decoder \/ ~DecoderLive'
      PROVE  LateInv'
  <2>1. Unstarted' /\ Clock'
    BY <1>0, <1>3 DEF LateInv, Unstarted, Clock
  <2>2. FlushSplits'
    BY <1>3 DEF LateInv, FlushSplits, DecoderLive, ReaderLive
  <2>3. DecoderLive' /\ PassZeroAhead' => DecoderLive /\ PassZeroAhead /\ decoder' = decoder
    BY <1>3 DEF DecoderLive, ReaderLive, PassZeroAhead
  <2>4. FirstPass'
    BY <1>0, <1>3, <2>3 DEF LateInv, FirstPass, FirstFrames, Limit
  <2> QED
    BY <1>1, <2>1, <2>2, <2>4 DEF LateInv
<1>4. CASE Free
  <2>1. /\ UNCHANGED <<session, reader, decoder, packets>> /\ context' = 0 /\ ~active'
        /\ caller'.pc \in {"open", "idle"}
    BY <1>t, <1>4 DEF Free, Goto, Done, Idle, queueVars, CallerStates
  <2> QED
    BY <1>0, <1>1, <2>1 DEF LateInv, Unstarted, Clock, FlushSplits, FirstPass, DecoderLive, ReaderLive
<1>5. CASE Open
  <2>1. /\ UNCHANGED <<active, reader, decoder, packets>>
        /\ \/ session' = session + 1
           \/ UNCHANGED <<session, context>> /\ caller'.pc = "idle"
    BY <1>5 DEF Open, queueVars, Done, Idle
  <2>2. ~DecoderLive'
    BY <1>5, <2>1 DEF Open, IInv, CallerInv, DecoderLive
  <2>3. Unstarted'
    BY <1>0, <1>t, <2>1 DEF LateInv, Unstarted
  <2>4. Clock'
    BY <1>0, <1>t, <2>1 DEF LateInv, Clock
  <2> QED
    BY <1>1, <2>2, <2>3, <2>4 DEF LateInv, FlushSplits, FirstPass
<1>6. CASE JoinReader
  BY <1>3, <1>6, <1>t DEF JoinReader, NoReader, ReaderLive, flagVars, Goto, CallerStates
<1>7. CASE JoinDecoder
  <2>1. caller'.pc \in {"free", "clearRunning"}
    BY <1>t, <1>7 DEF JoinDecoder, AfterStop, Goto, CallerStates
  <2>2. ~DecoderLive'
    BY <1>7 DEF JoinDecoder, NoDecoder, DecoderLive
  <2> QED
    BY <1>3, <1>7, <2>1, <2>2 DEF JoinDecoder
<1>8. CASE StopPackets
  BY <1>3, <1>8, <1>t DEF StopPackets, Emptied, flagVars, Goto, CallerStates
<1>9. CASE ClearRunning \/ (\E play \in BOOLEAN : Command(play))
  BY <1>3, <1>9, <1>t DEF ClearRunning, Command, flagVars, queueVars, Goto, CallerStates
<1> QED
  BY <1>2, <1>4, <1>5, <1>6, <1>7, <1>8, <1>9 DEF CallerNext, CallerStep

\* A frame of the first pass lies at least one behind those before it.
LEMMA FirstDecoded ==
  ASSUME IInv, PictureTypes, Decode, FirstFrames, kind = "file",
         decoder.packet.session = 1, decoder.packet.pass = 0,
         \A i \in DOMAIN frames : decoder.packet.pos > frames[i].pos
  PROVE  FirstFrames'
<1> DEFINE first == IF decoder.first < 0 THEN decoder.packet.pos ELSE decoder.first
           f == [session |-> decoder.packet.session, pass |-> decoder.packet.pass,
                 pos |-> decoder.packet.pos, pts |-> decoder.packet.pos - first]
           d == IF Len(frames) >= Capacity THEN 1 ELSE 0
           last == Len(frames) - d + 1
<1>1. /\ decoder \in DecoderStates /\ decoder.packet \in Packet /\ decoder.packet.pos \in Int
      /\ DOMAIN frames = 1..Len(frames) /\ Len(frames) \in Nat /\ frames \in Seq(Frame)
      /\ decoder.first \in Int /\ -1 <= decoder.first
      /\ \A i \in DOMAIN frames : frames[i].pts \in Int /\ frames[i].pos \in Int
  <2>1. decoder \in DecoderStates
    BY DEF IInv, ThreadTypes
  <2>2. decoder.packet \in Packet /\ decoder.first \in -1..LastPos
    BY <2>1 DEF DecoderStates
  <2> QED
    BY <2>1, <2>2, Stamps, Counts, Sizes DEF Packet
<1>2. /\ frames' = Pushed(frames, f) /\ decoder'.pc = "throttle" /\ decoder'.first = first
      /\ decoder'.pts = decoder.packet.pos - first
  BY <1>1 DEF Decode, DecoderStates
<1>3. /\ f.session = 1 /\ f.pass = 0 /\ f.pos = decoder.packet.pos
      /\ f.pts = decoder.packet.pos - first
  OBVIOUS
<1>4. f \in Frame /\ f.pts \in Int
  <2>1. decoder.packet.pos - first \in 0..LastPos
    BY DecoderAlone
  <2> HIDE DEF first
  <2> QED
    BY <1>1, <2>1, Sizes DEF Packet, Frame
<1> HIDE DEF f
<1>5. /\ frames' \in Seq(Frame) /\ Len(frames') = last /\ last \in Nat \ {0}
      /\ frames'[last] = f
      /\ \A k \in 1..last : k # last => frames'[k] = frames[k + d] /\ k + d \in 1..Len(frames)
  <2>1. /\ Pushed(frames, f) \in Seq(Frame) /\ Len(Pushed(frames, f)) = Len(frames) - d + 1
        /\ Len(frames) - d \in Nat
        /\ Pushed(frames, f)[Len(frames) - d + 1] = f
        /\ \A k \in 1..(Len(frames) - d) :
             Pushed(frames, f)[k] = frames[k + d] /\ k + d \in 1..Len(frames)
    BY <1>1, <1>4, PushedIs
  <2> HIDE DEF d
  <2> QED
    BY <1>1, <1>2, <2>1
<1>d. d \in Int
  OBVIOUS
<1> HIDE DEF d, last
<1>6. DOMAIN frames' = 1..last
  BY <1>5
<1>7. \A k \in 1..last : k = last \/ k # last
  OBVIOUS
<1>8. \A i \in DOMAIN frames : decoder.first # -1 /\ first = decoder.first
  BY <1>1 DEF FirstFrames
<1>9. \A i \in DOMAIN frames : frames[i].pts < f.pts
  BY <1>1, <1>3, <1>8 DEF FirstFrames
<1>10. Limit' = f.pts
  BY <1>2, <1>3 DEF Limit
<1>11. \A k \in 1..last : /\ frames'[k].session = 1 /\ frames'[k].pass = 0
                          /\ frames'[k].pts = frames'[k].pos - decoder'.first
                          /\ frames'[k].pts <= Limit'
  <2> SUFFICES ASSUME NEW k \in 1..last
               PROVE  /\ frames'[k].session = 1 /\ frames'[k].pass = 0
                      /\ frames'[k].pts = frames'[k].pos - decoder'.first
                      /\ frames'[k].pts <= Limit'
    OBVIOUS
  <2>1. CASE k = last
    BY <1>2, <1>3, <1>4, <1>5, <1>10, <2>1
  <2>2. CASE k # last
    <3>1. frames'[k] = frames[k + d] /\ k + d \in DOMAIN frames
      BY <1>1, <1>5, <2>2
    <3>2. frames[k + d].pts < f.pts /\ frames[k + d].pts \in Int
      BY <1>1, <1>9, <3>1
    <3> QED
      BY <1>2, <1>4, <1>8, <1>10, <3>1, <3>2 DEF FirstFrames
  <2> QED
    BY <2>1, <2>2
<1>12. ASSUME NEW j \in 1..last, NEW k \in 1..last, j < k
       PROVE  frames'[k].pts - frames'[j].pts >= k - j
  <2>1. j # last /\ j \in Int /\ k \in Int /\ last \in Int
    BY <1>5, <1>12
  <2>2. frames'[j] = frames[j + d] /\ j + d \in DOMAIN frames
    BY <1>1, <1>5, <2>1
  <2>3. CASE k # last
    <3>1. frames'[k] = frames[k + d] /\ k + d \in DOMAIN frames
      BY <1>1, <1>5, <2>3
    <3>2. j + d < k + d /\ (k + d) - (j + d) = k - j
      BY <1>12, <1>d, <2>1
    <3>3. frames[k + d].pts - frames[j + d].pts >= (k + d) - (j + d)
      BY <2>2, <3>1, <3>2 DEF FirstFrames
    <3> QED
      BY <2>2, <3>1, <3>2, <3>3
  <2>4. CASE k = last
    <3> DEFINE n == Len(frames)
    <3>1. last = n - d + 1 /\ n \in DOMAIN frames /\ n \in Int /\ j + d <= n
      BY <1>1, <2>2, <1>d DEF last
    <3>2. frames[n].pts < f.pts /\ frames[n].pts \in Int /\ frames[j + d].pts \in Int
      BY <1>1, <1>9, <2>2, <3>1
    <3>3. frames[n].pts - frames[j + d].pts >= n - (j + d)
      <4>1. CASE j + d = n
        BY <3>2, <4>1, <1>d, <2>1, <3>1
      <4>2. CASE j + d < n
        BY <2>2, <3>1, <4>2 DEF FirstFrames
      <4> QED
        BY <1>d, <2>1, <3>1, <4>1, <4>2
    <3>4. frames'[k].pts = f.pts /\ frames'[j].pts = frames[j + d].pts
      BY <1>5, <2>2, <2>4
    <3> HIDE DEF n
    <3> QED
      BY <1>4, <1>d, <2>1, <2>4, <3>1, <3>2, <3>3, <3>4
  <2> QED
    BY <2>3, <2>4
<1>13. decoder'.first # -1
  <2>1. 0 <= decoder.packet.pos
    BY DEF Decode, IInv, Ordered, DecoderLive
  <2> QED
    BY <1>1, <1>2, <2>1
<1> QED
  BY <1>6, <1>11, <1>12, <1>13 DEF FirstFrames

\* The decoder spaces the frames of a pass, and waits before it goes on.
LEMMA DecoderLate ==
  ASSUME IInv, PictureTypes, OrderInv, LateInv, DecoderStep
  PROVE  LateInv'
<1>0. /\ UNCHANGED <<caller, context, session, running, active, kind, reader, stopped, render,
                     playbackTime>>
      /\ DecoderLive
  BY DEF DecoderStep, DecoderPop, DecoderWoken, DecodeNothing, Decode, Throttle, decoderRest, callVars,
     renderVars, DecoderLive
<1>t. /\ decoder \in DecoderStates
      /\ DOMAIN packets = 1..Len(packets) /\ Len(packets) \in Nat /\ packets \in Seq(Packet)
      /\ DOMAIN frames = 1..Len(frames) /\ Len(frames) \in Nat /\ frames \in Seq(Frame)
      /\ Limit \in Int /\ Lookahead \in Int /\ playbackTime \in Int
  BY Stamps, Counts, Sizes DEF IInv, ThreadTypes
<1>1. Unstarted' /\ Clock' /\ Stopwatch'
  <2>1. session # 0 /\ caller.pc # "start"
    BY <1>0 DEF IInv, ContextOutlivesThreads, CallerInv, OrderInv, SessionInv, DecoderLive
  <2> QED
    BY <1>0, <2>1 DEF LateInv, Unstarted, Clock, Stopwatch
<1>2. CASE DecoderPop
  <2>1. /\ packets # <<>> /\ packets' = Tail(packets) /\ decoder.pc = "pop" /\ frames' = frames
    BY <1>2 DEF DecoderPop
  <2>2. /\ 1 \in DOMAIN packets /\ Head(packets) = packets[1]
        /\ DOMAIN packets' = 1..(Len(packets) - 1)
        /\ \A i \in DOMAIN packets' : /\ packets'[i] = packets[i + 1]
                                     /\ i + 1 \in DOMAIN packets /\ 1 < i + 1
        /\ \A i, j \in DOMAIN packets' : i < j => i + 1 < j + 1
    <3>1. /\ Tail(packets) \in Seq(Packet) /\ Len(Tail(packets)) = Len(packets) - 1
          /\ \A i \in 1..Len(Tail(packets)) : Tail(packets)[i] = packets[i + 1]
          /\ Head(packets) = packets[1]
      BY <1>t, <2>1, HeadTailProperties
    <3>2. Len(packets) # 0
      BY <1>t, <2>1, EmptySeq
    <3> QED
      BY <1>t, <2>1, <3>1, <3>2
  <2>3. FlushSplits'
    BY <1>0, <2>2 DEF LateInv, FlushSplits, ReaderLive
  <2>4. CASE packets[1].pos = -1
    <3>1. ~PassZeroAhead'
      <4>1. decoder'.pc \in {"pop", "done"}
        BY <1>t, <1>2, <2>2, <2>4 DEF DecoderPop, OnFlush, Loop, DecoderStates
      <4>2. /\ \A j \in DOMAIN packets : 1 < j /\ packets[j].pos # -1 => packets[j].pass > 0
            /\ ReaderLive => reader.pass > 0
        BY <1>0, <2>2, <2>4 DEF LateInv, FlushSplits
      <4>3. \A j \in DOMAIN packets' : packets'[j].pos # -1 => packets'[j].pass > 0
        BY <2>2, <4>2
      <4> QED
        BY <1>0, <4>1, <4>2, <4>3 DEF PassZeroAhead, ReaderLive
    <3> QED
      BY <1>1, <2>3, <3>1 DEF LateInv, FirstPass
  <2>5. CASE packets[1].pos # -1
    <3>1. decoder'.pc = "decode" /\ decoder'.packet = packets[1] /\ decoder'.first = decoder.first
      BY <1>t, <1>2, <2>2, <2>5 DEF DecoderPop, DecoderStates
    <3>2. PassZeroAhead' => PassZeroAhead
      BY <1>0, <2>1, <2>2, <2>5, <3>1 DEF PassZeroAhead, ReaderLive
    <3>3. FirstFrames => FirstFrames'
      BY <1>0, <2>1, <3>1 DEF FirstFrames, Limit
    <3> QED
      BY <1>0, <1>1, <2>3, <3>2, <3>3 DEF LateInv, FirstPass
  <2> QED
    BY <2>4, <2>5
<1>3. CASE DecoderWoken
  <2>1. ~running
    BY <1>3 DEF DecoderWoken, IInv, CallerInv
  <2>2. ~DecoderLive'
    BY <1>t, <1>3, <2>1 DEF DecoderWoken, OnFlush, Loop, DecoderLive, DecoderStates
  <2> QED
    BY <1>1, <2>2 DEF LateInv, FlushSplits, FirstPass
<1>4. CASE DecodeNothing \/ Throttle
  <2>1. /\ UNCHANGED <<packets, frames>> /\ decoder'.pc = Loop /\ decoder'.first = decoder.first
        /\ decoder.pc \in {"decode", "throttle"}
    BY <1>t, <1>4 DEF DecodeNothing, Throttle, DecoderStates
  <2>2. FlushSplits'
    BY <1>0, <2>1 DEF LateInv, FlushSplits, ReaderLive
  <2>3. PassZeroAhead' => PassZeroAhead
    BY <1>0, <2>1 DEF PassZeroAhead, ReaderLive, Loop
  <2>4. DecoderLive' => Limit <= Limit'
    <3>1. Limit' = playbackTime + Lookahead
      BY <1>0, <2>1 DEF Limit, Loop
    <3>2. CASE DecodeNothing
      BY <1>t, <3>1, <3>2 DEF DecodeNothing, Limit
    <3>3. CASE Throttle
      BY <1>t, <2>1, <3>1, <3>3 DEF Throttle, Limit, DecoderLive, Loop
    <3> QED
      BY <1>4, <3>2, <3>3
  <2>5. FirstFrames /\ DecoderLive' => FirstFrames'
    <3>1. \A i \in DOMAIN frames : frames[i].pts \in Int
      BY Counts
    <3>2. Limit' \in Int
      BY <1>0, <1>t, <2>1 DEF Limit, Loop
    <3> QED
      BY <1>t, <2>1, <2>4, <3>1, <3>2 DEF FirstFrames
  <2> QED
    BY <1>0, <1>1, <2>2, <2>3, <2>5 DEF LateInv, FirstPass
<1>5. CASE Decode
  <2>1. /\ packets' = packets /\ decoder.pc = "decode" /\ decoder'.pc # "decode"
        /\ kind = "file" => decoder'.pc = "throttle"
    BY <1>t, <1>5 DEF Decode, Loop, DecoderStates
  <2>2. FlushSplits'
    BY <1>0, <2>1 DEF LateInv, FlushSplits, ReaderLive
  <2>3. FirstPass'
    <3> SUFFICES ASSUME context = 1, kind = "file", PassZeroAhead'
                 PROVE  FirstFrames'
      BY <1>0 DEF FirstPass
    <3> DEFINE packet == decoder.packet
    <3>1. packet.session = 1 /\ packet.pass = 0
      <4>1. packet.session = 1 /\ Stamp(packet) /\ decoder.session = 1
        BY <1>0, <2>1, Stamps DEF OrderInv, DecodeInOrder, IInv, ContextOutlivesThreads
      <4>2. CASE ReaderLive /\ reader.pass = 0
        <5>1. Later(reader, packet) /\ reader.session = 1
          BY <2>1, <4>2 DEF OrderInv, ReadInOrder, IInv, ContextOutlivesThreads
        <5> QED
          BY <4>1, <4>2, <5>1 DEF Later, Stamp
      <4>3. CASE \E i \in DOMAIN packets : packets[i].pos # -1 /\ packets[i].pass = 0
        <5>1. PICK i \in DOMAIN packets : packets[i].pos # -1 /\ packets[i].pass = 0
          BY <4>3
        <5>2. Later(packets[i], packet) /\ packets[i].session = 1
          BY <1>0, <2>1, <4>1, <5>1 DEF OrderInv, QueueInOrder, IInv, PacketsOfLiveSession
        <5> QED
          BY <4>1, <5>1, <5>2 DEF Later, Stamp
      <4> QED
        BY <1>0, <2>1, <4>1, <4>2, <4>3 DEF PassZeroAhead, ReaderLive
    <3>2. FirstFrames
      BY <1>0, <2>1, <3>1 DEF LateInv, FirstPass, PassZeroAhead
    <3>3. \A i \in DOMAIN frames : packet.pos > frames[i].pos
      BY <2>1, <3>1, <3>2 DEF OrderInv, DecodeInOrder, NewerThanFrames, FirstFrames, Later
    <3> QED
      BY FirstDecoded, <1>0, <1>5, <3>1, <3>2, <3>3
  <2> QED
    BY <1>1, <2>2, <2>3 DEF LateInv
<1> QED
  BY <1>2, <1>3, <1>4, <1>5 DEF DecoderStep


\* Every step keeps what is known of late frames.
LEMMA LateStep == IInv /\ PictureTypes /\ OrderInv /\ LateInv /\ [Next]_vars => LateInv'
<1> SUFFICES ASSUME IInv, PictureTypes, OrderInv, LateInv, [Next]_vars PROVE LateInv'
  OBVIOUS
<1>1. CASE UNCHANGED vars
  BY <1>1 DEF vars, LateInv, Unstarted, Clock, Stopwatch, FlushSplits, FirstPass, FirstFrames, Limit,
     PassZeroAhead, DecoderLive, ReaderLive
<1> QED
  BY <1>1, RenderLate, CallerLate, ReaderLate, DecoderLate DEF Next, CallerNext

\* Whatever the sizes, a full queue loses on the first pass only frames that
\* playback has passed, as long as it holds more than the throttle allows.
THEOREM LosesOnlyLateFrames == Spec => OnlyLateFramesLost
<1> DEFINE Lost == /\ context = 1 /\ kind = "file"
                   /\ Capacity >= Lookahead + 2
                   /\ \A i \in DOMAIN frames' : frames'[i].pass = 0
                   /\ Len(frames) = Capacity /\ Len(frames') = Capacity
           Late == frames'[1].pts <= playbackTime
<1>1. Init => LateInv
  BY DEF Init, LateInv, Unstarted, Clock, Stopwatch, FlushSplits, FirstPass, DecoderLive, NoDecoder
<1>2. IInv /\ PictureTypes /\ OrderInv /\ LateInv /\ [Next]_vars => [Lost => Late]_frames
  <2> SUFFICES ASSUME IInv, PictureTypes, OrderInv, LateInv, [Next]_vars, frames' # frames, Lost
               PROVE  Late
    OBVIOUS
  <2>t. /\ DOMAIN frames = 1..Len(frames) /\ Len(frames) \in Nat /\ frames \in Seq(Frame)
        /\ Capacity \in Nat \ {0} /\ Lookahead \in Nat /\ playbackTime \in Nat
        /\ \A i \in DOMAIN frames : frames[i].pts \in Int
    BY Stamps, Counts, Sizes, CapacityAssumption
  <2>1. ~RenderStep
    <3>1. ASSUME NEW i \in DOMAIN frames, Taken(i) PROVE FALSE
      <4>1. i \in 1..Len(frames) /\ Len(frames') = Len(frames) - i
        BY <3>1 DEF Taken
      <4> QED
        BY <2>t, <4>1
    <3> QED
      BY <3>1, RenderTakes
  <2>2. Decode
    BY <2>1, OthersTypes DEF vars, Next, CallerNext, DecoderStep, renderVars
  <2> DEFINE f == [session |-> decoder.packet.session, pass |-> decoder.packet.pass,
                   pos |-> decoder.packet.pos,
                   pts |-> decoder.packet.pos
                           - (IF decoder.first < 0 THEN decoder.packet.pos ELSE decoder.first)]
  <2>3. frames' = Append(Tail(frames), f) /\ decoder.pc = "decode"
    BY <2>t, <2>2 DEF Decode, Pushed
  <2>4. /\ frames # <<>> /\ Len(frames) >= 2
        /\ Tail(frames) \in Seq(Frame) /\ Len(Tail(frames)) = Len(frames) - 1
        /\ \A k \in 1..Len(Tail(frames)) : Tail(frames)[k] = frames[k + 1]
    <3>1. frames # <<>> /\ Len(frames) >= 2
      BY <2>t, EmptySeq
    <3> QED
      BY <2>t, <3>1, HeadTailProperties
  <2>5. f.pass = decoder.packet.pass
    OBVIOUS
  <2>6. f \in Frame
    <3>1. decoder.packet \in Packet
          /\ decoder.packet.pos
             - (IF decoder.first < 0 THEN decoder.packet.pos ELSE decoder.first) \in 0..LastPos
      BY <2>2, DecoderAlone DEF IInv, ThreadTypes, DecoderStates
    <3> QED
      BY <3>1 DEF Packet, Frame
  <2> HIDE DEF f
  <2>7. /\ Append(Tail(frames), f)[1] = frames[2] /\ 1 \in 1..Len(Tail(frames))
        /\ Append(Tail(frames), f)[Len(frames)] = f
        /\ Len(frames) \in DOMAIN Append(Tail(frames), f)
    BY <2>t, <2>4, <2>6
  <2>8. decoder.packet.pass = 0
    BY <2>3, <2>5, <2>7
  <2>9. FirstFrames
    BY <2>3, <2>8 DEF LateInv, FirstPass, DecoderLive, PassZeroAhead
  <2>10. /\ 2 \in DOMAIN frames /\ Len(frames) \in DOMAIN frames
         /\ frames[Len(frames)].pts <= playbackTime + Lookahead
         /\ 2 < Len(frames) => frames[Len(frames)].pts - frames[2].pts >= Len(frames) - 2
    <3>1. 2 \in DOMAIN frames /\ Len(frames) \in DOMAIN frames
      BY <2>t, <2>4
    <3>2. Limit = playbackTime + Lookahead
      BY <2>3 DEF Limit
    <3> QED
      BY <2>9, <3>1, <3>2 DEF FirstFrames
  <2>11. frames[2].pts <= playbackTime
    BY <2>t, <2>10
  <2> QED
    BY <2>3, <2>7, <2>11
<1> QED
  BY <1>1, <1>2, InitOrder, AlwaysIInv, PictureStep, OrderStep, LateStep, PTL
  DEF Spec, OnlyLateFramesLost
-----------------------------------------------------------------------------
(* Liveness.  With what the guards come to (NobodyStuck), weak              *)
(* fairness takes a command through its joins.                              *)

\* A joined thread finds its queue stopped; without a context nothing plays.
StopInv ==
    /\ caller.pc \in {"joinReader", "joinDecoder"} => stopped
    /\ context = 0 => ~active

\* The program starts without either.
LEMMA InitStop == Init => StopInv
  BY DEF Init, StopInv, Idle

\* Only the end of start() undoes what stop() and close() did.
LEMMA StopKeeps == IInv /\ StopInv /\ [Next]_vars => StopInv'
<1> SUFFICES ASSUME IInv, StopInv, [Next]_vars PROVE StopInv'
  OBVIOUS
<1>0. caller \in CallerStates /\ session \in Nat
  BY Constants DEF IInv, ThreadTypes
<1> USE <1>0 DEF StopInv, CallerStates, Goto, Done, Idle, flagVars, queueVars
<1>1. CASE \E play \in BOOLEAN : Command(play)
  BY <1>1 DEF Command
<1>2. CASE ClearRunning \/ StopPackets \/ JoinReader
  BY <1>2 DEF ClearRunning, StopPackets, JoinReader
<1>3. CASE JoinDecoder
  BY <1>3 DEF JoinDecoder, AfterStop
<1>4. CASE Free
  BY <1>4 DEF Free
<1>5. CASE Open
  BY <1>5 DEF Open
<1>6. CASE Start
  BY <1>6 DEF Start
<1>7. CASE ReaderStep \/ DecoderStep
  BY <1>7 DEF ReaderStep, ReaderExit, ReaderRead, ReaderPush, ReaderRewind, ReaderFlush, ReaderEnd,
     DecoderStep, DecoderPop, DecoderWoken, DecodeNothing, Decode, Throttle, decoderRest, callVars
<1>8. CASE RenderStep \/ UNCHANGED vars
  BY <1>8, RenderStutters DEF threadVars, vars
<1> QED
  BY <1>1, <1>2, <1>3, <1>4, <1>5, <1>6, <1>7, <1>8 DEF Next, CallerStep

\* Where the caller stands: in the first stop() of a command or in the one
\* inside close(); and after both.
First(pc) == caller.pc = pc /\ ~caller.inClose
Second(pc) == caller.pc = pc /\ caller.inClose
Then(pc) == caller.pc = pc
Returned == caller.pc = "idle"

\* At a join of the first stop(), where the thread stands that is joined.
ReaderAt(at) == First("joinReader") /\ reader.pc \in at
DecoderAt(at) == First("joinDecoder") /\ decoder.pc \in at
Over == {"none", "done"}

\* A step of the caller.
LEMMA CallerGoes ==
  IInv /\ CallerStep =>
    /\ First("clearRunning") => First("stopPackets")'
    /\ First("stopPackets") => First("joinReader")'
    /\ First("joinReader") => ReaderAt(Over) /\ First("joinDecoder")'
    /\ First("joinDecoder") => DecoderAt(Over) /\ Second("clearRunning")'
    /\ Second("clearRunning") => Second("stopPackets")'
    /\ Second("stopPackets") => Second("joinReader")'
    /\ Second("joinReader") => Second("joinDecoder")'
    /\ Second("joinDecoder") => Then("free")'
    /\ Then("free") => (Then("open") \/ Returned)'
    /\ Then("open") => (Then("start") \/ Returned)'
    /\ Then("start") => Returned'
<1>0. IInv => /\ caller.inClose \in BOOLEAN
              /\ \A pc \in {"stopPackets", "joinReader", "joinDecoder", "free", "open", "start"} :
                   /\ [caller EXCEPT !.pc = pc].pc = pc
                   /\ [caller EXCEPT !.pc = pc].inClose = caller.inClose
              /\ [caller EXCEPT !.pc = "clearRunning", !.inClose = TRUE].pc = "clearRunning"
              /\ [caller EXCEPT !.pc = "clearRunning", !.inClose = TRUE].inClose = TRUE
  BY DEF IInv, ThreadTypes, CallerStates
<1> USE <1>0 DEF First, Second, Then, Returned, Goto, Done, Idle, Over, ReaderAt, DecoderAt
<1>1. CASE ClearRunning
  BY <1>1 DEF ClearRunning
<1>2. CASE StopPackets
  BY <1>2 DEF StopPackets
<1>3. CASE JoinReader
  BY <1>3 DEF JoinReader
<1>4. CASE JoinDecoder
  BY <1>4 DEF JoinDecoder, AfterStop
<1>5. CASE Free
  <2>1. CASE Done
    BY <1>5, <2>1 DEF Free
  <2>2. CASE Goto("open")
    BY <1>5, <2>2 DEF Free
  <2> QED
    BY <1>5, <2>1, <2>2 DEF Free
<1>6. CASE Open
  <2>1. CASE Done
    BY <1>6, <2>1 DEF Open
  <2>2. CASE Goto("start")
    BY <1>6, <2>2 DEF Open
  <2> QED
    BY <1>6, <2>1, <2>2 DEF Open
<1>7. CASE Start
  BY <1>7 DEF Start
<1> QED
  BY <1>1, <1>2, <1>3, <1>4, <1>5, <1>6, <1>7 DEF CallerStep

\* Nobody else moves a caller that is in a command, nor the threads it joins.
LEMMA NobodyElse ==
  [Next]_vars /\ ~CallerStep /\ caller.pc # "idle" =>
    /\ caller' = caller
    /\ ~ReaderStep => reader' = reader
    /\ ~DecoderStep => decoder' = decoder
  BY RenderStutters DEF Next, vars, Command, ReaderStep, ReaderExit, ReaderRead, ReaderPush,
     ReaderRewind, ReaderFlush, ReaderEnd, DecoderStep, DecoderPop, DecoderWoken, DecodeNothing,
     Decode, Throttle, decoderRest, callVars, threadVars

\* The reader that is joined: every step of it comes to the head of its loop.
LEMMA JoinedReaderGoes ==
  IInv /\ StopInv /\ ReaderStep =>
    /\ ReaderAt({"read"}) => (ReaderAt({"push"}) \/ ReaderAt({"flush"}) \/ ReaderAt(Over))'
    /\ ReaderAt({"push"}) => ReaderAt(Over)'
    /\ ReaderAt({"flush"}) => ReaderAt(Over)'
    /\ ~ReaderAt(Over)
<1>0. IInv => /\ \A pc \in {"read", "push", "flush", "done"} : [reader EXCEPT !.pc = pc].pc = pc
              /\ First("joinReader") => ~running
  BY DEF IInv, ThreadTypes, ReaderStates, CallerInv, First
<1> USE <1>0 DEF ReaderAt, First, Over, callVars
<1>1. CASE ReaderExit
  BY <1>1 DEF ReaderExit
<1>2. CASE ReaderRead
  BY <1>2 DEF ReaderRead
<1>3. CASE ReaderPush
  <2>1. IInv => reader'.pc = ReaderLoop
    BY <1>3 DEF ReaderPush, IInv, ThreadTypes, ReaderStates
  <2> QED
    BY <1>3, <2>1 DEF ReaderPush, ReaderLoop
<1>4. CASE ReaderRewind
  BY <1>4 DEF ReaderRewind
<1>5. CASE ReaderFlush
  <2>1. IInv => reader'.pc = ReaderLoop
    BY <1>5 DEF ReaderFlush, IInv, ThreadTypes, ReaderStates
  <2> QED
    BY <1>5, <2>1 DEF ReaderFlush, ReaderLoop
<1>6. CASE ReaderEnd
  BY <1>6 DEF ReaderEnd
<1> QED
  BY <1>1, <1>2, <1>3, <1>4, <1>5, <1>6 DEF ReaderStep

\* The decoder that is joined.
LEMMA JoinedDecoderGoes ==
  IInv /\ StopInv /\ DecoderStep =>
    /\ DecoderAt({"pop"}) => (DecoderAt({"decode"}) \/ DecoderAt(Over))'
    /\ DecoderAt({"decode"}) => (DecoderAt({"throttle"}) \/ DecoderAt(Over))'
    /\ DecoderAt({"throttle"}) => DecoderAt(Over)'
    /\ ~DecoderAt(Over)
<1>0. IInv => decoder \in DecoderStates /\ (First("joinDecoder") => ~running)
  BY DEF IInv, ThreadTypes, CallerInv, First
<1>1. ASSUME OnFlush PROVE IInv => decoder'.pc = Loop
  BY <1>0, <1>1 DEF OnFlush, DecoderStates
<1> USE <1>0, <1>1 DEF DecoderAt, First, Over, callVars, decoderRest, Loop
<1>2. CASE DecoderPop
  <2>1. CASE Head(packets).pos = -1
    BY <1>2, <2>1 DEF DecoderPop
  <2>2. CASE Head(packets).pos # -1
    BY <1>2, <2>2 DEF DecoderPop, DecoderStates
  <2> QED
    BY <2>1, <2>2
<1>3. CASE DecoderWoken
  BY <1>3 DEF DecoderWoken
<1>4. CASE DecodeNothing
  BY <1>4 DEF DecodeNothing, DecoderStates
<1>5. CASE Decode
  <2>1. IInv => decoder'.pc \in {"throttle", Loop}
    BY <1>5 DEF Decode, DecoderStates
  <2> QED
    BY <1>5, <2>1 DEF Decode
<1>6. CASE Throttle
  BY <1>6 DEF Throttle, DecoderStates
<1> QED
  BY <1>2, <1>3, <1>4, <1>5, <1>6 DEF DecoderStep

\* stop_video and play_video return: the reader and the decoder that they join
\* come to the heads of their loops.
THEOREM CommandsReturn == FairSpec /\ []NobodyStuck => CallReturns
<1> DEFINE ReaderComes == ReaderAt({"read"}) \/ ReaderAt({"push"}) \/ ReaderAt({"flush"})
           DecoderComes == DecoderAt({"pop"}) \/ DecoderAt({"decode"}) \/ DecoderAt({"throttle"})
           Closing == \/ Second("clearRunning") \/ Second("stopPackets") \/ Second("joinReader")
                      \/ Second("joinDecoder") \/ Then("free") \/ Then("open") \/ Then("start")
\* Where a command may stand, and who can then take a step.
<1>1. IInv /\ caller.pc # "idle" =>
        \/ First("clearRunning") \/ First("stopPackets")
        \/ ReaderComes \/ ReaderAt(Over) \/ DecoderComes \/ DecoderAt(Over) \/ Closing
  BY DEF IInv, ThreadTypes, CallerStates, ReaderStates, DecoderStates, First, ReaderAt, DecoderAt,
     Over, Second, Then
<1>2. IInv /\ NobodyStuck /\ (First("clearRunning") \/ First("stopPackets") \/ ReaderAt(Over)
                              \/ DecoderAt(Over) \/ Closing)
      => ENABLED <<CallerStep>>_vars
  BY DEF NobodyStuck, First, ReaderAt, DecoderAt, Over, Second, Then, ReaderLive, DecoderLive, IInv,
     CallerInv
<1>3. IInv /\ StopInv /\ NobodyStuck /\ ReaderComes => ENABLED <<ReaderStep>>_vars
  BY DEF NobodyStuck, StopInv, ReaderAt, First, IInv, CallerInv
<1>4. IInv /\ StopInv /\ NobodyStuck /\ DecoderComes => ENABLED <<DecoderStep>>_vars
  BY DEF NobodyStuck, StopInv, DecoderAt, First, IInv, CallerInv
\* Steps of the caller, of the reader, of the decoder, and of anybody.
<1>5. IInv /\ IInv' /\ CallerStep =>
        /\ First("clearRunning") => First("stopPackets")'
        /\ First("stopPackets") => ReaderComes' \/ ReaderAt(Over)'
        /\ ReaderAt(Over) => DecoderComes' \/ DecoderAt(Over)'
        /\ DecoderAt(Over) => Second("clearRunning")'
        /\ Second("clearRunning") => Second("stopPackets")'
        /\ Second("stopPackets") => Second("joinReader")'
        /\ Second("joinReader") => Second("joinDecoder")'
        /\ Second("joinDecoder") => Then("free")'
        /\ Then("free") => (Then("open") \/ Returned)'
        /\ Then("open") => (Then("start") \/ Returned)'
        /\ Then("start") => Returned'
  BY CallerGoes DEF ReaderAt, DecoderAt, Over, First, IInv, ThreadTypes, ReaderStates, DecoderStates
<1>6. IInv /\ StopInv /\ ReaderStep =>
        /\ ReaderAt({"read"}) => (ReaderAt({"push"}) \/ ReaderAt({"flush"}) \/ ReaderAt(Over))'
        /\ ReaderAt({"push"}) => ReaderAt(Over)'
        /\ ReaderAt({"flush"}) => ReaderAt(Over)'
  BY JoinedReaderGoes
<1>7. IInv /\ StopInv /\ DecoderStep =>
        /\ DecoderAt({"pop"}) => (DecoderAt({"decode"}) \/ DecoderAt(Over))'
        /\ DecoderAt({"decode"}) => (DecoderAt({"throttle"}) \/ DecoderAt(Over))'
        /\ DecoderAt({"throttle"}) => DecoderAt(Over)'
  BY JoinedDecoderGoes
<1>8. IInv /\ IInv' /\ StopInv /\ [Next]_vars =>
        /\ First("clearRunning") => (First("clearRunning") \/ First("stopPackets"))'
        /\ First("stopPackets") => First("stopPackets")' \/ ReaderComes' \/ ReaderAt(Over)'
        /\ ReaderAt({"read"}) => (ReaderAt({"read"}) \/ ReaderAt({"push"}) \/ ReaderAt({"flush"})
                                 \/ ReaderAt(Over))'
        /\ ReaderAt({"push"}) => (ReaderAt({"push"}) \/ ReaderAt(Over))'
        /\ ReaderAt({"flush"}) => (ReaderAt({"flush"}) \/ ReaderAt(Over))'
        /\ ReaderAt(Over) => ReaderAt(Over)' \/ DecoderComes' \/ DecoderAt(Over)'
        /\ DecoderAt({"pop"}) => (DecoderAt({"pop"}) \/ DecoderAt({"decode"}) \/ DecoderAt(Over))'
        /\ DecoderAt({"decode"}) => (DecoderAt({"decode"}) \/ DecoderAt({"throttle"})
                                    \/ DecoderAt(Over))'
        /\ DecoderAt({"throttle"}) => (DecoderAt({"throttle"}) \/ DecoderAt(Over))'
        /\ DecoderAt(Over) => (DecoderAt(Over) \/ Second("clearRunning"))'
        /\ Second("clearRunning") => (Second("clearRunning") \/ Second("stopPackets"))'
        /\ Second("stopPackets") => (Second("stopPackets") \/ Second("joinReader"))'
        /\ Second("joinReader") => (Second("joinReader") \/ Second("joinDecoder"))'
        /\ Second("joinDecoder") => (Second("joinDecoder") \/ Then("free"))'
        /\ Then("free") => (Then("free") \/ Then("open") \/ Returned)'
        /\ Then("open") => (Then("open") \/ Then("start") \/ Returned)'
        /\ Then("start") => (Then("start") \/ Returned)'
  <2>1. CASE CallerStep
    <3>1. IInv => ~ReaderComes /\ ~DecoderComes
      BY <2>1, CallerGoes DEF ReaderAt, DecoderAt, Over
    <3> QED
      BY <1>5, <2>1, <3>1
  <2>2. CASE ~CallerStep
    BY <2>2, NobodyElse, JoinedReaderGoes, JoinedDecoderGoes
    DEF ReaderAt, DecoderAt, First, Second, Then, Over
  <2> QED
    BY <2>1, <2>2
<1> QED
  BY <1>1, <1>2, <1>3, <1>4, <1>5, <1>6, <1>7, <1>8, InitStop, StopKeeps, AlwaysIInv, PTL
  DEF FairSpec, Spec, CallReturns, Returned

\* Nobody but the render loop changes what is on the screen, and nobody but
\* the caller, in a command, opens a context.
LEMMA ScreenStays ==
  /\ [Next]_vars /\ ~RenderStep => screen' = screen /\ render' = render
  /\ [Next]_vars /\ caller.pc = "idle" => context' = context
  BY DEF Next, vars, Command, CallerStep, ClearRunning, StopPackets, JoinReader, JoinDecoder,
     AfterStop, Free, Open, Start, ReaderStep, ReaderExit, ReaderRead, ReaderPush, ReaderRewind,
     ReaderFlush, ReaderEnd, DecoderStep, DecoderPop, DecoderWoken, DecodeNothing, Decode, Throttle,
     RenderStep, RenderCheck, RenderStream, RenderFirst, RenderNext, renderRest, decoderRest,
     callVars, renderVars, queueVars, flagVars

\* A tick of the render loop, of which only the first part looks at m_active.
LEMMA Tick ==
  RenderStep =>
    \/ render.pc = "check" /\ (~active => screen' = NoFrame)
    \/ render.pc = "frame" /\ render'.pc = "check"
<1> USE DEF Show, Repeat, Take
<1>1. CASE RenderCheck
  BY <1>1 DEF RenderCheck
<1>2. CASE RenderStream
  BY <1>2 DEF RenderStream
<1>3. CASE RenderFirst
  BY <1>3 DEF RenderFirst
<1>4. CASE RenderNext
  BY <1>4 DEF RenderNext
<1> QED
  BY <1>1, <1>2, <1>3, <1>4 DEF RenderStep

\* Once no context is left, the tick under way may show one more frame; the
\* next one shows the texture.
THEOREM StopReverts == FairSpec /\ []NobodyStuck => StopShowsTexture
<1> DEFINE Off == caller.pc = "idle" /\ context = 0 /\ screen # NoFrame
           Checks == Off /\ render.pc = "check"
           Shows == Off /\ render.pc = "frame"
           Shown == screen = NoFrame \/ caller.pc # "idle"
<1>1. TypeOK /\ caller.pc = "idle" /\ context = 0 => Checks \/ Shows \/ Shown
  BY DEF TypeOK, PictureTypes, RenderStates
<1>2. NobodyStuck /\ (Checks \/ Shows) => ENABLED <<RenderStep>>_vars
  BY DEF NobodyStuck
<1>3. StopInv /\ RenderStep => (Checks => Shown') /\ (Shows => Checks' \/ Shown')
  BY Tick, RenderStutters DEF StopInv, threadVars
<1>4. StopInv /\ [Next]_vars =>
        /\ Checks => Checks' \/ Shown'
        /\ Shows => Shows' \/ Checks' \/ Shown'
  BY <1>3, ScreenStays
<1> QED
  BY <1>1, <1>2, <1>3, <1>4, InitStop, StopKeeps, AlwaysIInv, TypeCorrect, PTL
  DEF FairSpec, Spec, StopShowsTexture
-----------------------------------------------------------------------------
(* The frame queue between the threads. *)

\* A frame as LossyQueue knows it: its time, and all of it as the picture.
Pictured(q) == [i \in DOMAIN q |-> [pts |-> q[i].pts, picture |-> q[i]]]

Abstract == INSTANCE LossyQueue WITH
    Times    <- 0..LastPos \cup 0..MaxTime,
    Pictures <- Frame,
    queue    <- Pictured(frames),
    taken    <- render.frame

\* What such a frame is.
Elements == [pts : 0..LastPos, picture : Frame]
Element(f) == [pts |-> f.pts, picture |-> f]

LEMMA ElementType == \A f \in Frame : Element(f) \in Elements /\ f.pts \in 0..LastPos
  BY DEF Frame, Element, Elements

\* Operations on the queue are operations on its pictures.
LEMMA PicturedQueue ==
  ASSUME NEW q \in Seq(Frame)
  PROVE  /\ Pictured(q) \in Seq(Elements) /\ Len(Pictured(q)) = Len(q)
         /\ \A i \in 1..Len(q) : Pictured(q)[i] = Element(q[i])
<1>1. \A i \in 1..Len(q) : q[i] \in Frame
  OBVIOUS
<1>2. DOMAIN q = 1..Len(q) /\ Len(q) \in Nat
  OBVIOUS
<1> QED
  BY <1>1, <1>2, ElementType DEF Pictured, Element

LEMMA SamePictures ==
  ASSUME NEW q \in Seq(Frame), NEW r \in Seq(Elements), Len(q) = Len(r),
         \A i \in 1..Len(q) : r[i] = Element(q[i])
  PROVE  Pictured(q) = r
<1>1. /\ Pictured(q) \in Seq(Elements) /\ Len(Pictured(q)) = Len(q)
      /\ \A i \in 1..Len(q) : Pictured(q)[i] = Element(q[i])
  BY PicturedQueue
<1> QED
  BY <1>1, SeqEqual

LEMMA PicturedAppend ==
  ASSUME NEW q \in Seq(Frame), NEW f \in Frame
  PROVE  Pictured(Append(q, f)) = Append(Pictured(q), Element(f))
<1> DEFINE s == Append(q, f)
           r == Append(Pictured(q), Element(f))
<1>1. s \in Seq(Frame) /\ Len(s) = Len(q) + 1 /\ Len(q) \in Nat
      /\ \A i \in 1..Len(s) : s[i] = IF i <= Len(q) THEN q[i] ELSE f
  OBVIOUS
<1>2. /\ Pictured(q) \in Seq(Elements) /\ Len(Pictured(q)) = Len(q)
      /\ \A i \in 1..Len(q) : Pictured(q)[i] = Element(q[i])
  BY PicturedQueue
<1>3. r \in Seq(Elements) /\ Len(r) = Len(q) + 1
      /\ \A i \in 1..Len(r) : r[i] = IF i <= Len(q) THEN Pictured(q)[i] ELSE Element(f)
  BY <1>2, ElementType
<1> HIDE DEF s, r
<1>4. \A i \in 1..Len(s) : r[i] = Element(s[i])
  BY <1>1, <1>2, <1>3
<1>5. Pictured(s) = r
  BY <1>1, <1>3, <1>4, SamePictures
<1> QED
  BY <1>5 DEF s, r

LEMMA PicturedSub ==
  ASSUME NEW q \in Seq(Frame), NEW i \in 1..(Len(q) + 1)
  PROVE  Pictured(SubSeq(q, i, Len(q))) = SubSeq(Pictured(q), i, Len(q))
<1> DEFINE s == SubSeq(q, i, Len(q))
           r == SubSeq(Pictured(q), i, Len(q))
<1>1. s \in Seq(Frame) /\ Len(s) = Len(q) - i + 1 /\ Len(q) \in Nat
      /\ \A j \in 1..Len(s) : s[j] = q[i + j - 1]
  OBVIOUS
<1>2. /\ Pictured(q) \in Seq(Elements) /\ Len(Pictured(q)) = Len(q)
      /\ \A j \in 1..Len(q) : Pictured(q)[j] = Element(q[j])
  BY PicturedQueue
<1>3. r \in Seq(Elements) /\ Len(r) = Len(q) - i + 1
      /\ \A j \in 1..Len(r) : r[j] = Pictured(q)[i + j - 1]
  BY <1>2
<1> HIDE DEF s, r
<1>4. ASSUME NEW j \in 1..Len(s) PROVE r[j] = Element(s[j])
  <2>1. i + j - 1 \in 1..Len(q)
    BY <1>1
  <2> QED
    BY <1>1, <1>2, <1>3, <2>1
<1>5. Pictured(s) = r
  BY <1>1, <1>3, <1>4, SamePictures
<1> QED
  BY <1>5 DEF s, r

\* So are Pushed and After.
LEMMA PicturedPush ==
  ASSUME NEW q \in Seq(Frame), NEW f \in Frame
  PROVE  Pictured(Pushed(q, f)) = Abstract!Pushed(Pictured(q), Element(f))
<1>1. Len(Pictured(q)) = Len(q) /\ Pictured(q) \in Seq(Elements)
  BY PicturedQueue
<1>2. CASE Len(q) >= Capacity
  <2>1. q # <<>>
    BY <1>2, CapacityAssumption
  <2>2. Tail(q) = SubSeq(q, 2, Len(q)) /\ Tail(q) \in Seq(Frame) /\ 2 \in 1..(Len(q) + 1)
    BY <2>1
  <2>3. Tail(Pictured(q)) = SubSeq(Pictured(q), 2, Len(q))
    BY <1>1
  <2>4. Pictured(Tail(q)) = Tail(Pictured(q))
    BY <2>2, <2>3, PicturedSub
  <2> QED
    BY <1>1, <1>2, <2>2, <2>4, PicturedAppend DEF Pushed, Abstract!Pushed
<1>3. CASE ~(Len(q) >= Capacity)
  BY <1>1, <1>3, PicturedAppend DEF Pushed, Abstract!Pushed
<1> QED
  BY <1>2, <1>3

\* Taking the frame at i is what LossyQueue calls it.
LEMMA TakesAt ==
  ASSUME frames \in Seq(Frame), NEW i \in 1..Len(frames),
         frames' = SubSeq(frames, i + 1, Len(frames)), render'.frame = frames[i]
  PROVE  Abstract!TakeAt(i)
<1>1. /\ Len(Pictured(frames)) = Len(frames) /\ Len(frames) \in Nat
      /\ Pictured(frames)[i] = Element(frames[i])
  BY PicturedQueue
<1>2. Pictured(frames)[i].picture = render'.frame
  BY <1>1 DEF Element
<1>3. i + 1 \in 1..(Len(frames) + 1)
  BY <1>1
<1>4. Pictured(frames') = SubSeq(Pictured(frames), i + 1, Len(frames))
  BY <1>3, PicturedSub
<1> QED
  BY <1>1, <1>2, <1>4 DEF Abstract!TakeAt, Abstract!After

\* getFrameForTime takes the frame that LossyQueue hands out at that time.
LEMMA TakesDue ==
  ASSUME PictureTypes, NEW t \in 0..MaxTime, NEW b \in BOOLEAN, Take(t, b)
  PROVE  Abstract!TakeDue(t)
<1> DEFINE i == Best(frames, t)
<1>1. i \in Due(frames, t) /\ IsBest(frames, t, i) /\ frames \in Seq(Frame)
  BY BestIsDue, Sizes DEF Take, PictureTypes
<1>2. /\ frames' = SubSeq(frames, i + 1, Len(frames)) /\ render'.frame = frames[i]
      /\ i \in 1..Len(frames)
  BY <1>1 DEF Take, Show, After, Due
<1>3. /\ DOMAIN Pictured(frames) = 1..Len(frames) /\ DOMAIN frames = 1..Len(frames)
      /\ \A j \in 1..Len(frames) : Pictured(frames)[j].pts = frames[j].pts
  <2>1. /\ Pictured(frames) \in Seq(Elements) /\ Len(Pictured(frames)) = Len(frames)
        /\ \A j \in 1..Len(frames) : Pictured(frames)[j] = Element(frames[j])
    BY <1>1, PicturedQueue
  <2>2. /\ DOMAIN Pictured(frames) = 1..Len(frames) /\ DOMAIN frames = 1..Len(frames)
    BY <1>1, <2>1
  <2> QED
    BY <2>1, <2>2 DEF Element
<1> HIDE DEF i
<1>4. Abstract!TakeAt(i)
  BY <1>1, <1>2, TakesAt
<1>5. Abstract!Due(Pictured(frames), t) = Due(frames, t)
  BY <1>3 DEF Due, Abstract!Due
<1>6. Abstract!IsBest(Pictured(frames), t, i)
  BY <1>1, <1>2, <1>3, <1>5 DEF IsBest, Abstract!IsBest, Due
<1> QED
  BY <1>1, <1>4, <1>5, <1>6 DEF Abstract!TakeDue

queued == <<Pictured(frames), render.frame>>

\* The render loop only takes frames, and shows no other ones.
LEMMA RenderHandsOut == PictureTypes /\ RenderStep => [Abstract!Next]_queued
<1> SUFFICES ASSUME PictureTypes, RenderStep PROVE [Abstract!Next]_queued
  OBVIOUS
<1>1. Repeat => UNCHANGED queued
  BY DEF Repeat, Show, queued
<1>2. ASSUME NEW t \in 0..MaxTime, NEW b \in BOOLEAN, Take(t, b) PROVE Abstract!Next
  BY <1>2, TakesDue DEF Abstract!Next
<1>3. CASE RenderCheck
  <2>1. render'.frame = render.frame /\ UNCHANGED frames
    BY <1>3 DEF RenderCheck, PictureTypes, RenderStates
  <2> QED
    BY <2>1 DEF queued
<1>4. CASE RenderStream
  <2>1. CASE Repeat
    BY <1>1, <2>1
  <2>2. CASE /\ frames # <<>> /\ frames' = Tail(frames)
             /\ Show(Head(frames), render.started, render.time)
    <3>1. frames \in Seq(Frame)
      BY DEF PictureTypes
    <3>2. 1 \in 1..Len(frames) /\ Tail(frames) = SubSeq(frames, 1 + 1, Len(frames))
          /\ Head(frames) = frames[1]
      BY <2>2, <3>1
    <3>3. Abstract!TakeAt(1)
      BY <2>2, <3>1, <3>2, TakesAt DEF Show
    <3>4. Pictured(frames) # <<>>
      BY <3>1, <3>2, PicturedQueue
    <3> QED
      BY <3>3, <3>4 DEF Abstract!Next, Abstract!TakeNext
  <2> QED
    BY <1>4, <2>1, <2>2 DEF RenderStream
<1>5. CASE RenderFirst
  <2>1. 0 \in 0..MaxTime
    BY Sizes
  <2>2. Take(0, TRUE) => Abstract!Next
    BY <1>2, <2>1
  <2> QED
    BY <1>1, <1>5, <2>2 DEF RenderFirst
<1>6. CASE RenderNext
  <2>1. PICK t \in 0..MaxTime :
          Take(t, TRUE) \/ (Show(render.frame, TRUE, t) /\ UNCHANGED frames)
    BY <1>6 DEF RenderNext
  <2>2. Take(t, TRUE) => Abstract!Next
    BY <1>2, <2>1
  <2>3. Show(render.frame, TRUE, t) /\ UNCHANGED frames => UNCHANGED queued
    BY DEF Show, queued
  <2> QED
    BY <2>1, <2>2, <2>3
<1> QED
  BY <1>3, <1>4, <1>5, <1>6 DEF RenderStep

\* The decoder thread only pushes.
LEMMA DecodePushes == IInv /\ PictureTypes /\ Decode => Abstract!Next
<1> SUFFICES ASSUME IInv, PictureTypes, Decode PROVE Abstract!Next
  OBVIOUS
<1>1. PICK f \in Frame : frames' = Pushed(frames, f)
  BY PushedByDecode
<1>2. frames \in Seq(Frame) /\ f.pts \in 0..LastPos /\ render' = render
  BY ElementType DEF PictureTypes, Decode, decoderRest, renderVars
<1>3. Pictured(frames') = Abstract!Pushed(Pictured(frames), [pts |-> f.pts, picture |-> f])
  BY <1>1, <1>2, PicturedPush DEF Element
<1>4. Abstract!Push(f.pts, f)
  BY <1>2, <1>3 DEF Abstract!Push
<1> QED
  BY <1>2, <1>4 DEF Abstract!Next

\* The frame queue that the decoder thread and the render loop share is
\* LossyQueue: no command of the caller, no end of a session and no rewind
\* adds, loses or reorders a frame otherwise, and what is shown as the video
\* comes out of it.
THEOREM FramesAreQueued == Spec => Abstract!Spec
<1>1. Init => Abstract!Init
  <2>1. Init => frames = <<>> /\ render.frame = NoFrame
    BY DEF Init
  <2>2. Init => Pictured(frames) = <<>>
    BY <2>1 DEF Pictured
  <2> QED
    BY <2>1, <2>2, RenderRecords DEF Abstract!Init
<1>2. TypeOK /\ IInv /\ [Next]_vars => [Abstract!Next]_queued
  <2> SUFFICES ASSUME TypeOK, IInv, [Next]_vars PROVE [Abstract!Next]_queued
    OBVIOUS
  <2>1. PictureTypes
    BY DEF TypeOK
  <2>2. UNCHANGED <<frames, renderVars>> \/ UNCHANGED vars => UNCHANGED queued
    BY DEF queued, vars, renderVars
  <2> QED
    BY <2>1, <2>2, RenderHandsOut, DecodePushes, OthersTypes DEF Next, CallerNext, DecoderStep
<1>3. Abstract!Init /\ [][Abstract!Next]_queued => Abstract!Spec
  BY DEF Abstract!Spec, queued
<1> QED
  BY <1>1, <1>2, <1>3, TypeCorrect, AlwaysIInv, PTL DEF Spec
-----------------------------------------------------------------------------
(* What the decoder promises to its callers.                                *)

\* Where the reader stands as DecoderSession sees it.
Seen == IF ReaderLive THEN "live" ELSE reader.pc
sessionVars == <<running, active, loop, Seen>>

\* Between two commands, a reader that was told to end was joined, too.
AtRest == caller.pc = "idle" /\ ~running => ~ReaderLive

LEMMA InitRest == Init => AtRest /\ Promise!Init
  BY DEF Init, AtRest, ReaderLive, NoReader, Promise!Init

\* The steps of a command stop, join and start.
LEMMA CallerPromises ==
  ASSUME IInv, AtRest, CallerNext
  PROVE  AtRest' /\ [Promise!Next]_sessionVars
<1>0. caller \in CallerStates /\ loop \in BOOLEAN
  BY DEF IInv, ThreadTypes
<1> USE <1>0 DEF AtRest, sessionVars, Seen, ReaderLive, CallerStates, Goto, Done, Idle, flagVars,
        queueVars, Promise!Next
<1>1. ASSUME NEW play \in BOOLEAN, Command(play) PROVE AtRest' /\ UNCHANGED sessionVars
  BY <1>1 DEF Command
<1>2. CASE ClearRunning
  <2>1. Promise!Stop
    BY <1>2 DEF ClearRunning, Promise!Stop
  <2> QED
    BY <1>2, <2>1 DEF ClearRunning
<1>3. CASE StopPackets
  BY <1>3 DEF StopPackets
<1>4. CASE JoinReader
  <2>1. ~running /\ reader.pc \in {"none", "done"} /\ reader'.pc = "none"
    BY <1>4 DEF JoinReader, NoReader, IInv, CallerInv
  <2>2. Promise!Join
    BY <1>4, <2>1 DEF JoinReader, Promise!Join
  <2> QED
    BY <1>4, <2>1, <2>2 DEF JoinReader
<1>5. CASE JoinDecoder
  <2>1. ~running /\ reader.pc = "none" /\ loop' \in BOOLEAN /\ UNCHANGED <<running, active, reader>>
    BY <1>5 DEF JoinDecoder, AfterStop, IInv, CallerInv
  <2>2. Promise!Join
    BY <2>1 DEF Promise!Join
  <2> QED
    BY <1>5, <2>1, <2>2 DEF JoinDecoder, AfterStop
<1>6. CASE Free
  <2>1. ~running /\ reader.pc = "none" /\ active' = FALSE /\ UNCHANGED <<running, loop, reader>>
    BY <1>6 DEF Free, IInv, CallerInv
  <2>2. Promise!Join
    BY <2>1 DEF Promise!Join
  <2> QED
    BY <2>1, <2>2
<1>7. CASE Open
  <2>1. reader.pc = "none" /\ UNCHANGED <<running, active, loop, reader>>
    BY <1>7 DEF Open, IInv, CallerInv
  <2> QED
    BY <2>1
<1>8. CASE Start
  <2>1. reader.pc = "none" /\ ~running /\ loop' = loop
    BY <1>8 DEF Start, IInv, CallerInv
  <2>2. CASE context = 0
    BY <1>8, <2>1, <2>2 DEF Start
  <2>3. CASE context # 0
    <3>1. running' = TRUE /\ active' = TRUE /\ reader'.pc = "read"
      BY <1>8, <2>1, <2>3 DEF Start
    <3>2. Promise!Start
      BY <2>1, <3>1 DEF Promise!Start
    <3> QED
      BY <3>1, <3>2
  <2> QED
    BY <2>2, <2>3
<1> QED
  BY <1>1, <1>2, <1>3, <1>4, <1>5, <1>6, <1>7, <1>8 DEF CallerNext, CallerStep

\* The reader ends its file, or ends because it was told to.
LEMMA ReaderPromises ==
  ASSUME IInv, AtRest, ReaderStep
  PROVE  AtRest' /\ [Promise!Next]_sessionVars
<1>0. reader \in ReaderStates
  BY DEF IInv, ThreadTypes
<1> USE <1>0 DEF AtRest, sessionVars, Seen, ReaderLive, ReaderStates, callVars, Promise!Next
<1>1. CASE ReaderEnd
  <2>1. /\ reader.pc = "read" /\ reader'.pc = "done" /\ ~loop /\ active' = FALSE
        /\ UNCHANGED <<running, loop>>
    BY <1>1 DEF ReaderEnd
  <2>2. Promise!End
    BY <2>1 DEF Promise!End
  <2> QED
    BY <2>1, <2>2
<1>2. CASE ReaderExit \/ ReaderRead \/ ReaderPush \/ ReaderRewind \/ ReaderFlush
  <2>0. ReaderLoop \in {"read", "done"} /\ (ReaderLoop = "done" => ~running)
    BY DEF ReaderLoop
  <2>1. /\ reader.pc \in {"read", "push", "flush"} /\ UNCHANGED <<running, active, loop, caller>>
        /\ \/ reader'.pc \in {"read", "push", "flush"}
           \/ reader'.pc = "done" /\ ~running
    <3>1. CASE ReaderExit
      BY <3>1 DEF ReaderExit
    <3>2. CASE ReaderRead
      BY <3>2 DEF ReaderRead
    <3>3. CASE ReaderPush
      BY <3>3, <2>0 DEF ReaderPush
    <3>4. CASE ReaderRewind
      BY <3>4 DEF ReaderRewind
    <3>5. CASE ReaderFlush
      BY <3>5, <2>0 DEF ReaderFlush
    <3> QED
      BY <1>2, <3>1, <3>2, <3>3, <3>4, <3>5
  <2>2. reader'.pc = "done" => Promise!Exit
    BY <2>1 DEF Promise!Exit
  <2> QED
    BY <2>1, <2>2
<1> QED
  BY <1>1, <1>2 DEF ReaderStep

\* Neither the decoder thread nor the render loop takes part.
LEMMA OthersPromise ==
  ASSUME AtRest, DecoderStep \/ RenderStep \/ UNCHANGED vars
  PROVE  AtRest' /\ UNCHANGED sessionVars
<1>1. UNCHANGED <<caller, running, active, loop, reader>>
  BY RenderStutters DEF DecoderStep, DecoderPop, DecoderWoken, DecodeNothing, Decode, Throttle,
     decoderRest, callVars, threadVars, vars
<1> QED
  BY <1>1 DEF AtRest, sessionVars, Seen, ReaderLive

\* A step of the program is a step of DecoderSession, or none of its business.
LEMMA StepPromises ==
  IInv /\ AtRest /\ [Next]_vars => AtRest' /\ [Promise!Next]_sessionVars
  BY CallerPromises, ReaderPromises, OthersPromise DEF Next, CallerNext

\* The decoder keeps the promise that the playlist relies on: with all its
\* threads, the two stops of every command and the sources that fail to open,
\* a session starts only over a joined reader, and no flag of it moves but by
\* the steps of DecoderSession.
THEOREM DecoderKept == Spec => PromiseKept
<1>1. Promise!Init /\ [][Promise!Next]_sessionVars => PromiseKept
  BY DEF PromiseKept, Promise!Spec, Promise!session, sessionVars, Seen
<1> QED
  BY <1>1, InitRest, StepPromises, AlwaysIInv, PTL DEF Spec

\* A reader that was told to end does so, wherever it sleeps: the command that
\* told it returns, and no command returns before it joined the reader.
THEOREM StopIsHeeded == FairSpec /\ []NobodyStuck => Promise!ReaderHeedsStop
<1> DEFINE Told == Seen = "live" /\ ~running
           Ended == Seen # "live"
           Resting == caller.pc = "idle"
           Busy == caller.pc # "idle"
<1>1. IInv /\ AtRest /\ Told => Busy /\ ~Resting
  BY DEF IInv, ThreadTypes, ReaderStates, AtRest, Seen, ReaderLive
<1>2. AtRest /\ IInv /\ [Next]_vars /\ Told => Told' \/ Ended'
  <2>1. ASSUME [Promise!Next]_sessionVars, Told
        PROVE  Told' \/ Ended'
    BY <2>1 DEF Promise!Next, Promise!Stop, Promise!Join, Promise!Start, Promise!End,
       Promise!Exit, sessionVars, Seen
  <2> QED
    BY <2>1, StepPromises
<1>3. FairSpec /\ []NobodyStuck => (Busy ~> Resting)
  BY CommandsReturn, PTL DEF CallReturns
<1>4. (Told ~> Ended) => Promise!ReaderHeedsStop
  BY PTL DEF Promise!ReaderHeedsStop, Seen
<1>5. Spec => []AtRest
  BY InitRest, StepPromises, AlwaysIInv, PTL DEF Spec
<1> HIDE DEF Told, Ended, Resting, Busy
<1>6. FairSpec /\ []NobodyStuck => (Told ~> Ended)
  BY <1>1, <1>2, <1>3, <1>5, AlwaysIInv, PTL DEF FairSpec, Spec
<1> QED
  BY <1>4, <1>6, PTL
=============================================================================
