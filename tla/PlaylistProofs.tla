--------------------------- MODULE PlaylistProofs ---------------------------
(***************************************************************************)
(* The properties of Playlist, for any sources, any of them broken,        *)
(* playlists of any length and any depth of the recursion.                 *)
(***************************************************************************)
EXTENDS Playlist, TLAPS

\* Between the join and the start of a new reader there is none.
OpenInv == ws.pc = "open" => reader = "none"

IInv == TypeOK /\ OpenInv
-----------------------------------------------------------------------------
\* The length of a playlist is bounded, and so are the indices of its entries.
LEMMA Lengths == \A list \in Lists : Len(list) \in 0..MaxLen
  BY PlaylistAssumption DEF Lists

\* What IsEntry accepts is an index.
LEMMA EntryIndex ==
  ASSUME playlist \in Lists, NEW i \in Int, IsEntry(i)
  PROVE  i \in 0..MaxLen
  BY Lengths, PlaylistAssumption DEF IsEntry

\* The records a command goes through.
LEMMA WsRecords ==
  /\ Idle \in WsStates
  /\ \A cmd \in Commands, lp \in BOOLEAN :
       [pc |-> "clearRunning", cmd |-> cmd, loop |-> lp, tries |-> 0] \in WsStates
  /\ \A tries \in 0..MaxTries : tries < MaxTries =>
       [pc |-> "clearRunning", cmd |-> "list", loop |-> FALSE, tries |-> tries + 1] \in WsStates
  /\ [Idle EXCEPT !.pc = "dropCallback", !.cmd = "stopList"] \in WsStates
  /\ ws \in WsStates =>
       \A pc \in {"clearRunning", "join", "open"} : [ws EXCEPT !.pc = pc] \in WsStates
<1>1. 0 \in 0..MaxTries /\ \A n \in 0..MaxTries : n < MaxTries => n + 1 \in 0..MaxTries
  BY PlaylistAssumption
<1> QED
  BY <1>1 DEF WsStates, Commands, Idle

\* playIndex leaves the index on an entry, and never opens without a join.
LEMMA PlayIndexKeeps ==
  ASSUME TypeOK, NEW i \in Int, NEW tries \in 0..MaxTries, tries < MaxTries,
         PlayIndex(i, tries)
  PROVE  ws' \in WsStates /\ index' \in 0..MaxLen /\ mutex' \in {"free", "ws"}
         /\ (ws'.pc = "open" => ws.pc = "open")
  BY WsRecords, EntryIndex DEF PlayIndex, TypeOK

\* The program starts in IInv.
LEMMA InitIInv == Init => IInv
<1> SUFFICES ASSUME Init PROVE IInv
  OBVIOUS
<1>1. 0 \in 0..MaxLen
  BY PlaylistAssumption
<1>2. ws \in WsStates /\ decoder \in DecoderStates
  BY WsRecords DEF Init, DecoderStates
<1> QED
  BY <1>1, <1>2 DEF Init, IInv, TypeOK, OpenInv, Idle

\* Commands, as they are received.
LEMMA CommandKeeps == IInv /\ Command => IInv'
<1> SUFFICES ASSUME IInv, Command PROVE IInv'
  OBVIOUS
<1> USE DEF IInv, OpenInv
<1>0. 0 \in 0..MaxTries /\ 0 < MaxTries /\ 0 \in 0..MaxLen /\ Len(playlist) \in Nat
      /\ index \in Int /\ index + 1 \in Int /\ index - 1 \in Int
  BY PlaylistAssumption, Lengths DEF TypeOK
<1>1. ASSUME NEW list \in Lists, NEW lp \in BOOLEAN, SetPlaylist(list, lp) PROVE IInv'
  BY <1>0, <1>1 DEF SetPlaylist, TypeOK, Ready
<1>2. ASSUME NEW i \in Indices, StartPlaylist(i) PROVE IInv'
  <2>1. i \in Int
    BY PlaylistAssumption DEF Indices
  <2> QED
    BY <1>0, <1>2, <2>1, PlayIndexKeeps DEF StartPlaylist, TypeOK, Ready
<1>3. CASE NextVideo
  <2>1. (IF IsEntry(index + 1) THEN index + 1 ELSE 0) \in Int
    BY <1>0
  <2> QED
    BY <1>0, <1>3, <2>1, PlayIndexKeeps DEF NextVideo, TypeOK, Ready, listVars
<1>4. CASE PrevVideo
  <2>1. (IF index > 0 THEN index - 1 ELSE IF loop THEN Len(playlist) - 1 ELSE 0) \in Int
    BY <1>0
  <2> QED
    BY <1>0, <1>4, <2>1, PlayIndexKeeps DEF PrevVideo, TypeOK, Ready, listVars
<1>5. CASE StopPlaylist
  BY <1>5, WsRecords DEF StopPlaylist, TypeOK, Idle
<1>6. ASSUME NEW lp \in BOOLEAN, PlayVideo(lp) PROVE IInv'
  BY <1>6, WsRecords DEF PlayVideo, Begin, TypeOK, Commands, listVars
<1>7. CASE StopVideo
  BY <1>7, WsRecords DEF StopVideo, Begin, TypeOK, Commands, listVars
<1> QED
  BY <1>1, <1>2, <1>3, <1>4, <1>5, <1>6, <1>7 DEF Command

\* The command's own steps.
LEMMA WsStepKeeps == IInv /\ WsStep => IInv'
<1> SUFFICES ASSUME IInv, WsStep PROVE IInv'
  OBVIOUS
<1> USE DEF IInv, OpenInv
<1>1. CASE DropCallback
  BY <1>1, WsRecords DEF DropCallback, TypeOK, WsStates
<1>2. CASE ClearRunning
  BY <1>2, WsRecords DEF ClearRunning, TypeOK, WsStates, DecoderStates, listVars
<1>3. CASE Join
  BY <1>3, WsRecords DEF Join, AfterJoin, TypeOK, WsStates, DecoderStates, listVars
<1>4. CASE OpenAndStart
  BY <1>4, WsRecords DEF OpenAndStart, TypeOK, DecoderStates, Idle, listVars
<1>5. CASE OpenVideoFails
  BY <1>5, WsRecords DEF OpenVideoFails, TypeOK, Idle, listVars
<1>6. CASE OpenEntryFails
  <2>1. NextTry \in Int /\ ws.tries \in 0..MaxTries
    BY DEF TypeOK, NextTry, WsStates
  <2>2. CASE IsEntry(NextTry)
    BY <1>6, <2>1, <2>2, PlayIndexKeeps DEF OpenEntryFails, TypeOK
  <2>3. CASE ~IsEntry(NextTry)
    BY <1>6, <2>3, WsRecords DEF OpenEntryFails, TypeOK, Idle
  <2> QED
    BY <2>2, <2>3
<1> QED
  BY <1>1, <1>2, <1>3, <1>4, <1>5, <1>6 DEF WsStep

\* The reader thread's steps.
LEMMA ReaderStepKeeps == IInv /\ ReaderStep => IInv'
<1> SUFFICES ASSUME IInv, ReaderStep PROVE IInv'
  OBVIOUS
<1> USE DEF IInv, OpenInv
<1>1. CASE ReaderExit \/ ReaderEnd \/ ReaderCall \/ Finish
  BY <1>1 DEF ReaderExit, ReaderEnd, ReaderCall, Finish, readerRest, TypeOK, DecoderStates
<1>2. CASE Advance
  <2>1. IsEntry(index + 1) => index + 1 \in 0..MaxLen
    BY EntryIndex DEF TypeOK
  <2>2. index' \in 0..MaxLen
    BY <1>2, <2>1, PlaylistAssumption DEF Advance, TypeOK
  <2>3. decoder' \in DecoderStates
    BY <1>2 DEF Advance, TypeOK, DecoderStates
  <2>4. reader' \in {"lock", "done"} /\ reader = "lock"
    BY <1>2 DEF Advance
  <2> QED
    BY <1>2, <2>2, <2>3, <2>4 DEF Advance, readerRest, TypeOK
<1> QED
  BY <1>1, <1>2 DEF ReaderStep

\* IInv is inductive.
THEOREM AlwaysIInv == Spec => []IInv
<1>1. IInv /\ UNCHANGED vars => IInv'
  BY DEF vars, IInv, OpenInv, TypeOK
<1> QED
  BY InitIInv, CommandKeeps, WsStepKeeps, ReaderStepKeeps, <1>1, PTL DEF Spec, Next
-----------------------------------------------------------------------------
\* The playlist's state stays in its types; m_currentIndex in particular is
\* never out of the range of the longest playlist.
THEOREM TypeCorrect == Spec => []TypeOK
  BY AlwaysIInv, PTL DEF IInv

\* Without loop the index only grows while a command, or the end of a video,
\* looks for the next entry.
THEOREM NeverWraps == Spec => NoWrapWithoutLoop
<1>1. IInv /\ [Next]_vars => [~loop /\ ws.pc # "idle" => index' >= index]_index
  <2> SUFFICES ASSUME IInv, [Next]_vars, ~loop, ws.pc # "idle" PROVE index' >= index
    OBVIOUS
  <2>0. index \in Nat
    BY DEF IInv, TypeOK
  <2>1. CASE OpenEntryFails
    BY <2>0, <2>1 DEF OpenEntryFails, PlayIndex, NextTry
  <2>2. CASE Advance
    BY <2>0, <2>2 DEF Advance
  <2>3. CASE index' = index
    BY <2>0, <2>3
  <2> QED
    BY <2>1, <2>2, <2>3 DEF vars, Next, Command, SetPlaylist, StartPlaylist, NextVideo, PrevVideo,
       StopPlaylist, PlayVideo, StopVideo, Ready, WsStep, DropCallback, ClearRunning, Join,
       OpenAndStart, OpenVideoFails, ReaderStep, ReaderExit, ReaderEnd, ReaderCall, Finish,
       readerRest, listVars
<1> QED
  BY <1>1, AlwaysIInv, PTL DEF Spec, NoWrapWithoutLoop
-----------------------------------------------------------------------------
(* Skipping.                                                               *)

AllBroken == \A i \in 1..Len(playlist) : playlist[i] \in Broken

\* The entries tried so far, without the present one, failed: those before it, or,
\* once the search has wrapped, those before it and those at the end of the list.
BehindFailed ==
    /\ ws.tries <= index + 1
    /\ \A i \in 1..Len(playlist) :
         index + 1 - ws.tries < i /\ i <= index => playlist[i] \in Broken
WrappedFailed ==
    /\ ws.tries <= Len(playlist)
    /\ \A i \in 1..Len(playlist) :
         i <= index \/ i > index + 1 + Len(playlist) - ws.tries => playlist[i] \in Broken

\* While a command looks for an entry it holds the mutex, so that list and index
\* stay; the other commands try none.
SkipInv ==
    /\ ws.pc = "idle" => ws.cmd = "none"
    /\ ws.cmd # "list" => ws.tries = 0
    /\ ws.cmd = "list" =>
         /\ mutex = "ws" /\ IsEntry(index)
         /\ BehindFailed \/ WrappedFailed \/ AllBroken

LEMMA InitSkip == Init => SkipInv
  BY DEF Init, SkipInv, Idle

\* The first entry a command tries.
LEMMA FirstTry ==
  ASSUME IInv, SkipInv, ws.pc = "idle", NEW i \in Int, PlayIndex(i, 0), UNCHANGED playlist
  PROVE  SkipInv'
<1> USE DEF SkipInv, IsEntry, BehindFailed
<1>1. CASE IsEntry(i)
  <2>1. /\ index' = i /\ mutex' = "ws"
        /\ ws'.pc = "clearRunning" /\ ws'.cmd = "list" /\ ws'.tries = 1
    BY <1>1 DEF PlayIndex
  <2>2. BehindFailed'
    BY <1>1, <2>1, Lengths DEF IInv, TypeOK
  <2> QED
    BY <1>1, <2>1, <2>2
<1>2. CASE ~IsEntry(i)
  BY <1>2 DEF PlayIndex
<1> QED
  BY <1>1, <1>2

LEMMA CommandSkips == ASSUME IInv, SkipInv, Command PROVE SkipInv'
<1>0. Len(playlist) \in Nat /\ index \in Int /\ index + 1 \in Int /\ index - 1 \in Int
  BY PlaylistAssumption, Lengths DEF IInv, TypeOK
<1>1. ASSUME NEW list \in Lists, NEW lp \in BOOLEAN, SetPlaylist(list, lp) PROVE SkipInv'
  BY <1>1 DEF SetPlaylist, Ready, SkipInv
<1>2. ASSUME NEW i \in Indices, StartPlaylist(i) PROVE SkipInv'
  <2>1. i \in Int
    BY PlaylistAssumption DEF Indices
  <2> QED
    BY <1>2, <2>1, FirstTry DEF StartPlaylist, Ready
<1>3. CASE NextVideo
  <2>1. (IF IsEntry(index + 1) THEN index + 1 ELSE 0) \in Int
    BY <1>0
  <2> QED
    BY <1>3, <2>1, FirstTry DEF NextVideo, Ready, listVars
<1>4. CASE PrevVideo
  <2>1. (IF index > 0 THEN index - 1 ELSE IF loop THEN Len(playlist) - 1 ELSE 0) \in Int
    BY <1>0
  <2> QED
    BY <1>4, <2>1, FirstTry DEF PrevVideo, Ready, listVars
<1>5. CASE StopPlaylist \/ StopVideo \/ \E lp \in BOOLEAN : PlayVideo(lp)
  <2>1. ws'.cmd # "list" /\ ws'.pc # "idle" /\ ws'.tries = 0
    <3>1. CASE StopPlaylist
      BY <3>1 DEF StopPlaylist, Idle
    <3>2. ASSUME NEW cmd \in {"video", "stopVideo"}, NEW lp, Begin(cmd, lp)
          PROVE  ws'.cmd # "list" /\ ws'.pc # "idle" /\ ws'.tries = 0
      BY <3>2 DEF Begin
    <3> QED
      BY <1>5, <3>1, <3>2 DEF StopVideo, PlayVideo
  <2> QED
    BY <2>1 DEF SkipInv
<1> QED
  BY <1>1, <1>2, <1>3, <1>4, <1>5 DEF Command

\* The next try: what failed is one entry more, and once all have there is none left.
LEMMA NextTrySkips == ASSUME IInv, SkipInv, OpenEntryFails PROVE SkipInv'
<1> DEFINE n == Len(playlist)
<1>0. /\ n \in Nat /\ index \in Nat /\ index < n /\ ws.tries \in Nat /\ ws.cmd = "list"
      /\ playlist[index + 1] \in Broken /\ playlist' = playlist
      /\ BehindFailed \/ WrappedFailed \/ AllBroken
  BY Lengths, PlaylistAssumption DEF IInv, TypeOK, WsStates, SkipInv, OpenEntryFails, IsEntry
<1>1. CASE ~IsEntry(NextTry)
  BY <1>1 DEF OpenEntryFails, SkipInv, Idle
<1>2. CASE IsEntry(NextTry)
  <2>1. /\ index' = NextTry /\ mutex' = "ws"
        /\ ws'.pc = "clearRunning" /\ ws'.cmd = "list" /\ ws'.tries = ws.tries + 1
    BY <1>2 DEF OpenEntryFails, PlayIndex
  <2>2. IsEntry(index)'
    BY <1>0, <1>2, <2>1 DEF IsEntry
  <2>3. (BehindFailed \/ WrappedFailed \/ AllBroken)'
    <3> USE DEF BehindFailed, WrappedFailed, AllBroken
    <3>1. \/ NextTry = index + 1 /\ index + 1 < n
          \/ NextTry = 0 /\ index + 1 = n
      <4>1. CASE IsEntry(index + 1)
        <5>1. NextTry = index + 1
          BY <4>1 DEF NextTry
        <5>2. index + 1 < n
          BY <1>0, <4>1 DEF IsEntry
        <5> QED
          BY <5>1, <5>2
      <4>2. CASE ~IsEntry(index + 1)
        <5>1. NextTry = index + 1 \/ NextTry = 0
          BY DEF NextTry
        <5>2. NextTry # index + 1
          BY <1>2, <4>2
        <5>3. index + 1 >= n
          BY <1>0, <4>2 DEF IsEntry
        <5> QED
          BY <1>0, <5>1, <5>2, <5>3
      <4> QED
        BY <4>1, <4>2
    <3>2. CASE AllBroken
      BY <1>0, <3>2
    <3>3. CASE BehindFailed /\ NextTry = index + 1
      BY <1>0, <2>1, <3>3
    <3>4. CASE BehindFailed /\ NextTry = 0 /\ index + 1 = n
      <4>1. CASE ws.tries < n
        BY <1>0, <2>1, <3>4, <4>1
      <4>2. CASE ws.tries = n
        <5>1. AllBroken
          BY <1>0, <3>4, <4>2
        <5> QED
          BY <1>0, <5>1
      <4> QED
        BY <1>0, <3>4, <4>1, <4>2
    <3>5. CASE WrappedFailed /\ NextTry = index + 1
      <4>1. CASE ws.tries < n
        BY <1>0, <2>1, <3>5, <4>1
      <4>2. CASE ws.tries = n
        <5>1. AllBroken
          BY <1>0, <3>5, <4>2
        <5> QED
          BY <1>0, <5>1
      <4> QED
        BY <1>0, <3>5, <4>1, <4>2
    <3>6. CASE WrappedFailed /\ index + 1 = n
      <4>1. AllBroken
        BY <1>0, <3>6
      <4> QED
        BY <1>0, <4>1
    <3> QED
      BY <1>0, <3>1, <3>2, <3>3, <3>4, <3>5, <3>6
  <2> QED
    BY <2>1, <2>2, <2>3 DEF SkipInv
<1> QED
  BY <1>1, <1>2

LEMMA StepSkips == ASSUME IInv, SkipInv, WsStep PROVE SkipInv'
<1>0. ws \in WsStates
  BY DEF IInv, TypeOK
<1>1. CASE OpenEntryFails
  BY <1>1, NextTrySkips
<1>2. CASE DropCallback \/ ClearRunning \/ (Join /\ ws.cmd \in {"video", "list"})
  <2>1. /\ ws'.pc # "idle" /\ ws'.cmd = ws.cmd /\ ws'.tries = ws.tries
        /\ UNCHANGED <<mutex, playlist, index>>
    BY <1>0, <1>2 DEF DropCallback, ClearRunning, Join, AfterJoin, listVars, WsStates
  <2> QED
    BY <2>1 DEF SkipInv, IsEntry, BehindFailed, WrappedFailed, AllBroken
<1>3. CASE OpenAndStart \/ OpenVideoFails \/ (Join /\ ws.cmd \notin {"video", "list"})
  <2>1. ws' = Idle
    BY <1>3 DEF OpenAndStart, OpenVideoFails, Join, AfterJoin
  <2> QED
    BY <2>1 DEF SkipInv, Idle
<1> QED
  BY <1>1, <1>2, <1>3 DEF WsStep

\* The reader moves the index only with the mutex free, when no command looks.
LEMMA ReaderSkips == ASSUME SkipInv, ReaderStep \/ UNCHANGED vars PROVE SkipInv'
<1> USE DEF SkipInv, IsEntry, BehindFailed, WrappedFailed, AllBroken
<1>1. UNCHANGED <<ws, mutex, playlist>> /\ (index' = index \/ mutex = "free")
  BY DEF ReaderStep, ReaderExit, ReaderEnd, ReaderCall, Finish, Advance, readerRest, vars
<1>2. CASE ws.cmd = "list"
  <2>1. index' = index
    BY <1>1, <1>2
  <2> QED
    BY <1>1, <1>2, <2>1
<1>3. CASE ws.cmd # "list"
  BY <1>1, <1>3
<1> QED
  BY <1>2, <1>3

\* If any entry opens, playIndex finds one before it tries an entry twice: the
\* entries behind it have failed, and once it has wrapped those ahead have, too.
THEOREM SkippingIsBounded == Spec => []SkippingEnds
<1>1. IInv /\ SkipInv /\ [Next]_vars => SkipInv'
  BY CommandSkips, StepSkips, ReaderSkips DEF Next
<1>2. IInv /\ SkipInv => SkippingEnds
  <2> SUFFICES ASSUME IInv, SkipInv, NEW i \in DOMAIN playlist, playlist[i] \notin Broken
               PROVE  ws.tries <= Len(playlist)
    BY DEF SkippingEnds
  <2>1. /\ Len(playlist) \in Nat /\ DOMAIN playlist = 1..Len(playlist)
        /\ index \in Nat /\ ws.tries \in Nat
    BY Lengths, PlaylistAssumption DEF IInv, TypeOK, Lists, WsStates
  <2> QED
    BY <2>1 DEF SkipInv, BehindFailed, WrappedFailed, AllBroken, IsEntry
<1> QED
  BY <1>1, <1>2, InitSkip, AlwaysIInv, PTL DEF Spec
-----------------------------------------------------------------------------
(* Liveness.  With what the guards come to (NobodyStuck), weak              *)
(* fairness takes a command past the reader that it joins.                  *)

\* A reader that is joined was told to end, and only the commands of the
\* playlist that play an entry hold the mutex meanwhile.
JoinInv ==
    /\ ws.pc = "join" => ~decoder.running
    /\ ws.pc = "idle" \/ ws.cmd # "list" => mutex = "free"

\* The program starts with nobody joining anything.
LEMMA InitJoin == Init => JoinInv
  BY DEF Init, JoinInv, Idle

\* Only stop() comes to a join, and only playIndex takes the mutex along.
LEMMA JoinKeeps == IInv /\ JoinInv /\ [Next]_vars => JoinInv'
<1> SUFFICES ASSUME IInv, JoinInv, [Next]_vars PROVE JoinInv'
  OBVIOUS
<1> USE DEF JoinInv
<1>0. ws \in WsStates /\ decoder \in DecoderStates
  BY DEF IInv, TypeOK
<1>1. CASE Command
  <2>1. ws.pc = "idle" /\ mutex = "free"
    BY <1>1 DEF Command, SetPlaylist, StartPlaylist, NextVideo, PrevVideo, StopPlaylist, PlayVideo,
       StopVideo, Ready
  <2>2. ASSUME NEW i, PlayIndex(i, 0) PROVE JoinInv'
    BY <2>1, <2>2 DEF PlayIndex
  <2>3. CASE NextVideo \/ PrevVideo \/ \E i \in Indices : StartPlaylist(i)
    BY <2>2, <2>3 DEF NextVideo, PrevVideo, StartPlaylist
  <2>4. CASE \E list \in Lists, lp \in BOOLEAN : SetPlaylist(list, lp)
    BY <2>1, <2>4 DEF SetPlaylist
  <2>5. CASE StopVideo \/ \E lp \in BOOLEAN : PlayVideo(lp)
    BY <2>1, <2>5 DEF StopVideo, PlayVideo, Begin
  <2>6. CASE StopPlaylist
    <3>1. ws' = [pc |-> "dropCallback", cmd |-> "stopList", loop |-> FALSE, tries |-> 0]
      BY <2>6 DEF StopPlaylist, Idle
    <3> QED
      BY <2>1, <2>6, <3>1 DEF StopPlaylist
  <2> QED
    BY <1>1, <2>3, <2>4, <2>5, <2>6 DEF Command
<1>2. CASE DropCallback \/ ClearRunning
  BY <1>0, <1>2 DEF DropCallback, ClearRunning, WsStates, DecoderStates
<1>3. CASE Join
  BY <1>0, <1>3 DEF Join, AfterJoin, WsStates, Idle
<1>4. CASE OpenAndStart \/ OpenVideoFails
  BY <1>4 DEF OpenAndStart, OpenVideoFails, Idle
<1>5. CASE OpenEntryFails
  BY <1>5 DEF OpenEntryFails, PlayIndex, Idle
<1>6. CASE ReaderStep
  BY <1>0, <1>6 DEF ReaderStep, ReaderExit, ReaderEnd, ReaderCall, Finish, Advance, readerRest,
     DecoderStates
<1>7. CASE UNCHANGED vars
  BY <1>7 DEF vars
<1> QED
  BY <1>1, <1>2, <1>3, <1>4, <1>5, <1>6, <1>7 DEF Next, WsStep

\* Where a command that does not hold the mutex stands, and at the join where
\* the reader stands that it waits for.
Under(pc) == up /\ ws.cmd # "list" /\ ws.pc = pc
Waiting(for) == Under("join") /\ reader \in for
Returned == ws.pc = "idle" \/ ~up

\* A step of the command takes it on; it is past the join once the reader ended.
LEMMA UnderWsStep ==
  IInv /\ WsStep =>
    /\ Under("dropCallback") => Under("clearRunning")'
    /\ Under("clearRunning") => Under("join")'
    /\ Under("join") => reader \in {"none", "done"} /\ (Under("open") \/ Returned)'
    /\ Under("open") => Returned'
<1>0. IInv => \A pc \in {"clearRunning", "join", "open"} :
                [ws EXCEPT !.pc = pc].pc = pc /\ [ws EXCEPT !.pc = pc].cmd = ws.cmd
  BY DEF IInv, TypeOK, WsStates
<1> USE <1>0 DEF Under, Returned, Idle
<1>1. CASE DropCallback \/ ClearRunning
  BY <1>1 DEF DropCallback, ClearRunning
<1>2. CASE Join
  <2>1. CASE ws' = Idle
    BY <1>2, <2>1 DEF Join
  <2>2. CASE ws' = [ws EXCEPT !.pc = "open"]
    BY <1>2, <2>2 DEF Join
  <2> QED
    BY <1>2, <2>1, <2>2 DEF Join, AfterJoin
<1>3. CASE OpenAndStart \/ OpenVideoFails \/ OpenEntryFails
  BY <1>3 DEF OpenAndStart, OpenVideoFails, OpenEntryFails
<1> QED
  BY <1>1, <1>2, <1>3 DEF WsStep

\* The reader does not move the command.
LEMMA UnderOthers ==
  ASSUME NEW pc \in {"dropCallback", "clearRunning", "join", "open"}, Under(pc), [Next]_vars,
         ~WsStep \/ ReaderStep
  PROVE  (Under(pc) \/ Returned)'
  BY DEF Under, Returned, Next, vars, Command, SetPlaylist, StartPlaylist, NextVideo, PrevVideo,
     StopPlaylist, PlayVideo, StopVideo, Ready, ReaderStep, ReaderExit, ReaderEnd, ReaderCall, Finish,
     Advance, readerRest

\* The steps of the reader that is waited for, of which only the end of the
\* video need not come.
LEMMA WaitingReaderStep ==
  IInv /\ JoinInv /\ up /\ ReaderStep =>
    /\ Waiting({"play"}) => (Waiting({"call"}) \/ Waiting({"none", "done"}) \/ Returned)'
    /\ Waiting({"call"}) => (Waiting({"lock"}) \/ Returned)'
    /\ Waiting({"lock"}) => (Waiting({"none", "done"}) \/ Returned)'
    /\ ~Waiting({"none", "done"})
  BY DEF Waiting, Under, Returned, ReaderStep, ReaderExit, ReaderEnd, ReaderCall, Finish, Advance,
     readerRest

\* Nobody else moves the reader.
LEMMA WaitingOthers ==
  ASSUME NEW for, Waiting(for), [Next]_vars, ~WsStep, ~ReaderStep
  PROVE  Waiting(for)'
  BY DEF Waiting, Under, Next, vars, Command, SetPlaylist, StartPlaylist, NextVideo, PrevVideo,
     StopPlaylist, PlayVideo, StopVideo, Ready

\* stop_playlist, play_video and stop_video return: the reader they join ends,
\* or waits for a mutex that nobody holds.
THEOREM StopsReturn == FairSpec /\ []NobodyStuck => StopReturns
<1> DEFINE ReaderGoes == ReaderExit \/ ReaderCall \/ Finish \/ Advance
           Live == Waiting({"play"}) \/ Waiting({"call"}) \/ Waiting({"lock"})
           Ended == Waiting({"none", "done"})
\* Where the command may stand, and who can then take a step.
<1>1. IInv /\ ws.pc # "idle" /\ ws.cmd # "list" =>
        Under("dropCallback") \/ Under("clearRunning") \/ Live \/ Ended \/ Under("open") \/ Returned
  BY DEF IInv, TypeOK, WsStates, Under, Waiting, Returned
<1>2. NobodyStuck /\ (Under("dropCallback") \/ Under("clearRunning") \/ Ended \/ Under("open"))
      => ENABLED <<up /\ WsStep>>_vars
  BY DEF NobodyStuck, Under, Waiting
<1>3. NobodyStuck /\ JoinInv /\ Live => ENABLED <<up /\ ReaderGoes>>_vars
  BY DEF NobodyStuck, JoinInv, Under, Waiting
\* Steps of the command, of the reader, and of anybody.
<1>4. IInv /\ IInv' /\ <<up /\ WsStep>>_vars =>
        /\ Under("dropCallback") => Under("clearRunning")'
        /\ Under("clearRunning") => Live' \/ Ended'
        /\ Ended => (Under("open") \/ Returned)'
        /\ Under("open") => Returned'
  BY UnderWsStep DEF Waiting, Under, IInv, TypeOK
<1>5. IInv /\ JoinInv /\ <<up /\ ReaderGoes>>_vars =>
        /\ Waiting({"play"}) => (Waiting({"call"}) \/ Ended \/ Returned)'
        /\ Waiting({"call"}) => (Waiting({"lock"}) \/ Returned)'
        /\ Waiting({"lock"}) => (Ended \/ Returned)'
  BY WaitingReaderStep DEF ReaderStep
<1>6. IInv /\ IInv' /\ JoinInv /\ [Next]_vars =>
        /\ Under("dropCallback") => (Under("dropCallback") \/ Under("clearRunning") \/ Returned)'
        /\ Under("clearRunning") => (Under("clearRunning") \/ Returned)' \/ Live' \/ Ended'
        /\ Waiting({"play"}) => (Waiting({"play"}) \/ Waiting({"call"}) \/ Ended \/ Returned)'
        /\ Waiting({"call"}) => (Waiting({"call"}) \/ Waiting({"lock"}) \/ Returned)'
        /\ Waiting({"lock"}) => (Waiting({"lock"}) \/ Ended \/ Returned)'
        /\ Ended => (Ended \/ Under("open") \/ Returned)'
        /\ Under("open") => (Under("open") \/ Returned)'
  <2>1. CASE WsStep /\ up
    BY <1>4, <2>1, UnderWsStep DEF Waiting, Under, IInv, TypeOK
  <2>2. CASE ReaderStep /\ up
    BY <2>2, WaitingReaderStep, UnderOthers
  <2>3. CASE ~(WsStep /\ up) /\ ~(ReaderStep /\ up)
    BY <2>3, WaitingOthers, UnderOthers DEF Waiting, Under
  <2> QED
    BY <2>1, <2>2, <2>3
<1> QED
  BY <1>1, <1>2, <1>3, <1>4, <1>5, <1>6, InitJoin, JoinKeeps, AlwaysIInv, PTL
  DEF FairSpec, Spec, StopReturns, Returned
-----------------------------------------------------------------------------
(* The decoder beneath the playlist.                                        *)

\* Before a start m_running is false as well, and a reader that calls back has
\* ended its file.
SessionInv ==
    /\ ws.pc = "open" => ~decoder.running
    /\ reader \in {"call", "lock"} => ~decoder.active

\* Where the reader stands as DecoderSession sees it.
Seen == IF reader \in {"none", "done"} THEN reader ELSE "live"
sessionVars == <<decoder.running, decoder.active, decoder.loop, Seen>>

LEMMA InitSession == Init => SessionInv /\ Promise!Init
  BY DEF Init, SessionInv, Idle, Promise!Init

\* The commands, as they are received, leave the decoder alone.
LEMMA CommandsSession ==
  ASSUME SessionInv, Command \/ UNCHANGED vars
  PROVE  SessionInv' /\ UNCHANGED sessionVars
<1>1. UNCHANGED <<reader, decoder>>
  BY DEF Command, SetPlaylist, StartPlaylist, NextVideo, PrevVideo, StopPlaylist, PlayVideo,
     StopVideo, vars
<1>2. ws'.pc = "open" => ws.pc = "open"
  <2>1. CASE NextVideo \/ PrevVideo \/ \E i \in Indices : StartPlaylist(i)
    BY <2>1 DEF NextVideo, PrevVideo, StartPlaylist, PlayIndex
  <2>2. CASE StopVideo \/ \E lp \in BOOLEAN : PlayVideo(lp)
    BY <2>2 DEF StopVideo, PlayVideo, Begin
  <2>3. CASE StopPlaylist
    BY <2>3 DEF StopPlaylist, Idle
  <2>4. CASE UNCHANGED vars \/ \E list \in Lists, lp \in BOOLEAN : SetPlaylist(list, lp)
    BY <2>4 DEF SetPlaylist, vars
  <2> QED
    BY <2>1, <2>2, <2>3, <2>4 DEF Command
<1> QED
  BY <1>1, <1>2 DEF SessionInv, sessionVars, Seen

\* The steps of a command stop, join and start.
LEMMA WsSession ==
  ASSUME IInv, JoinInv, SessionInv, WsStep
  PROVE  SessionInv' /\ [Promise!Next]_sessionVars
<1> USE DEF SessionInv, sessionVars, Seen
<1>0. ws \in WsStates /\ decoder \in DecoderStates
  BY DEF IInv, TypeOK
<1>1. CASE DropCallback
  BY <1>0, <1>1 DEF DropCallback, WsStates
<1>2. CASE ClearRunning
  <2>1. Promise!Stop
    BY <1>0, <1>2 DEF ClearRunning, DecoderStates, Promise!Stop
  <2> QED
    BY <1>0, <1>2, <2>1 DEF ClearRunning, WsStates, DecoderStates, Promise!Next
<1>3. CASE Join
  <2>1. ~decoder.running /\ reader \in {"none", "done"} /\ reader' = "none"
    BY <1>3 DEF JoinInv, Join
  <2>2. /\ decoder'.running = decoder.running
        /\ decoder'.active \in {decoder.active, FALSE} /\ decoder'.loop \in BOOLEAN
    BY <1>0, <1>3 DEF Join, AfterJoin, DecoderStates, WsStates
  <2>3. Promise!Join
    BY <2>1, <2>2 DEF Promise!Join
  <2> QED
    BY <2>1, <2>2, <2>3 DEF Promise!Next
<1>4. CASE OpenAndStart
  <2>1. Promise!Start
    BY <1>0, <1>4 DEF OpenAndStart, IInv, OpenInv, DecoderStates, Promise!Start
  <2> QED
    BY <1>4, <2>1 DEF OpenAndStart, Idle, Promise!Next
<1>5. CASE OpenVideoFails \/ OpenEntryFails
  BY <1>5 DEF OpenVideoFails, OpenEntryFails, PlayIndex, Idle
<1> QED
  BY <1>1, <1>2, <1>3, <1>4, <1>5 DEF WsStep

\* The reader ends its file, or ends; the callback stops the decoder before
\* the join that it dies of.
LEMMA ReaderSession ==
  ASSUME IInv, SessionInv, ReaderStep
  PROVE  SessionInv' /\ [Promise!Next]_sessionVars
<1> USE DEF SessionInv, sessionVars, Seen, readerRest
<1>0. decoder \in DecoderStates
  BY DEF IInv, TypeOK
<1>1. CASE ReaderEnd
  <2>1. Promise!End
    BY <1>0, <1>1 DEF ReaderEnd, DecoderStates, Promise!End
  <2> QED
    BY <1>0, <1>1, <2>1 DEF ReaderEnd, DecoderStates, Promise!Next
<1>2. CASE ReaderCall
  BY <1>2 DEF ReaderCall
<1>3. CASE ReaderExit \/ Finish \/ (Advance /\ reader' = "done")
  <2>1. /\ reader \notin {"none", "done"} /\ reader' = "done" /\ UNCHANGED <<decoder, ws>>
        /\ ~decoder.running \/ ~decoder.active
    BY <1>3 DEF ReaderExit, Finish, Advance
  <2>2. Promise!Exit
    BY <2>1 DEF Promise!Exit
  <2> QED
    BY <2>1, <2>2 DEF Promise!Next
<1>4. CASE Advance /\ reader' # "done"
  <2>1. UNCHANGED <<reader, ws>> /\ decoder' = [decoder EXCEPT !.running = FALSE]
    BY <1>4 DEF Advance
  <2>2. Promise!Stop
    BY <1>0, <2>1 DEF DecoderStates, Promise!Stop
  <2> QED
    BY <1>0, <2>1, <2>2 DEF DecoderStates, Promise!Next
<1> QED
  BY <1>1, <1>2, <1>3, <1>4 DEF ReaderStep

\* The playlist drives the decoder as DecoderSession lets it be driven: it
\* joins the reader of a session before it starts the next one, in the middle
\* of a playlist as between two commands, and its callback adds nothing to
\* what the reader does.
THEOREM DecoderKept == Spec => PromiseKept
<1>1. SessionInv /\ IInv /\ JoinInv /\ [Next]_vars => SessionInv' /\ [Promise!Next]_sessionVars
  BY CommandsSession, WsSession, ReaderSession DEF Next
<1>2. Promise!Init /\ [][Promise!Next]_sessionVars => PromiseKept
  BY DEF PromiseKept, Promise!Spec, Promise!session, sessionVars, Seen
<1> QED
  BY <1>1, <1>2, InitSession, InitJoin, JoinKeeps, AlwaysIInv, PTL DEF Spec

\* In particular only OpenAndStart launches a reader, after the join of the one
\* before; a std::thread assigned over an unjoined one would terminate.
THEOREM ReaderIsAlone == Spec => [][reader' = "play" => reader = "none"]_reader
<1>1. IInv /\ [Next]_vars => [reader' = "play" => reader = "none"]_reader
  BY DEF IInv, OpenInv, vars, Next, Command, SetPlaylist, StartPlaylist, NextVideo, PrevVideo,
     StopPlaylist, PlayVideo, StopVideo, WsStep, DropCallback, ClearRunning, Join, OpenAndStart,
     OpenVideoFails, OpenEntryFails, ReaderStep, ReaderExit, ReaderEnd, ReaderCall, Finish, Advance
<1> QED
  BY <1>1, AlwaysIInv, PTL DEF Spec
=============================================================================
