---------------------------- MODULE NdiReceiver -----------------------------
(***************************************************************************)
(* NDIReceiver: the receiver thread looks for the wanted source, creates a *)
(* receiver for it and stores its frames; the WebSocket thread changes or  *)
(* stops the source; the render loop shows the latest frame.  The threads  *)
(* share atomics and two strings or textures under a mutex of their own,   *)
(* so that each access is a step.                                          *)
(*                                                                         *)
(* The NDI library is modelled by its outcomes: the wanted source may be   *)
(* visible or not, and a call that can fail may fail.                      *)
(***************************************************************************)
EXTENDS Integers

CONSTANTS
    Sources,  \* the NDI sources of the network
    NoSource  \* an empty name, a null receiver or an invalid texture

ASSUME NdiAssumption == NoSource \notin Sources

VARIABLES
    up,         \* the program has not terminated
    ws,         \* [pc, source]: the command the WebSocket thread runs
    thread,     \* [pc, wanted]: receiverLoop; "none" when m_thread is empty
    running,    \* m_running
    connected,  \* m_connected
    changed,    \* m_sourceChanged
    name,       \* m_sourceName
    recv,       \* m_ndiRecv: the source it was created for
    frame,      \* m_currentFrame: the source it came from
    ndiMode,    \* config.ndiMode
    screen      \* the source of the NDI frame shown, NoSource for the texture

vars == <<up, ws, thread, running, connected, changed, name, recv, frame, ndiMode,
          screen>>

Names == Sources \cup {NoSource}
Idle == [pc |-> "idle", source |-> NoSource]

Loop == [pc |-> "loop", wanted |-> NoSource]

\* The configuration may have main start the receiver.
Init ==
    /\ up = TRUE /\ ws = Idle
    /\ connected = FALSE /\ recv = NoSource /\ frame = NoSource /\ screen = NoSource
    /\ ndiMode \in BOOLEAN
    /\ name \in IF ndiMode THEN Names ELSE {NoSource}
    /\ changed = (name # NoSource)
    /\ running = ndiMode
    /\ thread = [Loop EXCEPT !.pc = IF ndiMode THEN "loop" ELSE "none"]

Goto(pc) == ws' = [ws EXCEPT !.pc = pc]
-----------------------------------------------------------------------------
(* set_ndi_source: setSource, start when not connected, and the             *)
(* configuration.                                                           *)

SetSource(s) ==
    /\ ws.pc = "idle"
    /\ name' = s
    /\ ws' = [pc |-> "flag", source |-> s]
    /\ UNCHANGED <<up, thread, running, connected, changed, recv, frame, ndiMode, screen>>

\* Mutant: setSource forgets the flag.
FlagNever ==
    /\ ws.pc = "flag"
    /\ Goto("start")
    /\ UNCHANGED <<up, thread, running, connected, changed, name, recv, frame, ndiMode, screen>>

Flag ==
    /\ ws.pc = "flag"
    /\ changed' = TRUE
    /\ Goto("start")
    /\ UNCHANGED <<up, thread, running, connected, name, recv, frame, ndiMode, screen>>

\* start() assigns a new thread to m_thread; unless the old one was joined,
\* which only stop() does, the assignment terminates the program.
Start ==
    /\ ws.pc = "start"
    /\ IF connected \/ running
       THEN ws' = Idle /\ ndiMode' = TRUE /\ UNCHANGED <<up, thread, running>>
       ELSE IF thread.pc = "none"
       THEN /\ running' = TRUE
            /\ thread' = Loop
            /\ ws' = Idle /\ ndiMode' = TRUE
            /\ UNCHANGED up
       ELSE up' = FALSE /\ UNCHANGED <<ws, ndiMode, thread, running>>
    /\ UNCHANGED <<connected, changed, name, recv, frame, screen>>
-----------------------------------------------------------------------------
(* stop_ndi: requestStop, which does not wait for the thread. *)

RequestStop ==
    /\ ws.pc = "idle"
    /\ running' = FALSE
    /\ Goto("disconnect")
    /\ UNCHANGED <<up, thread, connected, changed, name, recv, frame, ndiMode, screen>>

Disconnect ==
    /\ ws.pc = "disconnect"
    /\ connected' = FALSE
    /\ Goto("clearName")
    /\ UNCHANGED <<up, thread, running, changed, name, recv, frame, ndiMode, screen>>

ClearName ==
    /\ ws.pc = "clearName"
    /\ name' = NoSource
    /\ Goto("clearFrame")
    /\ UNCHANGED <<up, thread, running, connected, changed, recv, frame, ndiMode, screen>>

ClearFrame ==
    /\ ws.pc = "clearFrame"
    /\ frame' = NoSource
    /\ ws' = Idle /\ ndiMode' = FALSE
    /\ UNCHANGED <<up, thread, running, connected, changed, name, recv, screen>>

WsStep ==
    \/ Flag
    \/ Start
    \/ Disconnect
    \/ ClearName
    \/ ClearFrame
-----------------------------------------------------------------------------
(* receiverLoop. *)

threadRest == <<up, ws, running, ndiMode, screen>>

At(pc) == [thread EXCEPT !.pc = pc]

\* Mutant: only the destructor ends the loop.
TestForever ==
    /\ thread.pc = "loop"
    /\ thread' = At("begin")
    /\ UNCHANGED <<threadRest, connected, changed, name, recv, frame>>

\* m_running, at the head of the loop.
Test ==
    /\ thread.pc = "loop"
    /\ thread' = At(IF running THEN "begin" ELSE "done")
    /\ UNCHANGED <<threadRest, connected, changed, name, recv, frame>>

\* The change flag is fetched and cleared.  A changed source releases the
\* receiver ...
Begin ==
    /\ thread.pc = "begin"
    /\ changed' = FALSE
    /\ thread' = At(IF recv = NoSource THEN "find"
                    ELSE IF changed THEN "release" ELSE "capture")
    /\ UNCHANGED <<threadRest, connected, name, recv, frame>>

Release ==
    /\ thread.pc = "release"
    /\ recv' = NoSource
    /\ thread' = At("released")
    /\ UNCHANGED <<threadRest, connected, changed, name, frame>>

\* ... then what is reported of it ...
ReleaseConnection ==
    /\ thread.pc = "released"
    /\ connected' = FALSE
    /\ thread' = At("dropFrame")
    /\ UNCHANGED <<threadRest, changed, name, recv, frame>>

\* Mutant: the picture of the old source stays.
KeepFrame ==
    /\ thread.pc = "dropFrame"
    /\ thread' = At("find")
    /\ UNCHANGED <<threadRest, connected, changed, name, recv, frame>>

\* ... and then its picture.
DropFrame ==
    /\ thread.pc = "dropFrame"
    /\ frame' = NoSource
    /\ thread' = At("find")
    /\ UNCHANGED <<threadRest, connected, changed, name, recv>>

\* The wanted source, read under m_sourceMutex, is visible.
Find ==
    /\ thread.pc = "find" /\ name # NoSource
    /\ thread' = [pc |-> "create", wanted |-> name]
    /\ UNCHANGED <<threadRest, connected, changed, name, recv, frame>>

\* No finder, no wanted source, or not visible: sleep and start over.
NotFound ==
    /\ thread.pc = "find"
    /\ thread' = Loop
    /\ UNCHANGED <<threadRest, connected, changed, name, recv, frame>>

Create ==
    /\ thread.pc = "create"
    /\ \/ recv' = thread.wanted /\ thread' = At("name")
       \/ thread' = Loop /\ UNCHANGED recv
    /\ UNCHANGED <<threadRest, connected, changed, name, frame>>

SetName ==
    /\ thread.pc = "name"
    /\ name' = thread.wanted
    /\ thread' = At("connect")
    /\ UNCHANGED <<threadRest, connected, changed, recv, frame>>

Connect ==
    /\ thread.pc = "connect"
    /\ connected' = TRUE
    /\ thread' = At("capture")
    /\ UNCHANGED <<threadRest, changed, name, recv, frame>>

\* recv_capture_v3 returns a video frame, which is copied before it is stored.
Capture ==
    /\ thread.pc = "capture"
    /\ thread' = At("store")
    /\ UNCHANGED <<threadRest, connected, changed, name, recv, frame>>

Store ==
    /\ thread.pc = "store"
    /\ frame' = recv
    /\ thread' = Loop
    /\ UNCHANGED <<threadRest, connected, changed, name, recv>>

CaptureNothing ==
    /\ thread.pc = "capture"
    /\ thread' = Loop
    /\ UNCHANGED <<threadRest, connected, changed, name, recv, frame>>

\* The connection is lost: the receiver is destroyed first ...
Lose ==
    /\ thread.pc = "capture"
    /\ recv' = NoSource
    /\ thread' = At("lost")
    /\ UNCHANGED <<threadRest, connected, changed, name, frame>>

\* Mutant: a lost connection is still reported as one.
StayConnected ==
    /\ thread.pc = "lost"
    /\ thread' = At("forget")
    /\ UNCHANGED <<threadRest, connected, changed, name, recv, frame>>

LoseConnection ==
    /\ thread.pc = "lost"
    /\ connected' = FALSE
    /\ thread' = At("forget")
    /\ UNCHANGED <<threadRest, changed, name, recv, frame>>

\* ... then the name is forgotten, so that the receiver does not connect again ...
Forget ==
    /\ thread.pc = "forget"
    /\ name' = NoSource
    /\ thread' = At("forgotten")
    /\ UNCHANGED <<threadRest, connected, changed, recv, frame>>

\* ... and then the picture.
ForgetFrame ==
    /\ thread.pc = "forgotten"
    /\ frame' = NoSource
    /\ thread' = Loop
    /\ UNCHANGED <<threadRest, connected, changed, name, recv>>

ThreadStep ==
    \/ Test
    \/ Begin
    \/ Release
    \/ ReleaseConnection
    \/ DropFrame
    \/ Find
    \/ NotFound
    \/ Create
    \/ SetName
    \/ Connect
    \/ Capture
    \/ Store
    \/ CaptureNothing
    \/ Lose
    \/ LoseConnection
    \/ Forget
    \/ ForgetFrame
-----------------------------------------------------------------------------
\* Mutant: main's render loop asks only whether there is a frame.
RenderAnyFrame ==
    /\ screen' = IF connected THEN frame ELSE NoSource
    /\ UNCHANGED <<up, ws, thread, running, connected, changed, name, recv, frame, ndiMode>>

\* A tick of main's render loop, with no video active.
Render ==
    /\ screen' = IF ndiMode /\ connected THEN frame ELSE NoSource
    /\ UNCHANGED <<up, ws, thread, running, connected, changed, name, recv, frame, ndiMode>>

Next ==
    /\ up
    /\ \/ \E s \in Names : SetSource(s)
       \/ RequestStop
       \/ WsStep
       \/ ThreadStep
       \/ Render

Spec == Init /\ [][Next]_vars

\* The three threads are scheduled; the library's calls return.
FairSpec ==
    /\ Spec
    /\ WF_vars(up /\ WsStep)
    /\ WF_vars(up /\ ThreadStep)
    /\ WF_vars(up /\ Render)
-----------------------------------------------------------------------------
WsStates == [pc : {"idle", "flag", "start", "disconnect", "clearName", "clearFrame"},
             source : Names]
ThreadStates == [pc : {"none", "loop", "begin", "release", "released", "dropFrame",
                       "find", "capture", "store", "lost", "forget", "forgotten", "done"},
                 wanted : Names]
                \cup [pc : {"create", "name", "connect"}, wanted : Sources]

TypeOK ==
    /\ up \in BOOLEAN /\ running \in BOOLEAN /\ connected \in BOOLEAN
    /\ changed \in BOOLEAN /\ ndiMode \in BOOLEAN
    /\ ws \in WsStates /\ thread \in ThreadStates
    /\ name \in Names /\ recv \in Names /\ frame \in Names
    /\ screen \in Names

Alive == thread.pc \notin {"none", "done"}

\* The thread notices a change of the name it is left with: a running receiver
\* captures from a source other than the one that is named only while the
\* change is still to be announced or noticed.  This does not save a request
\* whose name SetName overwrites: that one is lost, and what is noticed is the
\* old name.
ChangeIsNoticed ==
    thread.pc = "capture" /\ running /\ ws.pc = "idle" /\ ~changed => recv = name

\* After a switch no picture of the previous source remains: the frame that
\* the render loop may show comes from the receiver in use.
FrameOfReceiver == Alive /\ frame # NoSource /\ recv # NoSource => frame = recv

\* What get_ndi_status reports as connected has a receiver behind it, also when
\* requestStop overtakes the thread, but for the moment between the end of a
\* receiver and the next write of the thread.
ConnectedMeansReceiver == connected => recv # NoSource \/ thread.pc \in {"released", "lost"}

\* What the guards of the threads come to, the hypothesis of the liveness
\* theorems: a command under way, a receiver thread that has not ended and a
\* picture that is to go can take a step.
NobodyStuck ==
    /\ up /\ ws.pc # "idle" => ENABLED <<up /\ WsStep>>_vars
    /\ up /\ Alive => ENABLED <<up /\ ThreadStep>>_vars
    /\ up /\ ~ndiMode /\ screen # NoSource => ENABLED <<up /\ Render>>_vars

\* After requestStop, which does not join it, the receiver thread ends.
StopEndsThread == ~running ~> ~Alive \/ running \/ ~up

\* The display reverts to the texture after stop_ndi, whatever the receiver
\* thread still stores and reports.
StopRevertsDisplay ==
    ws.pc = "idle" /\ ~ndiMode ~> screen = NoSource \/ ndiMode \/ ~up

\* set_ndi_source starts the receiver if it is not running
\* (WEBSOCKET-API.md), after a stop_ndi too.
StartsAgain == up
=============================================================================
