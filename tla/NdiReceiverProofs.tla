------------------------- MODULE NdiReceiverProofs --------------------------
(***************************************************************************)
(* The properties of NdiReceiver, for any set of sources.                  *)
(***************************************************************************)
EXTENDS NdiReceiver, TLAPS

\* m_running goes down once and for all: a second start, for which the old
\* thread was never joined, terminates the program.
RunningInv ==
    /\ ws.pc \in {"disconnect", "clearName", "clearFrame"} => ~running
    /\ thread.pc = "none" => recv = NoSource /\ frame = NoSource

\* Where in the loop there is a receiver, and which one.
ReceiverInv ==
    /\ thread.pc \in {"released", "dropFrame", "find", "create", "lost", "forget", "forgotten"}
         => recv = NoSource
    /\ thread.pc \in {"release", "name", "connect", "capture", "store"} => recv # NoSource
    /\ thread.pc \in {"name", "connect"} => recv = thread.wanted
    /\ Alive /\ recv = NoSource /\ frame # NoSource
         => thread.pc \in {"released", "dropFrame", "lost", "forget", "forgotten"}

\* A receiver that was announced is the one that is named, or the change is
\* announced, or about to be.
NamedInv ==
    /\ thread.pc \in {"loop", "begin", "connect", "capture", "store"} /\ recv # NoSource
    /\ running /\ ws.pc # "flag" /\ ~changed
    => recv = name

IInv ==
    /\ TypeOK
    /\ RunningInv
    /\ ReceiverInv
    /\ NamedInv
    /\ FrameOfReceiver
    /\ ConnectedMeansReceiver
-----------------------------------------------------------------------------
\* The records of the two threads after a step.
LEMMA WsRecords ==
  /\ Idle \in WsStates
  /\ \A n \in Names : [pc |-> "flag", source |-> n] \in WsStates
  /\ ws \in WsStates => \A pc \in {"start", "disconnect", "clearName", "clearFrame"} :
                          [ws EXCEPT !.pc = pc] \in WsStates
  BY DEF Idle, WsStates, Names

\* Where receiverLoop has no name in hand.
Unnamed == {"loop", "begin", "release", "released", "dropFrame", "find", "capture", "store",
            "lost", "forget", "forgotten", "done"}

\* The thread's record after each kind of step.
LEMMA ThreadRecords ==
  /\ \A pc \in Unnamed \cup {"none"} : [Loop EXCEPT !.pc = pc] \in ThreadStates
  /\ Loop \in ThreadStates /\ Loop.pc = "loop"
  /\ \A s \in Sources : [pc |-> "create", wanted |-> s] \in ThreadStates
  /\ thread \in ThreadStates =>
       /\ \A pc \in Unnamed : At(pc) \in ThreadStates
       /\ thread.pc \in {"create", "name", "connect"} =>
            thread.wanted \in Sources /\ At("name") \in ThreadStates /\ At("connect") \in ThreadStates
<1>1. \A pc \in Unnamed \cup {"none"} : [Loop EXCEPT !.pc = pc] \in ThreadStates
  BY DEF ThreadStates, Names, Loop, Unnamed
<1>2. \A s \in Sources : [pc |-> "create", wanted |-> s] \in ThreadStates
  BY DEF ThreadStates
<1>3. thread \in ThreadStates => \A pc \in Unnamed : At(pc) \in ThreadStates
  BY DEF ThreadStates, At, Names, Unnamed
<1>4. thread \in ThreadStates /\ thread.pc \in {"create", "name", "connect"} =>
        thread.wanted \in Sources /\ At("name") \in ThreadStates /\ At("connect") \in ThreadStates
  BY DEF ThreadStates, At
<1>5. Loop \in ThreadStates /\ Loop.pc = "loop"
  BY DEF ThreadStates, Names, Loop
<1> QED
  BY <1>1, <1>2, <1>3, <1>4, <1>5

\* The program starts in IInv.
LEMMA InitIInv == Init => IInv
<1> SUFFICES ASSUME Init PROVE IInv
  OBVIOUS
<1>1. TypeOK
  BY WsRecords, ThreadRecords DEF Init, TypeOK, Names, Unnamed
<1> QED
  BY <1>1 DEF Init, IInv, RunningInv, ReceiverInv, NamedInv, FrameOfReceiver,
     ConnectedMeansReceiver, Alive, Idle, Loop

\* Every action keeps the variables in their types.
LEMMA TypeStep == IInv /\ [Next]_vars => TypeOK'
<1> SUFFICES ASSUME IInv, [Next]_vars PROVE TypeOK'
  OBVIOUS
<1> USE DEF IInv, TypeOK, threadRest, Unnamed
<1>0. NoSource \in Names /\ Sources \subseteq Names
  BY DEF Names
<1>1. ASSUME NEW s \in Names, SetSource(s) PROVE TypeOK'
  BY <1>1, WsRecords DEF SetSource
<1>2. CASE RequestStop
  BY <1>0, <1>2, WsRecords DEF RequestStop, Goto
<1>3. CASE WsStep
  BY <1>0, <1>3, WsRecords, ThreadRecords
  DEF WsStep, Flag, Start, Disconnect, ClearName, ClearFrame, Goto
<1>4. CASE Test \/ Begin \/ Release \/ ReleaseConnection \/ DropFrame
  BY <1>0, <1>4, ThreadRecords DEF Test, Begin, Release, ReleaseConnection, DropFrame
<1>5. CASE Find
  <2>1. name \in Sources
    BY <1>5 DEF Find, Names
  <2> QED
    BY <1>5, <2>1, ThreadRecords DEF Find
<1>6. CASE Create
  BY <1>0, <1>6, ThreadRecords DEF Create
<1>7. CASE SetName \/ Connect
  BY <1>0, <1>7, ThreadRecords DEF SetName, Connect
<1>8. CASE NotFound \/ Capture \/ Store \/ CaptureNothing
  BY <1>0, <1>8, ThreadRecords DEF NotFound, Capture, Store, CaptureNothing
<1>11. CASE Lose \/ LoseConnection \/ Forget \/ ForgetFrame
  BY <1>0, <1>11, ThreadRecords DEF Lose, LoseConnection, Forget, ForgetFrame
<1>9. CASE Render
  BY <1>0, <1>9 DEF Render
<1>10. CASE UNCHANGED vars
  BY <1>10 DEF vars
<1> QED
  BY <1>1, <1>2, <1>3, <1>4, <1>5, <1>6, <1>7, <1>8, <1>9, <1>10, <1>11 DEF Next, ThreadStep

Parts == RunningInv /\ ReceiverInv /\ NamedInv /\ FrameOfReceiver /\ ConnectedMeansReceiver

\* What the WebSocket thread and the render loop do to the invariant.
LEMMA WsKeeps ==
  IInv /\ up /\ ((\E s \in Names : SetSource(s)) \/ RequestStop \/ WsStep \/ Render) => Parts'
<1> SUFFICES ASSUME IInv, (\E s \in Names : SetSource(s)) \/ RequestStop \/ WsStep \/ Render
             PROVE  Parts'
  OBVIOUS
<1> USE DEF IInv, TypeOK, WsStates, Parts, RunningInv, ReceiverInv, NamedInv, FrameOfReceiver,
        ConnectedMeansReceiver, Alive, Idle, Loop, Goto
<1>1. ASSUME NEW s \in Names, SetSource(s) PROVE Parts'
  BY <1>1 DEF SetSource
<1>2. CASE RequestStop
  BY <1>2 DEF RequestStop
<1>3. CASE Flag
  BY <1>3 DEF Flag
<1>4. CASE Start
  <2>1. CASE connected \/ running
    BY <1>4, <2>1 DEF Start
  <2>2. CASE ~(connected \/ running) /\ thread.pc = "none"
    BY <1>4, <2>2 DEF Start
  <2>3. CASE ~(connected \/ running) /\ thread.pc # "none"
    BY <1>4, <2>3 DEF Start
  <2> QED
    BY <2>1, <2>2, <2>3
<1>5. CASE Disconnect
  BY <1>5 DEF Disconnect
<1>6. CASE ClearName
  BY <1>6 DEF ClearName
<1>7. CASE ClearFrame
  BY <1>7 DEF ClearFrame
<1>8. CASE Render
  BY <1>8 DEF Render
<1> QED
  BY <1>1, <1>2, <1>3, <1>4, <1>5, <1>6, <1>7, <1>8 DEF WsStep

\* What the receiver thread does to the invariant.
LEMMA ThreadKeeps == IInv /\ ThreadStep => Parts'
<1> SUFFICES ASSUME IInv, ThreadStep PROVE Parts'
  OBVIOUS
<1>0. /\ NoSource \notin Sources
      /\ thread.pc \in {"create", "name", "connect"} => thread.wanted \in Sources
      /\ \A pc \in Unnamed \cup {"name", "connect"} : At(pc).pc = pc /\ At(pc).wanted = thread.wanted
  BY NdiAssumption, ThreadRecords DEF IInv, TypeOK, ThreadStates, At
<1> USE <1>0 DEF IInv, Parts, RunningInv, ReceiverInv, NamedInv, FrameOfReceiver,
        ConnectedMeansReceiver, Alive, Loop, threadRest, Unnamed
<1>1. CASE Test
  BY <1>1 DEF Test
<1>2. CASE Begin
  BY <1>2 DEF Begin
<1>3. CASE Release
  BY <1>3 DEF Release
<1>4. CASE ReleaseConnection
  BY <1>4 DEF ReleaseConnection
<1>5. CASE DropFrame
  BY <1>5 DEF DropFrame
<1>6. CASE Find
  BY <1>6 DEF Find
<1>7. CASE NotFound
  BY <1>7 DEF NotFound
<1>8. CASE Create
  BY <1>8 DEF Create
<1>9. CASE SetName
  BY <1>9 DEF SetName
<1>10. CASE Connect
  BY <1>10 DEF Connect
<1>11. CASE Capture
  BY <1>11 DEF Capture
<1>12. CASE Store
  BY <1>12 DEF Store
<1>13. CASE CaptureNothing
  BY <1>13 DEF CaptureNothing
<1>14. CASE Lose
  BY <1>14 DEF Lose
<1>15. CASE LoseConnection
  BY <1>15 DEF LoseConnection
<1>16. CASE Forget
  BY <1>16 DEF Forget
<1>17. CASE ForgetFrame
  BY <1>17 DEF ForgetFrame
<1> QED
  BY <1>1, <1>2, <1>3, <1>4, <1>5, <1>6, <1>7, <1>8, <1>9,
     <1>10, <1>11, <1>12, <1>13, <1>14, <1>15, <1>16, <1>17 DEF ThreadStep

\* IInv is inductive.
THEOREM AlwaysIInv == Spec => []IInv
<1>1. IInv /\ [Next]_vars => IInv'
  <2> SUFFICES ASSUME IInv, [Next]_vars PROVE IInv'
    OBVIOUS
  <2>1. TypeOK'
    BY TypeStep
  <2>2. CASE UNCHANGED vars
    BY <2>1, <2>2 DEF vars, IInv, RunningInv, ReceiverInv, NamedInv, FrameOfReceiver,
       ConnectedMeansReceiver, Alive
  <2>3. CASE Next
    BY <2>1, <2>3, WsKeeps, ThreadKeeps DEF Next, Parts, IInv
  <2> QED
    BY <2>2, <2>3
<1> QED
  BY InitIInv, <1>1, PTL DEF Spec
-----------------------------------------------------------------------------
\* The receiver's variables stay within their types; in particular a receiver
\* is only ever created for a source.
THEOREM TypeCorrect == Spec => []TypeOK
  BY AlwaysIInv, PTL DEF IInv

\* Whatever set_ndi_source and the thread interleave, a running receiver comes to
\* be one for the name that was left in m_sourceName.
THEOREM ChangesAreNoticed == Spec => []ChangeIsNoticed
<1>1. IInv => ChangeIsNoticed
  BY DEF IInv, NamedInv, ReceiverInv, ChangeIsNoticed
<1> QED
  BY <1>1, AlwaysIInv, PTL

\* The stored frame is one of the receiver in use.
THEOREM FramesAreCurrent == Spec => []FrameOfReceiver
  BY AlwaysIInv, PTL DEF IInv

\* A reported connection has a receiver behind it, but for the moment in which
\* receiverLoop has destroyed one and not yet reported so.
THEOREM ConnectionIsReal == Spec => []ConnectedMeansReceiver
  BY AlwaysIInv, PTL DEF IInv
-----------------------------------------------------------------------------
\* A thread that was told to end and stands at a step of its loop.
EndingAt(pc) == up /\ ~running /\ thread.pc = pc

\* There is no such thread any more, and StopEndsThread holds.
Ended == ~Alive \/ running \/ ~up

\* A step of the thread takes it on, and never back.
LEMMA EndingStep ==
  IInv /\ ThreadStep =>
    /\ EndingAt("begin") => (EndingAt("release") \/ EndingAt("find") \/ EndingAt("capture") \/ Ended)'
    /\ EndingAt("release") => (EndingAt("released") \/ Ended)'
    /\ EndingAt("released") => (EndingAt("dropFrame") \/ Ended)'
    /\ EndingAt("dropFrame") => (EndingAt("find") \/ Ended)'
    /\ EndingAt("find") => (EndingAt("create") \/ EndingAt("loop") \/ Ended)'
    /\ EndingAt("create") => (EndingAt("name") \/ EndingAt("loop") \/ Ended)'
    /\ EndingAt("name") => (EndingAt("connect") \/ Ended)'
    /\ EndingAt("connect") => (EndingAt("capture") \/ Ended)'
    /\ EndingAt("capture") => (EndingAt("store") \/ EndingAt("lost") \/ EndingAt("loop") \/ Ended)'
    /\ EndingAt("store") => (EndingAt("loop") \/ Ended)'
    /\ EndingAt("lost") => (EndingAt("forget") \/ Ended)'
    /\ EndingAt("forget") => (EndingAt("forgotten") \/ Ended)'
    /\ EndingAt("forgotten") => (EndingAt("loop") \/ Ended)'
    /\ EndingAt("loop") => (Ended)'
<1> SUFFICES ASSUME IInv, ThreadStep PROVE
    /\ EndingAt("begin") => (EndingAt("release") \/ EndingAt("find") \/ EndingAt("capture") \/ Ended)'
    /\ EndingAt("release") => (EndingAt("released") \/ Ended)'
    /\ EndingAt("released") => (EndingAt("dropFrame") \/ Ended)'
    /\ EndingAt("dropFrame") => (EndingAt("find") \/ Ended)'
    /\ EndingAt("find") => (EndingAt("create") \/ EndingAt("loop") \/ Ended)'
    /\ EndingAt("create") => (EndingAt("name") \/ EndingAt("loop") \/ Ended)'
    /\ EndingAt("name") => (EndingAt("connect") \/ Ended)'
    /\ EndingAt("connect") => (EndingAt("capture") \/ Ended)'
    /\ EndingAt("capture") => (EndingAt("store") \/ EndingAt("lost") \/ EndingAt("loop") \/ Ended)'
    /\ EndingAt("store") => (EndingAt("loop") \/ Ended)'
    /\ EndingAt("lost") => (EndingAt("forget") \/ Ended)'
    /\ EndingAt("forget") => (EndingAt("forgotten") \/ Ended)'
    /\ EndingAt("forgotten") => (EndingAt("loop") \/ Ended)'
    /\ EndingAt("loop") => (Ended)'
  OBVIOUS
<1>0. \A pc \in Unnamed \cup {"name", "connect"} : At(pc).pc = pc
  BY DEF IInv, TypeOK, ThreadStates, At, Unnamed
<1> USE <1>0 DEF EndingAt, Ended, Alive, Loop, threadRest, Unnamed
<1>1. CASE Test
  BY <1>1 DEF Test
<1>2. CASE Begin
  BY <1>2 DEF Begin
<1>3. CASE Release
  BY <1>3 DEF Release
<1>4. CASE ReleaseConnection
  BY <1>4 DEF ReleaseConnection
<1>5. CASE DropFrame
  BY <1>5 DEF DropFrame
<1>6. CASE Find
  BY <1>6 DEF Find
<1>7. CASE NotFound
  BY <1>7 DEF NotFound
<1>8. CASE Create
  BY <1>8 DEF Create
<1>9. CASE SetName
  BY <1>9 DEF SetName
<1>10. CASE Connect
  BY <1>10 DEF Connect
<1>11. CASE Capture
  BY <1>11 DEF Capture
<1>12. CASE Store
  BY <1>12 DEF Store
<1>13. CASE CaptureNothing
  BY <1>13 DEF CaptureNothing
<1>14. CASE Lose
  BY <1>14 DEF Lose
<1>15. CASE LoseConnection
  BY <1>15 DEF LoseConnection
<1>16. CASE Forget
  BY <1>16 DEF Forget
<1>17. CASE ForgetFrame
  BY <1>17 DEF ForgetFrame
<1> QED
  BY <1>1, <1>2, <1>3, <1>4, <1>5, <1>6, <1>7, <1>8, <1>9,
     <1>10, <1>11, <1>12, <1>13, <1>14, <1>15, <1>16, <1>17 DEF ThreadStep

\* The other threads leave it where it is.
LEMMA OthersLetItEnd ==
  ASSUME NEW pc, [Next]_vars, ~ThreadStep, EndingAt(pc)
  PROVE  (EndingAt(pc) \/ Ended)'
  BY DEF EndingAt, Ended, Alive, Next, vars, SetSource, RequestStop, WsStep, Flag, Start,
     Disconnect, ClearName, ClearFrame, Render

\* So a step of the program leaves it there or takes it on.
LEMMA EndingForward ==
  IInv /\ [Next]_vars =>
    /\ EndingAt("begin") =>
         (EndingAt("begin") \/ EndingAt("release") \/ EndingAt("find") \/ EndingAt("capture") \/ Ended)'
    /\ EndingAt("release") =>
         (EndingAt("release") \/ EndingAt("released") \/ Ended)'
    /\ EndingAt("released") =>
         (EndingAt("released") \/ EndingAt("dropFrame") \/ Ended)'
    /\ EndingAt("dropFrame") =>
         (EndingAt("dropFrame") \/ EndingAt("find") \/ Ended)'
    /\ EndingAt("find") =>
         (EndingAt("find") \/ EndingAt("create") \/ EndingAt("loop") \/ Ended)'
    /\ EndingAt("create") =>
         (EndingAt("create") \/ EndingAt("name") \/ EndingAt("loop") \/ Ended)'
    /\ EndingAt("name") =>
         (EndingAt("name") \/ EndingAt("connect") \/ Ended)'
    /\ EndingAt("connect") =>
         (EndingAt("connect") \/ EndingAt("capture") \/ Ended)'
    /\ EndingAt("capture") =>
         (EndingAt("capture") \/ EndingAt("store") \/ EndingAt("lost") \/ EndingAt("loop") \/ Ended)'
    /\ EndingAt("store") =>
         (EndingAt("store") \/ EndingAt("loop") \/ Ended)'
    /\ EndingAt("lost") =>
         (EndingAt("lost") \/ EndingAt("forget") \/ Ended)'
    /\ EndingAt("forget") =>
         (EndingAt("forget") \/ EndingAt("forgotten") \/ Ended)'
    /\ EndingAt("forgotten") =>
         (EndingAt("forgotten") \/ EndingAt("loop") \/ Ended)'
    /\ EndingAt("loop") =>
         (EndingAt("loop") \/ Ended)'
  BY EndingStep, OthersLetItEnd DEF EndingAt, Ended, Alive

\* After requestStop the receiver thread ends, whatever it was about to do.
THEOREM StopIsFinal == FairSpec /\ []NobodyStuck => StopEndsThread
<1> DEFINE Ending ==
      \/ EndingAt("begin") \/ EndingAt("release") \/ EndingAt("released") \/ EndingAt("dropFrame")
      \/ EndingAt("find") \/ EndingAt("create") \/ EndingAt("name") \/ EndingAt("connect")
      \/ EndingAt("capture") \/ EndingAt("store") \/ EndingAt("lost") \/ EndingAt("forget")
      \/ EndingAt("forgotten") \/ EndingAt("loop")
<1>1. IInv /\ ~running => Ended \/ Ending
  BY DEF IInv, TypeOK, ThreadStates, Ended, EndingAt, Alive
<1>2. NobodyStuck /\ Ending => ENABLED <<up /\ ThreadStep>>_vars
  BY DEF NobodyStuck, EndingAt, Alive
<1>3. <<up /\ ThreadStep>>_vars => ThreadStep
  OBVIOUS
<1> QED
  BY <1>1, <1>2, <1>3, EndingStep, EndingForward, AlwaysIInv, PTL
  DEF FairSpec, Spec, StopEndsThread, Ended

\* Once the NDI mode is left, the next tick shows the texture, and nothing
\* brings the picture back.
THEOREM StopReverts == FairSpec /\ []NobodyStuck => StopRevertsDisplay
<1> DEFINE Stale == up /\ ~ndiMode /\ screen # NoSource
           Goal == screen = NoSource \/ ndiMode \/ ~up
<1>1. Stale /\ [Next]_vars => Stale' \/ Goal'
  BY DEF Next, vars, SetSource, RequestStop, WsStep, Flag, Start, Disconnect, ClearName, ClearFrame,
     Render, ThreadStep, threadRest, Test, Begin, Release, ReleaseConnection, DropFrame, Find,
     NotFound, Create, SetName, Connect, Capture, Store, CaptureNothing, Lose, LoseConnection,
     Forget, ForgetFrame
<1>2. Stale /\ <<up /\ Render>>_vars => Goal'
  BY DEF Render
<1>3. NobodyStuck /\ Stale => ENABLED <<up /\ Render>>_vars
  BY DEF NobodyStuck
<1>4. Stale \/ Goal
  OBVIOUS
<1> QED
  BY <1>1, <1>2, <1>3, <1>4, PTL DEF FairSpec, Spec, StopRevertsDisplay
=============================================================================
