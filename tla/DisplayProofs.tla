--------------------------- MODULE DisplayProofs ----------------------------
(***************************************************************************)
(* The properties of Display, for any set of textures and any retention    *)
(* and overlay times.                                                      *)
(***************************************************************************)
EXTENDS Display, TLAPS

\* The unlocked read of setCurrentTexture is for a texture.
WsInv == ws.pc = "load" => ws.name \in Textures

\* What the loop displays goes by its name, but for a texture that slipped in.
PictureInv ==
    /\ main.pc \in {"preload", "setDefault", "loadDefault", "copyDefault"} => shown = NoTexture
    /\ shown = NoTexture \/ display = shown \/ slipped

IInv == TypeOK /\ WsInv /\ PictureInv /\ CurrentIsLoaded

-----------------------------------------------------------------------------
\* Ages, names and the two threads' records.
LEMMA Ages ==
  /\ 0 \in 0..NotLoaded /\ NotLoaded \in 0..NotLoaded /\ NotLoaded # 0
  /\ \A age \in 0..NotLoaded :
       /\ Older(age) \in 0..NotLoaded
       /\ age # NotLoaded => Older(age) # NotLoaded
  /\ Textures \subseteq Names /\ NoTexture \in Names
  BY DisplayAssumption DEF NotLoaded, Older, Names

\* Whatever a client asks for, the duration is within the limits.
LEMMA ClampType == \A seconds \in Int : Clamp(seconds) \in 0..MaxDuration
  BY DisplayAssumption DEF Clamp

\* The clean-up spares the texture that is current.
LEMMA MadeCurrent ==
  ASSUME NEW n \in Textures, cache \in [Textures -> 0..NotLoaded], MakeCurrent(n)
  PROVE  cache' \in [Textures -> 0..NotLoaded] /\ current' = n /\ cache'[n] # NotLoaded
  BY Ages DEF MakeCurrent, CleanedUp

\* Loading keeps what is in the cache.
LEMMA LoadedKeeps ==
  ASSUME NEW n \in Textures, cache \in [Textures -> 0..NotLoaded], Loaded(n)
  PROVE  /\ cache' \in [Textures -> 0..NotLoaded]
         /\ \A m \in Textures : cache[m] # NotLoaded => cache'[m] # NotLoaded
  BY Ages DEF Loaded

\* The main thread's record after a step.
LEMMA MainRecords ==
  main \in MainStates =>
    /\ \A pc \in MainPcs : [main EXCEPT !.pc = pc] \in MainStates
    /\ \A pc \in MainPcs, n \in Names : [pc |-> pc, read |-> n] \in MainStates
    /\ main.read \in Names
  BY DEF MainStates

\* The program starts in IInv.
LEMMA InitIInv == Init => IInv
<1> SUFFICES ASSUME Init PROVE IInv
  OBVIOUS
<1> USE DEF Init
<1>1. cache \in [Textures -> 0..NotLoaded]
  BY Ages
<1>2. current \in Names /\ shown \in Names /\ display \in Names
      /\ overlay \in BOOLEAN /\ slipped \in BOOLEAN
  BY Ages
<1>3. ws \in [pc : {"idle", "load", "activate"}, name : Names]
  BY Ages DEF Idle
<1>4. main \in MainStates
  BY Ages DEF MainStates, MainPcs
<1>5. splash \in [active : BOOLEAN, left : 0..MaxDuration]
  <2>1. 0 \in 0..MaxDuration
    BY DisplayAssumption
  <2> QED
    BY <2>1
<1>6. WsInv /\ PictureInv /\ CurrentIsLoaded
  BY DEF WsInv, PictureInv, CurrentIsLoaded, Idle
<1> QED
  BY <1>1, <1>2, <1>3, <1>4, <1>5, <1>6 DEF IInv, TypeOK

\* Steps that change the texture or the cache.
Caching == (\E n \in Textures : LoadTexture(n) \/ SetTexture(n)) \/ SetTextureLoaded
           \/ Preload \/ SetDefault \/ LoadDefault \/ Tick

\* No such step leaves the current texture out of the cache.
LEMMA CachingKeeps ==
  IInv /\ Caching => cache' \in [Textures -> 0..NotLoaded] /\ current' \in Names
                     /\ CurrentIsLoaded' /\ WsInv'
<1> SUFFICES ASSUME IInv, Caching
             PROVE  cache' \in [Textures -> 0..NotLoaded] /\ current' \in Names
                    /\ CurrentIsLoaded' /\ WsInv'
  OBVIOUS
<1> USE DEF IInv, TypeOK, WsInv, CurrentIsLoaded, IsLoaded
<1>0. Default \in Textures /\ NoTexture \notin Textures /\ Names = Textures \cup {NoTexture}
  BY DisplayAssumption DEF Names
<1>1. ASSUME NEW n \in Textures, LoadTexture(n)
      PROVE  cache' \in [Textures -> 0..NotLoaded] /\ current' \in Names
             /\ CurrentIsLoaded' /\ WsInv'
  BY <1>0, <1>1, LoadedKeeps DEF LoadTexture
<1>2. ASSUME NEW n \in Textures, SetTexture(n)
      PROVE  cache' \in [Textures -> 0..NotLoaded] /\ current' \in Names
             /\ CurrentIsLoaded' /\ WsInv'
  BY <1>0, <1>2, MadeCurrent DEF SetTexture
<1>3. CASE SetTextureLoaded
  BY <1>0, <1>3, MadeCurrent DEF SetTextureLoaded, Idle
<1>4. CASE Preload
  BY <1>0, <1>4, Ages DEF Preload
<1>5. CASE SetDefault
  BY <1>0, <1>5, MadeCurrent DEF SetDefault
<1>6. CASE LoadDefault
  BY <1>0, <1>6, MadeCurrent DEF LoadDefault
<1>7. CASE Tick
  BY <1>0, <1>7, Ages DEF Tick
<1> QED
  BY <1>1, <1>2, <1>3, <1>4, <1>5, <1>6, <1>7 DEF Caching

\* No other step touches the cache or the current texture.
LEMMA OthersKeep ==
  IInv /\ [Next]_vars /\ ~Caching => cache' = cache /\ current' = current /\ WsInv'
<1> SUFFICES ASSUME IInv, [Next]_vars, ~Caching
             PROVE  cache' = cache /\ current' = current /\ WsInv'
  OBVIOUS
<1> QED
  BY DEF IInv, WsInv, Next, Caching, MainStep, vars, Identify, Activate, CopyDefault, BootOverlay,
     BootActivate, ReadName, Copy, Overlay, Expire, Idle

\* The threads' records, what is displayed and the overlay.
LEMMA RestTypes ==
  IInv /\ [Next]_vars =>
    /\ ws' \in [pc : {"idle", "load", "activate"}, name : Names]
    /\ main' \in MainStates
    /\ shown' \in Names /\ display' \in Names
    /\ splash' \in [active : BOOLEAN, left : 0..MaxDuration]
    /\ overlay' \in BOOLEAN /\ slipped' \in BOOLEAN
<1> SUFFICES ASSUME IInv, [Next]_vars
    PROVE /\ ws' \in [pc : {"idle", "load", "activate"}, name : Names]
          /\ main' \in MainStates
          /\ shown' \in Names /\ display' \in Names
          /\ splash' \in [active : BOOLEAN, left : 0..MaxDuration]
          /\ overlay' \in BOOLEAN /\ slipped' \in BOOLEAN
  OBVIOUS
<1> USE DEF IInv, TypeOK
<1>1. ws' \in [pc : {"idle", "load", "activate"}, name : Names]
  BY Ages DEF Next, MainStep, vars, LoadTexture, SetTexture, SetTextureLoaded, Identify, Activate,
     Preload, SetDefault, LoadDefault, CopyDefault, BootOverlay, BootActivate, ReadName, Copy,
     Overlay, Expire, Tick, Idle
<1>2. main' \in MainStates
  BY MainRecords DEF Next, MainStep, vars, LoadTexture, SetTexture, SetTextureLoaded, Identify,
     Activate, Preload, SetDefault, LoadDefault, CopyDefault, BootOverlay, BootActivate, ReadName,
     Copy, Overlay, Expire, Tick, Goto, MainPcs
<1>3. shown' \in Names /\ display' \in Names /\ overlay' \in BOOLEAN
      /\ slipped' \in BOOLEAN
  BY MainRecords DEF Next, MainStep, vars, LoadTexture, SetTexture, SetTextureLoaded, Identify,
     Activate, Preload, SetDefault, LoadDefault, CopyDefault, BootOverlay, BootActivate, ReadName,
     Copy, Overlay, Expire, Tick, loopVars
<1>4. splash' \in [active : BOOLEAN, left : 0..MaxDuration]
  <2> DEFINE Splashes == [active : BOOLEAN, left : 0..MaxDuration]
  <2>1. \A active \in BOOLEAN : [splash EXCEPT !.active = active] \in Splashes
    OBVIOUS
  <2>2. \A left \in 0..MaxDuration : [splash EXCEPT !.left = left] \in Splashes
    OBVIOUS
  <2>3. CASE \E seconds \in 0..(MaxDuration + 1) : Identify(seconds)
    BY <2>2, <2>3, ClampType DEF Identify
  <2>4. CASE Activate \/ BootActivate \/ Expire
    BY <2>1, <2>4 DEF Activate, BootActivate, Expire
  <2>5. CASE BootOverlay
    <3>1. MaxDuration \in 0..MaxDuration
      BY DisplayAssumption
    <3> QED
      BY <2>2, <2>5, <3>1 DEF BootOverlay
  <2>6. CASE Tick
    <3>1. splash.left \in 0..MaxDuration
      OBVIOUS
    <3>2. (IF splash.left > 0 THEN splash.left - 1 ELSE 0) \in 0..MaxDuration
      BY <3>1, DisplayAssumption
    <3>3. splash' = [splash EXCEPT !.left = IF splash.left > 0 THEN splash.left - 1 ELSE 0]
      BY <2>6 DEF Tick
    <3> QED
      BY <2>2, <3>2, <3>3
  <2>7. CASE splash' = splash
    BY <2>7
  <2> QED
    BY <2>3, <2>4, <2>5, <2>6, <2>7 DEF Next, MainStep, vars, LoadTexture, SetTexture,
       SetTextureLoaded, Preload, SetDefault, LoadDefault, CopyDefault, ReadName, Copy, Overlay
<1> QED
  BY <1>1, <1>2, <1>3, <1>4

\* Only the render loop changes the picture, and it keeps the name of what it
\* copied.
LEMMA PictureKept == IInv /\ [Next]_vars => PictureInv'
<1> SUFFICES ASSUME IInv, [Next]_vars PROVE PictureInv'
  OBVIOUS
<1>0. \A pc \in MainPcs : [main EXCEPT !.pc = pc].pc = pc
  BY DEF IInv, TypeOK, MainStates
<1> USE <1>0 DEF IInv, PictureInv, Goto, MainPcs, loopVars
<1>1. CASE Preload \/ SetDefault \/ LoadDefault \/ CopyDefault
  BY <1>1 DEF Preload, SetDefault, LoadDefault, CopyDefault
<1>2. CASE BootOverlay
  BY <1>2 DEF BootOverlay
<1>8. CASE BootActivate
  BY <1>8 DEF BootActivate
<1>5. CASE ReadName
  BY <1>5 DEF ReadName
<1>6. CASE Overlay
  BY <1>6 DEF Overlay
<1>7. CASE Expire
  BY <1>7 DEF Expire
<1>3. CASE Copy
  BY <1>3 DEF Copy
<1>4. CASE ~MainStep
  BY <1>4 DEF Next, vars, LoadTexture, SetTexture, SetTextureLoaded, Identify, Activate, Tick
<1> QED
  BY <1>1, <1>2, <1>3, <1>4, <1>5, <1>6, <1>7, <1>8 DEF MainStep

\* IInv is inductive.
THEOREM AlwaysIInv == Spec => []IInv
<1>1. IInv /\ [Next]_vars => IInv'
  <2> SUFFICES ASSUME IInv, [Next]_vars PROVE IInv'
    OBVIOUS
  <2>1. cache' \in [Textures -> 0..NotLoaded] /\ current' \in Names /\ CurrentIsLoaded' /\ WsInv'
    BY CachingKeeps, OthersKeep DEF IInv, TypeOK, CurrentIsLoaded, IsLoaded
  <2> QED
    BY <2>1, RestTypes, PictureKept DEF IInv, TypeOK
<1> QED
  BY InitIInv, <1>1, PTL DEF Spec
-----------------------------------------------------------------------------
\* Ages, names and durations stay within their types.
THEOREM TypeCorrect == Spec => []TypeOK
  BY AlwaysIInv, PTL DEF IInv

\* currentTexture never dangles, whatever is loaded, set and cleaned up while
\* setCurrentTexture reads a file without the mutex.
THEOREM CurrentStaysLoaded == Spec => []CurrentIsLoaded
  BY AlwaysIInv, PTL DEF IInv
-----------------------------------------------------------------------------
\* Liveness.  With what the guards come to (NobodyStuck), weak
\* fairness takes the main thread through its program counter.

\* The main thread at pc, with an overlay on screen whose time is over.
LitAt(pc) == overlay /\ splash.left = 0 /\ main.pc = pc
Out == ~overlay \/ splash.left > 0

\* A step of the main thread brings it nearer to the next drawing.
LEMMA LitStep ==
  IInv /\ MainStep =>
    /\ LitAt("preload") => (LitAt("setDefault") \/ Out)'
    /\ LitAt("setDefault") => (LitAt("loadDefault") \/ LitAt("copyDefault") \/ Out)'
    /\ LitAt("loadDefault") => (LitAt("copyDefault") \/ Out)'
    /\ LitAt("copyDefault") => (LitAt("boot") \/ Out)'
    /\ LitAt("boot") => (LitAt("bootActivate") \/ LitAt("name") \/ Out)'
    /\ LitAt("bootActivate") => (LitAt("name") \/ Out)'
    /\ LitAt("expire") => (LitAt("name") \/ Out)'
    /\ LitAt("name") => (LitAt("copy") \/ LitAt("overlay") \/ Out)'
    /\ LitAt("copy") => (LitAt("overlay") \/ Out)'
    /\ LitAt("overlay") => (Out)'
<1>0. IInv => /\ \A pc \in MainPcs : [main EXCEPT !.pc = pc].pc = pc
              /\ \A left \in Nat : [splash EXCEPT !.left = left].left = left
              /\ [splash EXCEPT !.active = TRUE].left = splash.left
              /\ [splash EXCEPT !.active = FALSE].left = splash.left
  BY DEF IInv, TypeOK, MainStates
<1>00. MaxDuration \in Nat /\ MaxDuration > 0
  BY DisplayAssumption
<1> USE <1>0, <1>00 DEF LitAt, Out, Goto, MainPcs, loopVars
<1>1. CASE Preload
  BY <1>1 DEF Preload
<1>2. CASE SetDefault
  BY <1>2 DEF SetDefault
<1>3. CASE LoadDefault
  BY <1>3 DEF LoadDefault
<1>4. CASE CopyDefault
  BY <1>4 DEF CopyDefault
<1>5. CASE BootOverlay
  <2>1. CASE UNCHANGED splash /\ Goto("name")
    BY <1>5, <2>1 DEF BootOverlay
  <2>2. CASE splash' = [splash EXCEPT !.left = MaxDuration]
    <3>1. IInv => splash'.left > 0
      BY <2>2 DEF IInv, TypeOK
    <3> QED
      BY <1>5, <3>1 DEF BootOverlay
  <2> QED
    BY <1>5, <2>1, <2>2 DEF BootOverlay
<1>6. CASE BootActivate
  BY <1>6 DEF BootActivate
<1>7. CASE ReadName
  BY <1>7 DEF ReadName
<1>8. CASE Copy
  BY <1>8 DEF Copy
<1>9. CASE Overlay
  BY <1>9 DEF Overlay
<1>10. CASE Expire
  BY <1>10 DEF Expire
<1> QED
  BY <1>1, <1>2, <1>3, <1>4, <1>5, <1>6, <1>7, <1>8, <1>9, <1>10 DEF MainStep

\* The others leave it where it is, or show the overlay anew.
LEMMA OthersKeepLit ==
  ASSUME NEW pc, IInv, [Next]_vars, ~MainStep, LitAt(pc)
  PROVE  (LitAt(pc) \/ Out)'
<1> USE DEF LitAt, Out, loopVars
<1>1. ASSUME NEW seconds \in Int, Identify(seconds) PROVE Out'
  <2>1. splash' = [splash EXCEPT !.left = Clamp(seconds)] /\ Clamp(seconds) > 0
    BY <1>1, DisplayAssumption DEF Identify, Clamp
  <2> QED
    BY <2>1 DEF IInv, TypeOK
<1>2. CASE Tick
  BY <1>2 DEF Tick, IInv, TypeOK
<1>3. CASE Activate
  BY <1>3 DEF Activate, IInv, TypeOK
<1>4. CASE UNCHANGED vars \/ SetTextureLoaded \/ \E n \in Textures : LoadTexture(n) \/ SetTexture(n)
  BY <1>4 DEF vars, SetTextureLoaded, LoadTexture, SetTexture
<1> QED
  BY <1>1, <1>2, <1>3, <1>4 DEF Next

\* So no step takes it back.
LEMMA LitForward ==
  IInv /\ [Next]_vars =>
    /\ LitAt("preload") => (LitAt("preload") \/ LitAt("setDefault") \/ Out)'
    /\ LitAt("setDefault") =>
          (LitAt("setDefault") \/ LitAt("loadDefault") \/ LitAt("copyDefault") \/ Out)'
    /\ LitAt("loadDefault") => (LitAt("loadDefault") \/ LitAt("copyDefault") \/ Out)'
    /\ LitAt("copyDefault") => (LitAt("copyDefault") \/ LitAt("boot") \/ Out)'
    /\ LitAt("boot") => (LitAt("boot") \/ LitAt("bootActivate") \/ LitAt("name") \/ Out)'
    /\ LitAt("bootActivate") => (LitAt("bootActivate") \/ LitAt("name") \/ Out)'
    /\ LitAt("expire") => (LitAt("expire") \/ LitAt("name") \/ Out)'
    /\ LitAt("name") => (LitAt("name") \/ LitAt("copy") \/ LitAt("overlay") \/ Out)'
    /\ LitAt("copy") => (LitAt("copy") \/ LitAt("overlay") \/ Out)'
    /\ LitAt("overlay") => (LitAt("overlay") \/ Out)'
  BY LitStep, OthersKeepLit DEF LitAt, Out

\* An overlay whose time is over is gone with the next drawing.
THEOREM OverlayIsBounded == FairSpec /\ []NobodyStuck => OverlayEnds
<1> DEFINE Lit ==
      \/ LitAt("preload") \/ LitAt("setDefault") \/ LitAt("loadDefault") \/ LitAt("copyDefault")
      \/ LitAt("boot") \/ LitAt("bootActivate") \/ LitAt("expire") \/ LitAt("name")
      \/ LitAt("copy") \/ LitAt("overlay")
<1>1. IInv /\ splash.left = 0 => Out \/ Lit
  BY DEF IInv, TypeOK, MainStates, MainPcs, LitAt, Out
<1>2. NobodyStuck => ENABLED <<MainStep>>_vars
  BY DEF NobodyStuck
<1>3. <<MainStep>>_vars => MainStep
  OBVIOUS
<1> QED
  BY <1>1, <1>2, <1>3, LitStep, LitForward, AlwaysIInv, PTL
  DEF FairSpec, Spec, OverlayEnds, Out

\* The name of the texture n has reached the render loop, for good as long as
\* n is current.
Kept(n) == shown = n /\ (main.pc = "copy" => main.read = n)

\* It has not, and the main thread is at pc; of a copy that is due, "stale"
\* or "fresh" tells whether n was current when its name was read.
Behind(n, at) ==
    /\ ~Kept(n)
    /\ main.pc = IF at \in {"stale", "fresh"} THEN "copy" ELSE at
    /\ at = "stale" => main.read # n
    /\ at = "fresh" => main.read = n

\* The WebSocket thread and time do not touch it.
LEMMA OthersKeepBehind ==
  ASSUME NEW n, NEW at, [Next]_vars, ~MainStep
  PROVE  (Kept(n) => Kept(n)') /\ (Behind(n, at) => Behind(n, at)')
  BY DEF Kept, Behind, Next, vars, loopVars, LoadTexture, SetTexture, SetTextureLoaded, Identify,
     Activate, Tick

\* The render loop keeps up with the current texture: a name that was read too
\* early is kept once, and then replaced, and the picture with it unless another
\* texture slipped in between.
THEOREM LoopKeepsUp == FairSpec /\ []NobodyStuck => PictureKeepsUp
<1>1. ASSUME NEW n \in Textures
      PROVE  FairSpec /\ []NobodyStuck =>
               (<>[](current = n) => <>[](display = n \/ slipped))
  <2> DEFINE At(pc) == Behind(n, pc)
             Somewhere ==
               \/ At("preload") \/ At("setDefault") \/ At("loadDefault") \/ At("copyDefault")
               \/ At("boot") \/ At("bootActivate") \/ At("stale") \/ At("overlay")
               \/ At("expire") \/ At("name") \/ At("fresh")
  <2>1. IInv => Kept(n) \/ Somewhere
    BY DEF IInv, TypeOK, MainStates, MainPcs, Behind
  \* A step of the main thread brings the copy of the name nearer.
  <2>2. IInv /\ current = n /\ MainStep =>
         /\ Kept(n) => Kept(n)'
         /\ At("preload") => (At("setDefault") \/ Kept(n))'
         /\ At("setDefault") => (At("loadDefault") \/ At("copyDefault") \/ Kept(n))'
         /\ At("loadDefault") => (At("copyDefault") \/ Kept(n))'
         /\ At("copyDefault") => (At("boot") \/ Kept(n))'
         /\ At("boot") => (At("bootActivate") \/ At("name") \/ Kept(n))'
         /\ At("bootActivate") => (At("name") \/ Kept(n))'
         /\ At("stale") => (At("overlay") \/ Kept(n))'
         /\ At("overlay") => (At("expire") \/ At("name") \/ Kept(n))'
         /\ At("expire") => (At("name") \/ Kept(n))'
         /\ At("name") => (At("fresh") \/ Kept(n))'
         /\ At("fresh") => (Kept(n))'
    <3>0. IInv => \A pc \in MainPcs : /\ [main EXCEPT !.pc = pc].pc = pc
                                      /\ [main EXCEPT !.pc = pc].read = main.read
      BY DEF IInv, TypeOK, MainStates
    <3> USE <3>0 DEF Kept, Behind, Goto, MainPcs, loopVars
    <3>1. CASE Preload
      BY <3>1 DEF Preload
    <3>2. CASE SetDefault
      <4>1. CASE Goto("copyDefault")
        BY <3>2, <4>1 DEF SetDefault
      <4>2. CASE Goto("loadDefault")
        BY <3>2, <4>2 DEF SetDefault
      <4> QED
        BY <3>2, <4>1, <4>2 DEF SetDefault
    <3>3. CASE LoadDefault
      BY <3>3 DEF LoadDefault
    <3>4. CASE CopyDefault
      BY <3>4 DEF CopyDefault
    <3>5. CASE BootOverlay
      BY <3>5 DEF BootOverlay
    <3>6. CASE BootActivate
      BY <3>6 DEF BootActivate
    <3>7. CASE ReadName
      BY <3>7 DEF ReadName
    <3>8. CASE Copy
      BY <3>8 DEF Copy
    <3>9. CASE Overlay
      BY <3>9 DEF Overlay
    <3>10. CASE Expire
      BY <3>10 DEF Expire
    <3> QED
      BY <3>1, <3>2, <3>3, <3>4, <3>5, <3>6, <3>7, <3>8, <3>9, <3>10 DEF MainStep
  <2>3. IInv /\ current = n /\ [Next]_vars =>
         /\ Kept(n) => Kept(n)'
         /\ At("preload") => (At("preload") \/ At("setDefault") \/ Kept(n))'
         /\ At("setDefault") =>
               (At("setDefault") \/ At("loadDefault") \/ At("copyDefault") \/ Kept(n))'
         /\ At("loadDefault") => (At("loadDefault") \/ At("copyDefault") \/ Kept(n))'
         /\ At("copyDefault") => (At("copyDefault") \/ At("boot") \/ Kept(n))'
         /\ At("boot") => (At("boot") \/ At("bootActivate") \/ At("name") \/ Kept(n))'
         /\ At("bootActivate") => (At("bootActivate") \/ At("name") \/ Kept(n))'
         /\ At("stale") => (At("stale") \/ At("overlay") \/ Kept(n))'
         /\ At("overlay") => (At("overlay") \/ At("expire") \/ At("name") \/ Kept(n))'
         /\ At("expire") => (At("expire") \/ At("name") \/ Kept(n))'
         /\ At("name") => (At("name") \/ At("fresh") \/ Kept(n))'
         /\ At("fresh") => (At("fresh") \/ Kept(n))'
    BY <2>2, OthersKeepBehind
  <2>4. NobodyStuck => ENABLED <<MainStep>>_vars
    BY DEF NobodyStuck
  <2>5. <<MainStep>>_vars => MainStep
    OBVIOUS
  <2>6. IInv /\ Kept(n) => display = n \/ slipped
    BY DisplayAssumption DEF IInv, PictureInv, Kept
  <2> QED
    BY <2>1, <2>2, <2>3, <2>4, <2>5, <2>6, AlwaysIInv, PTL DEF FairSpec, Spec
<1> QED
  BY <1>1 DEF PictureKeepsUp
=============================================================================
