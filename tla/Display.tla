------------------------------- MODULE Display ------------------------------
(***************************************************************************)
(* What is on screen when neither video nor NDI plays: the texture cache   *)
(* of TextureManager, which the WebSocket thread and, at startup, the main *)
(* thread change; the identify overlay of SplashController; and the render *)
(* loop of main.cpp, which keeps a copy of the current texture and copies  *)
(* it anew when the name of the current texture has changed.               *)
(*                                                                         *)
(* Textures are named; a copy is known by the name it was made from.       *)
(***************************************************************************)
EXTENDS Integers

CONSTANTS
    Textures,     \* the names of texture files
    Default,      \* "default.jpg"
    NoTexture,    \* the empty name
    Retain,       \* TEXTURE_RETAIN_SECONDS
    MaxDuration   \* the longest identify overlay, in seconds

ASSUME DisplayAssumption ==
    /\ Default \in Textures
    /\ NoTexture \notin Textures
    /\ Retain \in Nat
    /\ MaxDuration \in Nat \ {0}

VARIABLES
    cache,    \* texture -> seconds since lastUsed, or NotLoaded
    current,  \* currentTextureName; currentTexture points to its cache entry
    ws,       \* [pc, name]: the command the WebSocket thread runs
    main,     \* [pc, read]: the main thread, and currentName in its loop
    shown,    \* main's textureName
    display,  \* main's displayTexture
    slipped,  \* history: the last copy was of another texture than the one whose
              \* name was read, because one was set between the two
    splash,   \* [active, left]: m_active and the seconds to m_expiry
    overlay   \* whether the tick drew the overlay

vars == <<cache, current, ws, main, shown, display, slipped, splash, overlay>>

NotLoaded == Retain + 2
Names == Textures \cup {NoTexture}
IsLoaded(n) == cache[n] # NotLoaded
Idle == [pc |-> "idle", name |-> NoTexture]

Init ==
    /\ cache = [n \in Textures |-> NotLoaded]
    /\ current = NoTexture
    /\ ws = Idle
    /\ main = [pc |-> "preload", read |-> NoTexture]
    /\ shown = NoTexture /\ display = NoTexture /\ slipped = FALSE
    /\ splash = [active |-> FALSE, left |-> 0] /\ overlay = FALSE

loopVars == <<shown, display, slipped, overlay>>
-----------------------------------------------------------------------------
(* TextureManager, with m_mutex held. *)

\* cleanupUnused once n is current: entries unused for longer are erased.
CleanedUp(c, n) ==
    [m \in Textures |-> IF m # n /\ c[m] > Retain THEN NotLoaded ELSE c[m]]

\* Mutant: the clean-up runs before the texture is stamped and current.
MakeCurrentCleansFirst(n) ==
    /\ current' = n
    /\ cache' = CleanedUp(cache, current)

\* The tail of setCurrentTexture.
MakeCurrent(n) ==
    /\ current' = n
    /\ cache' = CleanedUp([cache EXCEPT ![n] = 0], n)

\* loadTexture keeps the mutex while it reads the file, which may fail.
Loaded(n) ==
    \/ cache' = [cache EXCEPT ![n] = 0]
    \/ ~IsLoaded(n) /\ UNCHANGED cache

LoadTexture(n) ==
    /\ ws.pc = "idle"
    /\ Loaded(n)
    /\ UNCHANGED <<current, ws, main, splash, loopVars>>

\* set_texture: a texture that is not cached is read without the mutex.
SetTexture(n) ==
    /\ ws.pc = "idle"
    /\ IF IsLoaded(n)
       THEN MakeCurrent(n) /\ UNCHANGED ws
       ELSE ws' = [pc |-> "load", name |-> n] /\ UNCHANGED <<cache, current>>
    /\ UNCHANGED <<main, splash, loopVars>>

SetTextureLoaded ==
    /\ ws.pc = "load"
    /\ ws' = Idle
    /\ \/ MakeCurrent(ws.name)
       \/ UNCHANGED <<cache, current>>
    /\ UNCHANGED <<main, splash, loopVars>>
-----------------------------------------------------------------------------
(* SplashController::trigger; m_active is set after the mutex is released. *)

\* The handler keeps the duration between 1 and 60 seconds.
Clamp(seconds) ==
    IF seconds < 1 THEN 1 ELSE IF seconds > MaxDuration THEN MaxDuration ELSE seconds

Identify(seconds) ==
    /\ ws.pc = "idle"
    /\ splash' = [splash EXCEPT !.left = Clamp(seconds)]
    /\ ws' = [Idle EXCEPT !.pc = "activate"]
    /\ UNCHANGED <<cache, current, main, loopVars>>

Activate ==
    /\ ws.pc = "activate"
    /\ splash' = [splash EXCEPT !.active = TRUE]
    /\ ws' = Idle
    /\ UNCHANGED <<cache, current, main, loopVars>>
-----------------------------------------------------------------------------
(* The main thread: startup, then the render loop. *)

Goto(pc) == main' = [main EXCEPT !.pc = pc]

\* The program exits when the default texture cannot be loaded.
Preload ==
    /\ main.pc = "preload"
    /\ cache' = [cache EXCEPT ![Default] = 0]
    /\ Goto("setDefault")
    /\ UNCHANGED <<current, ws, splash, loopVars>>

\* Cleaned up meanwhile, it would have to be read again.
SetDefault ==
    /\ main.pc = "setDefault"
    /\ IF IsLoaded(Default)
       THEN MakeCurrent(Default) /\ Goto("copyDefault")
       ELSE Goto("loadDefault") /\ UNCHANGED <<cache, current>>
    /\ UNCHANGED <<ws, splash, loopVars>>

LoadDefault ==
    /\ main.pc = "loadDefault"
    /\ MakeCurrent(Default) \/ UNCHANGED <<cache, current>>
    /\ Goto("copyDefault")
    /\ UNCHANGED <<ws, splash, loopVars>>

CopyDefault ==
    /\ main.pc = "copyDefault"
    /\ display' = current
    /\ Goto("boot")
    /\ UNCHANGED <<cache, current, ws, splash, shown, slipped, overlay>>

\* The boot overlay is configurable and not shown in video mode.
BootOverlay ==
    /\ main.pc = "boot"
    /\ \/ Goto("name") /\ UNCHANGED splash
       \/ splash' = [splash EXCEPT !.left = MaxDuration] /\ Goto("bootActivate")
    /\ UNCHANGED <<cache, current, ws, loopVars>>

BootActivate ==
    /\ main.pc = "bootActivate"
    /\ splash' = [splash EXCEPT !.active = TRUE]
    /\ Goto("name")
    /\ UNCHANGED <<cache, current, ws, loopVars>>

ReadName ==
    /\ main.pc = "name"
    /\ main' = [pc |-> IF current = shown THEN "overlay" ELSE "copy", read |-> current]
    /\ UNCHANGED <<cache, current, ws, splash, loopVars>>

\* Mutant: the name is remembered although nothing was copied.
CopyNameOnly ==
    /\ main.pc = "copy"
    /\ shown' = main.read /\ slipped' = (current # main.read)
    /\ Goto("overlay")
    /\ UNCHANGED <<cache, current, ws, splash, display, overlay>>

\* getCurrentTextureCopy takes the mutex a second time.
Copy ==
    /\ main.pc = "copy"
    /\ display' = current /\ shown' = main.read /\ slipped' = (current # main.read)
    /\ Goto("overlay")
    /\ UNCHANGED <<cache, current, ws, splash, overlay>>

\* Mutant: only dismiss() would end the overlay.
OverlayForever ==
    /\ main.pc = "overlay"
    /\ overlay' = splash.active
    /\ Goto("name")
    /\ UNCHANGED <<cache, current, ws, splash, shown, display, slipped>>

\* SplashController::isActive and the drawing of the overlay.
Overlay ==
    /\ main.pc = "overlay"
    /\ overlay' = (splash.active /\ splash.left > 0)
    /\ Goto(IF splash.active /\ splash.left = 0 THEN "expire" ELSE "name")
    /\ UNCHANGED <<cache, current, ws, splash, shown, display, slipped>>

\* isActive clears m_active after it compared the time with m_expiry.
Expire ==
    /\ main.pc = "expire"
    /\ splash' = [splash EXCEPT !.active = FALSE]
    /\ Goto("name")
    /\ UNCHANGED <<cache, current, ws, loopVars>>

MainStep ==
    \/ Preload
    \/ SetDefault
    \/ LoadDefault
    \/ CopyDefault
    \/ BootOverlay
    \/ BootActivate
    \/ ReadName
    \/ Copy
    \/ Overlay
    \/ Expire
-----------------------------------------------------------------------------
Older(age) == IF age <= Retain THEN age + 1 ELSE age

\* A second passes.
Tick ==
    /\ cache' = [n \in Textures |-> Older(cache[n])]
    /\ splash' = [splash EXCEPT !.left = IF @ > 0 THEN @ - 1 ELSE 0]
    /\ UNCHANGED <<current, ws, main, loopVars>>

Next ==
    \/ \E n \in Textures : LoadTexture(n)
    \/ \E n \in Textures : SetTexture(n)
    \/ SetTextureLoaded
    \/ \E seconds \in 0..(MaxDuration + 1) : Identify(seconds)
    \/ Activate
    \/ MainStep
    \/ Tick

Spec == Init /\ [][Next]_vars

\* Both threads run and time passes; no client need call.
FairSpec ==
    /\ Spec
    /\ WF_vars(SetTextureLoaded \/ Activate)
    /\ WF_vars(MainStep)
    /\ WF_vars(Tick)
-----------------------------------------------------------------------------
MainPcs == {"preload", "setDefault", "loadDefault", "copyDefault", "boot", "bootActivate",
            "name", "copy", "overlay", "expire"}
MainStates == [pc : MainPcs, read : Names]

TypeOK ==
    /\ cache \in [Textures -> 0..NotLoaded]
    /\ current \in Names
    /\ ws \in [pc : {"idle", "load", "activate"}, name : Names]
    /\ main \in MainStates
    /\ shown \in Names /\ display \in Names
    /\ splash \in [active : BOOLEAN, left : 0..MaxDuration]
    /\ overlay \in BOOLEAN /\ slipped \in BOOLEAN

\* currentTexture never dangles: the entry it points to stays in the cache,
\* although textures are read without the mutex and others are cleaned up.
CurrentIsLoaded == current # NoTexture => IsLoaded(current)

\* What the guards come to, the hypothesis of the liveness theorems: the main
\* thread can always take a step.
NobodyStuck == ENABLED <<MainStep>>_vars

\* The render loop keeps up with set_texture, of which it reads name and texture
\* one after the other: if the current texture stays the same, it is the picture
\* displayed from some time on, unless another one was set between the two.
PictureKeepsUp ==
    \A n \in Textures : <>[](current = n) => <>[](display = n \/ slipped)

\* The identify overlay disappears after its duration.
OverlayEnds == splash.left = 0 ~> ~overlay \/ splash.left > 0
=============================================================================
