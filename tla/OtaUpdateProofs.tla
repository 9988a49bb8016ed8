--------------------------- MODULE OtaUpdateProofs --------------------------
(***************************************************************************)
(* What an update leaves alone, what it switches to and that it arrives,   *)
(* for any number of releases.                                             *)
(***************************************************************************)
EXTENDS OtaUpdate, TLAPS

\* A running update is about another partition and another slot than those
\* the device runs from.
ScriptInv ==
    script.pc # "idle" =>
        /\ device.state = "up"
        /\ script.dev # device.root
        /\ script.inactive # Slot

IInv == TypeOK /\ ScriptInv
-----------------------------------------------------------------------------
\* Releases, and the script's record after each kind of step.
LEMMA Numbers ==
  /\ Releases \subseteq 0..MaxRelease /\ 0 \in 0..MaxRelease /\ 1 \in Releases
  /\ \A r \in Releases : r < MaxRelease => r + 1 \in Releases
  BY OtaAssumption DEF Releases

LEMMA ScriptRecords ==
  /\ Idle \in ScriptStates
  /\ script \in ScriptStates =>
       /\ \A pc \in Pcs : [script EXCEPT !.pc = pc] \in ScriptStates
       /\ \A pc \in Pcs, r \in 0..MaxRelease :
            LET next == [script EXCEPT !.pc = pc, !.release = r] IN
            next \in ScriptStates /\ next.dev = script.dev /\ next.inactive = script.inactive
       /\ script.dev \in Partitions /\ script.inactive \in Slots /\ script.release \in 0..MaxRelease
  BY Numbers DEF ScriptStates, Idle, Pcs, Slots, Partitions

\* The program starts in IInv.
LEMMA InitIInv == Init => IInv
<1> SUFFICES ASSUME Init PROVE IInv
  OBVIOUS
<1> USE DEF Init
<1>1. parts \in [Partitions -> PartStates]
  <2>1. /\ [label |-> "a", release |-> 1, whole |-> TRUE] \in PartStates
        /\ [label |-> "b", release |-> 0, whole |-> TRUE] \in PartStates
    BY Numbers DEF PartStates, Slots
  <2>2. parts = [p \in Partitions |-> parts[p]] /\ parts["p2"] \in PartStates
        /\ parts["p3"] \in PartStates
    BY <2>1 DEF Partitions
  <2> QED
    BY <2>2 DEF Partitions
<1>2. device \in DeviceStates /\ script \in ScriptStates
  BY ScriptRecords DEF DeviceStates, Partitions
<1>3. ScriptInv
  BY DEF ScriptInv, Idle
<1> QED
  BY <1>1, <1>2, <1>3, Numbers DEF IInv, TypeOK, Slots

\* The check picks the partition and the slot that are not in use.
LEMMA CheckKeeps == ASSUME IInv, NEW force \in BOOLEAN, Check(force) PROVE IInv'
<1> USE DEF IInv, TypeOK
<1>1. PICK p \in Labelled(Other(Slot)) :
        script' = [pc |-> "download", inactive |-> Other(Slot), dev |-> p, release |-> 0,
                   force |-> force]
  BY DEF Check
<1>2. Slot \in Slots /\ Other(Slot) \in Slots /\ Other(Slot) # Slot
  BY DEF Slot, Slots, Other, DeviceStates, PartStates
<1>3. p \in Partitions /\ parts[p].label = Other(Slot)
  BY DEF Labelled
<1>4. p # device.root
  BY <1>2, <1>3 DEF Slot
<1>5. script' \in ScriptStates
  BY <1>1, <1>2, <1>3, Numbers DEF ScriptStates, Pcs
<1> QED
  BY <1>1, <1>2, <1>4, <1>5 DEF Check, ScriptInv, Slot, bootVars, history

\* A script that goes on is still about the same partition and slot.
LEMMA GotoTypes ==
  ASSUME IInv, NEW pc \in Pcs, Goto(pc)
  PROVE  script' \in ScriptStates /\ script'.dev = script.dev /\ script'.inactive = script.inactive
  BY ScriptRecords DEF Goto, IInv, TypeOK, ScriptStates

LEMMA GoesOn ==
  ASSUME IInv, script.pc # "idle", UNCHANGED device, parts'[device.root] = parts[device.root],
         script'.dev = script.dev, script'.inactive = script.inactive
  PROVE  ScriptInv'
  BY DEF IInv, ScriptInv, Slot

\* A script that ends leaves nothing to show.
LEMMA ExitKeeps ==
  ASSUME IInv, Exit, device' \in DeviceStates, mounted' \in BOOLEAN,
         damaged' \in BOOLEAN, broken' \in BOOLEAN, exposed' \in BOOLEAN,
         conf' \in Slots \cup {"none"}, selected' \in Slots \cup {"none"}, active' \in BOOLEAN,
         UNCHANGED <<target, server, parts, kernels, marker>>
  PROVE  IInv'
<1>1. script' \in ScriptStates /\ script'.pc = "idle"
  BY ScriptRecords DEF Exit, Idle
<1> QED
  BY <1>1 DEF IInv, TypeOK, ScriptInv

\* What is written to the other partition keeps the types and the root.
LEMMA PartKeeps ==
  ASSUME IInv, script.pc # "idle", NEW part \in PartStates,
         parts' = [parts EXCEPT ![script.dev] = part]
  PROVE  /\ parts' \in [Partitions -> PartStates]
         /\ parts'[device.root] = parts[device.root]
  BY ScriptRecords DEF IInv, TypeOK, ScriptInv, DeviceStates

\* Each step of the script keeps the invariant and the running system.
Untouched == parts'[device.root] = parts[device.root] /\ kernels'[Slot] = kernels[Slot]

LEMMA RootKeeps == IInv /\ RootSteps => IInv' /\ Untouched
<1> SUFFICES ASSUME IInv, RootSteps PROVE IInv' /\ Untouched
  OBVIOUS
<1> USE DEF IInv, Untouched
<1>0. script.dev \in Partitions /\ script.release \in 0..MaxRelease /\ script.inactive \in Slots
      /\ parts[script.dev] \in PartStates /\ server \in 0..MaxRelease
  BY ScriptRecords, Numbers DEF TypeOK
<1>1. CASE Download
  <2>1. script' \in ScriptStates /\ script'.dev = script.dev /\ script'.inactive = script.inactive
    <3>1. script' = [script EXCEPT !.pc = "write", !.release = server] /\ "write" \in Pcs
      BY <1>1 DEF Download, Pcs
    <3> QED
      BY <1>0, <3>1, ScriptRecords DEF TypeOK
  <2>2. ScriptInv'
    BY <1>1, <2>1, GoesOn DEF Download
  <2> QED
    BY <1>1, <2>1, <2>2 DEF Download, TypeOK, bootVars, history
<1>2. CASE DownloadFails \/ FixupFails \/ WriteFails \/ RelabelFails
  <2>1. /\ Exit /\ UNCHANGED <<target, server, parts, bootVars, device, damaged, exposed>>
        /\ broken' \in BOOLEAN /\ mounted' \in BOOLEAN
    BY <1>2 DEF DownloadFails, FixupFails, WriteFails, RelabelFails, TypeOK, history
  <2> QED
    BY <2>1, ExitKeeps DEF TypeOK, bootVars
<1>3. CASE GunzipFails \/ Fixup
  <2>1. \E pc \in Pcs : Goto(pc)
    BY <1>3 DEF GunzipFails, Fixup, Pcs
  <2>2. /\ UNCHANGED <<target, server, parts, bootVars, device, broken, exposed>>
        /\ damaged' \in BOOLEAN /\ mounted' \in BOOLEAN
        /\ script.pc # "idle"
    BY <1>3 DEF GunzipFails, Fixup, TypeOK, history
  <2> QED
    BY <2>1, <2>2, GotoTypes, GoesOn DEF TypeOK, bootVars
<1>4. CASE WriteBegins \/ WriteEnds \/ Relabel
  <2>1. PICK part \in PartStates : parts' = [parts EXCEPT ![script.dev] = part]
    <3>1. CASE WriteBegins
      <4>1. [label |-> "a", release |-> script.release, whole |-> FALSE] \in PartStates
        BY <1>0 DEF PartStates, Slots
      <4> QED
        BY <3>1, <4>1 DEF WriteBegins, Image
    <3>2. CASE WriteEnds
      <4>1. PICK whole \in BOOLEAN : parts' = [parts EXCEPT ![script.dev].whole = whole]
        BY <3>2 DEF WriteEnds
      <4>2. [parts[script.dev] EXCEPT !.whole = whole] \in PartStates
        BY <1>0 DEF PartStates
      <4> QED
        BY <4>1, <4>2
    <3>3. CASE Relabel
      <4>1. [parts[script.dev] EXCEPT !.label = script.inactive] \in PartStates
        BY <1>0 DEF PartStates
      <4> QED
        BY <3>3, <4>1 DEF Relabel
    <3> QED
      BY <1>4, <3>1, <3>2, <3>3
  <2>2. script.pc # "idle"
    BY <1>4 DEF WriteBegins, WriteEnds, Relabel
  <2>3. parts' \in [Partitions -> PartStates] /\ parts'[device.root] = parts[device.root]
    BY <2>1, <2>2, PartKeeps
  <2>4. \E pc \in Pcs : Goto(pc)
    BY <1>4 DEF WriteBegins, WriteEnds, Relabel, Pcs
  <2>5. UNCHANGED <<target, server, bootVars, mounted, device, damaged, broken>>
    BY <1>4 DEF WriteBegins, WriteEnds, Relabel, history
  <2>6. exposed' \in BOOLEAN
    BY <1>4, Zenon DEF WriteBegins, WriteEnds, Relabel, history, TypeOK
  <2> QED
    BY <2>2, <2>3, <2>4, <2>5, <2>6, GotoTypes, GoesOn DEF TypeOK, bootVars
<1> QED
  BY <1>1, <1>2, <1>3, <1>4 DEF RootSteps

LEMMA BootKeeps == IInv /\ BootSteps => IInv' /\ Untouched
<1> SUFFICES ASSUME IInv, BootSteps PROVE IInv' /\ Untouched
  OBVIOUS
<1> USE DEF IInv, Untouched
<1>0. BootRelease \subseteq 0..MaxRelease /\ script.release \in 0..MaxRelease
  BY ScriptRecords, Numbers DEF TypeOK, BootRelease
<1>1. script.inactive # Slot /\ script.pc # "idle" /\ script.inactive \in Slots
  BY ScriptRecords DEF BootSteps, SkipBoot, CopyBegins, CopyEnds, CopyFails, CopyNothing, ScriptInv,
     TypeOK
<1>2. script' \in ScriptStates /\ script'.dev = script.dev /\ script'.inactive = script.inactive
  <2>1. CASE CopyBegins
    <3>1. PICK r \in BootRelease : script' = [script EXCEPT !.pc = "copy", !.release = r]
      BY <2>1 DEF CopyBegins
    <3>2. r \in 0..MaxRelease /\ "copy" \in Pcs /\ script \in ScriptStates
      BY <1>0 DEF Pcs, TypeOK
    <3> QED
      BY <3>1, <3>2, ScriptRecords
  <2>2. CASE ~CopyBegins
    <3>1. \E pc \in Pcs : Goto(pc)
      BY <2>2 DEF BootSteps, SkipBoot, CopyEnds, CopyFails, CopyNothing, Pcs
    <3> QED
      BY <3>1, GotoTypes
  <2> QED
    BY <2>1, <2>2
<1>3. UNCHANGED <<target, server, parts, active, conf, selected, mounted, device, broken, exposed>>
  BY DEF BootSteps, SkipBoot, CopyBegins, CopyEnds, CopyFails, CopyNothing, bootVars, history
<1>4. kernels' \in [Slots -> BOOLEAN] /\ kernels'[Slot] = kernels[Slot]
  <2>1. \/ kernels' = kernels
        \/ kernels' = [kernels EXCEPT ![script.inactive] = FALSE]
        \/ kernels' = [kernels EXCEPT ![script.inactive] = TRUE]
    BY DEF BootSteps, SkipBoot, CopyBegins, CopyEnds, CopyFails, CopyNothing, bootVars
  <2>2. kernels \in [Slots -> BOOLEAN] /\ Slot \in Slots
    BY DEF TypeOK, Slot, DeviceStates, PartStates
  <2> QED
    BY <1>1, <2>1, <2>2, Zenon
<1>5. marker' \in 0..MaxRelease
  BY <1>0 DEF BootSteps, SkipBoot, CopyBegins, CopyEnds, CopyFails, CopyNothing, TypeOK, bootVars
<1>6. damaged' \in BOOLEAN
  BY DEF BootSteps, SkipBoot, CopyBegins, CopyEnds, CopyFails, CopyNothing, TypeOK, history
<1> QED
  BY <1>1, <1>2, <1>3, <1>4, <1>5, <1>6, GoesOn DEF TypeOK

LEMMA SwitchKeeps == IInv /\ SwitchSteps => IInv' /\ Untouched
<1> SUFFICES ASSUME IInv, SwitchSteps PROVE IInv' /\ Untouched
  OBVIOUS
<1> USE DEF IInv, Untouched
<1>0. script.inactive \in Slots /\ kernels[script.inactive] \in BOOLEAN
  BY ScriptRecords DEF TypeOK
<1>1. CASE SwitchFails \/ SelectFails \/ ActivateFails \/ RebootFails
  <2>1. /\ Exit /\ UNCHANGED <<target, server, parts, kernels, marker, mounted, device, history>>
        /\ conf' \in {conf, "none"} /\ selected' \in {selected, "none"} /\ active' \in BOOLEAN
    BY <1>1 DEF SwitchFails, SelectFails, ActivateFails, RebootFails, bootVars, TypeOK
  <2> QED
    BY <2>1, ExitKeeps DEF TypeOK, history
<1>2. CASE Reboot
  <2>1. device' \in DeviceStates
    BY <1>2 DEF Reboot, TypeOK, DeviceStates
  <2> QED
    BY <1>2, <2>1, ExitKeeps DEF Reboot, TypeOK, bootVars, history
<1>3. CASE SwitchConf \/ Select \/ Selected \/ ActivateBegins \/ Activated
  <2>1. script' \in ScriptStates /\ script'.dev = script.dev /\ script'.inactive = script.inactive
    <3>1. \E pc \in Pcs : Goto(pc)
      BY <1>3 DEF SwitchConf, Select, Selected, ActivateBegins, Activated, Pcs
    <3> QED
      BY <3>1, GotoTypes
  <2>2. script.pc # "idle"
    BY <1>3 DEF SwitchConf, Select, Selected, ActivateBegins, Activated
  <2>3. /\ conf' \in Slots \cup {"none"} /\ selected' \in Slots \cup {"none"}
        /\ active' \in BOOLEAN
    BY <1>0, <1>3 DEF SwitchConf, Select, Selected, ActivateBegins, Activated, TypeOK
  <2>4. /\ UNCHANGED <<target, server, parts, kernels, marker, mounted, device, damaged, broken>>
        /\ exposed' \in {exposed, FALSE}
    BY <1>3 DEF SwitchConf, Select, Selected, ActivateBegins, Activated, history
  <2> QED
    BY <2>1, <2>2, <2>3, <2>4, GoesOn DEF TypeOK
<1> QED
  BY <1>1, <1>2, <1>3 DEF SwitchSteps

\* The steps of the device, its power and the server.
LEMMA DeviceKeeps == IInv /\ (Publish \/ PowerCut \/ Boot) => IInv' /\ UNCHANGED <<parts, kernels>>
<1> SUFFICES ASSUME IInv, Publish \/ PowerCut \/ Boot PROVE IInv' /\ UNCHANGED <<parts, kernels>>
  OBVIOUS
<1> USE DEF IInv
<1>1. CASE Publish
  BY <1>1, Numbers DEF Publish, TypeOK, ScriptInv, Slot, bootVars, history
<1>2. CASE PowerCut
  <2>1. device' \in DeviceStates
    BY <1>2 DEF PowerCut, TypeOK, DeviceStates
  <2> QED
    BY <1>2, <2>1, ExitKeeps DEF PowerCut, TypeOK, bootVars
<1>3. CASE Boot
  <2>1. device' \in DeviceStates
    BY <1>3 DEF Boot, TypeOK, DeviceStates, Labelled
  <2>2. script.pc = "idle"
    BY <1>3 DEF Boot, ScriptInv
  <2> QED
    BY <1>3, <2>1, <2>2 DEF Boot, TypeOK, ScriptInv, bootVars, history
<1> QED
  BY <1>1, <1>2, <1>3

\* IInv is inductive.
THEOREM AlwaysIInv == Spec => []IInv
<1>1. IInv /\ UNCHANGED vars => IInv'
  BY DEF vars, history, IInv, TypeOK, ScriptInv, Slot
<1>2. IInv /\ [Next]_vars => IInv'
  BY <1>1, CheckKeeps, RootKeeps, BootKeeps, SwitchKeeps, DeviceKeeps DEF Next, ScriptStep
<1> QED
  BY InitIInv, <1>2, PTL DEF Spec
-----------------------------------------------------------------------------
\* Labels, slots, releases and the script's own variables keep their types.
THEOREM TypeCorrect == Spec => []TypeOK
  BY AlwaysIInv, PTL DEF IInv

\* No step of an update writes to the mounted root or to its slot's kernel.
THEOREM UpdateSparesRunningSlot == Spec => RunningSlotUntouched
<1>1. IInv /\ [Next]_vars =>
        [device.state = "up" =>
           parts'[device.root] = parts[device.root] /\ kernels'[Slot] = kernels[Slot]]_vars
  BY RootKeeps, BootKeeps, SwitchKeeps, DeviceKeeps DEF Untouched, Next, ScriptStep, Check, bootVars
<1> QED
  BY <1>1, AlwaysIInv, PTL DEF Spec, RunningSlotUntouched
-----------------------------------------------------------------------------
(* The switch.                                                             *)

\* Where the script has got to: it has written the partition, labelled it, found
\* a root on it, and selected it.
Bootable == {"boot", "copy", "switch", "select", "selecting", "activate", "activating", "reboot"}
Relabelled == Bootable \cup {"fixup"}
Written == Relabelled \cup {"relabel"}

\* What each of these leaves, up to the switch, while nothing is damaged; what
\* is written to a partition that is mounted does not get beyond its mount.
RootInv ==
    /\ script.pc \in Written /\ ~damaged =>
         parts[script.dev].whole \/ (mounted /\ script.pc \in {"relabel", "fixup"})
    /\ script.pc \in Relabelled => parts[script.dev].label = script.inactive
    /\ script.pc \in Bootable => parts[script.dev].release # 0

\* A kernel is whole unless it is being copied.
KernelInv ==
    ~damaged => \A s \in Slots : kernels[s] \/ (script.pc = "copy" /\ s = script.inactive)

SelectInv ==
    /\ script.pc = "selecting" => target = "grub"
    /\ script.pc \in {"activate", "activating"} => target = "rpi" /\ selected = script.inactive
    /\ script.pc = "activating" => ~active
    /\ script.pc = "reboot" =>
         selected = script.inactive /\ (target = "rpi" => active = kernels[script.inactive])

SwitchInv == RootInv /\ KernelInv /\ SelectInv

LEMMA InitSwitches == Init => SwitchInv
  BY DEF Init, SwitchInv, RootInv, KernelInv, SelectInv, Idle, Written, Relabelled, Bootable

\* A script that ends owes nothing but whole kernels.
LEMMA IdleSwitches ==
  ASSUME script'.pc \in {"idle", "download"}, kernels' = kernels,
         ~damaged' => \A s \in Slots : kernels[s]
  PROVE  SwitchInv'
  BY DEF SwitchInv, RootInv, KernelInv, SelectInv, Written, Relabelled, Bootable

\* What Goto does to the script's record.
LEMMA Goes ==
  ASSUME IInv, NEW pc, Goto(pc)
  PROVE  script'.pc = pc /\ script'.dev = script.dev /\ script'.inactive = script.inactive
  BY DEF Goto, IInv, TypeOK, ScriptStates

LEMMA RootSwitches == ASSUME IInv, SwitchInv, RootSteps PROVE SwitchInv'
<1> USE DEF SwitchInv, RootInv, KernelInv, SelectInv, Written, Relabelled, Bootable
<1>0. /\ parts \in [Partitions -> PartStates] /\ script.dev \in Partitions
      /\ script.inactive \in Slots /\ script \in ScriptStates
  BY ScriptRecords DEF IInv, TypeOK
<1>1. CASE Download
  <2>1. script'.pc = "write"
    BY <1>0, <1>1 DEF Download, ScriptStates
  <2> QED
    BY <1>1, <2>1 DEF Download, bootVars, history
<1>2. CASE DownloadFails \/ FixupFails \/ WriteFails \/ RelabelFails
  <2>1. script'.pc = "idle" /\ kernels' = kernels /\ damaged' = damaged /\ script.pc # "copy"
    BY <1>2 DEF DownloadFails, FixupFails, WriteFails, RelabelFails, Exit, Idle, bootVars, history
  <2> QED
    BY <2>1, IdleSwitches
<1>3. CASE WriteBegins
  <2>1. script'.pc = "writing"
    BY <1>3, Goes DEF WriteBegins
  <2> QED
    BY <1>3, <2>1 DEF WriteBegins, bootVars, history
<1>4. CASE WriteEnds
  <2>1. script'.pc = "relabel" /\ script'.dev = script.dev
    BY <1>4, Goes DEF WriteEnds
  <2>2. parts'[script.dev].whole \/ mounted'
    BY <1>0, <1>4 DEF WriteEnds, PartStates
  <2> QED
    BY <1>4, <2>1, <2>2 DEF WriteEnds, bootVars, history
<1>5. CASE GunzipFails
  <2>1. script'.pc = "relabel" /\ damaged'
    BY <1>5, Goes DEF GunzipFails
  <2> QED
    BY <2>1
<1>6. CASE Relabel
  <2>1. script'.pc = "fixup" /\ script'.dev = script.dev /\ script'.inactive = script.inactive
    BY <1>6, Goes DEF Relabel
  <2>2. /\ parts'[script.dev].label = script.inactive
        /\ parts'[script.dev].whole = parts[script.dev].whole
    BY <1>0, <1>6 DEF Relabel, PartStates
  <2> QED
    BY <1>6, <2>1, <2>2 DEF Relabel, bootVars, history
<1>7. CASE Fixup
  <2>1. script'.pc = "boot" /\ script'.dev = script.dev /\ script'.inactive = script.inactive
    BY <1>7, Goes DEF Fixup
  <2> QED
    BY <1>7, <2>1 DEF Fixup, bootVars, history
<1> QED
  BY <1>1, <1>2, <1>3, <1>4, <1>5, <1>6, <1>7 DEF RootSteps

LEMMA BootSwitches == ASSUME IInv, SwitchInv, BootSteps PROVE SwitchInv'
<1> USE DEF SwitchInv, RootInv, KernelInv, SelectInv, Written, Relabelled, Bootable
<1>0. /\ kernels \in [Slots -> BOOLEAN] /\ script.inactive \in Slots /\ script \in ScriptStates
  BY ScriptRecords DEF IInv, TypeOK
<1>1. UNCHANGED <<target, parts>> /\ script.pc \in {"boot", "copy"}
  BY DEF BootSteps, SkipBoot, CopyBegins, CopyEnds, CopyFails, CopyNothing
<1>2. CASE SkipBoot \/ CopyNothing
  <2>1. script'.pc = "switch" /\ script'.dev = script.dev /\ script'.inactive = script.inactive
    BY <1>2, Goes DEF SkipBoot, CopyNothing
  <2>2. kernels' = kernels /\ damaged' = damaged /\ script.pc = "boot"
    BY <1>2 DEF SkipBoot, CopyNothing, bootVars, history
  <2> QED
    BY <1>1, <2>1, <2>2
<1>3. CASE CopyBegins
  <2>1. script'.pc = "copy" /\ script'.dev = script.dev /\ script'.inactive = script.inactive
    BY <1>0, <1>3 DEF CopyBegins, ScriptStates
  <2>2. \A s \in Slots : s # script.inactive => kernels'[s] = kernels[s]
    BY <1>0, <1>3 DEF CopyBegins
  <2>3. damaged' = damaged /\ script.pc = "boot"
    BY <1>3 DEF CopyBegins, history
  <2> QED
    BY <1>1, <2>1, <2>2, <2>3
<1>4. CASE CopyEnds
  <2>1. script'.pc = "switch" /\ script'.dev = script.dev /\ script'.inactive = script.inactive
    BY <1>4, Goes DEF CopyEnds
  <2>2. /\ \A s \in Slots : s # script.inactive => kernels'[s] = kernels[s]
        /\ kernels'[script.inactive]
    BY <1>0, <1>4 DEF CopyEnds
  <2>3. damaged' = damaged
    BY <1>4 DEF CopyEnds, history
  <2> QED
    BY <1>1, <2>1, <2>2, <2>3
<1>5. CASE CopyFails
  <2>1. script'.pc = "switch" /\ script'.dev = script.dev /\ script'.inactive = script.inactive
    BY <1>5, Goes DEF CopyFails
  <2> QED
    BY <1>1, <1>5, <2>1 DEF CopyFails
<1> QED
  BY <1>2, <1>3, <1>4, <1>5 DEF BootSteps

LEMMA SwitchSwitches == ASSUME IInv, SwitchInv, SwitchSteps PROVE SwitchInv'
<1> USE DEF SwitchInv, RootInv, KernelInv, SelectInv, Written, Relabelled, Bootable
<1>0. UNCHANGED <<target, parts, kernels, damaged>> /\ script.pc # "copy"
  BY DEF SwitchSteps, SwitchConf, SwitchFails, Select, Selected, ActivateBegins, Activated,
     SelectFails, ActivateFails, Reboot, RebootFails, bootVars, history
<1>1. CASE SwitchFails \/ SelectFails \/ ActivateFails \/ Reboot \/ RebootFails
  <2>1. script'.pc = "idle"
    BY <1>1 DEF SwitchFails, SelectFails, ActivateFails, Reboot, RebootFails, Exit, Idle
  <2> QED
    BY <1>0, <2>1, IdleSwitches
<1>2. CASE SwitchConf
  <2>1. script'.pc = "select" /\ script'.dev = script.dev /\ script'.inactive = script.inactive
    BY <1>2, Goes DEF SwitchConf
  <2> QED
    BY <1>0, <1>2, <2>1 DEF SwitchConf
<1>3. CASE Select
  <2>1. /\ \/ script'.pc = "selecting" /\ target = "grub"
           \/ script'.pc = "activate" /\ target = "rpi" /\ selected' = script.inactive
        /\ script'.dev = script.dev /\ script'.inactive = script.inactive
    <3>1. CASE target = "grub" /\ Goto("selecting")
      <4>1. /\ script'.pc = "selecting"
            /\ script'.dev = script.dev /\ script'.inactive = script.inactive
        BY <3>1, Goes
      <4> QED
        BY <3>1, <4>1
    <3>2. CASE target = "rpi" /\ selected' = script.inactive /\ Goto("activate")
      BY <3>2, Goes
    <3> QED
      BY <1>3, <3>1, <3>2 DEF Select
  <2> QED
    BY <1>0, <1>3, <2>1 DEF Select
<1>4. CASE Selected
  <2>1. script'.pc = "reboot" /\ script'.dev = script.dev /\ script'.inactive = script.inactive
    BY <1>4, Goes DEF Selected
  <2> QED
    BY <1>0, <1>4, <2>1 DEF Selected
<1>5. CASE ActivateBegins
  <2>1. script'.pc = "activating" /\ script'.dev = script.dev /\ script'.inactive = script.inactive
    BY <1>5, Goes DEF ActivateBegins
  <2> QED
    BY <1>0, <1>5, <2>1 DEF ActivateBegins
<1>6. CASE Activated
  <2>1. script'.pc = "reboot" /\ script'.dev = script.dev /\ script'.inactive = script.inactive
    BY <1>6, Goes DEF Activated
  <2> QED
    BY <1>0, <1>6, <2>1 DEF Activated
<1> QED
  BY <1>1, <1>2, <1>3, <1>4, <1>5, <1>6 DEF SwitchSteps

\* The rest: the check, the server, the power and the next start.
LEMMA OthersSwitch ==
  ASSUME IInv, SwitchInv,
         (\E force \in BOOLEAN : Check(force)) \/ Publish \/ PowerCut \/ Boot \/ UNCHANGED vars
  PROVE  SwitchInv'
<1> USE DEF SwitchInv, RootInv, KernelInv, SelectInv, Written, Relabelled, Bootable
<1>1. CASE \E force \in BOOLEAN : Check(force)
  <2>1. script'.pc = "download" /\ script.pc = "idle" /\ kernels' = kernels /\ damaged' = damaged
    BY <1>1 DEF Check, bootVars, history
  <2> QED
    BY <2>1, IdleSwitches
<1>2. CASE Publish \/ Boot \/ UNCHANGED vars
  BY <1>2 DEF Publish, Boot, vars, bootVars, history
<1>3. CASE PowerCut
  <2>1. script'.pc = "idle" /\ kernels' = kernels
    BY <1>3 DEF PowerCut, Exit, Idle, bootVars
  <2>2. ~damaged' => ~damaged /\ script.pc # "copy"
    BY <1>3 DEF PowerCut
  <2> QED
    BY <2>1, <2>2, IdleSwitches
<1> QED
  BY <1>1, <1>2, <1>3

\* Only the partition that was written carries the label that is selected.
LEMMA SafeSwitch == IInv /\ SwitchInv => SwitchIsSafe
<1> SUFFICES ASSUME IInv, SwitchInv, script.pc = "reboot", ~damaged
             PROVE  Restarts
  BY DEF SwitchIsSafe
<1>1. /\ selected = script.inactive /\ script.inactive \in Slots /\ script.dev \in Partitions
      /\ target = "rpi" => active = kernels[script.inactive]
      /\ kernels[script.inactive]
  BY ScriptRecords DEF SwitchInv, SelectInv, KernelInv, IInv, TypeOK
<1>2. KernelWhole
  BY <1>1 DEF KernelWhole, Slots
<1>3. parts[script.dev].label = script.inactive /\ CanBeRoot(script.dev)
  BY DEF SwitchInv, RootInv, CanBeRoot, Written, Relabelled, Bootable
<1>4. \A p \in Labelled(selected) : p = script.dev
  <2>1. device.root \in Partitions /\ device.root # script.dev /\ parts[device.root].label # script.inactive
    BY DEF IInv, TypeOK, ScriptInv, Slot, DeviceStates
  <2> QED
    BY <1>1, <2>1 DEF Labelled, Partitions
<1> QED
  BY <1>1, <1>2, <1>3, <1>4 DEF Restarts, Labelled

\* The invariant of the switch is inductive, given IInv.
LEMMA AlwaysSwitchInv == Spec => []SwitchInv
<1>1. IInv /\ SwitchInv /\ [Next]_vars => SwitchInv'
  BY RootSwitches, BootSwitches, SwitchSwitches, OthersSwitch DEF Next, ScriptStep
<1> QED
  BY <1>1, AlwaysIInv, InitSwitches, PTL DEF Spec

\* When the script reboots, what it has switched to starts: the partition was
\* written, labelled and checked before, and no other carries its label.
THEOREM SwitchSafe == Spec => []SwitchIsSafe
  BY AlwaysSwitchInv, AlwaysIInv, SafeSwitch, PTL
-----------------------------------------------------------------------------
(* The power cut.                                                          *)

\* A device that is up runs from a partition that can be the root.  What is
\* selected is its slot, or the slot on the other partition, that can be the
\* root too, until a run of the script writes over it.
OtherReady == \A p \in Partitions \ {device.root} : parts[p].label = selected /\ CanBeRoot(p)

CutInv ==
    device.state = "up" =>
        /\ CanBeRoot(device.root)
        /\ ~damaged /\ ~exposed /\ selected # "none" /\ (target = "rpi" => active) =>
             selected = Slot \/ OtherReady

\* From its first write to the switch, a run that works on the slot that is
\* selected is one that exposes it.
ExposeInv == script.pc \in (Written \cup {"writing"}) \ {"activate", "activating", "reboot"} =>
    damaged \/ exposed \/ selected # script.inactive

LEMMA InitCut == Init => CutInv /\ ExposeInv
  BY DEF Init, CutInv, ExposeInv, CanBeRoot, Slot, Idle, Written, Relabelled, Bootable

\* What the running system stands on stays in every step of the script, and so
\* does what is selected, up to the switch.
LEMMA CutUntouched ==
  ASSUME CutInv, Untouched, UNCHANGED <<target, selected, device, active>>,
         parts' = parts \/ damaged' \/ exposed' \/ selected \in {Slot, "none"},
         damaged => damaged', exposed => exposed'
  PROVE  CutInv'
  BY DEF CutInv, OtherReady, Untouched, CanBeRoot, Slot

LEMMA ExposeKept == ASSUME IInv, ExposeInv, [Next]_vars PROVE ExposeInv'
<1> USE DEF ExposeInv, Written, Relabelled, Bootable
<1>1. CASE Download \/ CopyBegins
  <2>1. script'.pc \in {"write", "copy"} /\ script'.inactive = script.inactive
    BY <1>1 DEF Download, CopyBegins, IInv, TypeOK, ScriptStates
  <2> QED
    BY <1>1, <2>1 DEF Download, CopyBegins, IInv, TypeOK, ScriptStates, bootVars, history
<1>2. CASE \/ WriteBegins \/ WriteEnds \/ GunzipFails \/ Relabel \/ Fixup
           \/ SkipBoot \/ CopyEnds \/ CopyFails \/ CopyNothing \/ SwitchConf
  <2>1. /\ script'.inactive = script.inactive /\ selected' = selected
        /\ script.pc \in {"write", "writing", "relabel", "fixup", "boot", "copy", "switch"}
    BY <1>2, Goes DEF WriteBegins, WriteEnds, GunzipFails, Relabel, Fixup, SkipBoot, CopyEnds,
       CopyFails, CopyNothing, SwitchConf, bootVars
  <2>2. /\ script.pc = "write" => damaged' \/ exposed' \/ selected # script.inactive
        /\ (damaged => damaged') /\ (exposed => exposed')
    <3>1. CASE WriteBegins
      BY <3>1 DEF WriteBegins
    <3>2. CASE GunzipFails \/ CopyFails
      BY <3>2 DEF GunzipFails, CopyFails
    <3>3. CASE ~WriteBegins /\ ~GunzipFails /\ ~CopyFails
      BY <1>2, <3>3 DEF WriteEnds, Relabel, Fixup, SkipBoot, CopyEnds, CopyNothing, SwitchConf,
         history
    <3> QED
      BY <3>1, <3>2, <3>3
  <2> QED
    BY <2>1, <2>2
<1>3. CASE Select
  <2>1. script'.pc \in {"selecting", "activate"} /\ script'.inactive = script.inactive
    BY <1>3, Goes DEF Select
  <2>2. script'.pc = "selecting" => selected' = "none"
    BY <1>3, Goes DEF Select
  <2> QED
    BY <2>1, <2>2, ScriptRecords DEF IInv, TypeOK, Slots
<1>4. CASE Selected \/ ActivateBegins \/ Activated
  <2>1. script'.pc \in {"reboot", "activating"}
    BY <1>4, Goes DEF Selected, ActivateBegins, Activated
  <2> QED
    BY <2>1
<1>5. CASE \/ DownloadFails \/ WriteFails \/ RelabelFails \/ FixupFails \/ SwitchFails
           \/ SelectFails \/ ActivateFails \/ Reboot \/ RebootFails \/ PowerCut
  BY <1>5 DEF DownloadFails, WriteFails, RelabelFails, FixupFails, SwitchFails, SelectFails,
     ActivateFails, Reboot, RebootFails, PowerCut, Exit, Idle
<1>6. CASE \E force \in BOOLEAN : Check(force)
  BY <1>6 DEF Check
<1>7. CASE Boot
  BY <1>7 DEF Boot, IInv, ScriptInv
<1>8. CASE Publish \/ UNCHANGED vars
  BY <1>8 DEF Publish, vars, bootVars, history
<1> QED
  BY <1>1, <1>2, <1>3, <1>4, <1>5, <1>6, <1>7, <1>8
  DEF Next, ScriptStep, RootSteps, BootSteps, SwitchSteps

\* Behind the switch, the other partition is the one that was written.
LEMMA DevReady ==
  ASSUME IInv, SwitchInv, script.pc \in Bootable, ~damaged
  PROVE  /\ Partitions \ {device.root} = {script.dev}
         /\ parts[script.dev].label = script.inactive /\ CanBeRoot(script.dev)
<1>1. device.root \in Partitions /\ script.dev \in Partitions /\ script.dev # device.root
  BY ScriptRecords DEF IInv, TypeOK, ScriptInv, DeviceStates, Bootable
<1> QED
  BY <1>1 DEF Partitions, SwitchInv, RootInv, CanBeRoot, Written, Relabelled, Bootable

LEMMA CutKept == ASSUME IInv, SwitchInv, CutInv, ExposeInv, [Next]_vars PROVE CutInv'
<1>1. CASE RootSteps
  <2>1. /\ UNCHANGED <<target, selected, device, active>>
        /\ (damaged => damaged') /\ (exposed => exposed')
    <3>1. CASE WriteBegins
      BY <3>1 DEF WriteBegins, bootVars
    <3>2. CASE GunzipFails
      BY <3>2 DEF GunzipFails, bootVars
    <3>3. CASE ~WriteBegins /\ ~GunzipFails
      BY <1>1, <3>3 DEF RootSteps, Download, DownloadFails, WriteEnds, WriteFails,
         Relabel, RelabelFails, Fixup, FixupFails, bootVars, history
    <3> QED
      BY <3>1, <3>2, <3>3
  <2>2. parts' = parts \/ damaged' \/ exposed' \/ selected # script.inactive
    BY <1>1 DEF RootSteps, Download, DownloadFails, WriteBegins, WriteEnds, GunzipFails, WriteFails,
       Relabel, RelabelFails, Fixup, FixupFails, history, ExposeInv, Written, Relabelled, Bootable
  <2>3. script.inactive \in Slots /\ Slot \in Slots /\ script.inactive # Slot
        /\ selected \in Slots \cup {"none"}
    <3>1. script.pc # "idle"
      BY <1>1 DEF RootSteps, Download, DownloadFails, WriteBegins, WriteEnds, GunzipFails, WriteFails,
         Relabel, RelabelFails, Fixup, FixupFails
    <3> QED
      BY <3>1, ScriptRecords DEF IInv, TypeOK, ScriptInv, Slot, DeviceStates, PartStates
  <2>4. parts' = parts \/ damaged' \/ exposed' \/ selected \in {Slot, "none"}
    BY <2>2, <2>3 DEF Slots
  <2> QED
    BY <1>1, <2>1, <2>4, RootKeeps, CutUntouched
<1>2. CASE BootSteps
  <2>1. UNCHANGED <<target, selected, device, active, parts, exposed>>
    BY <1>2 DEF BootSteps, SkipBoot, CopyBegins, CopyEnds, CopyFails, CopyNothing, bootVars, history
  <2>2. damaged => damaged'
    BY <1>2 DEF BootSteps, SkipBoot, CopyBegins, CopyEnds, CopyFails, CopyNothing, history
  <2> QED
    BY <1>2, <2>1, <2>2, BootKeeps, CutUntouched
<1>3. CASE SwitchConf \/ SwitchFails \/ RebootFails
  <2>1. UNCHANGED <<target, selected, device, active, parts, damaged, exposed>>
    BY <1>3 DEF SwitchConf, SwitchFails, RebootFails, bootVars, history
  <2> QED
    BY <1>3, <2>1, SwitchKeeps, CutUntouched DEF SwitchSteps
<1>4. CASE Select \/ Selected \/ Activated
  <2>1. /\ UNCHANGED <<target, device, parts, damaged>>
        /\ script.pc \in Bootable
        /\ selected' \in {"none", script.inactive}
    <3>1. CASE Select
      BY <3>1 DEF Select, Bootable
    <3>2. CASE Selected
      BY <3>2 DEF Selected, Bootable
    <3>3. CASE Activated
      BY <3>3 DEF Activated, Bootable, SwitchInv, SelectInv, history
    <3> QED
      BY <1>4, <3>1, <3>2, <3>3
  <2>2. ~damaged /\ selected' # "none" => OtherReady'
    BY <2>1, DevReady DEF OtherReady, CanBeRoot
  <2> QED
    BY <2>1, <2>2 DEF CutInv, CanBeRoot
<1>5. CASE SelectFails \/ ActivateBegins \/ ActivateFails
  <2>1. /\ UNCHANGED <<target, device, parts, damaged, exposed>>
        /\ \/ UNCHANGED <<selected, active>>
           \/ selected' = "none"
           \/ target = "rpi" /\ ~active'
    BY <1>5 DEF SelectFails, ActivateBegins, ActivateFails, history, SwitchInv, SelectInv
  <2> QED
    BY <2>1 DEF CutInv, OtherReady, CanBeRoot, Slot
<1>6. CASE Reboot \/ PowerCut
  <2>1. device'.state = "off"
    BY <1>6 DEF Reboot, PowerCut, IInv, TypeOK, DeviceStates
  <2> QED
    BY <2>1 DEF CutInv
<1>7. CASE Boot
  BY <1>7 DEF Boot, IInv, TypeOK, DeviceStates, CutInv, CanBeRoot, Slot, Labelled, bootVars
<1>8. CASE Publish \/ UNCHANGED vars \/ \E force \in BOOLEAN : Check(force)
  BY <1>8 DEF Publish, Check, vars, bootVars, history, CutInv, OtherReady, CanBeRoot, Slot
<1> QED
  BY <1>1, <1>2, <1>3, <1>4, <1>5, <1>6, <1>7, <1>8 DEF Next, ScriptStep, SwitchSteps

\* Outside the windows the slot in use starts again, or the one that was
\* selected, on the Pi with the old kernel until the new one is copied.
LEMMA HarmlessCut == IInv /\ SwitchInv /\ CutInv /\ ExposeInv => CutIsHarmless
<1> SUFFICES ASSUME IInv, SwitchInv, CutInv, ExposeInv, device.state = "up", ~damaged, ~exposed,
                    parts["p2"].label # parts["p3"].label, selected # "none", target = "rpi" => active
             PROVE  Restarts
  BY DEF CutIsHarmless
<1>0. /\ device.root \in Partitions /\ target \in {"grub", "rpi"} /\ selected \in Slots
      /\ \A p, q \in Partitions : parts[p].label = parts[q].label => p = q
  BY DEF IInv, TypeOK, DeviceStates, Partitions
<1>1. KernelWhole
  <2>1. script.pc = "copy" => script.inactive # selected
    BY DEF ExposeInv, Written, Relabelled, Bootable
  <2>2. kernels[selected]
    BY <1>0, <2>1 DEF SwitchInv, KernelInv
  <2> QED
    BY <2>2 DEF KernelWhole
<1>2. CASE selected = Slot
  <2>1. CanBeRoot(device.root)
    BY DEF CutInv
  <2> QED
    BY <1>0, <1>1, <1>2, <2>1 DEF Restarts, Labelled, Slot
<1>3. CASE OtherReady
  <2>1. PICK p \in Partitions : p # device.root
    BY DEF Partitions
  <2>2. parts[p].label = selected /\ CanBeRoot(p)
    BY <1>3, <2>1 DEF OtherReady
  <2> QED
    BY <1>0, <1>1, <2>2 DEF Restarts, Labelled
<1> QED
  BY <1>2, <1>3 DEF CutInv

\* The update may be cut at any point outside the four windows of
\* CutIsHarmless, and after any number of earlier cuts and failures: a device
\* that is up starts again.
THEOREM CutsAreHarmless == Spec => []CutIsHarmless
<1>1. Spec => [](CutInv /\ ExposeInv)
  <2>1. IInv /\ SwitchInv /\ CutInv /\ ExposeInv /\ [Next]_vars => CutInv' /\ ExposeInv'
    BY CutKept, ExposeKept
  <2> QED
    BY <2>1, InitCut, AlwaysIInv, AlwaysSwitchInv, PTL DEF Spec
<1> QED
  BY <1>1, HarmlessCut, AlwaysIInv, AlwaysSwitchInv, PTL
-----------------------------------------------------------------------------
(* The release arrives. *)

\* As long as no update was cut or failed while it wrote, the two partitions
\* carry different labels whenever the script is not between writing an image
\* and labelling it, and what the device is about to boot is whole.
LabelInv ==
    ~damaged /\ ~broken /\ script.pc \notin {"writing", "relabel"} =>
        parts["p2"].label # parts["p3"].label
RestartInv ==
    ~damaged /\ ~broken /\ device.state # "up" => device.state = "off" /\ Restarts

\* What the script writes is the latest release.
Latest ==
    /\ server = MaxRelease
    /\ script.pc = "write" => script.release = MaxRelease
    /\ script.pc \in Written \cup {"writing"} => parts[script.dev].release = MaxRelease

At(pc) == script.pc = pc

\* The script takes steps only while it runs, and ends with the reboot.
LEMMA ScriptRuns ==
  ScriptStep => script.pc # "idle" /\ (script.pc = "reboot" => Reboot \/ RebootFails)
  BY DEF ScriptStep, RootSteps, Download, DownloadFails, WriteBegins, WriteEnds,
     GunzipFails, WriteFails, Relabel, RelabelFails, Fixup, FixupFails, BootSteps, SkipBoot,
     CopyBegins, CopyEnds, CopyFails, CopyNothing, SwitchSteps, SwitchConf, SwitchFails, Select,
     SelectFails, Selected, ActivateBegins, Activated, ActivateFails, Reboot, RebootFails

\* Each step of the script, and where it then stands.
LEMMA ScriptGoes ==
  IInv /\ ScriptStep =>
    /\ At("download") => (At("write") \/ At("idle"))'
    /\ At("write") => (At("writing") \/ At("relabel"))'
    /\ At("writing") => At("relabel")' \/ (At("idle") /\ broken)'
    /\ At("relabel") => At("fixup")' \/ (At("idle") /\ broken)'
    /\ At("fixup") => (At("boot") \/ At("idle"))'
    /\ At("boot") => (At("copy") \/ At("switch"))'
    /\ At("copy") => At("switch")'
    /\ At("switch") => (At("select") \/ At("idle"))'
    /\ At("select") => (At("selecting") \/ At("activate") \/ At("idle"))'
    /\ At("selecting") => At("reboot")'
    /\ At("activate") => (At("activating") \/ At("idle"))'
    /\ At("activating") => At("reboot")'
    /\ At("reboot") => At("idle")'
<1>1. ASSUME NEW pc, Goto(pc) PROVE IInv => script'.pc = pc
  BY <1>1, Goes
<1>2. Exit => script'.pc = "idle"
  BY DEF Exit, Idle
<1>3. IInv /\ Download => script'.pc = "write"
  BY DEF Download, IInv, TypeOK, ScriptStates
<1>4. IInv /\ CopyBegins => script'.pc = "copy"
  BY DEF CopyBegins, IInv, TypeOK, ScriptStates
<1> USE <1>1, <1>2 DEF At
<1>5. CASE Download \/ DownloadFails \/ WriteBegins \/ WriteEnds \/ WriteFails
  BY <1>3, <1>5 DEF Download, DownloadFails, WriteBegins, WriteEnds, WriteFails
<1>6. CASE GunzipFails
  BY <1>6 DEF GunzipFails
<1>7. CASE Relabel \/ RelabelFails \/ Fixup \/ FixupFails
  BY <1>7 DEF Relabel, RelabelFails, Fixup, FixupFails
<1>8. CASE BootSteps
  BY <1>4, <1>8 DEF BootSteps, SkipBoot, CopyBegins, CopyEnds, CopyFails, CopyNothing
<1>9. CASE Select
  BY <1>9 DEF Select
<1>10. CASE SwitchConf \/ SwitchFails \/ SelectFails \/ Selected \/ ActivateBegins
  BY <1>10 DEF SwitchConf, SwitchFails, SelectFails, Selected, ActivateBegins
<1>11. CASE Activated \/ ActivateFails \/ Reboot \/ RebootFails
  BY <1>11 DEF Activated, ActivateFails, Reboot, RebootFails
<1> QED
  BY <1>5, <1>6, <1>7, <1>8, <1>9, <1>10, <1>11 DEF ScriptStep, RootSteps, SwitchSteps

\* Nobody else moves a script that runs, but a power cut ends it.
LEMMA ScriptStays ==
  IInv /\ [Next]_vars /\ ~ScriptStep /\ ~At("idle") =>
    script' = script \/ (At("idle") /\ broken)'
  BY DEF IInv, ScriptInv, At, Next, Publish, Check, PowerCut, Boot, vars, Exit, Idle

\* Every run of ota-update.sh ends: each step takes it on or out.
THEOREM ScriptEnds == FairSpec /\ []NobodyStuck => (script.pc # "idle" ~> script.pc = "idle")
<1>1. IInv => \/ At("idle") \/ At("download") \/ At("write") \/ At("writing") \/ At("relabel")
              \/ At("fixup") \/ At("boot") \/ At("copy") \/ At("switch") \/ At("select")
              \/ At("selecting") \/ At("activate") \/ At("activating") \/ At("reboot")
  BY DEF IInv, TypeOK, ScriptStates, Pcs, At
<1>2. NobodyStuck /\ ~At("idle") => ENABLED <<ScriptStep>>_vars
  BY DEF NobodyStuck, At
<1>3. IInv /\ [Next]_vars =>
    /\ At("download") => (At("download") \/ At("write") \/ At("idle"))'
    /\ At("write") => (At("write") \/ At("writing") \/ At("relabel") \/ At("idle"))'
    /\ At("writing") => (At("writing") \/ At("relabel") \/ At("idle"))'
    /\ At("relabel") => (At("relabel") \/ At("fixup") \/ At("idle"))'
    /\ At("fixup") => (At("fixup") \/ At("boot") \/ At("idle"))'
    /\ At("boot") => (At("boot") \/ At("copy") \/ At("switch") \/ At("idle"))'
    /\ At("copy") => (At("copy") \/ At("switch") \/ At("idle"))'
    /\ At("switch") => (At("switch") \/ At("select") \/ At("idle"))'
    /\ At("select") => (At("select") \/ At("selecting") \/ At("activate") \/ At("idle"))'
    /\ At("selecting") => (At("selecting") \/ At("reboot") \/ At("idle"))'
    /\ At("activate") => (At("activate") \/ At("activating") \/ At("idle"))'
    /\ At("activating") => (At("activating") \/ At("reboot") \/ At("idle"))'
    /\ At("reboot") => (At("reboot") \/ At("idle"))'
  <2>1. CASE ScriptStep
    BY <2>1, ScriptGoes
  <2>2. CASE ~ScriptStep
    <3>1. ASSUME NEW pc, pc # "idle" PROVE IInv /\ [Next]_vars /\ At(pc) => (At(pc) \/ At("idle"))'
      BY <2>2, <3>1, ScriptStays DEF At
    <3> QED
      BY <3>1
  <2> QED
    BY <2>1, <2>2
<1>4. At("idle") <=> script.pc = "idle"
  BY DEF At
<1> QED
  BY <1>1, <1>2, <1>3, <1>4, ScriptGoes, AlwaysIInv, PTL DEF FairSpec, Spec

\* The image has two labelled partitions, and boots.
LEMMA InitArrives == Init => LabelInv /\ RestartInv
  BY DEF Init, LabelInv, RestartInv, Restarts

\* A device that is up, and stays so, owes nothing but its labels.
LEMMA StaysUp ==
  ASSUME LabelInv, device'.state = "up", parts' = parts, script.pc \notin {"writing", "relabel"},
         ~damaged' /\ ~broken' => ~damaged /\ ~broken
  PROVE  LabelInv' /\ RestartInv'
  BY DEF LabelInv, RestartInv

\* The script breaks its labels and mends them.
LEMMA LabelsKept ==
  IInv /\ SwitchInv /\ LabelInv /\ RestartInv /\ [Next]_vars => LabelInv' /\ RestartInv'
<1> SUFFICES ASSUME IInv, SwitchInv, LabelInv, RestartInv, [Next]_vars PROVE LabelInv' /\ RestartInv'
  OBVIOUS
<1> USE DEF Restarts
<1>0. ScriptStep => device.state = "up"
  BY ScriptRuns DEF IInv, ScriptInv
<1>1. CASE Download \/ DownloadFails \/ Fixup \/ FixupFails
  BY <1>0, <1>1, StaysUp DEF ScriptStep, RootSteps, Download, DownloadFails, Fixup, FixupFails, history
<1>2. CASE WriteBegins \/ WriteEnds \/ GunzipFails
  <2>1. script'.pc \in {"writing", "relabel"} /\ device' = device
    BY <1>2, Goes DEF WriteBegins, WriteEnds, GunzipFails
  <2> QED
    BY <1>0, <1>2, <2>1 DEF LabelInv, RestartInv, ScriptStep, RootSteps
<1>3. CASE WriteFails \/ RelabelFails \/ PowerCut
  BY <1>3 DEF WriteFails, RelabelFails, PowerCut, LabelInv, RestartInv
<1>4. CASE Relabel
  <2>1. /\ parts'[script.dev].label = script.inactive /\ parts'[device.root] = parts[device.root]
        /\ script.inactive # parts[device.root].label /\ script.dev # device.root
        /\ script.dev \in Partitions /\ device.root \in Partitions
    BY <1>4, ScriptRecords DEF Relabel, IInv, TypeOK, ScriptInv, Slot, PartStates, DeviceStates
  <2>2. parts'["p2"].label # parts'["p3"].label
    BY <2>1 DEF Partitions
  <2> QED
    BY <1>0, <1>4, <2>2 DEF Relabel, LabelInv, RestartInv, ScriptStep, RootSteps
<1>5. CASE BootSteps
  <2>1. device' = device /\ parts' = parts /\ script.pc \in {"boot", "copy"}
    BY <1>5 DEF BootSteps, SkipBoot, CopyBegins, CopyEnds, CopyFails, CopyNothing
  <2>2. ~damaged' /\ ~broken' => ~damaged /\ ~broken
    BY <1>5 DEF BootSteps, SkipBoot, CopyBegins, CopyEnds, CopyFails, CopyNothing, history
  <2> QED
    BY <1>0, <1>5, <2>1, <2>2, StaysUp DEF ScriptStep
<1>6. CASE \/ SwitchConf \/ SwitchFails \/ Select \/ SelectFails \/ Selected
           \/ ActivateBegins \/ Activated \/ ActivateFails \/ RebootFails
  BY <1>0, <1>6, StaysUp DEF ScriptStep, SwitchSteps, SwitchConf, SwitchFails, Select, SelectFails,
     Selected, ActivateBegins, Activated, ActivateFails, RebootFails, history
<1>7. CASE Reboot
  <2>1. ~damaged => KernelWhole /\ Labelled(selected) # {} /\ \A p \in Labelled(selected) : CanBeRoot(p)
    BY <1>7, SafeSwitch DEF SwitchIsSafe, Reboot
  <2>2. device'.state = "off"
    BY <1>7 DEF Reboot, IInv, TypeOK, DeviceStates
  <2> QED
    BY <1>7, <2>1, <2>2 DEF Reboot, LabelInv, RestartInv, KernelWhole, Labelled, CanBeRoot, bootVars,
       history
<1>8. CASE \E force \in BOOLEAN : Check(force)
  BY <1>8, StaysUp DEF Check, history
<1>9. CASE Boot
  <2>1. ~damaged /\ ~broken => device'.state = "up"
    BY <1>9 DEF Boot, RestartInv
  <2> QED
    BY <1>9, <2>1 DEF Boot, LabelInv, RestartInv, history
<1>10. CASE Publish \/ UNCHANGED vars
  BY <1>10 DEF Publish, vars, LabelInv, RestartInv, KernelWhole, Labelled, CanBeRoot, bootVars, history
<1> QED
  BY <1>1, <1>2, <1>3, <1>4, <1>5, <1>6, <1>7, <1>8, <1>9, <1>10
  DEF Next, ScriptStep, RootSteps, SwitchSteps

\* Once the last release is published, a script that starts, or that has it,
\* works with it.
LEMMA LatestKept == IInv /\ Latest /\ [Next]_vars => Latest' \/ damaged'
<1> SUFFICES ASSUME IInv, Latest, [Next]_vars, ~damaged' PROVE Latest'
  OBVIOUS
<1>0. /\ parts \in [Partitions -> PartStates] /\ script.dev \in Partitions /\ script \in ScriptStates
      /\ server = MaxRelease
  BY ScriptRecords DEF IInv, TypeOK, Latest
<1> USE DEF Latest, Written, Relabelled, Bootable
<1>1. CASE Download
  <2>1. script'.pc = "write" /\ script'.release = server
    BY <1>0, <1>1 DEF Download, ScriptStates
  <2> QED
    BY <1>0, <1>1, <2>1 DEF Download
<1>2. CASE \/ DownloadFails \/ WriteFails \/ RelabelFails \/ FixupFails \/ SwitchFails
           \/ SelectFails \/ ActivateFails \/ Reboot \/ RebootFails \/ PowerCut
  BY <1>0, <1>2 DEF DownloadFails, WriteFails, RelabelFails, FixupFails, SwitchFails, SelectFails,
     ActivateFails, Reboot, RebootFails, PowerCut, Exit, Idle
<1>3. CASE WriteBegins
  <2>1. script'.pc = "writing" /\ script'.dev = script.dev
    BY <1>3, Goes DEF WriteBegins
  <2>2. parts'[script.dev].release = MaxRelease
    BY <1>0, <1>3 DEF WriteBegins, Image
  <2> QED
    BY <1>0, <1>3, <2>1, <2>2 DEF WriteBegins
<1>4. CASE WriteEnds \/ Relabel
  <2>1. script'.pc \in {"relabel", "fixup"} /\ script'.dev = script.dev
    BY <1>4, Goes DEF WriteEnds, Relabel
  <2>2. parts'[script.dev].release = MaxRelease
    BY <1>0, <1>4 DEF WriteEnds, Relabel, PartStates
  <2> QED
    BY <1>0, <1>4, <2>1, <2>2 DEF WriteEnds, Relabel
<1>5. CASE GunzipFails
  BY <1>5 DEF GunzipFails
<1>6. CASE Fixup
  <2>1. script'.pc = "boot" /\ script'.dev = script.dev
    BY <1>6, Goes DEF Fixup
  <2> QED
    BY <1>0, <1>6, <2>1 DEF Fixup
<1>7. CASE BootSteps
  <2>1. script'.pc \in {"copy", "switch"} /\ script'.dev = script.dev
    <3>1. CASE CopyBegins
      BY <1>0, <3>1 DEF CopyBegins, ScriptStates
    <3>2. CASE ~CopyBegins
      BY <1>7, <3>2, Goes DEF BootSteps, SkipBoot, CopyEnds, CopyFails, CopyNothing
    <3> QED
      BY <3>1, <3>2
  <2> QED
    BY <1>0, <1>7, <2>1 DEF BootSteps, SkipBoot, CopyBegins, CopyEnds, CopyFails, CopyNothing
<1>8. CASE SwitchConf \/ Select \/ Selected \/ ActivateBegins \/ Activated
  <2>1. script'.pc \in Bootable /\ script'.dev = script.dev
    BY <1>8, Goes DEF SwitchConf, Select, Selected, ActivateBegins, Activated
  <2> QED
    BY <1>0, <1>8, <2>1 DEF SwitchConf, Select, Selected, ActivateBegins, Activated
<1>9. CASE \E force \in BOOLEAN : Check(force)
  BY <1>9 DEF Check
<1>10. CASE Boot \/ Publish \/ UNCHANGED vars
  BY <1>0, <1>10, OtaAssumption DEF Boot, Publish, vars
<1> QED
  BY <1>1, <1>2, <1>3, <1>4, <1>5, <1>6, <1>7, <1>8, <1>9, <1>10
  DEF Next, ScriptStep, RootSteps, SwitchSteps

\* No release is published any more.
Last == server = MaxRelease

\* The device runs the last release, or is in a state that is not promised to.
Arrived ==
    \/ device.state = "up" /\ parts[device.root].release = MaxRelease
    \/ damaged \/ broken \/ mounted

\* The device is up or off between two runs of the script; it is off to boot
\* the last release.
Up == At("idle") /\ device.state = "up"
Off == At("idle") /\ device.state # "up"
OffToLatest ==
    Off /\ \A p \in Labelled(selected) : parts[p].release = MaxRelease

\* The reboot that ends an update with the last release boots it.
LEMMA RebootsLatest ==
  /\ IInv /\ SwitchInv /\ Latest /\ Reboot => OffToLatest'
  /\ RestartInv /\ OffToLatest /\ [Next]_vars =>
        (OffToLatest \/ Arrived)' /\ (Boot => Arrived')
<1>1. ASSUME IInv, SwitchInv, Latest, Reboot PROVE OffToLatest'
  <2>1. At("reboot")
    BY <1>1 DEF Reboot, At
  <2>2. /\ selected = script.inactive /\ parts[script.dev].label = script.inactive
        /\ parts[script.dev].release = MaxRelease
        /\ script.dev \in Partitions
    BY <1>1, <2>1, ScriptRecords DEF At, SwitchInv, RootInv, SelectInv, Latest, Written, Relabelled, Bootable,
       IInv, TypeOK
  <2>3. /\ device.root \in Partitions /\ device.root # script.dev
        /\ parts[device.root].label # script.inactive
    BY <1>1, <2>1 DEF At, IInv, TypeOK, ScriptInv, Slot, DeviceStates
  <2>4. \A p \in Labelled(selected) : parts[p].release = MaxRelease
    BY <2>2, <2>3 DEF Labelled, Partitions
  <2>5. device'.state = "off" /\ script'.pc = "idle"
    BY <1>1 DEF Reboot, Exit, Idle, IInv, TypeOK, DeviceStates
  <2> QED
    BY <1>1, <2>4, <2>5 DEF Reboot, OffToLatest, Off, At, Labelled, bootVars
<1>2. ASSUME RestartInv, OffToLatest, [Next]_vars PROVE (OffToLatest \/ Arrived)' /\ (Boot => Arrived')
  <2>1. CASE Boot
    BY <1>2, <2>1 DEF Boot, RestartInv, Restarts, OffToLatest, Off, Arrived, history
  <2>2. CASE Publish \/ UNCHANGED vars
    <3>1. UNCHANGED <<script, device, parts, selected>>
      BY <2>2 DEF Publish, vars, bootVars
    <3> QED
      BY <1>2, <2>1, <3>1 DEF OffToLatest, Off, At, Labelled
  <2>3. ~PowerCut /\ ~ScriptStep /\ ~\E force \in BOOLEAN : Check(force)
    BY <1>2, ScriptRuns DEF OffToLatest, Off, At, PowerCut, Check
  <2>4. Boot => Arrived'
    BY <2>1
  <2> QED
    BY <1>2, <2>1, <2>2, <2>3, <2>4 DEF Next
<1> QED
  BY <1>1, <1>2

\* Between two runs of the script, a device comes up and checks.
LEMMA Between ==
  /\ IInv /\ Off /\ [Next]_vars => (Off \/ Up)'
  /\ RestartInv /\ Off /\ ~Arrived /\ Boot => Up'
  /\ IInv /\ Up /\ [Next]_vars => (Up \/ At("download") \/ Arrived)'
  /\ Check(FALSE) => At("download")'
<1>1. ~At("idle") \/ ~ScriptStep
  BY ScriptRuns DEF At
<1>2. ASSUME NEW force \in BOOLEAN, Check(force) PROVE At("download")'
  BY <1>2 DEF Check, At
<1> QED
  BY <1>1, <1>2 DEF Off, Up, At, Arrived, Next, Publish, PowerCut, Boot, RestartInv, Restarts, Check, vars, Exit,
     Idle, history

\* Every release arrives: what can fail for ever is retried by the timer, and
\* strong fairness takes the script through it.
THEOREM LatestArrives == FairSpec /\ []NobodyStuck => UpdateArrives
<1> DEFINE Inv == IInv /\ SwitchInv /\ LabelInv /\ RestartInv /\ NobodyStuck
           Ends == <>At("idle")
           Safe == []Inv /\ [][Next]_vars /\ []Ends
           Weak == WF_vars(Check(FALSE)) /\ WF_vars(ScriptStep) /\ WF_vars(Boot)
           Writes == SF_vars(Download) /\ SF_vars(Fixup) /\ SF_vars(SwitchConf)
           Switches == SF_vars(Select) /\ SF_vars(ActivateBegins) /\ SF_vars(Reboot)
           Run == Safe /\ Weak /\ Writes /\ Switches
           Late == Latest /\ ~Arrived
\* Who can take a step.
<1>1. Inv /\ Late =>
        /\ Up => ENABLED <<Check(FALSE)>>_vars
        /\ Off => ENABLED <<Boot>>_vars
        /\ At("write") \/ At("writing") \/ At("relabel") => ENABLED <<ScriptStep>>_vars
        /\ At("boot") \/ At("copy") => ENABLED <<ScriptStep>>_vars
        /\ At("selecting") \/ At("activating") => ENABLED <<ScriptStep>>_vars
        /\ At("download") => ENABLED <<Download>>_vars
        /\ At("fixup") => ENABLED <<Fixup>>_vars
        /\ At("switch") => ENABLED <<SwitchConf>>_vars
        /\ At("select") => ENABLED <<Select>>_vars
        /\ At("activate") => ENABLED <<ActivateBegins>>_vars
        /\ At("reboot") => ENABLED <<Reboot>>_vars
  <2>1. Inv /\ Late /\ Up => server > parts[device.root].release /\ Labelled(Other(Slot)) # {}
    <3> SUFFICES ASSUME Inv, Late, Up
                 PROVE  server > parts[device.root].release /\ Labelled(Other(Slot)) # {}
      OBVIOUS
    <3>1. /\ device.root \in {"p2", "p3"} /\ parts[device.root].release \in 0..MaxRelease
          /\ parts["p2"].label \in {"a", "b"} /\ parts["p3"].label \in {"a", "b"}
      BY DEF IInv, TypeOK, DeviceStates, PartStates, Partitions, Slots
    <3>2. parts[device.root].release # MaxRelease /\ parts["p2"].label # parts["p3"].label
      BY DEF Up, At, Arrived, LabelInv
    <3> QED
      BY <3>1, <3>2, OtaAssumption DEF Latest, Labelled, Other, Slot, Partitions
  <2>2. Inv /\ Late /\ Off => device.state = "off"
    BY DEF Off, Arrived, RestartInv
  <2>3. Inv /\ Late /\ At("fixup") => parts[script.dev].release # 0 /\ ~mounted
    BY OtaAssumption DEF At, Latest, Written, Relabelled, Arrived
  <2> QED
    BY <2>1, <2>2, <2>3 DEF NobodyStuck, Up, At
\* Where the script and the device then stand.
<1>2. Inv /\ Late /\ Late' /\ ScriptStep =>
        /\ At("write") => (At("writing") \/ At("relabel"))'
        /\ At("writing") => At("relabel")'
        /\ At("relabel") => At("fixup")'
        /\ At("boot") => (At("copy") \/ At("switch"))'
        /\ At("copy") => At("switch")'
        /\ At("selecting") => At("reboot")'
        /\ At("activating") => At("reboot")'
  BY ScriptGoes DEF Arrived
<1>3. ASSUME NEW pc, pc # "idle"
      PROVE  Inv /\ Late' /\ [Next]_vars /\ ~ScriptStep /\ At(pc) => At(pc)'
  BY <1>3, ScriptStays DEF At, Arrived
<1>4. Inv /\ Late /\ Late' /\ [Next]_vars =>
        /\ At("write") => (At("write") \/ At("writing") \/ At("relabel"))'
        /\ At("writing") => (At("writing") \/ At("relabel"))'
        /\ At("relabel") => (At("relabel") \/ At("fixup"))'
        /\ At("boot") => (At("boot") \/ At("copy") \/ At("switch"))'
        /\ At("copy") => (At("copy") \/ At("switch"))'
        /\ At("selecting") => (At("selecting") \/ At("reboot"))'
        /\ At("activating") => (At("activating") \/ At("reboot"))'
  BY <1>2, <1>3
<1>5. IInv => /\ Fixup => At("boot")'
              /\ SwitchConf => At("select")'
              /\ Select => (At("selecting") \/ At("activate"))'
              /\ ActivateBegins => At("activating")'
              /\ Download => At("write")'
  BY Goes DEF Fixup, SwitchConf, Select, ActivateBegins, Download, At, IInv, TypeOK, ScriptStates
<1>6. Inv /\ Late /\ Late' /\ [Next]_vars =>
        /\ Off => (Off \/ Up)' /\ (Boot => Up')
        /\ Up => (Up \/ At("download"))' /\ (Check(FALSE) => At("download")')
        /\ Reboot => OffToLatest'
        /\ OffToLatest => OffToLatest' /\ ~Boot
  BY Between, RebootsLatest
<1>7. /\ At("idle") => Up \/ Off
      /\ OffToLatest => Off
      /\ script.pc = "idle" => At("idle")
      /\ script.pc # "idle" \/ At("idle")
  BY DEF At, Up, Off, OffToLatest
<1>8. Inv /\ Last /\ At("idle") => Latest
  BY DEF Last, At, Latest, Written, Relabelled, Bootable
<1>9. Inv /\ Latest /\ ~Arrived' /\ [Next]_vars => Latest'
  BY LatestKept DEF Arrived
<1>10. Inv /\ Last /\ [Next]_vars => Last'
  <2>1. ScriptStep => server' = server
    BY DEF ScriptStep, RootSteps, Download, DownloadFails, WriteBegins, WriteEnds, GunzipFails,
     WriteFails, Relabel, RelabelFails, Fixup, FixupFails, BootSteps, SkipBoot, CopyBegins, CopyEnds,
     CopyFails, CopyNothing, SwitchSteps, SwitchConf, SwitchFails, Select, SelectFails, Selected,
     ActivateBegins, Activated, ActivateFails, Reboot, RebootFails
  <2> QED
    BY <2>1, OtaAssumption DEF Last, Next, Publish, Check, PowerCut, Boot, vars
\* The script ends, and is started again with the last release.
<1>11. Run => []([]Last /\ []~Arrived => <>[]Late)
  BY <1>7, <1>8, <1>9, PTL
<1>12. Run /\ []Late => []<>At("download")
  BY <1>1, <1>6, <1>7, PTL
<1>13. Run /\ []Late => []<>At("write")
  BY <1>1, <1>5, <1>12, PTL
<1>14. Run /\ []Late => []<>At("fixup")
  BY <1>1, <1>2, <1>4, <1>13, PTL
<1>15. Run /\ []Late => []<>At("boot")
  BY <1>1, <1>5, <1>14, PTL
<1>16. Run /\ []Late => []<>At("switch")
  BY <1>1, <1>2, <1>4, <1>15, PTL
<1>17. Run /\ []Late => []<>At("select")
  BY <1>1, <1>5, <1>16, PTL
<1>18. Run /\ []Late => []<>(At("selecting") \/ At("activate"))
  BY <1>1, <1>5, <1>17, PTL
<1>19. Run /\ []Late => []<>(At("selecting") \/ At("activating"))
  BY <1>1, <1>5, <1>18, PTL
<1>20. Run /\ []Late => []<>At("reboot")
  BY <1>1, <1>2, <1>4, <1>19, PTL
<1>24. ~(Run /\ []Late)
  BY <1>1, <1>6, <1>7, <1>20, PTL
<1>21. Run => [](Last => []Last)
  BY <1>10, PTL
<1>22. Run => []Run
  <2>1. (Safe => []Safe) /\ (Weak => []Weak)
    BY PTL
  <2>2. (Writes => []Writes) /\ (Switches => []Switches)
    BY PTL
  <2> HIDE DEF Safe, Weak, Writes, Switches
  <2> QED
    BY <2>1, <2>2, PTL
<1>23. FairSpec /\ []NobodyStuck => Run
  BY <1>7, ScriptEnds, AlwaysIInv, AlwaysSwitchInv, LabelsKept, InitArrives, PTL DEF FairSpec, Spec
<1> QED
  <2> HIDE DEF Run, Late
  <2> QED
    BY <1>11, <1>24, <1>21, <1>22, <1>23, PTL DEF UpdateArrives, Arrived, Last
=============================================================================
