------------------------------ MODULE OtaUpdate -----------------------------
(***************************************************************************)
(* The A/B update of a device: ota-update.sh, started by a timer or by     *)
(* hand, writes the release on the server to the root partition that is    *)
(* not in use, copies the kernel of that slot, switches the boot           *)
(* configuration and reboots.  Power may fail between any two steps, and   *)
(* every command under set -e that the device's state can stop.            *)
(*                                                                         *)
(* A root partition is known by its label, the release on it, 0 when it    *)
(* is empty, and whether all of it was written; a kernel with its initrd   *)
(* by whether it is whole.  Writes reach the disk in the order of the      *)
(* script.  The script runs alone.                                         *)
(***************************************************************************)
EXTENDS Integers

CONSTANT MaxRelease   \* bound: releases that are published

ASSUME OtaAssumption == MaxRelease \in Nat \ {0}

VARIABLES
    target,    \* what boots the device: "grub" or "rpi"
    server,    \* the release that is published
    parts,     \* partition -> [label, release, whole]
    kernels,   \* slot -> vmlinuz-<slot> and initrd-<slot>.img are whole
    active,    \* vmlinuz and initrd.img, which only a Raspberry Pi boots, are whole
    conf,      \* slot.conf; "none" when it was left empty
    selected,  \* the slot of grub-slot.cfg or cmdline.txt; "none" while it is rewritten
    marker,    \* /data/.ota-boot-version
    mounted,   \* the partition that is not in use is still mounted at /tmp/ota-fixup
    device,    \* [state, root]: up, off or dead, and the partition mounted as root
    script,    \* [pc, inactive, dev, release, force]
    damaged,   \* something was half written and the script does not know
    broken,    \* an update was cut or failed once it had begun to write
    exposed    \* a run writes, or wrote, over the slot that an earlier run selected

history == <<damaged, broken, exposed>>
vars == <<target, server, parts, kernels, active, conf, selected, marker, mounted, device, script,
          history>>

Slots == {"a", "b"}
Partitions == {"p2", "p3"}
Releases == 1..MaxRelease

Idle == [pc |-> "idle", inactive |-> "b", dev |-> "p3", release |-> 0, force |-> FALSE]

\* The image is flashed with the first release in slot a and an empty slot b.
Init ==
    /\ target \in {"grub", "rpi"}
    /\ server = 1
    /\ parts = [p2 |-> [label |-> "a", release |-> 1, whole |-> TRUE],
                p3 |-> [label |-> "b", release |-> 0, whole |-> TRUE]]
    /\ kernels = [s \in Slots |-> TRUE] /\ active = TRUE
    /\ conf = "a" /\ selected = "a" /\ marker = 0
    /\ mounted = FALSE
    /\ device = [state |-> "up", root |-> "p2"]
    /\ script = Idle
    /\ damaged = FALSE /\ broken = FALSE /\ exposed = FALSE

bootVars == <<kernels, active, conf, selected, marker>>

Other(slot) == IF slot = "a" THEN "b" ELSE "a"
Labelled(slot) == {p \in Partitions : parts[p].label = slot}

\* The build publishes a release and its kernel under the same version.
Publish ==
    /\ server < MaxRelease
    /\ server' = server + 1
    /\ UNCHANGED <<target, parts, bootVars, mounted, device, script, history>>
-----------------------------------------------------------------------------
(* The script, up to the root partition. *)

Goto(pc) == script' = [script EXCEPT !.pc = pc]
Exit == script' = Idle

\* Mutant: the current slot is what slot.conf says.
SlotOfConf == IF conf = "none" THEN parts[device.root].label ELSE conf

\* The slot in use, from the label of the mounted root.
Slot == parts[device.root].label

\* Nothing happens unless the release is newer, or the update is forced, and
\* a partition carries the label of the other slot.
Check(force) ==
    /\ device.state = "up" /\ script.pc = "idle"
    /\ force \/ server > parts[device.root].release
    /\ \E p \in Labelled(Other(Slot)) :
           script' = [pc |-> "download", inactive |-> Other(Slot), dev |-> p, release |-> 0,
                      force |-> force]
    /\ UNCHANGED <<target, server, parts, bootVars, mounted, device, history>>

Download ==
    /\ script.pc = "download"
    /\ script' = [script EXCEPT !.pc = "write", !.release = server]
    /\ UNCHANGED <<target, server, parts, bootVars, mounted, device, history>>

DownloadFails ==
    /\ script.pc = "download"
    /\ Exit
    /\ UNCHANGED <<target, server, parts, bootVars, mounted, device, history>>

\* The beginning of an image; every image is built with the label root-a.
Image(release) == [label |-> "a", release |-> release, whole |-> FALSE]

WriteBegins ==
    /\ script.pc = "write"
    /\ parts' = [parts EXCEPT ![script.dev] = Image(script.release)]
    /\ exposed' = (exposed \/ selected = script.inactive)
    /\ Goto("writing")
    /\ UNCHANGED <<target, server, bootVars, mounted, device, damaged, broken>>

\* The file system of a partition that is mounted may write over the image.
WriteEnds ==
    /\ script.pc = "writing"
    /\ \E whole \in BOOLEAN :
           /\ whole \/ mounted
           /\ parts' = [parts EXCEPT ![script.dev].whole = whole]
    /\ Goto("relabel")
    /\ UNCHANGED <<target, server, bootVars, mounted, device, history>>

\* gunzip fails, at once or later, but only dd's status counts: the script
\* goes on with what was on the partition, or with a part of the image.
GunzipFails ==
    /\ script.pc \in {"write", "writing"}
    /\ damaged' = TRUE
    /\ Goto("relabel")
    /\ UNCHANGED <<target, server, parts, bootVars, mounted, device, broken, exposed>>

\* Mutant: a failure of dd goes unnoticed as well.
WriteFailsUnnoticed ==
    /\ script.pc = "writing"
    /\ Goto("relabel")
    /\ broken' = TRUE
    /\ UNCHANGED <<target, server, parts, bootVars, mounted, device, damaged, exposed>>

WriteFails ==
    /\ script.pc = "writing"
    /\ Exit
    /\ broken' = TRUE
    /\ UNCHANGED <<target, server, parts, bootVars, mounted, device, damaged, exposed>>

\* Mutant: the image is taken to carry the right label.
RelabelNot ==
    /\ script.pc = "relabel"
    /\ Goto("fixup")
    /\ UNCHANGED <<target, server, parts, bootVars, mounted, device, history>>

Relabel ==
    /\ script.pc = "relabel"
    /\ parts' = [parts EXCEPT ![script.dev].label = script.inactive]
    /\ Goto("fixup")
    /\ UNCHANGED <<target, server, bootVars, mounted, device, history>>

RelabelFails ==
    /\ script.pc = "relabel"
    /\ Exit
    /\ broken' = TRUE
    /\ UNCHANGED <<target, server, parts, bootVars, mounted, device, damaged, exposed>>

\* Mutant: the slot is selected as soon as its root is ready.
FixupSelects ==
    /\ script.pc = "fixup" /\ ~mounted /\ parts[script.dev].release # 0
    /\ selected' = script.inactive
    /\ Goto("boot")
    /\ UNCHANGED <<target, server, parts, kernels, active, conf, marker, mounted, device, history>>

\* The edit of fstab needs a file system with that file, and a mount point
\* where it is not mounted already.  That it stays mounted ends nothing.
Fixup ==
    /\ script.pc = "fixup" /\ ~mounted /\ parts[script.dev].release # 0
    /\ mounted' \in BOOLEAN
    /\ Goto("boot")
    /\ UNCHANGED <<target, server, parts, bootVars, device, history>>

\* The mount fails, or the edit: then the partition stays mounted.
FixupFails ==
    /\ script.pc = "fixup"
    /\ mounted' \in BOOLEAN /\ (mounted => mounted')
    /\ Exit
    /\ UNCHANGED <<target, server, parts, bootVars, device, history>>

RootSteps ==
    \/ Download \/ DownloadFails
    \/ WriteBegins \/ WriteEnds \/ GunzipFails \/ WriteFails
    \/ Relabel \/ RelabelFails
    \/ Fixup \/ FixupFails
-----------------------------------------------------------------------------
(* The kernel: no failure here ends the script. *)

\* Nothing to do, or the server does not answer, or the archive is bad.
SkipBoot ==
    /\ script.pc = "boot"
    /\ Goto("switch")
    /\ UNCHANGED <<target, server, parts, bootVars, mounted, device, history>>

\* With force the version on the server may also be unknown.
BootRelease == IF script.force THEN {server, 0} ELSE {server} \ {marker}

CopyBegins ==
    /\ script.pc = "boot"
    /\ \E release \in BootRelease :
           script' = [script EXCEPT !.pc = "copy", !.release = release]
    /\ kernels' = [kernels EXCEPT ![script.inactive] = FALSE]
    /\ UNCHANGED <<target, server, parts, active, conf, selected, marker, mounted, device, history>>

CopyEnds ==
    /\ script.pc = "copy"
    /\ kernels' = [kernels EXCEPT ![script.inactive] = TRUE]
    /\ marker' = script.release
    /\ Goto("switch")
    /\ UNCHANGED <<target, server, parts, active, conf, selected, mounted, device, history>>

\* The marker is written all the same.
CopyFails ==
    /\ script.pc = "copy"
    /\ marker' = script.release
    /\ damaged' = TRUE
    /\ Goto("switch")
    /\ UNCHANGED <<target, server, parts, kernels, active, conf, selected, mounted, device, broken,
                   exposed>>

\* /boot cannot be made writable: nothing is copied, the marker is written.
CopyNothing ==
    /\ script.pc = "boot"
    /\ \E release \in BootRelease : marker' = release
    /\ Goto("switch")
    /\ UNCHANGED <<target, server, parts, kernels, active, conf, selected, mounted, device, history>>

BootSteps == SkipBoot \/ CopyBegins \/ CopyEnds \/ CopyFails \/ CopyNothing
-----------------------------------------------------------------------------
(* The switch and the reboot. *)

SwitchConf ==
    /\ script.pc = "switch"
    /\ conf' = script.inactive
    /\ Goto("select")
    /\ UNCHANGED <<target, server, parts, kernels, active, selected, marker, mounted, device, history>>

\* /boot cannot be made writable, or the new slot.conf not be written.
SwitchFails ==
    /\ script.pc = "switch"
    /\ conf' \in {conf, "none"}
    /\ Exit
    /\ UNCHANGED <<target, server, parts, kernels, active, selected, marker, mounted, device, history>>

\* grub-slot.cfg is written in place, cmdline.txt replaced.
Select ==
    /\ script.pc = "select"
    /\ \/ target = "grub" /\ selected' = "none" /\ exposed' = exposed /\ Goto("selecting")
       \/ target = "rpi" /\ selected' = script.inactive /\ exposed' = FALSE /\ Goto("activate")
    /\ UNCHANGED <<target, server, parts, kernels, active, conf, marker, mounted, device, damaged,
                   broken>>

\* The file cannot be opened, written or replaced: grub-slot.cfg is as it was or
\* empty, cmdline.txt as it was, and slot.conf names the new slot.
SelectFails ==
    /\ script.pc = "select"
    /\ \/ selected' = selected
       \/ target = "grub" /\ selected' = "none"
    /\ Exit
    /\ UNCHANGED <<target, server, parts, kernels, active, conf, marker, mounted, device, history>>

Selected ==
    /\ script.pc = "selecting"
    /\ selected' = script.inactive /\ exposed' = FALSE
    /\ Goto("reboot")
    /\ UNCHANGED <<target, server, parts, kernels, active, conf, marker, mounted, device, damaged,
                   broken>>

ActivateBegins ==
    /\ script.pc = "activate"
    /\ active' = FALSE
    /\ Goto("activating")
    /\ UNCHANGED <<target, server, parts, kernels, conf, selected, marker, mounted, device, history>>

\* The first copy or the second one fails.
ActivateFails ==
    /\ script.pc = "activate"
    /\ active' \in BOOLEAN /\ (active' => active)
    /\ Exit
    /\ UNCHANGED <<target, server, parts, kernels, conf, selected, marker, mounted, device, history>>

Activated ==
    /\ script.pc = "activating"
    /\ active' = kernels[script.inactive]
    /\ Goto("reboot")
    /\ UNCHANGED <<target, server, parts, kernels, conf, selected, marker, mounted, device, history>>

Reboot ==
    /\ script.pc = "reboot"
    /\ Exit
    /\ device' = [device EXCEPT !.state = "off"]
    /\ mounted' = FALSE
    /\ UNCHANGED <<target, server, parts, bootVars, history>>

\* /boot is busy and cannot be made read-only again: the new slot is selected,
\* and the device goes on with the old one.
RebootFails ==
    /\ script.pc = "reboot"
    /\ Exit
    /\ UNCHANGED <<target, server, parts, bootVars, mounted, device, history>>

SwitchSteps ==
    \/ SwitchConf \/ SwitchFails
    \/ Select \/ SelectFails \/ Selected
    \/ ActivateBegins \/ ActivateFails \/ Activated
    \/ Reboot \/ RebootFails
-----------------------------------------------------------------------------
(* The device. *)

\* The power is cut, or somebody reboots the device.
PowerCut ==
    /\ device.state = "up"
    /\ device' = [device EXCEPT !.state = "off"]
    /\ Exit
    /\ mounted' = FALSE
    /\ damaged' = (damaged \/ script.pc = "copy") /\ broken' = TRUE
    /\ UNCHANGED <<target, server, parts, bootVars, exposed>>

KernelWhole ==
    selected # "none" /\ IF target = "rpi" THEN active ELSE kernels[selected]
CanBeRoot(p) == parts[p].whole /\ parts[p].release # 0

\* What is selected starts, whichever partition its label finds.
Restarts ==
    KernelWhole /\ Labelled(selected) # {} /\ \A p \in Labelled(selected) : CanBeRoot(p)

\* Of two partitions with the label that is asked for, either may be found.
Boot ==
    /\ device.state = "off"
    /\ IF KernelWhole /\ Labelled(selected) # {}
       THEN \E p \in Labelled(selected) :
                device' = IF CanBeRoot(p) THEN [state |-> "up", root |-> p]
                                          ELSE [device EXCEPT !.state = "dead"]
       ELSE device' = [device EXCEPT !.state = "dead"]
    /\ exposed' = FALSE
    /\ UNCHANGED <<target, server, parts, bootVars, mounted, script, damaged, broken>>

ScriptStep == RootSteps \/ BootSteps \/ SwitchSteps

Next ==
    \/ Publish
    \/ \E force \in BOOLEAN : Check(force)
    \/ ScriptStep
    \/ PowerCut
    \/ Boot

Spec == Init /\ [][Next]_vars

\* The timer fires, the script runs, a device that is off boots; and what
\* fails without damage is tried again and does not fail for ever.
FairSpec ==
    /\ Spec
    /\ WF_vars(Check(FALSE)) /\ WF_vars(ScriptStep) /\ WF_vars(Boot)
    /\ SF_vars(Download) /\ SF_vars(Fixup) /\ SF_vars(SwitchConf)
    /\ SF_vars(Select) /\ SF_vars(ActivateBegins) /\ SF_vars(Reboot)
-----------------------------------------------------------------------------
Pcs == {"idle", "download", "write", "writing", "relabel", "fixup", "boot", "copy", "switch",
        "select", "selecting", "activate", "activating", "reboot"}

PartStates == [label : Slots, release : 0..MaxRelease, whole : BOOLEAN]
DeviceStates == [state : {"up", "off", "dead"}, root : Partitions]
ScriptStates == [pc : Pcs, inactive : Slots, dev : Partitions, release : 0..MaxRelease,
                 force : BOOLEAN]

TypeOK ==
    /\ target \in {"grub", "rpi"} /\ server \in Releases
    /\ parts \in [Partitions -> PartStates]
    /\ kernels \in [Slots -> BOOLEAN] /\ active \in BOOLEAN
    /\ conf \in Slots \cup {"none"} /\ selected \in Slots \cup {"none"}
    /\ marker \in 0..MaxRelease /\ mounted \in BOOLEAN
    /\ device \in DeviceStates /\ script \in ScriptStates
    /\ damaged \in BOOLEAN /\ broken \in BOOLEAN /\ exposed \in BOOLEAN

\* An update never writes to the root partition that is mounted, nor to the
\* kernel of its slot, whatever an earlier update left in the labels and in
\* the boot configuration when it was cut.
RunningSlotUntouched ==
    [][device.state = "up" =>
         parts'[device.root] = parts[device.root] /\ kernels'[Slot] = kernels[Slot]]_vars

\* When the script reboots, the slot it has switched to starts, whichever
\* partition its label finds, also after updates that were cut or that
\* failed, unless they left damage that the script does not look for.
SwitchIsSafe ==
    script.pc = "reboot" /\ ~damaged => Restarts

\* A power cut is harmless, in the middle of an update as between two, but for
\* four windows: while both partitions carry one label (an image of slot b is
\* written, or was cut, before it is relabelled), while grub-slot.cfg is empty,
\* from the copy over the Pi's kernel to its success, and while a run writes
\* over the slot that an earlier run selected without getting to the reboot.
CutIsHarmless ==
    /\ device.state = "up" /\ ~damaged
    /\ parts["p2"].label # parts["p3"].label
    /\ selected # "none" /\ (target = "rpi" => active)
    /\ ~exposed
    => Restarts

\* What the guards come to, the hypothesis of the liveness theorems: the timer
\* finds a partition for a newer release, a script that runs goes on, and what
\* may fail may also succeed.
NobodyStuck ==
    /\ /\ device.state = "up" /\ script.pc = "idle"
       /\ server > parts[device.root].release /\ Labelled(Other(Slot)) # {}
       => ENABLED <<Check(FALSE)>>_vars
    /\ script.pc # "idle" => ENABLED <<ScriptStep>>_vars
    /\ device.state = "off" => ENABLED <<Boot>>_vars
    /\ script.pc = "download" => ENABLED <<Download>>_vars
    /\ script.pc = "fixup" /\ ~mounted /\ parts[script.dev].release # 0 => ENABLED <<Fixup>>_vars
    /\ script.pc = "switch" => ENABLED <<SwitchConf>>_vars
    /\ script.pc = "select" => ENABLED <<Select>>_vars
    /\ script.pc = "activate" => ENABLED <<ActivateBegins>>_vars
    /\ script.pc = "reboot" => ENABLED <<Reboot>>_vars

\* A release is installed in the end, however often its download, a mount or a
\* write to /boot fails, if no update is cut or fails while it writes, and none
\* leaves the partition mounted: then no later one gets beyond its mount until
\* somebody reboots the device.
UpdateArrives ==
    server = MaxRelease ~>
        \/ device.state = "up" /\ parts[device.root].release = MaxRelease
        \/ damaged \/ broken \/ mounted
=============================================================================
