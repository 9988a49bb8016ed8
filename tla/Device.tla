------------------------------- MODULE Device -------------------------------
(***************************************************************************)
(* The device's name and settings from start to start: main loads the      *)
(* configuration, starts the WebSocket server and publishes the name,      *)
(* while the WebSocket thread handles commands that change, save and       *)
(* announce it, and Avahi's poll thread calls back.  The program may be    *)
(* killed and the power may go at any moment; the service is started again.*)
(*                                                                         *)
(* The service units start the program without arguments, so that          *)
(* overrideFromCommandLine has nothing to do.                              *)
(***************************************************************************)
EXTENDS ConfigStore, MdnsAdvertiser

VARIABLES
    main,         \* where main() is
    ws,           \* where the WebSocket thread is
    overlapped,   \* history: the last rename wrote its name between the two
                  \* halves of publish()'s copy
    raced,        \* history: the last rename met a group without the poll's lock
    refused       \* history: the last rename was answered with a failure

vars == <<configVars, mdnsVars, main, ws, overlapped, raced, refused>>

MainPcs == {"off", "load", "construct", "publish", "copied", "poll", "client", "run"}
WsPcs == {"off", "idle", "setting", "name", "own", "test", "service", "context", "group"}

ASSUME DeviceAssumption == Unnamed = NoName /\ Labels = Names \cup {NoName, Generated}

Init ==
    /\ ConfigInit /\ MdnsInit
    /\ main = "off" /\ ws = "off"
    /\ overlapped = FALSE /\ raced = FALSE /\ refused = FALSE
-----------------------------------------------------------------------------
(* main()                                                                  *)

Boot ==
    /\ main = "off"
    /\ main' = "load"
    /\ Load
    /\ UNCHANGED <<mdnsVars, ws, overlapped, raced, refused>>

\* loadFromFile has saved a name it had to make up, successfully or not.
Loaded ==
    /\ main = "load" /\ saving = "no"
    /\ main' = "construct"
    /\ UNCHANGED <<configVars, mdnsVars, ws, overlapped, raced, refused>>

\* The advertiser takes the name, and the server thread starts before publish().
StartServer ==
    /\ main = "construct"
    /\ Construct(config.name)
    /\ main' = "publish" /\ ws' = "idle"
    /\ overlapped' = FALSE /\ raced' = FALSE /\ refused' = FALSE
    /\ UNCHANGED configVars

PublishReads ==
    /\ main = "publish"
    /\ ReadName
    /\ main' = "copied"
    /\ UNCHANGED <<configVars, ws, overlapped, raced, refused>>

PublishWrites ==
    /\ main = "copied"
    /\ WriteName
    /\ main' = "poll"
    /\ UNCHANGED <<configVars, ws, overlapped, raced, refused>>

PublishClient ==
    /\ main = "client"
    /\ \E state \in {"connecting", "registering", "running"} : NewClient(state)
    /\ main' = "run"
    /\ UNCHANGED <<configVars, ws, overlapped, raced, refused>>

PublishPolls ==
    /\ main = "poll"
    /\ SetPoll(TRUE)
    /\ main' = "client"
    /\ UNCHANGED <<configVars, ws, overlapped, raced, refused>>

\* There is no poll, or it is freed because it does not start or there is no
\* client: the device runs without mDNS.
PublishFails ==
    /\ main \in {"poll", "client"}
    /\ SetPoll(FALSE)
    /\ main' = "run"
    /\ UNCHANGED <<configVars, ws, overlapped, raced, refused>>

\* main returns: no renderer, no default texture, or the window was closed.  The
\* server thread is joined first.
Quit ==
    /\ main = "run" /\ ws = "idle"
    /\ main' = "off" /\ ws' = "off"
    /\ Killed /\ Withdrawn
    /\ UNCHANGED <<overlapped, raced, refused>>
-----------------------------------------------------------------------------
(* The WebSocket thread                                                    *)

\* set_rotation, set_auth_key, clear_auth_key, set_ndi_source, stop_ndi.
ChangeSetting ==
    /\ ws = "idle"
    /\ \E setting \in Settings : SetSetting(setting)
    /\ ws' = "setting"
    /\ UNCHANGED <<mdnsVars, main, overlapped, raced, refused>>

SettingAnswered ==
    /\ ws = "setting" /\ saving = "no"
    /\ ws' = "idle"
    /\ UNCHANGED <<configVars, mdnsVars, main, overlapped, raced, refused>>

\* set_device_name, which takes any name, the empty one too.
ChangeName ==
    /\ ws = "idle"
    /\ \E name \in Names \cup {NoName} : SetName(name)
    /\ ws' = "name"
    /\ UNCHANGED <<mdnsVars, main, overlapped, raced, refused>>

\* The name was saved, or the failure to write it went unnoticed.
NameSaved ==
    /\ ws = "name" /\ saving = "no"
    /\ ws' = "own"
    /\ UNCHANGED <<configVars, mdnsVars, main, overlapped, raced, refused>>

\* The file could not be opened: the name stays in memory all the same.
NameRefused ==
    /\ ws = "name" /\ OpenFails
    /\ ws' = "idle" /\ refused' = TRUE
    /\ UNCHANGED <<mdnsVars, main, overlapped, raced>>

Rename ==
    /\ ws = "own"
    /\ SetOwnName(config.name)
    /\ ws' = "test"
    /\ UNCHANGED <<configVars, main, overlapped, raced, refused>>

\* Only a poll that is there is locked.
RenameTests ==
    /\ ws = "test"
    /\ ws' = IF poll THEN "service" ELSE "context"
    /\ UNCHANGED <<configVars, mdnsVars, main, overlapped, raced, refused>>

RenameLocked ==
    /\ ws = "service"
    /\ RenameService(config.name)
    /\ ws' = "idle"
    /\ overlapped' = FALSE /\ raced' = FALSE /\ refused' = FALSE
    /\ UNCHANGED <<configVars, main>>

RenameUnlocked ==
    /\ ws = "context"
    /\ RenameContext(config.name)
    /\ ws' = "group"
    /\ overlapped' = (main = "copied")
    /\ UNCHANGED <<configVars, main, raced, refused>>

RenameEnds ==
    /\ ws = "group"
    /\ RenameGroup
    /\ ws' = "idle"
    /\ raced' = (group # "none") /\ refused' = FALSE
    /\ UNCHANGED <<configVars, main, overlapped>>

Save ==
    /\ OpenFile \/ (OpenFails /\ ws # "name") \/ WriteFile \/ WriteFails
    /\ UNCHANGED <<mdnsVars, main, ws, overlapped, raced, refused>>
-----------------------------------------------------------------------------
(* Avahi and the world                                                     *)

Avahi ==
    /\ main = "run"
    /\ DaemonChanges \/ Reject \/ Retry
    /\ UNCHANGED <<configVars, main, ws, overlapped, raced, refused>>

Kill ==
    /\ main # "off"
    /\ main' = "off" /\ ws' = "off"
    /\ Killed /\ Withdrawn
    /\ UNCHANGED <<overlapped, raced, refused>>

PowerCut ==
    /\ main' = "off" /\ ws' = "off"
    /\ Unpowered /\ Withdrawn
    /\ UNCHANGED <<overlapped, raced, refused>>

Disk == Sync /\ UNCHANGED <<mdnsVars, main, ws, overlapped, raced, refused>>

Next ==
    \/ Boot \/ Loaded \/ StartServer \/ PublishReads \/ PublishWrites
    \/ PublishPolls \/ PublishClient \/ PublishFails \/ Quit
    \/ ChangeSetting \/ SettingAnswered \/ ChangeName
    \/ NameSaved \/ NameRefused \/ Rename \/ RenameTests
    \/ RenameLocked \/ RenameUnlocked \/ RenameEnds
    \/ Save
    \/ Avahi
    \/ Kill \/ PowerCut \/ Disk

Spec == Init /\ [][Next]_vars
-----------------------------------------------------------------------------
TypeOK ==
    /\ ConfigTypeOK /\ MdnsTypeOK
    /\ main \in MainPcs /\ ws \in WsPcs
    /\ {overlapped, raced, refused} \subseteq BOOLEAN

\* The name under which the device is found is the one it is configured with,
\* whatever callbacks and retries did meanwhile, but for three gaps: a rename
\* whose save failed stays in memory without being announced; one that writes
\* its name between the two halves of publish()'s copy is overwritten by it;
\* and one that found no poll to lock may meet the poll thread's registration.
AdvertisedIsConfigured ==
    group = "added" /\ Serves(client) /\ ws \in {"idle", "setting"} =>
        groupName = config.name \/ overlapped \/ raced \/ refused
=============================================================================
