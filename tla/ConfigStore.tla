---------------------------- MODULE ConfigStore ----------------------------
(***************************************************************************)
(* The configuration in memory and in config.json (config.cpp), and what   *)
(* the commands of the WebSocket server do to it.                          *)
(*                                                                         *)
(* The settings behave in two ways.  "name" is set_device_name's, whose    *)
(* answer tells whether the save failed.  "setting" stands for those whose *)
(* commands save and answer success whatever came of it: the rotation, the *)
(* authentication key, the NDI source and mode.  What play_video,          *)
(* stop_video and the playlist commands change in memory without a save of *)
(* their own is left out.                                                  *)
(***************************************************************************)
EXTENDS Integers

CONSTANTS
    Names,        \* device names a client may give
    NoName,       \* the empty name
    Generated,    \* the name made from the MAC address
    Settings, NoSetting,
    Torn          \* a file that does not parse: empty or cut short

ASSUME ConfigAssumption ==
    /\ NoSetting \in Settings
    /\ NoName # Generated

VARIABLES
    config,       \* the Configuration of main
    file,         \* what config.json would be read as
    synced,       \* the file has reached the disk
    saving,       \* where saveToFile is: "no", "open" or "write"
    asked,        \* history: the configuration as loaded and commanded since
    harm          \* history: a save was refused or cut, and none has succeeded since

configVars == <<config, file, synced, saving, asked, harm>>

Config == [name : Names \cup {NoName, Generated}, setting : Settings]
Default == [name |-> NoName, setting |-> NoSetting]

\* The config.json of the repository gives no name.
ConfigInit ==
    /\ file = Default /\ synced = TRUE
    /\ config = Default /\ asked = Default
    /\ saving = "no" /\ harm = FALSE

\* Mutant: the name is made up but not saved.
LoadOnly ==
    LET loaded == IF file \in Config THEN file ELSE Default
        named  == IF loaded.name = NoName THEN [loaded EXCEPT !.name = Generated] ELSE loaded
    IN  /\ config' = named /\ asked' = named
        /\ harm' = (file = Torn)
        /\ saving' = "no"
        /\ UNCHANGED <<file, synced>>

\* loadFromFile: a file that does not parse counts as an empty one.  A device
\* without a name gets one, which is saved at once.
Load ==
    LET loaded == IF file \in Config THEN file ELSE Default
        named  == IF loaded.name = NoName THEN [loaded EXCEPT !.name = Generated] ELSE loaded
    IN  /\ config' = named /\ asked' = named
        /\ harm' = (file = Torn)
        /\ saving' = IF loaded.name = NoName THEN "open" ELSE "no"
        /\ UNCHANGED <<file, synced>>

\* The memory takes the value before the save begins.
Change(new) ==
    /\ config' = new /\ asked' = new
    /\ saving' = "open"
    /\ UNCHANGED <<file, synced, harm>>

SetName(name) == Change([config EXCEPT !.name = name])
SetSetting(setting) == Change([config EXCEPT !.setting = setting])

\* std::ofstream empties the file.
OpenFile ==
    /\ saving = "open"
    /\ file' = Torn /\ synced' = FALSE
    /\ saving' = "write"
    /\ UNCHANGED <<config, asked, harm>>

\* saveToFile returns false.
OpenFails ==
    /\ saving = "open"
    /\ saving' = "no" /\ harm' = TRUE
    /\ UNCHANGED <<config, file, synced, asked>>

WriteFile ==
    /\ saving = "write"
    /\ file' = config
    /\ saving' = "no" /\ harm' = FALSE
    /\ UNCHANGED <<config, synced, asked>>

\* The disk is full; nobody looks at the stream, and saveToFile returns true.
WriteFails ==
    /\ saving = "write"
    /\ saving' = "no" /\ harm' = TRUE
    /\ UNCHANGED <<config, file, synced, asked>>

\* The kernel (external) writes the file to the disk.
Sync ==
    /\ ~synced
    /\ synced' = TRUE
    /\ UNCHANGED <<config, file, saving, asked, harm>>

\* The process ends, in the middle of a save or not.
Killed ==
    /\ harm' = (harm \/ saving # "no")
    /\ saving' = "no"
    /\ UNCHANGED <<config, file, synced, asked>>

\* The power goes: a file that has not reached the disk may be found cut short.
Unpowered ==
    /\ \/ UNCHANGED file /\ harm' = (harm \/ saving # "no")
       \/ ~synced /\ file' = Torn /\ harm' = TRUE
    /\ saving' = "no" /\ synced' = TRUE
    /\ UNCHANGED <<config, asked>>
-----------------------------------------------------------------------------
ConfigTypeOK ==
    /\ config \in Config /\ asked \in Config
    /\ file \in Config \cup {Torn}
    /\ saving \in {"no", "open", "write"}
    /\ {synced, harm} \subseteq BOOLEAN

\* What a client was told is saved is in the file: unless a save was refused or
\* cut and none has succeeded since, the file that the next start will read
\* parses and holds the name and the settings that were asked for last.
SettingsSurvive ==
    ~harm /\ saving = "no" =>
        file \in Config /\ file.name = asked.name /\ file.setting = asked.setting
=============================================================================
