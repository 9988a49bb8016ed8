---------------------------- MODULE DeviceProofs ----------------------------
(***************************************************************************)
(* The safety properties of Device, for any names, settings and numbers of *)
(* retries.                                                                *)
(***************************************************************************)
EXTENDS Device, TLAPS

\* The history agrees with the memory on what is saved, and the file with both
\* unless harm was done.
StoreInv ==
    /\ asked.name = config.name /\ asked.setting = config.setting
    /\ SettingsSurvive

\* Where main is tells which of its parts there are.
MainInv ==
    /\ (ws = "off") <=> (main \in {"off", "load", "construct"})
    /\ poll \/ ws = "service" => main \in {"client", "run"}
    /\ client # "none" \/ group # "none" => main = "run"

\* A rename has changed m_instanceName, and not yet the context's.
Pending == {"test", "service", "context"}

\* Each copy of the name agrees with the one it was taken from, but for the three gaps.
NamesInv ==
    /\ ws \in Pending \cup {"group"} => ownName = config.name
    /\ ws \in {"idle", "setting"} => ownName = config.name \/ refused
    /\ main = "copied" /\ ws \notin Pending => copied = ownName \/ overlapped
    /\ main \in {"poll", "client", "run"} /\ ws \notin Pending => ctxName = ownName \/ overlapped
    /\ group = "added" /\ Serves(client) /\ ws # "group" => groupName = ctxName \/ raced

\* Before there is a client that serves there is nothing to serve.
ClientInv == client \in {"none", "connecting"} => group = "none" /\ timers = 0

IInv == TypeOK /\ StoreInv /\ MainInv /\ NamesInv /\ ClientInv /\ RetryArmed

-----------------------------------------------------------------------------
(* The configuration.                                                      *)

\* What the configuration's own steps do, whoever takes them.
Stores ==
    \/ Load
    \/ \E name \in Names \cup {NoName} : SetName(name)
    \/ \E setting \in Settings : SetSetting(setting)
    \/ OpenFile \/ OpenFails \/ WriteFile \/ WriteFails
    \/ Sync \/ Killed \/ Unpowered \/ UNCHANGED configVars

StoreOK == ConfigTypeOK /\ StoreInv

\* A configuration with one setting replaced.
LEMMA Replaced ==
  ASSUME NEW c \in Config
  PROVE  /\ \A name \in Names \cup {NoName, Generated} :
              /\ [c EXCEPT !.name = name] \in Config
              /\ [c EXCEPT !.name = name].name = name
              /\ [c EXCEPT !.name = name].setting = c.setting
         /\ \A setting \in Settings :
              /\ [c EXCEPT !.setting = setting] \in Config
              /\ [c EXCEPT !.setting = setting].name = c.name
         /\ c.name \in Names \cup {NoName, Generated}
<1> USE DEF Config
<1>1. ASSUME NEW name \in Names \cup {NoName, Generated}
      PROVE  /\ [c EXCEPT !.name = name] \in Config
             /\ [c EXCEPT !.name = name].name = name
             /\ [c EXCEPT !.name = name].setting = c.setting
  OBVIOUS
<1>2. ASSUME NEW setting \in Settings
      PROVE  [c EXCEPT !.setting = setting] \in Config /\ [c EXCEPT !.setting = setting].name = c.name
  OBVIOUS
<1>3. c.name \in Names \cup {NoName, Generated}
  OBVIOUS
<1> HIDE DEF Config
<1> QED
  BY <1>1, <1>2, <1>3

LEMMA LoadKeeps ==
  ASSUME StoreOK, Load
  PROVE  StoreOK' /\ config'.name # NoName
<1> DEFINE loaded == IF file \in Config THEN file ELSE Default
           named  == IF loaded.name = NoName THEN [loaded EXCEPT !.name = Generated] ELSE loaded
<1>1. /\ config' = named /\ asked' = named /\ harm' = (file = Torn)
      /\ saving' = (IF loaded.name = NoName THEN "open" ELSE "no")
      /\ file' = file /\ synced' = synced
  BY DEF Load
<1>2. loaded \in Config
  BY ConfigAssumption DEF Config, Default
<1>3. named \in Config /\ named.name # NoName
  BY <1>2, Replaced, ConfigAssumption
<1>4. harm' \in BOOLEAN
  BY <1>1, Zenon
<1>5. ConfigTypeOK'
  BY <1>1, <1>3, <1>4 DEF StoreOK, ConfigTypeOK
<1>6. SettingsSurvive'
  <2>1. SUFFICES ASSUME ~harm', saving' = "no"
                 PROVE  file' \in Config /\ file'.name = asked'.name /\ file'.setting = asked'.setting
    BY DEF SettingsSurvive
  <2>2. file \in Config /\ loaded = file
    BY <1>1, <2>1 DEF StoreOK, ConfigTypeOK
  <2>3. named = loaded
    BY <1>1, <2>1
  <2> QED
    BY <1>1, <2>2, <2>3
<1> QED
  BY <1>1, <1>3, <1>5, <1>6 DEF StoreOK, StoreInv

\* Whatever happens to the process and the disk, what was saved is in the file.
LEMMA StoreKeeps ==
  ASSUME StoreOK, Stores
  PROVE  StoreOK'
<1> USE DEF StoreOK, ConfigTypeOK, StoreInv
<1>1. ASSUME NEW new \in Config, Change(new) PROVE StoreOK'
  BY <1>1 DEF Change, SettingsSurvive
<1>2. CASE \E name \in Names \cup {NoName} : SetName(name)
  BY <1>1, <1>2, Replaced DEF SetName
<1>3. CASE \E setting \in Settings : SetSetting(setting)
  BY <1>1, <1>3, Replaced DEF SetSetting
<1>5. CASE OpenFile
  BY <1>5 DEF OpenFile, SettingsSurvive
<1>6. CASE OpenFails
  BY <1>6 DEF OpenFails, SettingsSurvive
<1>7. CASE WriteFile
  BY <1>7 DEF WriteFile, SettingsSurvive
<1>8. CASE WriteFails
  BY <1>8 DEF WriteFails, SettingsSurvive
<1>9. CASE Sync \/ UNCHANGED configVars
  BY <1>9 DEF Sync, configVars, SettingsSurvive
<1>10. CASE Killed
  <2>1. harm' \in BOOLEAN
    BY <1>10, Zenon DEF Killed
  <2> QED
    BY <1>10, <2>1 DEF Killed, SettingsSurvive
<1>11. CASE Unpowered
  <2>1. harm' \in BOOLEAN
    <3>1. harm' = (harm \/ saving # "no") \/ harm' = TRUE
      BY <1>11 DEF Unpowered
    <3> QED
      BY <3>1, Zenon
  <2> QED
    BY <1>11, <2>1 DEF Unpowered, SettingsSurvive
<1> QED
  BY <1>2, <1>3, <1>5, <1>6, <1>7, <1>8, <1>9, <1>10, <1>11, LoadKeeps DEF Stores

-----------------------------------------------------------------------------
(* The advertiser.                                                         *)

\* What is added carries the name it is added under, and no failed request is
\* forgotten.
LEMMA CreateKeeps ==
  ASSUME MdnsTypeOK, NEW from \in {"none", "empty", "added", "rejected"},
         NEW name \in Labels, NEW state, NEW waiting \in 0..MaxTimers,
         CreateServices(from, name, state, waiting)
  PROVE  /\ group' \in {"none", "empty", "added", "rejected"} /\ groupName' \in Labels
         /\ retryCount' \in 0..MaxRetries /\ timers' \in 0..MaxTimers
         /\ group' = "added" /\ Serves(state) =>
              groupName' = name \/ (from = "added" /\ groupName' = groupName)
         /\ group' \in {"none", "empty"} => timers' > 0 \/ retryCount' = MaxRetries
<1> USE MdnsAssumption DEF MdnsTypeOK
<1>1. CASE /\ TakenForEmpty(from, state) /\ group' \in {from, "empty"}
           /\ ScheduleRetry(waiting) /\ UNCHANGED groupName
  BY <1>1 DEF ScheduleRetry, TakenForEmpty
<1>2. CASE group' = "added" /\ groupName' = name /\ retryCount' = 0 /\ timers' = waiting
  BY <1>2
<1>3. CASE ~TakenForEmpty(from, state) /\ group' = from /\ timers' = waiting
           /\ UNCHANGED <<groupName, retryCount>>
  BY <1>3 DEF TakenForEmpty
<1> QED
  BY <1>1, <1>2, <1>3 DEF CreateServices

\* The advertiser's part of the invariant.
AdvertiserOK == MdnsTypeOK /\ RetryArmed /\ ClientInv

\* What is added after a step was added with the context's name, or before it.
NamesAdded ==
    group' = "added" /\ Serves(client') =>
        groupName' = ctxName' \/ (group = "added" /\ Serves(client) /\ groupName' = groupName)

\* The calls of the poll thread.
LEMMA CallbackKeeps ==
  ASSUME AdvertiserOK,
         \/ /\ client # "failed"
            /\ \/ client = "none" /\ ClientCallback("connecting")
               \/ \E state \in {"registering", "running", "failed"} : ClientCallback(state)
         \/ Reject \/ Retry
  PROVE  AdvertiserOK' /\ NamesAdded /\ UNCHANGED <<ownName, ctxName, copied, poll>>
<1> USE MdnsAssumption DEF AdvertiserOK, ClientInv, MdnsTypeOK, NamesAdded, nameVars
<1>1. CASE client = "none" /\ ClientCallback("connecting")
  BY <1>1 DEF ClientCallback, groupVars, RetryArmed, Serves
<1>2. CASE ClientCallback("failed")
  BY <1>2 DEF ClientCallback, groupVars, RetryArmed, Serves
<1>3. CASE ClientCallback("registering") /\ client # "failed"
  BY <1>3 DEF ClientCallback, Emptied, RetryArmed, Serves
<1>4. CASE ClientCallback("running") /\ client # "failed"
  <2>1. CreateServices(group, ctxName, "running", timers)
        /\ client' = "running" /\ UNCHANGED <<ownName, ctxName, copied, poll>>
    BY <1>4 DEF ClientCallback
  <2>2. group = "added" => Serves(client)
    BY <1>4 DEF Serves
  <2> QED
    BY <2>1, <2>2, CreateKeeps DEF RetryArmed
<1>5. CASE Reject
  BY <1>5 DEF Reject, RetryArmed, Serves
<1>6. CASE Retry
  <2>1. timers - 1 \in 0..MaxTimers /\ client \notin {"none", "connecting"}
    BY <1>6 DEF Retry
  <2>2. CreateServices(group, ctxName, client, timers - 1)
        /\ UNCHANGED <<ownName, ctxName, copied, poll, client>>
    BY <1>6 DEF Retry
  <2> QED
    BY <2>1, <2>2, CreateKeeps DEF RetryArmed
<1> QED
  BY <1>1, <1>2, <1>3, <1>4, <1>5, <1>6

\* A group that is there is made anew, by a rename with or without the lock.
LEMMA RegroupKeeps ==
  ASSUME AdvertiserOK, NEW name \in Labels, ctxName' = name,
         group # "none", CreateServices(Emptied, name, client, timers),
         UNCHANGED <<ownName, copied, poll, client>>
  PROVE  AdvertiserOK' /\ (group' = "added" /\ Serves(client') => groupName' = name)
<1> USE MdnsAssumption DEF AdvertiserOK, ClientInv, MdnsTypeOK
<1>1. Emptied \in {"none", "empty", "added", "rejected"} /\ (Serves(client) => Emptied = "empty")
  BY DEF Emptied
<1>2. client \notin {"none", "connecting"}
  OBVIOUS
<1> QED
  BY <1>1, <1>2, CreateKeeps DEF RetryArmed

LEMMA RenameKeeps ==
  ASSUME AdvertiserOK, NEW name \in Labels, RenameService(name)
  PROVE  /\ AdvertiserOK' /\ ctxName' = name /\ UNCHANGED <<ownName, copied, poll, client>>
         /\ group' = "added" /\ Serves(client') => groupName' = name
         /\ group' # "none" => group # "none"
<1>1. ctxName' = name /\ UNCHANGED <<ownName, copied, poll, client>>
  BY DEF RenameService
<1>2. CASE group = "none"
  BY <1>1, <1>2, MdnsAssumption DEF RenameService, groupVars, RetryArmed, AdvertiserOK, ClientInv, MdnsTypeOK
<1>3. CASE group # "none"
  BY <1>1, <1>3, RegroupKeeps DEF RenameService
<1> QED
  BY <1>2, <1>3

LEMMA RenameGroupKeeps ==
  ASSUME AdvertiserOK, RenameGroup
  PROVE  /\ AdvertiserOK' /\ UNCHANGED <<ownName, ctxName, copied, poll, client>>
         /\ group = "none" => group' = "none"
<1>1. UNCHANGED <<ownName, ctxName, copied, poll, client>>
  BY DEF RenameGroup, nameVars
<1>2. CASE UNCHANGED groupVars
  BY <1>1, <1>2 DEF groupVars, RetryArmed, AdvertiserOK, ClientInv, MdnsTypeOK
<1>3. CASE group # "none" /\ CreateServices(Emptied, ctxName, client, timers)
  <2>1. ctxName \in Labels /\ ctxName' = ctxName
    BY <1>1 DEF AdvertiserOK, ClientInv, MdnsTypeOK
  <2> QED
    BY <1>1, <1>3, <2>1, RegroupKeeps
<1> QED
  BY <1>2, <1>3 DEF RenameGroup

-----------------------------------------------------------------------------
(* The device.                                                             *)

\* The invariant but for the configuration's part.
DeviceOK ==
    /\ AdvertiserOK /\ MainInv /\ NamesInv
    /\ main \in MainPcs /\ ws \in WsPcs
    /\ {overlapped, raced, refused} \subseteq BOOLEAN

LEMMA Parts == IInv <=> StoreOK /\ DeviceOK
  BY DEF IInv, StoreOK, DeviceOK, TypeOK, AdvertiserOK, StoreInv

LEMMA InitOK == Init => IInv
<1> SUFFICES ASSUME Init PROVE StoreOK /\ DeviceOK
  BY Parts
<1>1. Default \in Config /\ Default.name = Default.name
  BY ConfigAssumption DEF Config, Default
<1>2. StoreOK
  BY <1>1 DEF Init, ConfigInit, StoreOK, ConfigTypeOK, StoreInv, SettingsSurvive
<1>3. DeviceOK
  <2>1. AdvertiserOK
    <3>1. poll \in BOOLEAN
      BY Zenon DEF Init, MdnsInit
    <3> QED
      BY <3>1, MdnsAssumption DEF Init, MdnsInit, AdvertiserOK, ClientInv, MdnsTypeOK, RetryArmed
  <2>2. MainInv /\ NamesInv
    BY DEF Init, MdnsInit, MainInv, NamesInv, Pending
  <2>3. main \in MainPcs /\ ws \in WsPcs /\ {overlapped, raced, refused} \subseteq BOOLEAN
    BY DEF Init, MainPcs, WsPcs
  <2> QED
    BY <2>1, <2>2, <2>3 DEF DeviceOK
<1> QED
  BY <1>2, <1>3

\* Every step does one of its own to the configuration.
LEMMA StoreSteps ==
  ASSUME [Next]_vars
  PROVE  Stores
<1>1. CASE Boot
  BY <1>1 DEF Boot, Stores
<1>2. CASE ChangeSetting
  BY <1>2 DEF ChangeSetting, Stores
<1>4. CASE ChangeName
  BY <1>4 DEF ChangeName, Stores
<1>5. CASE NameRefused
  BY <1>5 DEF NameRefused, Stores
<1>6. CASE Save
  BY <1>6 DEF Save, Stores
<1>7. CASE Quit \/ Kill
  BY <1>7 DEF Quit, Kill, Stores
<1>8. CASE PowerCut
  BY <1>8 DEF PowerCut, Stores
<1>9. CASE Disk
  BY <1>9 DEF Disk, Stores
<1>10. CASE \/ Loaded \/ StartServer \/ PublishReads \/ PublishWrites \/ PublishClient
            \/ PublishPolls \/ PublishFails \/ SettingAnswered \/ NameSaved \/ Rename
            \/ RenameTests \/ RenameLocked \/ RenameUnlocked \/ RenameEnds \/ Avahi
            \/ UNCHANGED vars
  <2>1. UNCHANGED configVars
    BY <1>10 DEF Loaded, StartServer, PublishReads, PublishWrites, PublishPolls, PublishClient,
       PublishFails, SettingAnswered, NameSaved, Rename, RenameTests, RenameLocked, RenameUnlocked,
       RenameEnds, Avahi, vars
  <2> QED
    BY <2>1 DEF Stores
<1> QED
  BY <1>1, <1>2, <1>4, <1>5, <1>6, <1>7, <1>8, <1>9, <1>10 DEF Next

\* Only loading and set_device_name touch the name.
LEMMA NameStays ==
  ASSUME ConfigTypeOK,
         \/ \E setting \in Settings : SetSetting(setting)
         \/ OpenFile \/ OpenFails \/ WriteFile \/ WriteFails \/ Sync \/ UNCHANGED configVars
  PROVE  config'.name = config.name
<1> USE DEF ConfigTypeOK
<1>1. CASE \E setting \in Settings : SetSetting(setting)
  BY <1>1, Replaced DEF SetSetting, Change
<1>3. CASE OpenFile \/ OpenFails \/ WriteFile \/ WriteFails \/ Sync \/ UNCHANGED configVars
  BY <1>3 DEF OpenFile, OpenFails, WriteFile, WriteFails, Sync, configVars
<1> QED
  BY <1>1, <1>3

\* One step of main, of the WebSocket thread, of Avahi or of the world.
LEMMA DeviceKeeps ==
  ASSUME StoreOK, DeviceOK, [Next]_vars
  PROVE  DeviceOK'
<1> USE DEF DeviceOK, MainInv, NamesInv, Pending, MainPcs, WsPcs
<1> DEFINE Quiet == UNCHANGED mdnsVars
<1>0. ASSUME Quiet PROVE AdvertiserOK' /\ UNCHANGED <<ownName, ctxName, copied, poll, client, group, groupName>>
  BY <1>0 DEF mdnsVars, nameVars, groupVars, AdvertiserOK, ClientInv, MdnsTypeOK, RetryArmed
<1>1. CASE Boot
  BY <1>0, <1>1 DEF Boot, mdnsVars
<1>2. CASE Loaded
  BY <1>0, <1>2 DEF Loaded, configVars, mdnsVars
<1>3. CASE StartServer
  <2>1. config.name \in Labels
    BY Replaced, DeviceAssumption DEF StoreOK, ConfigTypeOK
  <2>2. AdvertiserOK'
    BY <1>3, <2>1, MdnsAssumption DEF StartServer, Construct, groupVars, AdvertiserOK, ClientInv, MdnsTypeOK, RetryArmed
  <2> QED
    BY <1>3, <2>2 DEF StartServer, Construct, groupVars, configVars
<1>4. CASE PublishReads
  <2>1. AdvertiserOK'
    BY <1>4 DEF PublishReads, ReadName, groupVars, AdvertiserOK, ClientInv, MdnsTypeOK, RetryArmed
  <2> QED
    BY <1>4, <2>1 DEF PublishReads, ReadName, groupVars, configVars
<1>5. CASE PublishWrites
  <2>1. AdvertiserOK'
    BY <1>5 DEF PublishWrites, WriteName, groupVars, AdvertiserOK, ClientInv, MdnsTypeOK, RetryArmed
  <2> QED
    BY <1>5, <2>1 DEF PublishWrites, WriteName, groupVars, configVars
<1>6. CASE PublishClient
  <2>1. PICK state \in {"connecting", "registering", "running"} : ClientCallback(state)
    BY <1>6 DEF PublishClient, NewClient
  <2>2. client = "none" /\ group = "none" /\ main = "client" /\ main' = "run"
        /\ UNCHANGED <<config, ws, overlapped, raced, refused>>
    BY <1>6 DEF PublishClient, configVars
  <2>3. AdvertiserOK' /\ NamesAdded /\ UNCHANGED <<ownName, ctxName, copied, poll>>
    BY <2>1, <2>2, CallbackKeeps
  <2> QED
    BY <2>2, <2>3 DEF NamesAdded
<1>7. CASE PublishFails \/ PublishPolls
  <2>1. AdvertiserOK'
    BY <1>7 DEF PublishFails, PublishPolls, SetPoll, nameVars, groupVars, AdvertiserOK, ClientInv, MdnsTypeOK, RetryArmed
  <2> QED
    BY <1>7, <2>1 DEF PublishFails, PublishPolls, SetPoll, nameVars, groupVars, configVars
<1>8. CASE Quit \/ Kill \/ PowerCut
  <2>1. Withdrawn /\ main' = "off" /\ ws' = "off" /\ UNCHANGED <<overlapped, raced, refused>>
    BY <1>8 DEF Quit, Kill, PowerCut
  <2>2. AdvertiserOK'
    <3>1. poll' \in BOOLEAN
      BY <2>1, Zenon DEF Withdrawn
    <3> QED
      BY <2>1, <3>1, MdnsAssumption DEF Withdrawn, nameVars, AdvertiserOK, ClientInv, MdnsTypeOK, RetryArmed
  <2> QED
    BY <2>1, <2>2 DEF Withdrawn, nameVars
<1>9. CASE ChangeSetting
  <2>1. config'.name = config.name
    BY <1>9, NameStays DEF ChangeSetting, StoreOK
  <2>2. Quiet /\ ws = "idle" /\ ws' = "setting" /\ UNCHANGED <<main, overlapped, raced, refused>>
    BY <1>9 DEF ChangeSetting
  <2> QED
    BY <1>0, <2>1, <2>2 DEF mdnsVars
<1>10. CASE SettingAnswered
  BY <1>0, <1>10 DEF SettingAnswered, configVars, mdnsVars
<1>11. CASE ChangeName
  BY <1>0, <1>11 DEF ChangeName, mdnsVars
<1>12. CASE NameSaved
  BY <1>0, <1>12 DEF NameSaved, configVars, mdnsVars
<1>13. CASE NameRefused
  BY <1>0, <1>13 DEF NameRefused, mdnsVars
<1>14. CASE Rename
  <2>1. config.name \in Labels
    BY Replaced, DeviceAssumption DEF StoreOK, ConfigTypeOK
  <2>2. AdvertiserOK'
    BY <1>14, <2>1 DEF Rename, SetOwnName, groupVars, AdvertiserOK, ClientInv, MdnsTypeOK, RetryArmed
  <2> QED
    BY <1>14, <2>2 DEF Rename, SetOwnName, groupVars, configVars
<1>15. CASE RenameTests
  <2>1. ws' = (IF poll THEN "service" ELSE "context") /\ ws = "test" /\ Quiet
        /\ UNCHANGED <<config, main, overlapped, raced, refused>>
    BY <1>15 DEF RenameTests, configVars
  <2> QED
    BY <1>0, <2>1
<1>20. CASE RenameLocked
  <2>1. config.name \in Labels
    BY Replaced, DeviceAssumption DEF StoreOK, ConfigTypeOK
  <2>2. /\ AdvertiserOK' /\ ctxName' = config.name /\ UNCHANGED <<ownName, copied, poll, client>>
        /\ group' = "added" /\ Serves(client') => groupName' = config.name
        /\ group' # "none" => group # "none"
    BY <1>20, <2>1, RenameKeeps DEF RenameLocked
  <2>3. /\ overlapped' = FALSE /\ raced' = FALSE /\ refused' = FALSE
        /\ ws = "service" /\ ws' = "idle" /\ main' = main /\ config' = config
    BY <1>20 DEF RenameLocked, configVars
  <2> QED
    BY <2>2, <2>3
<1>21. CASE RenameUnlocked
  <2>1. config.name \in Labels
    BY Replaced, DeviceAssumption DEF StoreOK, ConfigTypeOK
  <2>2. AdvertiserOK'
    BY <1>21, <2>1 DEF RenameUnlocked, RenameContext, groupVars, AdvertiserOK, ClientInv, MdnsTypeOK, RetryArmed
  <2>3. overlapped' = (main = "copied") /\ overlapped' \in BOOLEAN
    <3>1. overlapped' = (main = "copied")
      BY <1>21 DEF RenameUnlocked
    <3> QED
      BY <3>1, Zenon
  <2> QED
    BY <1>21, <2>2, <2>3 DEF RenameUnlocked, RenameContext, groupVars, configVars
<1>22. CASE RenameEnds
  <2>1. AdvertiserOK' /\ UNCHANGED <<ownName, ctxName, copied, poll, client>>
        /\ (group = "none" => group' = "none")
    BY <1>22, RenameGroupKeeps DEF RenameEnds
  <2>2. /\ raced' = (group # "none") /\ refused' = FALSE /\ ws = "group" /\ ws' = "idle"
        /\ UNCHANGED <<config, main, overlapped>>
    BY <1>22 DEF RenameEnds, configVars
  <2>3. raced' \in BOOLEAN
    BY <2>2, Zenon
  <2> QED
    BY <2>1, <2>2, <2>3
<1>16. CASE Save
  <2>1. config'.name = config.name
    BY <1>16, NameStays DEF Save, StoreOK
  <2> QED
    BY <1>0, <1>16, <2>1 DEF Save, mdnsVars
<1>17. CASE Avahi
  <2>1. AdvertiserOK' /\ NamesAdded /\ UNCHANGED <<ownName, ctxName, copied, poll>>
    BY <1>17, CallbackKeeps DEF Avahi, DaemonChanges
  <2>2. main = "run" /\ UNCHANGED <<config, main, ws, overlapped, raced, refused>>
    BY <1>17 DEF Avahi, configVars
  <2> QED
    BY <2>1, <2>2 DEF NamesAdded
<1>18. CASE Disk
  <2>1. config'.name = config.name
    BY <1>18, NameStays DEF Disk, StoreOK
  <2> QED
    BY <1>0, <1>18, <2>1 DEF Disk, mdnsVars
<1>19. CASE UNCHANGED vars
  BY <1>0, <1>19 DEF vars, configVars, mdnsVars
<1> QED
  BY <1>1, <1>2, <1>3, <1>4, <1>5, <1>6, <1>7, <1>8, <1>9, <1>10, <1>11, <1>12, <1>13, <1>14,
     <1>15, <1>16, <1>17, <1>18, <1>19, <1>20, <1>21, <1>22 DEF Next

\* The invariant holds of every run, for any names, settings and retries.
THEOREM DeviceSafe == Spec => []IInv
<1>1. Init => IInv
  BY InitOK
<1>2. IInv /\ [Next]_vars => IInv'
  <2> SUFFICES ASSUME IInv, [Next]_vars PROVE IInv'
    OBVIOUS
  <2>1. StoreOK /\ DeviceOK
    BY Parts
  <2>2. StoreOK' /\ DeviceOK'
    BY <2>1, StoreSteps, StoreKeeps, DeviceKeeps
  <2>3. IInv' <=> StoreOK' /\ DeviceOK'
    BY Parts, PTL
  <2> QED
    BY <2>2, <2>3
<1> QED
  BY <1>1, <1>2, PTL DEF Spec

\* The variables keep their types, and the retries their bounds (mdns_advertiser.cpp).
THEOREM TypeCorrect == Spec => []TypeOK
  BY DeviceSafe, PTL DEF IInv

\* What was saved is what the next start reads (config.cpp), unless harm was done:
\* a save refused, cut or written in vain, or a file lost that had not reached the disk.
THEOREM SavedSurvives == Spec => []SettingsSurvive
  BY DeviceSafe, PTL DEF IInv, StoreInv

\* No request to register that fails is forgotten (mdns_advertiser.cpp), be it of
\* the callback, a retry or a rename, with the poll's lock or without.
THEOREM RetriesArmed == Spec => []RetryArmed
  BY DeviceSafe, PTL DEF IInv

\* The advertised name is the configured one, but for the three gaps of
\* set_device_name and publish(): the copies of the name agree one with the next.
THEOREM NameAdvertised == Spec => []AdvertisedIsConfigured
<1>1. IInv => AdvertisedIsConfigured
  BY DEF IInv, MainInv, NamesInv, Pending, AdvertisedIsConfigured
<1> QED
  BY <1>1, DeviceSafe, PTL
=============================================================================
