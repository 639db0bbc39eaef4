--------------------------- MODULE FrontEndProofs ---------------------------
(* Proofs about the files the programs keep: the settings of the AVB        *)
(* interfaces, the settings of the graphical program, and the log with the  *)
(* lines a window shows of it; and about the options a command line says.   *)
EXTENDS CommandLine, RuntimeLogger, GuiSettings, AvbSettings,
        SequenceTheorems, FiniteSetTheorems, WellFoundedInduction, TLAPS

(* AVB settings *)

Windows == [open : BOOLEAN, devices : SUBSET Devices, error : BOOLEAN]
AvbFiles == [rates : [Devices -> PointRates \cup {Off}], halfXY : SUBSET Devices, valid : BOOLEAN]

AvbTypeOK ==
  /\ rates \in [Devices -> PointRates \cup {Off}] /\ halfXY \subseteq Devices /\ connected \subseteq Devices
  /\ window \in Windows /\ program \in BOOLEAN /\ locked \in BOOLEAN /\ file \in AvbFiles

AvbInv == AvbTypeOK /\ AvbErrorShown

LEMMA FilesTyped ==
  /\ EmptyFile \in AvbFiles /\ Damaged \in AvbFiles /\ ClosedWindow \in Windows
  /\ [ClosedWindow EXCEPT !.error = TRUE] \in Windows /\ [ClosedWindow EXCEPT !.error = TRUE].error
  /\ AllOff \in [Devices -> PointRates \cup {Off}]
  /\ \A r \in [Devices -> PointRates \cup {Off}], h \in SUBSET Devices : Contents(r, h) \in AvbFiles
<1>1. AllOff \in [Devices -> PointRates \cup {Off}]
  BY DEF AllOff
<1>2. \A r \in [Devices -> PointRates \cup {Off}], h \in SUBSET Devices : Contents(r, h) \in AvbFiles
  BY DEF Contents, AvbFiles
<1>3. EmptyFile \in AvbFiles
  BY <1>1, <1>2 DEF EmptyFile
<1>4. Damaged \in AvbFiles
  BY <1>3 DEF Damaged, AvbFiles
<1>5. ClosedWindow \in Windows /\ [ClosedWindow EXCEPT !.error = TRUE] \in Windows
      /\ [ClosedWindow EXCEPT !.error = TRUE].error
  BY DEF ClosedWindow, Windows
<1> QED
  BY <1>1, <1>2, <1>3, <1>4, <1>5

(* A file that loads holds what it holds.                                   *)
LEMMA ValidContents == ASSUME NEW f \in AvbFiles, f.valid PROVE f = Contents(f.rates, f.halfXY)
BY DEF AvbFiles, Contents

LEMMA WindowTyped ==
  ASSUME window \in Windows, NEW b \in BOOLEAN, NEW D \in SUBSET Devices
  PROVE  /\ [window EXCEPT !.error = b, !.devices = D] \in Windows
         /\ [window EXCEPT !.error = b, !.devices = D].error = b
         /\ [window EXCEPT !.error = b] \in Windows /\ [window EXCEPT !.error = b].error = b
         /\ [window EXCEPT !.open = b, !.devices = D] \in Windows
         /\ [window EXCEPT !.open = b, !.devices = D].error = window.error
         /\ [window EXCEPT !.devices = D] \in Windows /\ [window EXCEPT !.devices = D].error = window.error
BY DEF Windows

(* After a save the error is shown, or the file holds what was saved.       *)
LEMMA SaveShows ==
  ASSUME AvbTypeOK, NEW r \in [Devices -> PointRates \cup {Off}], NEW h \in SUBSET Devices,
         rates' = r, halfXY' = h, SaveAvbSettings(r, h, connected), UNCHANGED <<connected, program, locked>>
  PROVE  AvbInv'
<1>1. CASE file' = Contents(r, h) /\ window' = [window EXCEPT !.error = FALSE, !.devices = connected]
  BY <1>1, FilesTyped, WindowTyped DEF AvbTypeOK, AvbInv, AvbErrorShown
<1>2. CASE file' \in {file, EmptyFile, Damaged} /\ window' = [window EXCEPT !.error = TRUE, !.devices = connected]
  BY <1>2, FilesTyped, WindowTyped DEF AvbTypeOK, AvbInv, AvbErrorShown
<1> QED
  BY <1>1, <1>2 DEF SaveAvbSettings

LEMMA ChangeShows ==
  ASSUME AvbInv, NEW r \in [Devices -> PointRates \cup {Off}], NEW h \in SUBSET Devices, ChangeAvb(r, h)
  PROVE  AvbInv'
BY SaveShows DEF AvbInv, ChangeAvb

LEMMA WindowShows ==
  ASSUME AvbInv, UNCHANGED <<rates, halfXY, program, locked, file>>, connected' \subseteq Devices,
         window' \in Windows, ~window'.error => ~window.error
  PROVE  AvbInv'
BY DEF AvbInv, AvbTypeOK, AvbErrorShown, Contents

(* While the AVB window shows no error the file holds what the manager      *)
(* holds, whatever failed to load or to save before and whenever a program  *)
(* died.                                                                    *)
THEOREM AvbErrorsAreShown == AvbSpec => []AvbErrorShown
<1>1. AvbInit => AvbInv
  BY FilesTyped DEF AvbInit, AvbInv, AvbTypeOK, AvbErrorShown
<1>2. AvbInv /\ [AvbNext]_avbVars => AvbInv'
  <2> SUFFICES ASSUME AvbInv, [AvbNext]_avbVars PROVE AvbInv'
    OBVIOUS
  <2>1. /\ AvbTypeOK /\ connected \in SUBSET Devices /\ window \in Windows /\ {} \in SUBSET Devices
        /\ Off \in PointRates \cup {Off}
    BY DEF AvbInv, AvbTypeOK
  <2>2. CASE LoadAvbSettings
    BY <2>1, <2>2, FilesTyped, ValidContents DEF LoadAvbSettings, AvbTypeOK, AvbInv, AvbErrorShown, AvbFiles
  <2>3. CASE EndProgram
    BY <2>1, <2>3, FilesTyped DEF EndProgram, AvbTypeOK, AvbInv, AvbErrorShown
  <2>4. CASE Refused \/ OpenAvbWindow \/ CloseAvbWindow \/ RefreshInterfaces
    <3>1. UNCHANGED <<rates, halfXY, connected, program, locked, file>>
      BY <2>4 DEF Refused, OpenAvbWindow, CloseAvbWindow, RefreshInterfaces
    <3>2. window' \in Windows /\ (~window'.error => ~window.error)
      <4>1. CASE Refused
        BY <2>1, <4>1, WindowTyped DEF Refused
      <4>2. CASE OpenAvbWindow
        BY <2>1, <4>2, WindowTyped DEF OpenAvbWindow
      <4>3. CASE CloseAvbWindow
        BY <2>1, <4>3, WindowTyped DEF CloseAvbWindow
      <4>4. CASE RefreshInterfaces
        BY <2>1, <4>4, WindowTyped DEF RefreshInterfaces
      <4> QED
        BY <2>4, <4>1, <4>2, <4>3, <4>4
    <3> QED
      BY <2>1, <3>1, <3>2, WindowShows
  <2>5. CASE RetrySave
    BY <2>1, <2>5, SaveShows DEF RetrySave, AvbTypeOK
  <2>6. ASSUME NEW d \in Devices, NEW r \in PointRates \cup {Off}, ChangeAvb([rates EXCEPT ![d] = r], halfXY)
        PROVE  AvbInv'
    <3>1. [rates EXCEPT ![d] = r] \in [Devices -> PointRates \cup {Off}] /\ halfXY \in SUBSET Devices
      BY <2>1 DEF AvbTypeOK
    <3> QED
      BY <2>6, <3>1, ChangeShows
  <2>7. ASSUME NEW d \in Devices, HalfXYClicked(d) PROVE AvbInv'
    <3>1. PICK h \in SUBSET Devices : ChangeAvb(rates, h) \/ Refused
      BY <2>1, <2>7 DEF HalfXYClicked, AvbTypeOK
    <3> QED
      BY <2>1, <2>4, <3>1, ChangeShows DEF AvbTypeOK
  <2>8. ASSUME NEW d \in Devices, Plug(d) PROVE AvbInv'
    BY <2>1, <2>8, WindowShows DEF Plug
  <2>9. CASE Lock \/ UNCHANGED avbVars
    <3>1. UNCHANGED <<rates, halfXY, connected, window, program, file>> /\ (locked' = ~locked \/ locked' = locked)
      BY <2>9 DEF Lock, avbVars
    <3>2. locked' \in BOOLEAN
      BY <2>1, <3>1 DEF AvbTypeOK
    <3>3. AvbErrorShown'
      BY <3>1 DEF AvbInv, AvbErrorShown, Contents
    <3> QED
      BY <2>1, <3>1, <3>2, <3>3 DEF AvbInv, AvbTypeOK
  <2>10. ASSUME NEW d \in Devices, NEW r \in PointRates,
                UseDevice(d) \/ DropDevice(d) \/ ForgetInterface(d) \/ ChoosePointRate(d, r)
         PROVE  AvbInv'
    BY <2>1, <2>4, <2>6, <2>10 DEF UseDevice, DropDevice, ForgetInterface, ChoosePointRate
  <2>11. PointRates # {}
    BY AvbAssumption
  <2> QED
    BY <2>2, <2>3, <2>4, <2>5, <2>7, <2>8, <2>9, <2>10, <2>11 DEF AvbNext
<1>3. AvbInv => AvbErrorShown
  BY DEF AvbInv
<1> QED
  BY <1>1, <1>2, <1>3, PTL DEF AvbSpec
-----------------------------------------------------------------------------
(* Settings of the graphical program *)

Routings == [Ids -> (UNION HostSets) \cup {Unset}]
SavedFiles == [types : (SUBSET Types) \cup {Missing}, host : (UNION HostSets) \cup {Unset},
               routes : Routings, enabled : SUBSET Ids]

SettingsTypeOK ==
  /\ gui \in {"down", "top", "pruned", "open"} /\ available \in HostSets
  /\ disabledTypes \in SUBSET Types /\ hostId \in UNION HostSets /\ routes \in Routings
  /\ enabled \in SUBSET Ids /\ saved \in SavedFiles /\ snapshot \in (SUBSET Ids) \cup {NoResults}

(* At every point of a frame the files hold what is in memory, but for what *)
(* the frame is about to correct.                                           *)
FilesHold ==
  gui # "down" =>
    /\ "types" \in stale \/ LoadTypes(saved) = disabledTypes
    /\ "host" \in stale \/ KnownHost(LoadHost(saved)) = KnownHost(hostId)
    /\ "routes" \in stale \/ \A c \in Ids \ Lossy : LoadRoutes(saved)[c] = routes[c]
    /\ "enabled" \in stale \/ LoadEnabled(saved) = enabled \ Lossy
HostsPruned ==
  gui \in {"pruned", "open"} => hostId \in available /\ \A c \in Ids : routes[c] \in available \cup {Unset}

SettingsInv == SettingsTypeOK /\ FilesHold /\ HostsPruned

LEMMA KnownIsKnown ==
  ASSUME SettingsTypeOK
  PROVE  \A h : KnownHost(h) \in available /\ KnownHost(KnownHost(h)) = KnownHost(h)
BY SettingsAssumption DEF SettingsTypeOK, KnownHost, DefaultHostId

(* What the loaders make of well-formed files.                              *)
LEMMA LoadsTyped ==
  ASSUME SettingsTypeOK
  PROVE  /\ LoadTypes(saved) \in SUBSET Types /\ LoadHost(saved) \in UNION HostSets
         /\ LoadRoutes(saved) \in Routings /\ LoadEnabled(saved) \in SUBSET Ids
<1>1. saved \in SavedFiles /\ available \in HostSets
  BY DEF SettingsTypeOK
<1>2. /\ saved.types \in (SUBSET Types) \cup {Missing} /\ saved.host \in (UNION HostSets) \cup {Unset}
      /\ saved.routes \in Routings /\ saved.enabled \in SUBSET Ids
  BY <1>1 DEF SavedFiles
<1>3. DefaultHostId \in UNION HostSets
  BY <1>1, SettingsAssumption DEF DefaultHostId
<1>4. LoadTypes(saved) \in SUBSET Types
  <2>1. {"IDN"} \in SUBSET Types
    BY SettingsAssumption
  <2> QED
    BY <1>2, <2>1 DEF LoadTypes
<1>5. LoadHost(saved) \in UNION HostSets
  BY <1>2, <1>3 DEF LoadHost
<1>6. LoadRoutes(saved) \in Routings
  BY <1>2 DEF LoadRoutes, Routings
<1>7. LoadEnabled(saved) \in SUBSET Ids
  BY <1>2 DEF LoadEnabled
<1> QED
  BY <1>4, <1>5, <1>6, <1>7

(* A save changes one file and what is known of its last save.              *)
LEMMA SaveOne ==
  ASSUME SettingsTypeOK, NEW f \in Files, NEW content, Save(f, content),
         f = "types" => content \in SUBSET Types, f = "host" => content \in UNION HostSets,
         f = "routes" => content \in Routings, f = "enabled" => content \in SUBSET Ids
  PROVE  /\ saved' \in SavedFiles
         /\ \A g \in Files : g # f => (g \in stale <=> g \in stale')
         /\ f = "types" => "types" \in stale' \/ saved'.types = content
         /\ f = "host" => "host" \in stale' \/ saved'.host = content
         /\ f = "routes" => "routes" \in stale' \/ saved'.routes = content
         /\ f = "enabled" => "enabled" \in stale' \/ saved'.enabled = content
         /\ f # "types" => saved'.types = saved.types
         /\ f # "host" => saved'.host = saved.host
         /\ f # "routes" => saved'.routes = saved.routes
         /\ f # "enabled" => saved'.enabled = saved.enabled
<1>1. saved \in SavedFiles
  BY DEF SettingsTypeOK
<1>2. NoRoutes \in Routings
  BY DEF NoRoutes, Routings
<1>3. ASSUME NEW v,
             f = "types" => v \in SUBSET Types, f = "host" => v \in (UNION HostSets) \cup {Unset},
             f = "routes" => v \in Routings, f = "enabled" => v \in SUBSET Ids,
             saved' = [saved EXCEPT ![f] = v]
      PROVE  /\ saved' \in SavedFiles
             /\ saved'.types = IF f = "types" THEN v ELSE saved.types
             /\ saved'.host = IF f = "host" THEN v ELSE saved.host
             /\ saved'.routes = IF f = "routes" THEN v ELSE saved.routes
             /\ saved'.enabled = IF f = "enabled" THEN v ELSE saved.enabled
  <2>1. CASE f = "types"
    BY <1>1, <1>3, <2>1 DEF SavedFiles
  <2>2. CASE f = "host"
    BY <1>1, <1>3, <2>2 DEF SavedFiles
  <2>3. CASE f = "routes"
    BY <1>1, <1>3, <2>3 DEF SavedFiles
  <2>4. CASE f = "enabled"
    BY <1>1, <1>3, <2>4 DEF SavedFiles
  <2> QED
    BY <2>1, <2>2, <2>3, <2>4 DEF Files
<1>4. /\ f = "types" \/ f = "enabled" => Truncated[f] = {}
      /\ f = "host" => Truncated[f] = Unset
      /\ f = "routes" => Truncated[f] = NoRoutes
  BY DEF Truncated
<1>5. CASE saved' = [saved EXCEPT ![f] = content] /\ stale' = stale \ {f}
  BY <1>3, <1>5
<1>6. CASE saved' = saved /\ stale' = stale \cup {f}
  BY <1>1, <1>6
<1>7. CASE saved' = [saved EXCEPT ![f] = Truncated[f]] /\ stale' = stale \cup {f}
  BY <1>2, <1>3, <1>4, <1>7 DEF Files
<1> QED
  BY <1>5, <1>6, <1>7 DEF Save

LEMMA NothingSaved ==
  ASSUME SettingsInv, gui # "down", Unsaved, UNCHANGED <<available, disabledTypes, routes, enabled>>,
         hostId' \in {hostId, KnownHost(hostId)}
  PROVE  saved' \in SavedFiles /\ FilesHold'
<1>1. KnownHost(hostId') = KnownHost(hostId)
  BY KnownIsKnown DEF SettingsInv
<1>2. saved' \in SavedFiles
  BY DEF Unsaved, SettingsInv, SettingsTypeOK
<1>3. FilesHold'
  BY <1>1 DEF SettingsInv, FilesHold, Unsaved, LoadTypes, LoadHost, LoadRoutes, LoadEnabled, KnownHost
<1> QED
  BY <1>2, <1>3

(* A list changes and is saved: the four files hold again what is in        *)
(* memory, or the save is known to have failed.                             *)
LEMMA OneSaved ==
  ASSUME SettingsInv, gui # "down", UNCHANGED available, NEW f \in Files, NEW content, Save(f, content),
         IF f = "types" THEN content \in SUBSET Types /\ disabledTypes' = content
                        ELSE disabledTypes' = disabledTypes,
         IF f = "host" THEN content \in available /\ hostId' = content
                       ELSE hostId' \in {hostId, KnownHost(hostId)},
         IF f = "routes" THEN content \in Routings /\ routes' = content ELSE routes' = routes,
         IF f = "enabled" THEN content \in SUBSET Ids /\ enabled' = content ELSE enabled' = enabled
  PROVE  saved' \in SavedFiles /\ FilesHold'
<1>1. SettingsTypeOK /\ FilesHold /\ available \in HostSets
  BY DEF SettingsInv, SettingsTypeOK
<1>2. /\ saved' \in SavedFiles
      /\ \A g \in Files : g # f => (g \in stale <=> g \in stale')
      /\ f = "types" => "types" \in stale' \/ saved'.types = content
      /\ f = "host" => "host" \in stale' \/ saved'.host = content
      /\ f = "routes" => "routes" \in stale' \/ saved'.routes = content
      /\ f = "enabled" => "enabled" \in stale' \/ saved'.enabled = content
      /\ f # "types" => saved'.types = saved.types
      /\ f # "host" => saved'.host = saved.host
      /\ f # "routes" => saved'.routes = saved.routes
      /\ f # "enabled" => saved'.enabled = saved.enabled
  <2>1. f = "host" => content \in UNION HostSets
    BY <1>1
  <2> QED
    BY <1>1, <2>1, SaveOne
<1>3. "types" \in stale' \/ LoadTypes(saved') = disabledTypes'
  <2>1. CASE f = "types"
    <3>1. content # Missing
      BY <2>1, SettingsAssumption DEF Missing
    <3> QED
      BY <1>2, <2>1, <3>1 DEF LoadTypes
  <2>2. CASE f # "types"
    BY <1>1, <1>2, <2>2 DEF LoadTypes, FilesHold, Files
  <2> QED
    BY <2>1, <2>2
<1>4. "host" \in stale' \/ KnownHost(LoadHost(saved')) = KnownHost(hostId')
  <2>1. CASE f = "host"
    <3>1. content # Unset
      BY <1>1, <2>1, SettingsAssumption DEF Unset
    <3> QED
      BY <1>2, <2>1, <3>1 DEF LoadHost, KnownHost
  <2>2. CASE f # "host"
    <3>1. KnownHost(hostId') = KnownHost(hostId)
      BY <1>1, <2>2, KnownIsKnown
    <3> QED
      BY <1>1, <1>2, <2>2, <3>1 DEF LoadHost, KnownHost, FilesHold, Files
  <2> QED
    BY <2>1, <2>2
<1>5. "routes" \in stale' \/ \A c \in Ids \ Lossy : LoadRoutes(saved')[c] = routes'[c]
  BY <1>1, <1>2 DEF LoadRoutes, FilesHold, Files
<1>6. "enabled" \in stale' \/ LoadEnabled(saved') = enabled' \ Lossy
  BY <1>1, <1>2 DEF LoadEnabled, FilesHold, Files
<1>7. KnownHost(LoadHost(saved))' = KnownHost(LoadHost(saved')) /\ KnownHost(hostId)' = KnownHost(hostId')
  BY DEF KnownHost, LoadHost
<1>8. FilesHold'
  BY <1>3, <1>4, <1>5, <1>6, <1>7 DEF FilesHold, LoadTypes, LoadRoutes, LoadEnabled
<1> QED
  BY <1>2, <1>8

(* The program starts, from files as they were left.                        *)
LEMMA StartHolds ==
  ASSUME SettingsInv, gui' = "top", UNCHANGED <<saved>>, available' \in HostSets, snapshot' \in {snapshot, NoResults},
         disabledTypes' = LoadTypes(saved), hostId' = LoadHost(saved),
         routes' = LoadRoutes(saved), enabled' = LoadEnabled(saved)
  PROVE  SettingsInv'
<1>1. SettingsTypeOK'
  BY LoadsTyped DEF SettingsInv, SettingsTypeOK
<1>2. FilesHold'
  <2>1. saved.routes \in Routings
    BY DEF SettingsInv, SettingsTypeOK, SavedFiles
  <2>2. LoadEnabled(saved) = LoadEnabled(saved) \ Lossy
    BY DEF LoadEnabled
  <2> QED
    BY <2>2 DEF FilesHold, KnownHost, LoadTypes, LoadHost, LoadRoutes, LoadEnabled
<1>3. HostsPruned'
  BY DEF HostsPruned
<1> QED
  BY <1>1, <1>2, <1>3 DEF SettingsInv

(* In the graphical program a host that is not registered is never asked    *)
(* for, and what the next start of the program would load is what is in     *)
(* memory, but for saves that failed and ids no line can hold; through any  *)
(* sequence of clicks, rescans, restarts and failed saves, and with any     *)
(* change of the registered hosts between two starts.                       *)
THEOREM SettingsAreConsistent == SettingsSpec => []SettingsConsistent
<1>1. SettingsInit => SettingsInv
  <2> SUFFICES ASSUME SettingsInit PROVE SettingsInv
    OBVIOUS
  <2>1. NoRoutes \in Routings
    BY DEF NoRoutes, Routings
  <2>2. saved \in SavedFiles
    BY <2>1 DEF SettingsInit, SavedFiles, Truncated
  <2>3. DefaultHostId \in UNION HostSets
    BY SettingsAssumption DEF SettingsInit, DefaultHostId
  <2> QED
    BY <2>1, <2>2, <2>3 DEF SettingsInit, SettingsInv, SettingsTypeOK, FilesHold, HostsPruned
<1>2. SettingsInv /\ [SettingsNext]_settingsVars => SettingsInv'
  <2> SUFFICES ASSUME SettingsInv, [SettingsNext]_settingsVars PROVE SettingsInv'
    OBVIOUS
  <2>1. /\ SettingsTypeOK /\ HostsPruned /\ available \in HostSets /\ routes \in Routings /\ hostId \in UNION HostSets
        /\ {"types", "host", "routes", "enabled"} = Files
    BY DEF SettingsInv, SettingsTypeOK, Files
  <2>2. ASSUME NEW hosts \in HostSets, LaunchGui(hosts) PROVE SettingsInv'
    BY <2>2, StartHolds DEF LaunchGui
  <2>3. CASE RelaunchGui
    BY <2>1, <2>3, StartHolds DEF RelaunchGui
  <2>4. CASE CloseGui
    <3>1. NoRoutes \in Routings /\ DefaultHostId \in UNION HostSets
      BY <2>1, SettingsAssumption DEF NoRoutes, Routings, DefaultHostId
    <3>2. SettingsTypeOK'
      BY <2>1, <2>4, <3>1 DEF CloseGui, SettingsTypeOK
    <3> QED
      BY <2>4, <3>2 DEF CloseGui, SettingsInv, FilesHold, HostsPruned
  <2>5. ASSUME NEW found \in (SUBSET Ids) \cup {NoResults}, FrameBegins(found) PROVE SettingsInv'
    <3>1. /\ gui = "top" /\ gui' = "pruned" /\ hostId' = KnownHost(hostId) /\ routes' = KnownRoutes
          /\ snapshot' = found /\ UNCHANGED <<available, disabledTypes, enabled>>
      BY <2>5 DEF FrameBegins
    <3>2. KnownRoutes \in Routings /\ \A c \in Ids : KnownRoutes[c] \in available \cup {Unset}
      BY <2>1 DEF KnownRoutes, Routings
    <3>3. KnownHost(hostId) \in available
      BY <2>1, KnownIsKnown
    <3>4. saved' \in SavedFiles /\ FilesHold'
      <4>1. CASE Save("routes", routes')
        BY <2>1, <3>1, <3>2, <4>1, OneSaved
      <4>2. CASE Unsaved /\ routes' = routes
        BY <3>1, <4>2, NothingSaved
      <4> QED
        BY <2>5, <4>1, <4>2 DEF FrameBegins
    <3>5. SettingsTypeOK' /\ HostsPruned'
      BY <2>1, <2>5, <3>1, <3>2, <3>3, <3>4 DEF SettingsTypeOK, HostsPruned
    <3> QED
      BY <3>4, <3>5 DEF SettingsInv
  <2>6. CASE FramePrunes
    <3>1. /\ gui = "pruned" /\ gui' = "open" /\ enabled' = Present
          /\ UNCHANGED <<available, disabledTypes, hostId, routes, snapshot>>
      BY <2>6 DEF FramePrunes
    <3>2. Present \in SUBSET Ids
      BY <2>1 DEF Present, SettingsTypeOK
    <3>3. saved' \in SavedFiles /\ FilesHold'
      <4>1. CASE Save("enabled", enabled')
        BY <2>1, <3>1, <3>2, <4>1, OneSaved
      <4>2. CASE Unsaved /\ enabled' = enabled
        BY <3>1, <4>2, NothingSaved
      <4> QED
        BY <2>6, <4>1, <4>2 DEF FramePrunes
    <3>4. SettingsTypeOK' /\ HostsPruned'
      BY <2>1, <3>1, <3>2, <3>3 DEF SettingsTypeOK, HostsPruned
    <3> QED
      BY <3>3, <3>4 DEF SettingsInv
  <2>7. CASE FrameEnds
    <3>1. /\ gui = "open" /\ gui' = "top" /\ Unsaved
          /\ UNCHANGED <<available, disabledTypes, hostId, routes, enabled, snapshot, saved>>
      BY <2>7 DEF FrameEnds, lists, Unsaved
    <3>2. saved' \in SavedFiles /\ FilesHold'
      BY <3>1, NothingSaved
    <3>3. SettingsTypeOK' /\ HostsPruned'
      BY <2>1, <3>1, <3>2 DEF SettingsTypeOK, HostsPruned
    <3> QED
      BY <3>2, <3>3 DEF SettingsInv
  <2>8. ASSUME NEW S \in SUBSET Ids, SetEnabled(S) PROVE SettingsInv'
    <3>1. /\ gui = "open" /\ enabled' = S /\ Save("enabled", S)
          /\ UNCHANGED <<gui, available, disabledTypes, hostId, routes, snapshot>>
      BY <2>8 DEF SetEnabled
    <3>2. saved' \in SavedFiles /\ FilesHold'
      BY <2>1, <3>1, OneSaved
    <3>3. SettingsTypeOK' /\ HostsPruned'
      BY <2>1, <3>1, <3>2 DEF SettingsTypeOK, HostsPruned
    <3> QED
      BY <3>2, <3>3 DEF SettingsInv
  <2>9. ASSUME NEW S \in SUBSET Types, SetDisabled(S) PROVE SettingsInv'
    <3>1. /\ gui = "open" /\ disabledTypes' = S /\ Save("types", S)
          /\ UNCHANGED <<gui, available, hostId, routes, enabled, snapshot>>
      BY <2>9 DEF SetDisabled
    <3>2. saved' \in SavedFiles /\ FilesHold'
      BY <2>1, <3>1, OneSaved
    <3>3. SettingsTypeOK' /\ HostsPruned'
      BY <2>1, <3>1, <3>2 DEF SettingsTypeOK, HostsPruned
    <3> QED
      BY <3>2, <3>3 DEF SettingsInv
  <2>10. ASSUME NEW h, DefaultChosen(h) PROVE SettingsInv'
    <3>1. /\ gui = "open" /\ h \in available /\ hostId' = h /\ Save("host", h)
          /\ UNCHANGED <<gui, available, disabledTypes, routes, enabled, snapshot>>
      BY <2>10 DEF DefaultChosen
    <3>2. saved' \in SavedFiles /\ FilesHold'
      BY <2>1, <3>1, OneSaved
    <3>3. SettingsTypeOK' /\ HostsPruned'
      BY <2>1, <3>1, <3>2 DEF SettingsTypeOK, HostsPruned
    <3> QED
      BY <3>2, <3>3 DEF SettingsInv
  <2>11. ASSUME NEW c \in Ids, NEW h, RouteChosen(c, h) PROVE SettingsInv'
    <3>1. /\ gui = "open" /\ h \in available \cup {Unset} /\ routes' = RouteTo(c, h) /\ Save("routes", routes')
          /\ UNCHANGED <<gui, available, disabledTypes, hostId, enabled, snapshot>>
      BY <2>11 DEF RouteChosen
    <3>2. routes' \in Routings /\ \A d \in Ids : routes'[d] \in available \cup {Unset}
      BY <2>1, <3>1 DEF RouteTo, Routings, HostsPruned
    <3>3. saved' \in SavedFiles /\ FilesHold'
      BY <2>1, <3>1, <3>2, OneSaved
    <3>4. SettingsTypeOK' /\ HostsPruned'
      BY <2>1, <3>1, <3>2, <3>3 DEF SettingsTypeOK, HostsPruned
    <3> QED
      BY <3>3, <3>4 DEF SettingsInv
  <2>12. ASSUME (\E c \in Ids : PowerClicked(c)) \/ BulkClicked PROVE SettingsInv'
    <3>1. Linkable \subseteq Ids /\ enabled \subseteq Ids
      BY <2>1 DEF Linkable, SettingsTypeOK
    <3>2. \E S \in SUBSET Ids : SetEnabled(S)
      BY <2>12, <3>1 DEF PowerClicked, BulkClicked
    <3> QED
      BY <2>8, <3>2
  <2>13. ASSUME EnableAllClicked \/ (\E t \in Types : TypeClicked(t)) \/ DriverChosen PROVE SettingsInv'
    <3>1. disabledTypes \subseteq Types
      BY <2>1 DEF SettingsTypeOK
    <3>2. \E S \in SUBSET Types : SetDisabled(S)
      BY <2>13, <3>1 DEF EnableAllClicked, TypeClicked, DriverChosen
    <3> QED
      BY <2>9, <3>2
  <2>14. CASE UNCHANGED settingsVars
    BY <2>14 DEF settingsVars, lists, SettingsInv, SettingsTypeOK, FilesHold, HostsPruned, KnownHost,
                 LoadTypes, LoadHost, LoadRoutes, LoadEnabled
  <2> QED
    BY <2>2, <2>3, <2>4, <2>5, <2>6, <2>7, <2>10, <2>11, <2>12, <2>13, <2>14 DEF SettingsNext
<1>3. SettingsInv => SettingsConsistent
  BY DEF SettingsInv, SettingsConsistent, SavedMatchesMemory, RoutesKnown, FilesHold, HostsPruned, KnownHost, HostFor
<1> QED
  BY <1>1, <1>2, <1>3, PTL DEF SettingsSpec
------------------------------------------------------------------------------
(* The log *)

Limit == MaxPersistentBytes
Entries == Nat \X BOOLEAN
Sizes == Nat \cup {NoFile}

LogTypeOK ==
  /\ running \subseteq Programs /\ failures \in Nat
  /\ persistentBytes \in [Programs -> Nat] /\ lastError \in [Programs -> Nat]
  /\ written \in [Programs -> Seq(Entries)]
  /\ lines \in [Programs -> Seq(Entries)]
  /\ log \in Sizes /\ backup1 \in Sizes /\ backup2 \in Sizes

(* The bytes that each running program believes it may still write before   *)
(* it moves the file away.  Their number is a sum over the programs.        *)
Room(R, B) == {x \in R \X (1..Limit) : B[x[1]] < x[2]}
RoomOf(R, B, p) == {x \in Room(R, B) : x[1] = p}
RoomOfOthers(R, B, p) == {x \in Room(R, B) : x[1] # p}
Left(R, B, p) == IF p \in R /\ B[p] < Limit THEN Limit - B[p] ELSE 0
Budget == Limit * (Cardinality(Programs) + failures)

(* What is in the file and what may still be written to it fit the bound.   *)
FilesBounded ==
  /\ Size(log) + Cardinality(Room(running, persistentBytes)) <= Budget
  /\ backup1 <= Budget /\ backup2 <= Budget

LEMMA SizeIsNat == ASSUME NEW f \in Sizes PROVE Size(f) \in Nat /\ f <= Size(f)
BY DEF Sizes, Size, NoFile

(* The limit for every program but one, and for one failure more.           *)
LEMMA BudgetArithmetic ==
  ASSUME NEW m \in Nat, NEW n \in Nat \ {0}, NEW f \in Nat
  PROVE  /\ m * (n + f) \in Nat /\ m * (n - 1) \in Nat
         /\ m + (n - 1) * m <= m * (n + f)
         /\ m * (n + (f + 1)) = m * (n + f) + m
<1>1. m * (n + f) = m * n + m * f
  OBVIOUS
<1>2. m * (n + (f + 1)) = m * n + m * f + m
  OBVIOUS
<1>3. m * f \in Nat /\ m * n \in Nat
  OBVIOUS
<1>4. (n - 1) * m = m * n - m /\ m * (n - 1) = m * n - m
  OBVIOUS
<1>5. n - 1 \in Nat
  OBVIOUS
<1>6. m * (n - 1) \in Nat
  BY <1>5
<1> QED
  BY <1>1, <1>2, <1>3, <1>4, <1>6

LEMMA LimitIsNat == Limit \in Nat
BY LoggerAssumption DEF Limit

(* The room of one program, of the others, and of all.                      *)
LEMMA RoomSizes ==
  ASSUME NEW p \in Programs, NEW R \in SUBSET Programs, NEW B \in [Programs -> Nat]
  PROVE  /\ Cardinality(Programs) \in Nat \ {0}
         /\ Cardinality(RoomOfOthers(R, B, p)) \in Nat
         /\ Cardinality(RoomOfOthers(R, B, p)) <= (Cardinality(Programs) - 1) * Limit
         /\ Cardinality(RoomOf(R, B, p)) = Left(R, B, p)
         /\ Cardinality(Room(R, B)) = Cardinality(RoomOfOthers(R, B, p)) + Cardinality(RoomOf(R, B, p))
<1>1. IsFiniteSet(Programs) /\ Cardinality(Programs) \in Nat \ {0}
  BY LoggerAssumption, FS_CardinalityType, FS_EmptySet
<1>2. IsFiniteSet(1..Limit) /\ Cardinality(1..Limit) = Limit
  BY LimitIsNat, FS_Interval
<1>3. IsFiniteSet(Programs \ {p}) /\ Cardinality(Programs \ {p}) = Cardinality(Programs) - 1
  BY <1>1, FS_RemoveElement
<1>4. /\ IsFiniteSet((Programs \ {p}) \X (1..Limit))
      /\ Cardinality((Programs \ {p}) \X (1..Limit)) = Cardinality(Programs \ {p}) * Cardinality(1..Limit)
  BY <1>2, <1>3, FS_Product, Zenon
<1>5. RoomOfOthers(R, B, p) \in SUBSET ((Programs \ {p}) \X (1..Limit))
  BY DEF RoomOfOthers, Room
<1>6. /\ IsFiniteSet(RoomOfOthers(R, B, p))
      /\ Cardinality(RoomOfOthers(R, B, p)) <= Cardinality((Programs \ {p}) \X (1..Limit))
  BY <1>4, <1>5, FS_Subset
<1>7. Cardinality(RoomOfOthers(R, B, p)) \in Nat
  BY <1>6, FS_CardinalityType
<1>8. IsFiniteSet(RoomOf(R, B, p)) /\ Cardinality(RoomOf(R, B, p)) = Left(R, B, p)
  <2> DEFINE b == B[p]
  <2>1. b \in Nat
    OBVIOUS
  <2>2. CASE p \in R
    <3> DEFINE free == (b + 1)..Limit
    <3>1. \A x : x \in RoomOf(R, B, p) <=> x \in {p} \X free
      BY <2>1, <2>2, LimitIsNat DEF RoomOf, Room
    <3>2. RoomOf(R, B, p) = {p} \X free
      BY <3>1, Zenon DEF RoomOf
    <3> HIDE DEF b
    <3>3. IsFiniteSet(free) /\ Cardinality(free) = IF b + 1 > Limit THEN 0 ELSE Limit - (b + 1) + 1
      <4>1. b + 1 \in Int /\ Limit \in Int
        BY <2>1, LimitIsNat
      <4> QED
        BY <4>1, FS_Interval
    <3>4. IsFiniteSet({p}) /\ Cardinality({p}) = 1
      BY FS_Singleton
    <3> HIDE DEF free
    <3>5. IsFiniteSet(RoomOf(R, B, p)) /\ Cardinality(RoomOf(R, B, p)) = Cardinality({p}) * Cardinality(free)
      BY <3>2, <3>3, <3>4, FS_Product, Zenon
    <3>6. Cardinality(RoomOf(R, B, p)) = IF b < Limit THEN Limit - b ELSE 0
      BY <2>1, <3>3, <3>4, <3>5, LimitIsNat
    <3> QED
      BY <2>2, <3>5, <3>6 DEF b, Left
  <2>3. CASE p \notin R
    <3>1. RoomOf(R, B, p) = {}
      BY <2>3 DEF RoomOf, Room
    <3> QED
      BY <2>3, <3>1, FS_EmptySet DEF Left
  <2> QED
    BY <2>2, <2>3
<1>9. Cardinality(Room(R, B)) = Cardinality(RoomOfOthers(R, B, p)) + Cardinality(RoomOf(R, B, p))
  <2>1. Room(R, B) = RoomOfOthers(R, B, p) \cup RoomOf(R, B, p) /\ RoomOfOthers(R, B, p) \cap RoomOf(R, B, p) = {}
    BY DEF RoomOfOthers, RoomOf
  <2>2. Cardinality(Room(R, B)) = Cardinality(RoomOfOthers(R, B, p)) + Cardinality(RoomOf(R, B, p)) - Cardinality({})
    BY <1>6, <1>8, <2>1, FS_Union
  <2>3. Cardinality(RoomOf(R, B, p)) \in Nat /\ Cardinality({}) = 0
    BY <1>8, FS_CardinalityType, FS_EmptySet
  <2> QED
    BY <1>7, <2>2, <2>3
<1> QED
  BY <1>1, <1>2, <1>3, <1>4, <1>6, <1>7, <1>8, <1>9

(* One program moves: the room of the others is what it was.                *)
LEMMA OthersKeepRoom ==
  ASSUME NEW p, NEW R, NEW B, NEW R2, NEW B2, R2 \ {p} = R \ {p},
         \A q \in R \ {p} : B2[q] = B[q]
  PROVE  RoomOfOthers(R2, B2, p) = RoomOfOthers(R, B, p)
<1>1. \A x : x \in RoomOfOthers(R2, B2, p) <=> x \in RoomOfOthers(R, B, p)
  BY DEF RoomOfOthers, Room
<1> QED
  BY <1>1, Zenon DEF RoomOfOthers

(* What is in the file and what p may still write change with p alone.      *)
LEMMA FilesMove ==
  ASSUME LogTypeOK, FilesBounded, LogTypeOK', NEW p \in Programs, NEW more \in {0, 1},
         running' \ {p} = running \ {p}, \A q \in Programs \ {p} : persistentBytes'[q] = persistentBytes[q],
         failures' = failures + more,
         \/ Size(log)' + Left(running', persistentBytes', p)
              <= Size(log) + Left(running, persistentBytes, p) + more * Limit
         \/ Size(log)' + Left(running', persistentBytes', p) <= Limit
  PROVE  /\ Budget \in Nat /\ Budget <= Budget'
         /\ Size(log)' + Cardinality(Room(running', persistentBytes')) <= Budget'
<1> DEFINE R == running
           B == persistentBytes
           n == Cardinality(Programs)
           others == Cardinality(RoomOfOthers(R, B, p))
           own == Left(R, B, p)
           own2 == Left(R', B', p)
           all == Cardinality(Room(R, B))
           all2 == Cardinality(Room(R', B'))
<1>1. R \in SUBSET Programs /\ B \in [Programs -> Nat] /\ R' \in SUBSET Programs /\ B' \in [Programs -> Nat]
  BY DEF LogTypeOK
<1>2. n \in Nat \ {0} /\ others \in Nat /\ others <= (n - 1) * Limit /\ all = others + own
  BY <1>1, RoomSizes
<1>3. RoomOfOthers(R', B', p) = RoomOfOthers(R, B, p)
  BY <1>1, OthersKeepRoom
<1>4. all2 = others + own2
  <2>1. all2 = Cardinality(RoomOfOthers(R', B', p)) + Cardinality(RoomOf(R', B', p))
        /\ Cardinality(RoomOf(R', B', p)) = own2
    BY <1>1, RoomSizes
  <2> QED
    BY <1>3, <2>1
<1>5. own \in Nat /\ own2 \in Nat /\ Limit \in Nat
  BY <1>1, LimitIsNat DEF Left
<1>6. Size(log) \in Nat /\ Size(log)' \in Nat /\ failures \in Nat /\ failures' \in Nat
  BY SizeIsNat DEF LogTypeOK, Size
<1>7. /\ Budget \in Nat /\ Budget = Limit * (n + failures)
      /\ Limit + (n - 1) * Limit <= Budget
      /\ Budget' = Budget + more * Limit
  <2>1. Budget = Limit * (n + failures) /\ Budget' = Limit * (n + failures')
    BY DEF Budget
  <2>2. /\ Limit * (n + failures) \in Nat /\ Limit + (n - 1) * Limit <= Limit * (n + failures)
        /\ Limit * (n + (failures + 1)) = Limit * (n + failures) + Limit
    BY <1>2, <1>5, <1>6, BudgetArithmetic
  <2>3. CASE more = 0
    <3>1. 0 * Limit = 0 /\ failures' = failures
      BY <1>5, <1>6, <2>3
    <3> QED
      BY <2>1, <2>2, <2>3, <3>1
  <2>4. CASE more = 1
    <3>1. 1 * Limit = Limit
      BY <1>5
    <3> QED
      BY <2>1, <2>2, <2>4, <3>1
  <2> QED
    BY <2>3, <2>4
<1>8. Size(log) + all <= Budget
  BY DEF FilesBounded
<1>9. more * Limit \in Nat
  BY <1>5
<1> DEFINE rest == (n - 1) * Limit
           extra == more * Limit
           before == Size(log)
           after == Size(log)'
<1>10. rest \in Int
  BY <1>2, <1>5
<1>11. \/ after + own2 <= before + own + extra
       \/ after + own2 <= Limit
  OBVIOUS
<1>12. after + all2 <= Budget'
  <2> HIDE DEF n, others, own, own2, all, all2, rest, extra, before, after
  <2>1. /\ others <= rest /\ Limit + rest <= Budget /\ Budget' = Budget + extra /\ extra \in Nat
        /\ before + all <= Budget /\ before \in Nat /\ after \in Nat
    BY <1>2, <1>6, <1>7, <1>8, <1>9 DEF rest, extra, before, after
  <2> QED
    BY <1>2, <1>4, <1>5, <1>7, <1>10, <1>11, <2>1
<1> QED
  BY <1>7, <1>9, <1>12

(* The lines a window shows, and the error it shows, after the lines w.     *)
Kept(w) == IF Len(w) < MaxLines THEN Len(w) ELSE MaxLines
Recent(w) == SubSeq(w, Len(w) - Kept(w) + 1, Len(w))
Errors(w) == {i \in 1..Len(w) : w[i][2]}
Newest(S) == CHOOSE i \in S : \A j \in S : j <= i
LatestError(w) == IF Errors(w) = {} THEN NoError ELSE Newest(Errors(w))

ShowsRecent ==
  \A p \in Programs : lines[p] = Recent(written[p]) /\ lastError[p] = LatestError(written[p])

LEMMA NothingWritten == Recent(<<>>) = <<>> /\ LatestError(<<>>) = NoError
<1>1. Len(<<>>) = 0 /\ Kept(<<>>) = 0
  BY LoggerAssumption DEF Kept
<1>2. Recent(<<>>) = <<>>
  BY <1>1, SubSeqEmpty DEF Recent
<1>3. Errors(<<>>) = {}
  BY <1>1 DEF Errors
<1> QED
  BY <1>2, <1>3 DEF LatestError

(* The oldest line makes room for the newest.                               *)
LEMMA RecentAppend ==
  ASSUME NEW w \in Seq(Entries), NEW x \in Entries
  PROVE  /\ Remembered(Recent(w), x) = Recent(Append(w, x))
         /\ Recent(Append(w, x)) \in Seq(Entries)
<1> DEFINE n == Len(w)
           k == Kept(w)
           v == Append(w, x)
           a == Recent(w)
           b == Recent(v)
<1>1. n \in Nat /\ \A i \in 1..n : w[i] \in Entries
  BY ElementOfSeq
<1>2. /\ v \in Seq(Entries) /\ Len(v) = n + 1 /\ v[n + 1] = x
      /\ \A i \in 1..n : v[i] = w[i]
  OBVIOUS
<1>m. MaxLines \in Nat /\ MaxLines >= 1
  BY LoggerAssumption
<1>3. k \in 0..n /\ k <= MaxLines /\ (n >= MaxLines <=> k = MaxLines) /\ (n < MaxLines => k = n)
  BY <1>1, <1>m DEF Kept
<1>4. Kept(v) = IF k = MaxLines THEN MaxLines ELSE k + 1
  BY <1>1, <1>2, <1>m DEF Kept
<1> HIDE DEF n, k, v
<1>5. \A i \in (n - k + 1)..n : w[i] \in Entries
  BY <1>1, <1>3
<1>6. /\ a \in Seq(Entries) /\ Len(a) = k
      /\ \A i \in 1..k : a[i] = w[n - k + i]
  <2>1. n - k + 1 \in Int /\ n \in Int
    BY <1>1, <1>3
  <2>2. /\ SubSeq(w, n - k + 1, n) \in Seq(Entries)
        /\ Len(SubSeq(w, n - k + 1, n)) = IF n - k + 1 <= n THEN n - (n - k + 1) + 1 ELSE 0
        /\ \A i \in 1..(n - (n - k + 1) + 1) : SubSeq(w, n - k + 1, n)[i] = w[(n - k + 1) + i - 1]
    BY <1>5, <2>1, SubSeqProperties
  <2>3. a = SubSeq(w, n - k + 1, n)
    BY DEF Recent, n, k
  <2> HIDE DEF a
  <2>4. n - (n - k + 1) + 1 = k
    BY <1>1, <1>3
  <2>5. \A i \in 1..k : (n - k + 1) + i - 1 = n - k + i
    BY <1>1, <1>3
  <2> QED
    BY <1>1, <1>3, <2>2, <2>3, <2>4, <2>5
<1> DEFINE m == IF k = MaxLines THEN MaxLines ELSE k + 1
<1>m2. m \in 1..(n + 1)
  BY <1>1, <1>3, <1>m
<1>7. /\ b \in Seq(Entries) /\ Len(b) = m
      /\ \A i \in 1..m : b[i] = v[n + 1 - m + i]
  <2> HIDE DEF m
  <2> DEFINE lo == n + 1 - m + 1
             hi == n + 1
  <2>1. lo \in Int /\ hi \in Int /\ lo >= 1
    BY <1>1, <1>m2
  <2>2. \A i \in lo..hi : v[i] \in Entries
    BY <1>1, <1>2, <1>m2
  <2>3. b = SubSeq(v, lo, hi)
    <3>1. Len(v) = hi /\ Kept(v) = m
      BY <1>2, <1>4 DEF m
    <3>2. Len(v) - Kept(v) + 1 = lo
      BY <1>1, <1>m2, <3>1
    <3> QED
      BY <3>1, <3>2 DEF Recent
  <2>4. hi - lo + 1 = m /\ lo <= hi /\ \A i \in 1..m : lo + i - 1 = n + 1 - m + i
    BY <1>1, <1>m2
  <2> HIDE DEF lo, hi, b
  <2>5. /\ SubSeq(v, lo, hi) \in Seq(Entries)
        /\ Len(SubSeq(v, lo, hi)) = IF lo <= hi THEN hi - lo + 1 ELSE 0
        /\ \A i \in 1..(hi - lo + 1) : SubSeq(v, lo, hi)[i] = v[lo + i - 1]
    BY <2>1, <2>2, SubSeqProperties
  <2> QED
    BY <2>3, <2>4, <2>5
<1>8. CASE k = MaxLines
  <2>1. a # <<>>
    BY <1>6, <1>8, <1>m
  <2>2. /\ Tail(a) \in Seq(Entries) /\ Len(Tail(a)) = k - 1
        /\ \A i \in 1..(k - 1) : Tail(a)[i] = a[i + 1]
    BY <1>6, <2>1, HeadTailProperties
  <2>3. Remembered(a, x) = Append(Tail(a), x)
    BY <1>6, <1>8, <1>m DEF Remembered
  <2> DEFINE r == Append(Tail(a), x)
  <2>4. r \in Seq(Entries) /\ Len(r) = k /\ r[k] = x /\ \A i \in 1..(k - 1) : r[i] = Tail(a)[i]
    BY <1>3, <1>8, <1>m, <2>2
  <2> HIDE DEF r, a, b
  <2>5. ASSUME NEW i \in 1..k PROVE r[i] = b[i]
    <3>1. b[i] = v[n + 1 - k + i] /\ n + 1 - k + i \in 1..(n + 1)
      BY <1>1, <1>3, <1>7, <1>8, <1>m
    <3>2. CASE i = k
      <4>1. n + 1 - k + i = n + 1
        BY <1>1, <1>3, <3>2
      <4> QED
        BY <1>2, <2>4, <3>1, <3>2, <4>1
    <3>3. CASE i # k
      <4>1. i \in 1..(k - 1) /\ i + 1 \in 1..k /\ n - k + (i + 1) = n + 1 - k + i
            /\ n + 1 - k + i \in 1..n
        BY <1>1, <1>3, <3>3
      <4>2. r[i] = a[i + 1]
        BY <2>2, <2>4, <4>1
      <4>3. a[i + 1] = w[n - k + (i + 1)]
        BY <1>6, <4>1
      <4> QED
        BY <1>2, <3>1, <4>1, <4>2, <4>3
    <3> QED
      BY <3>2, <3>3
  <2>6. r = b
    BY <1>7, <1>8, <2>4, <2>5, SeqEqual
  <2> QED
    BY <1>7, <2>3, <2>6 DEF r, a, b, v
<1>9. CASE k # MaxLines
  <2>0. k = n /\ k < MaxLines
    BY <1>1, <1>3, <1>9, <1>m
  <2>1. Remembered(a, x) = Append(a, x)
    BY <1>6, <1>m, <2>0 DEF Remembered
  <2> DEFINE r == Append(a, x)
  <2>2. r \in Seq(Entries) /\ Len(r) = k + 1 /\ r[k + 1] = x /\ \A i \in 1..k : r[i] = a[i]
    BY <1>3, <1>6
  <2> HIDE DEF r, a, b
  <2>3. ASSUME NEW i \in 1..(k + 1) PROVE r[i] = b[i]
    <3>1. b[i] = v[i]
      <4>1. n + 1 - (k + 1) + i = i
        BY <1>1, <1>3, <2>0
      <4> QED
        BY <1>7, <1>9, <4>1
    <3>2. CASE i = k + 1
      BY <1>2, <2>0, <2>2, <3>1, <3>2
    <3>3. CASE i # k + 1
      <4>1. i \in 1..k /\ n - k + i = i
        BY <1>1, <1>3, <2>0, <3>3
      <4> QED
        BY <1>2, <1>6, <2>0, <2>2, <3>1, <4>1
    <3> QED
      BY <3>2, <3>3
  <2>4. r = b
    BY <1>7, <1>9, <2>2, <2>3, SeqEqual
  <2> QED
    BY <1>7, <2>1, <2>4 DEF r, a, b, v
<1> QED
  BY <1>8, <1>9

(* The last error is the newest line that is one.                           *)
LEMMA ErrorAppend ==
  ASSUME NEW w \in Seq(Entries), NEW e \in BOOLEAN
  PROVE  LatestError(Append(w, <<Len(w) + 1, e>>)) = IF e THEN Len(w) + 1 ELSE LatestError(w)
<1> DEFINE n == Len(w)
           v == Append(w, <<n + 1, e>>)
<1>1. n \in Nat /\ Len(v) = n + 1 /\ v[n + 1] = <<n + 1, e>> /\ \A i \in 1..n : v[i] = w[i]
  <2>1. n \in Nat
    OBVIOUS
  <2>2. <<n + 1, e>> \in Entries
    BY <2>1 DEF Entries
  <2> QED
    BY <2>1, <2>2
<1>2. \A i : i \in Errors(v) <=> (i \in Errors(w) \/ (e /\ i = n + 1))
  <2>1. v[n + 1][2] = e
    BY <1>1
  <2>2. \A i : i \in Errors(v) <=> (i \in 1..(n + 1) /\ v[i][2])
    BY <1>1 DEF Errors
  <2>3. \A i : i \in Errors(w) <=> (i \in 1..n /\ w[i][2])
    BY DEF Errors
  <2> HIDE DEF n, v
  <2>4. \A i : i \in 1..(n + 1) <=> (i \in 1..n \/ i = n + 1)
    BY <1>1
  <2>5. n + 1 \notin 1..n
    BY <1>1
  <2>6. \A i \in 1..n : v[i][2] = w[i][2]
    BY <1>1
  <2> QED
    BY <2>1, <2>2, <2>3, <2>4, <2>5, <2>6
<1>3. CASE e
  <2>1. n + 1 \in Errors(v) /\ \A j \in Errors(v) : j <= n + 1 /\ j \in Int
    BY <1>1, <1>2, <1>3 DEF Errors
  <2> DEFINE newest == Newest(Errors(v))
  <2>2. newest \in Errors(v) /\ \A j \in Errors(v) : j <= newest
    BY <2>1, Zenon DEF Newest
  <2> HIDE DEF newest
  <2>3. newest = n + 1
    <3>1. newest \in Int /\ newest <= n + 1 /\ n + 1 <= newest
      BY <2>1, <2>2
    <3> QED
      BY <1>1, <3>1
  <2> QED
    BY <1>3, <2>1, <2>3 DEF LatestError, newest
<1>4. CASE ~e
  <2>1. Errors(v) = Errors(w)
    <3>1. \A i : i \in Errors(v) <=> i \in Errors(w)
      BY <1>2, <1>4
    <3> QED
      BY <3>1, Zenon DEF Errors
  <2>2. LatestError(v) = LatestError(w)
    BY <2>1 DEF LatestError
  <2> QED
    BY <1>4, <2>2
<1> QED
  BY <1>3, <1>4

LogInv == LogTypeOK /\ FilesBounded /\ ShowsRecent

(* One program's window changes, the others show what they showed.          *)
LEMMA ShowsAfter ==
  ASSUME LogTypeOK, ShowsRecent, NEW p \in Programs, NEW w, NEW l, NEW e,
         written' = [written EXCEPT ![p] = w], lines' = [lines EXCEPT ![p] = l],
         lastError' = [lastError EXCEPT ![p] = e], l = Recent(w), e = LatestError(w)
  PROVE  ShowsRecent'
<1>1. ASSUME NEW q \in Programs PROVE lines'[q] = Recent(written'[q]) /\ lastError'[q] = LatestError(written'[q])
  <2>1. CASE q = p
    BY <2>1 DEF LogTypeOK
  <2>2. CASE q # p
    BY <2>2 DEF LogTypeOK, ShowsRecent
  <2> QED
    BY <2>1, <2>2
<1>2. \A q \in Programs : lines'[q] = Recent(written'[q]) /\ lastError'[q] = LatestError(written'[q])
  BY <1>1
<1> QED
  BY <1>2, Zenon DEF ShowsRecent, Recent, LatestError, Errors, Kept, Newest

(* append() keeps the files within the bound: it moves a full file away,    *)
(* or fails to and starts counting again, or counts the line.               *)
LEMMA AppendStep ==
  ASSUME LogInv, NEW p \in Programs, NEW error \in BOOLEAN, NEW opens \in BOOLEAN, NEW size \in LineSizes,
         NEW ok1 \in BOOLEAN, NEW ok2 \in BOOLEAN, AppendLine(p, error, size, ok1, ok2, opens)
  PROVE  LogInv'
<1> DEFINE w == written[p]
           x == <<Len(w) + 1, error>>
           full == Full(p, size)
           b == persistentBytes[p]
           b2 == persistentBytes'[p]
           before == Size(log)
           after == Size(log)'
           more == IF full /\ ~ok2 THEN 1 ELSE 0
<1>t. LogTypeOK /\ FilesBounded /\ ShowsRecent
  BY DEF LogInv
<1>1. /\ w \in Seq(Entries) /\ lines[p] \in Seq(Entries) /\ b \in Nat /\ Len(w) \in Nat /\ p \in running
      /\ size \in Nat /\ size <= Limit /\ Limit \in Nat /\ before \in Nat /\ failures \in Nat
      /\ log \in Sizes /\ backup1 \in Sizes /\ backup2 \in Sizes
  <2>1. w \in Seq(Entries) /\ lines[p] \in Seq(Entries) /\ b \in Nat /\ log \in Sizes /\ failures \in Nat
        /\ backup1 \in Sizes /\ backup2 \in Sizes
    BY <1>t DEF LogTypeOK
  <2>2. p \in running
    BY DEF AppendLine
  <2>3. size \in Nat /\ size <= Limit
    BY LoggerAssumption DEF Limit
  <2> QED
    BY <2>1, <2>2, <2>3, LimitIsNat, SizeIsNat
<1>2. /\ written' = [written EXCEPT ![p] = Append(w, x)]
      /\ lines' = [lines EXCEPT ![p] = Remembered(lines[p], x)]
      /\ lastError' = [lastError EXCEPT ![p] = IF error THEN Len(w) + 1 ELSE lastError[p]]
      /\ failures' = failures + more /\ running' = running
  BY DEF AppendLine
<1>3. x \in Entries
  BY <1>1 DEF Entries
<1>4. /\ Remembered(lines[p], x) = Recent(Append(w, x)) /\ Remembered(lines[p], x) \in Seq(Entries)
      /\ Append(w, x) \in Seq(Entries)
  <2>1. lines[p] = Recent(w)
    BY <1>t DEF ShowsRecent
  <2>2. Append(w, x) \in Seq(Entries)
    BY <1>1, <1>3
  <2> HIDE DEF w, x
  <2> QED
    BY <1>1, <1>3, <2>1, <2>2, RecentAppend
<1>5. (IF error THEN Len(w) + 1 ELSE lastError[p]) = LatestError(Append(w, x))
      /\ (IF error THEN Len(w) + 1 ELSE lastError[p]) \in Nat
  <2>1. lastError[p] = LatestError(w) /\ lastError[p] \in Nat
    BY <1>t DEF ShowsRecent, LogTypeOK
  <2> QED
    BY <1>1, <2>1, ErrorAppend
<1>6. ShowsRecent'
  <2> HIDE DEF w, x
  <2> QED
    BY <1>t, <1>2, <1>4, <1>5, ShowsAfter
<1> DEFINE kept == IF full /\ ok2 THEN NoFile ELSE log
           counted == IF full THEN 0 ELSE b
<1>7. /\ log' = IF opens THEN Size(kept) + size ELSE kept
      /\ persistentBytes' = [persistentBytes EXCEPT ![p] = IF opens THEN counted + size ELSE counted]
      /\ backup1' \in {backup1, log, NoFile} /\ backup2' \in {backup2, backup1, NoFile}
  <2>1. CASE full
    BY <2>1 DEF AppendLine, Rotate
  <2>2. CASE ~full
    BY <2>2 DEF AppendLine
  <2> QED
    BY <2>1, <2>2
<1>8. b2 = (IF opens THEN counted + size ELSE counted) /\ b2 \in Nat
  BY <1>1, <1>7, <1>t DEF LogTypeOK
<1>9. kept \in Sizes /\ Size(kept) = (IF full /\ ok2 THEN 0 ELSE before) /\ log' \in Sizes
      /\ after = (IF opens THEN Size(kept) + size ELSE Size(kept))
  <2>1. kept \in Sizes /\ Size(kept) = (IF full /\ ok2 THEN 0 ELSE before)
    BY <1>1 DEF Sizes, Size
  <2>2. Size(kept) \in Nat
    BY <2>1, SizeIsNat
  <2>3. log' \in Sizes /\ after = (IF opens THEN Size(kept) + size ELSE Size(kept))
    <3> HIDE DEF kept
    <3>1. CASE opens
      <4>1. log' = Size(kept) + size /\ log' \in Nat
        BY <1>1, <1>7, <2>2, <3>1
      <4> QED
        BY <3>1, <4>1 DEF Size, Sizes, NoFile
    <3>2. CASE ~opens
      BY <1>7, <2>1, <3>2 DEF Size
    <3> QED
      BY <3>1, <3>2
  <2> QED
    BY <2>1, <2>3
<1> DEFINE own == Left(running, persistentBytes, p)
           own2 == Left(running', persistentBytes', p)
<1>10. own = (IF b < Limit THEN Limit - b ELSE 0) /\ own2 = (IF b2 < Limit THEN Limit - b2 ELSE 0)
  BY <1>1, <1>2 DEF Left
<1>11. full <=> b + size > Limit
  BY DEF Full, Limit
<1>12. more \in {0, 1} /\ (after + own2 <= before + own + more * Limit \/ after + own2 <= Limit)
  <2>1. more \in {0, 1} /\ more * Limit = (IF full /\ ~ok2 THEN Limit ELSE 0)
    BY <1>1
  <2> HIDE DEF own, own2, before, after, b, b2, full, kept, more
  <2>2. CASE full /\ ok2
    BY <1>1, <1>8, <1>9, <1>10, <1>11, <2>1, <2>2
  <2>3. CASE full /\ ~ok2
    BY <1>1, <1>8, <1>9, <1>10, <1>11, <2>1, <2>3
  <2>4. CASE ~full
    BY <1>1, <1>8, <1>9, <1>10, <1>11, <2>1, <2>4
  <2> QED
    BY <2>1, <2>2, <2>3, <2>4
<1>13. LogTypeOK'
  <2>1. backup1' \in Sizes /\ backup2' \in Sizes
    BY <1>1, <1>7 DEF Sizes
  <2>2. failures' \in Nat
    BY <1>1, <1>2, <1>12
  <2>3. persistentBytes' \in [Programs -> Nat]
    BY <1>t, <1>7, <1>8 DEF LogTypeOK
  <2>4. written' \in [Programs -> Seq(Entries)] /\ lines' \in [Programs -> Seq(Entries)]
        /\ lastError' \in [Programs -> Nat]
    <3> HIDE DEF w, x
    <3> QED
      BY <1>t, <1>2, <1>4, <1>5 DEF LogTypeOK
  <2> QED
    BY <1>t, <1>2, <1>9, <2>1, <2>2, <2>3, <2>4 DEF LogTypeOK
<1>14. /\ Budget \in Nat /\ Budget <= Budget'
       /\ after + Cardinality(Room(running', persistentBytes')) <= Budget'
  <2>1. \A q \in Programs \ {p} : persistentBytes'[q] = persistentBytes[q]
    BY <1>t, <1>7 DEF LogTypeOK
  <2>2. running' \ {p} = running \ {p}
    BY <1>2
  <2> HIDE DEF more
  <2> QED
    BY <1>t, <1>2, <1>12, <1>13, <2>1, <2>2, FilesMove
<1>15. FilesBounded'
  <2>1. log <= Budget /\ backup1 <= Budget /\ backup2 <= Budget /\ NoFile <= Budget
    <3>1. log <= before /\ before + Cardinality(Room(running, persistentBytes)) <= Budget
      BY <1>1, <1>t, SizeIsNat DEF FilesBounded
    <3>2. Cardinality(Room(running, persistentBytes)) \in Nat
      <4>1. /\ Cardinality(Room(running, persistentBytes)) =
                 Cardinality(RoomOfOthers(running, persistentBytes, p)) + Cardinality(RoomOf(running, persistentBytes, p))
            /\ Cardinality(RoomOfOthers(running, persistentBytes, p)) \in Nat
            /\ Cardinality(RoomOf(running, persistentBytes, p)) = own
        BY <1>t, RoomSizes DEF LogTypeOK
      <4>2. own \in Nat
        BY <1>1, <1>10
      <4> QED
        BY <4>1, <4>2
    <3>3. log \in Int
      BY <1>1 DEF Sizes, NoFile
    <3> QED
      BY <1>1, <1>14, <1>t, <3>1, <3>2, <3>3 DEF FilesBounded, NoFile
  <2>2. Budget' \in Int
    BY <1>13, <1>1, LoggerAssumption, FS_CardinalityType DEF Budget, LogTypeOK
  <2>3. backup1' \in Int /\ backup2' \in Int /\ backup1 \in Int /\ backup2 \in Int /\ log \in Int
    BY <1>1, <1>13 DEF LogTypeOK, Sizes, NoFile
  <2>4. backup1' <= Budget /\ backup2' <= Budget
    BY <1>7, <2>1
  <2>5. backup1' <= Budget' /\ backup2' <= Budget'
    BY <1>14, <2>2, <2>3, <2>4
  <2> QED
    BY <1>14, <2>5 DEF FilesBounded, Room
<1> QED
  BY <1>6, <1>13, <1>15 DEF LogInv

(* A logger is opened, or closed, or cleared: the files stay as they are.   *)
LEMMA FilesStay ==
  ASSUME LogInv, LogTypeOK', NEW p \in Programs, UNCHANGED <<files, failures>>,
         running' \ {p} = running \ {p}, \A q \in Programs \ {p} : persistentBytes'[q] = persistentBytes[q],
         \/ Left(running', persistentBytes', p) <= Left(running, persistentBytes, p)
         \/ Size(log) + Left(running', persistentBytes', p) <= Limit
  PROVE  FilesBounded'
<1> DEFINE own == Left(running, persistentBytes, p)
           own2 == Left(running', persistentBytes', p)
<1>t. LogTypeOK /\ FilesBounded
  BY DEF LogInv
<1>1. Size(log)' = Size(log) /\ Size(log) \in Nat /\ failures' = failures + 0 /\ failures \in Nat
  <2>1. log' = log /\ failures' = failures /\ log \in Sizes /\ failures \in Nat
    BY <1>t DEF files, LogTypeOK
  <2> QED
    BY <2>1, SizeIsNat DEF Size
<1>2. own \in Int /\ own2 \in Int
  BY <1>t, LimitIsNat DEF Left, LogTypeOK
<1>3. \/ Size(log)' + own2 <= Size(log) + own + 0 * Limit
      \/ Size(log)' + own2 <= Limit
  <2>1. 0 * Limit = 0
    BY LimitIsNat
  <2> HIDE DEF own, own2
  <2>2. own2 <= own \/ Size(log) + own2 <= Limit
    BY DEF own, own2
  <2> QED
    BY <1>1, <1>2, <2>1, <2>2
<1>4. 0 \in {0, 1}
  OBVIOUS
<1>5. Size(log)' + Cardinality(Room(running', persistentBytes')) <= Budget'
  BY <1>t, <1>1, <1>3, <1>4, FilesMove
<1>6. Budget' = Budget /\ backup1' = backup1 /\ backup2' = backup2
  BY DEF Budget, files
<1> QED
  BY <1>t, <1>5, <1>6 DEF FilesBounded, Room

LEMMA LogStep == LogInv /\ [LogNext]_logVars => LogInv'
<1> SUFFICES ASSUME LogInv, [LogNext]_logVars PROVE LogInv'
  OBVIOUS
<1>t. LogTypeOK /\ FilesBounded /\ ShowsRecent
  BY DEF LogInv
<1>e. <<>> \in Seq(Entries)
  OBVIOUS
<1>1. ASSUME NEW p \in Programs, OpenLogger(p) PROVE LogInv'
  <2>1. /\ running' = running \cup {p} /\ persistentBytes' = [persistentBytes EXCEPT ![p] = Size(log)]
        /\ UNCHANGED <<lines, lastError, files, written, failures>> /\ p \notin running
    BY <1>1 DEF OpenLogger
  <2>2. Size(log) \in Nat
    BY <1>t, SizeIsNat DEF LogTypeOK
  <2>3. LogTypeOK'
    BY <1>t, <2>1, <2>2 DEF LogTypeOK, files
  <2>4. ShowsRecent'
    BY <1>t, <2>1 DEF ShowsRecent
  <2>5. persistentBytes'[p] = Size(log) /\ \A q \in Programs \ {p} : persistentBytes'[q] = persistentBytes[q]
    BY <1>t, <2>1 DEF LogTypeOK
  <2>6. \/ Left(running', persistentBytes', p) <= Left(running, persistentBytes, p)
        \/ Size(log) + Left(running', persistentBytes', p) <= Limit
    BY <2>1, <2>2, <2>5, LimitIsNat DEF Left
  <2>7. FilesBounded'
    <3>1. UNCHANGED <<files, failures>> /\ running' \ {p} = running \ {p}
      BY <2>1
    <3> QED
      BY <2>3, <2>5, <2>6, <3>1, FilesStay
  <2> QED
    BY <2>3, <2>4, <2>7 DEF LogInv
<1>2. ASSUME NEW p \in Programs, CloseLogger(p) PROVE LogInv'
  <2>1. /\ running' = running \ {p} /\ persistentBytes' = [persistentBytes EXCEPT ![p] = 0]
        /\ lines' = [lines EXCEPT ![p] = <<>>] /\ lastError' = [lastError EXCEPT ![p] = NoError]
        /\ written' = [written EXCEPT ![p] = <<>>] /\ UNCHANGED <<files, failures>>
    BY <1>2 DEF CloseLogger
  <2>3. LogTypeOK'
    BY <1>t, <1>e, <2>1 DEF LogTypeOK, files, NoError
  <2>4. ShowsRecent'
    BY <1>t, <2>1, NothingWritten, ShowsAfter
  <2>5. \A q \in Programs \ {p} : persistentBytes'[q] = persistentBytes[q]
    BY <1>t, <2>1 DEF LogTypeOK
  <2>6. Left(running', persistentBytes', p) <= Left(running, persistentBytes, p)
    BY <1>t, <2>1, LimitIsNat DEF Left, LogTypeOK
  <2>7. FilesBounded'
    <3>1. UNCHANGED <<files, failures>> /\ running' \ {p} = running \ {p}
      BY <2>1
    <3> QED
      BY <2>3, <2>5, <2>6, <3>1, FilesStay
  <2> QED
    BY <2>3, <2>4, <2>7 DEF LogInv
<1>3. ASSUME NEW p \in Programs, Clear(p) PROVE LogInv'
  <2>1. /\ UNCHANGED <<running, persistentBytes, files, failures>>
        /\ lines' = [lines EXCEPT ![p] = <<>>] /\ lastError' = [lastError EXCEPT ![p] = NoError]
        /\ written' = [written EXCEPT ![p] = <<>>]
    BY <1>3 DEF Clear
  <2>3. LogTypeOK'
    BY <1>t, <1>e, <2>1 DEF LogTypeOK, files, NoError
  <2>4. ShowsRecent'
    BY <1>t, <2>1, NothingWritten, ShowsAfter
  <2>5. FilesBounded'
    BY <1>t, <2>1 DEF FilesBounded, Room, Budget, files, Size
  <2> QED
    BY <2>3, <2>4, <2>5 DEF LogInv
<1>4. ASSUME NEW p \in Programs, NEW error \in BOOLEAN, NEW opens \in BOOLEAN, NEW size \in LineSizes,
             NEW ok1 \in IF Full(p, size) THEN BOOLEAN ELSE {TRUE},
             NEW ok2 \in IF Full(p, size) THEN BOOLEAN ELSE {TRUE}, AppendLine(p, error, size, ok1, ok2, opens)
      PROVE  LogInv'
  <2>1. ok1 \in BOOLEAN /\ ok2 \in BOOLEAN
    BY Zenon
  <2> QED
    BY <1>4, <2>1, AppendStep
<1>5. CASE UNCHANGED logVars
  BY <1>5, <1>t DEF logVars, files, LogInv, LogTypeOK, FilesBounded, ShowsRecent, Room, Budget, Size
<1> QED
  BY <1>1, <1>2, <1>3, <1>4, <1>5, Zenon DEF LogNext

(* However many programs write to the log, and whichever renames fail, no   *)
(* file outgrows the limit by more than one limit for every program and     *)
(* every failure; and a window shows the newest lines and the last error.   *)
THEOREM LogIsConsistent == LogSpec => []LogConsistent
<1>1. LogInit => LogInv
  <2> SUFFICES ASSUME LogInit PROVE LogInv
    OBVIOUS
  <2>1. LogTypeOK
    BY DEF LogInit, LogTypeOK, Sizes, NoError
  <2>2. ShowsRecent
    BY NothingWritten DEF LogInit, ShowsRecent
  <2>3. Room(running, persistentBytes) = {}
    BY DEF LogInit, Room
  <2>4. Cardinality(Programs) \in Nat
    BY LoggerAssumption, FS_CardinalityType
  <2>5. Budget = Limit * (Cardinality(Programs) + 0)
    BY DEF LogInit, Budget
  <2>6. Budget \in Nat
    BY <2>4, <2>5, LimitIsNat
  <2>7. FilesBounded
    BY <2>3, <2>6, FS_EmptySet DEF LogInit, FilesBounded, Size, NoFile
  <2> QED
    BY <2>1, <2>2, <2>7 DEF LogInv
<1>2. LogInv => LogConsistent
  <2> SUFFICES ASSUME LogInv PROVE LogConsistent
    OBVIOUS
  <2>t. LogTypeOK /\ FilesBounded /\ ShowsRecent
    BY DEF LogInv
  <2>1. RecentLines
    <3>1. \A p \in running : p \in Programs
      BY <2>t DEF LogTypeOK
    <3> QED
      BY <2>t, <3>1, Zenon DEF RecentLines, ShowsRecent, Recent, LatestError, Errors, Kept, Newest
  <2>2. LogBounded
    <3>1. log <= Size(log) /\ Size(log) \in Nat /\ log \in Int
      BY <2>t, SizeIsNat DEF LogTypeOK, Sizes, NoFile
    <3>2. Cardinality(Room(running, persistentBytes)) \in Nat
      <4>1. IsFiniteSet(Programs \X (1..Limit))
        <5>1. IsFiniteSet(1..Limit)
          BY LimitIsNat, FS_Interval
        <5> QED
          BY <5>1, LoggerAssumption, FS_Product, Zenon
      <4>2. Room(running, persistentBytes) \in SUBSET (Programs \X (1..Limit))
        BY <2>t DEF Room, LogTypeOK
      <4> QED
        BY <4>1, <4>2, FS_Subset, FS_CardinalityType
    <3>3. Budget \in Int
      BY <2>t, LoggerAssumption, LimitIsNat, FS_CardinalityType DEF Budget, LogTypeOK
    <3>4. log <= Budget
      BY <2>t, <3>1, <3>2, <3>3 DEF FilesBounded
    <3> QED
      BY <2>t, <3>4 DEF FilesBounded, LogBounded, Budget, Limit
  <2> QED
    BY <2>1, <2>2 DEF LogConsistent
<1> QED
  BY <1>1, <1>2, LogStep, PTL DEF LogSpec
------------------------------------------------------------------------------
(* Command lines: which arguments are options *)

LEMMA Lowest ==
  ASSUME NEW S \in SUBSET Nat, S # {}
  PROVE  \E m \in S : \A n \in S : m <= n
<1>1. PICK m \in S : \A n \in S : ~(<<n, m>> \in OpToRel(<, Nat))
  BY NatLessThanWellFounded, WFMin
<1>2. ASSUME NEW n \in S PROVE m <= n
  <2>1. n < m => <<n, m>> \in OpToRel(<, Nat)
    BY Zenon DEF OpToRel
  <2>2. ~(n < m)
    BY <1>1, <2>1, Zenon
  <2> QED
    BY <2>2
<1> QED
  BY <1>2

(* Behind a word that names a flag, or the start, options and values take   *)
(* turns: j is the last such place before i.                                *)
Restarts(args, j) == j = 0 \/ args[j].text \in Flags
LastRestart(args, i, j) ==
  /\ j \in 0..(i - 1) /\ Restarts(args, j)
  /\ \A k \in (j + 1)..(i - 1) : ~Restarts(args, k)
Alternates(args) == [i \in Nat |-> \E j \in 0..(i - 1) : LastRestart(args, i, j) /\ (i - j) % 2 = 1]

LEMMA OneRestart ==
  ASSUME NEW args, NEW i \in Nat \ {0}
  PROVE  /\ \E j \in 0..(i - 1) : LastRestart(args, i, j)
         /\ \A j, k \in 0..(i - 1) : LastRestart(args, i, j) /\ LastRestart(args, i, k) => j = k
<1>1. PICK d \in {e \in 1..i : Restarts(args, i - e)} : \A e \in {f \in 1..i : Restarts(args, i - f)} : d <= e
  <2>1. i \in {e \in 1..i : Restarts(args, i - e)}
    BY DEF Restarts
  <2>2. {e \in 1..i : Restarts(args, i - e)} \in SUBSET Nat
    OBVIOUS
  <2> QED
    BY <2>1, <2>2, Lowest
<1>2. LastRestart(args, i, i - d)
  <2>1. ASSUME NEW k \in (i - d + 1)..(i - 1), Restarts(args, k) PROVE FALSE
    <3>1. i - k \in 1..i /\ i - (i - k) = k /\ i - k < d
      OBVIOUS
    <3> QED
      BY <1>1, <2>1, <3>1
  <2> QED
    BY <1>1, <2>1 DEF LastRestart
<1>3. ASSUME NEW j \in 0..(i - 1), NEW k \in 0..(i - 1), LastRestart(args, i, j), LastRestart(args, i, k)
      PROVE  j = k
  <2>1. ~(j < k) /\ ~(k < j)
    BY <1>3 DEF LastRestart
  <2> QED
    BY <2>1
<1> QED
  BY <1>2, <1>3

LEMMA Alternation ==
  ASSUME NEW args, NEW i \in Nat
  PROVE  Alternates(args)[i] = (i = 1 \/ (i > 1 /\ (Alternates(args)[i - 1] => args[i - 1].text \in Flags)))
<1>1. CASE i = 0
  <2>1. Alternates(args)[0] = FALSE
    BY DEF Alternates
  <2>2. i # 1 /\ ~(i > 1)
    BY <1>1
  <2> QED
    BY <1>1, <2>1, <2>2, Zenon
<1>2. CASE i = 1
  <2>1. LastRestart(args, 1, 0) /\ (1 - 0) % 2 = 1 /\ 0 \in 0..(1 - 1)
    BY DEF LastRestart, Restarts
  <2> QED
    BY <1>2, <2>1 DEF Alternates
<1>3. CASE i > 1 /\ args[i - 1].text \in Flags
  <2>1. LastRestart(args, i, i - 1) /\ (i - (i - 1)) % 2 = 1 /\ i - 1 \in 0..(i - 1)
    BY <1>3 DEF LastRestart, Restarts
  <2> QED
    BY <1>3, <2>1 DEF Alternates
<1>4. CASE i > 1 /\ args[i - 1].text \notin Flags
  <2>1. i - 1 \in Nat \ {0} /\ ~Restarts(args, i - 1)
    BY <1>4 DEF Restarts
  <2>2. PICK j \in 0..(i - 1 - 1) : LastRestart(args, i - 1, j)
    BY <2>1, OneRestart
  <2>3. j \in 0..(i - 1) /\ LastRestart(args, i, j)
    BY <1>4, <2>1, <2>2 DEF LastRestart
  <2>4. Alternates(args)[i] = ((i - j) % 2 = 1)
    <3>1. \A k \in 0..(i - 1) : LastRestart(args, i, k) => k = j
      BY <1>4, <2>3, OneRestart
    <3> QED
      BY <2>3, <3>1 DEF Alternates
  <2>5. Alternates(args)[i - 1] = ((i - 1 - j) % 2 = 1)
    <3>1. \A k \in 0..(i - 1 - 1) : LastRestart(args, i - 1, k) => k = j
      BY <2>1, <2>2, OneRestart
    <3> QED
      BY <2>1, <2>2, <3>1 DEF Alternates
  <2>6. ((i - j) % 2 = 1) = ~((i - 1 - j) % 2 = 1)
    BY <2>3
  <2>7. i # 1 /\ i > 1
    BY <1>4
  <2> QED
    BY <1>4, <2>4, <2>5, <2>6, <2>7, Zenon
<1> QED
  BY <1>1, <1>2, <1>3, <1>4

(* So the recursive reading exists, and is what its definition says.        *)
LEMMA OptionReading ==
  ASSUME NEW args
  PROVE  /\ IsOption(args)[1]
         /\ \A i \in Nat \ {0} : IsOption(args)[i + 1] = (IsOption(args)[i] => args[i].text \in Flags)
<1> DEFINE Reading(f) == f = [i \in Nat |-> i = 1 \/ (i > 1 /\ (f[i - 1] => args[i - 1].text \in Flags))]
<1>1. Reading(Alternates(args))
  <2>1. Alternates(args) = [i \in Nat |-> Alternates(args)[i]]
    BY DEF Alternates
  <2>2. \A i \in Nat : Alternates(args)[i]
           = (i = 1 \/ (i > 1 /\ (Alternates(args)[i - 1] => args[i - 1].text \in Flags)))
    BY Alternation
  <2> QED
    BY <2>1, <2>2
<1>2. IsOption(args) = CHOOSE f : Reading(f)
  BY DEF IsOption
<1> HIDE DEF Reading
<1>3. Reading(IsOption(args))
  BY <1>1, <1>2, Zenon
<1>4. ASSUME NEW i \in Nat PROVE IsOption(args)[i]
           = (i = 1 \/ (i > 1 /\ (IsOption(args)[i - 1] => args[i - 1].text \in Flags)))
  BY <1>3, Zenon DEF Reading
<1>5. IsOption(args)[1]
  BY <1>4
<1>6. ASSUME NEW i \in Nat \ {0} PROVE IsOption(args)[i + 1] = (IsOption(args)[i] => args[i].text \in Flags)
  <2>1. i + 1 \in Nat /\ i + 1 > 1 /\ i + 1 # 1 /\ i + 1 - 1 = i
    OBVIOUS
  <2> QED
    BY <1>4, <2>1
<1> QED
  BY <1>5, <1>6
------------------------------------------------------------------------------
(* Command lines: what the arguments before a say *)

Args == Seq([text : STRING, number : Int, key : STRING, value : STRING])
Seen(args, names, a) == {i \in DOMAIN args : i < a /\ IsOption(args)[i] /\ args[i].text \in names}
NumberBefore(args, o, default, a) ==
  LET S == Seen(args, {o}, a) IN IF S = {} THEN default ELSE args[Last(S) + 1].number % U64
Switches == {"--disable-controller-type", "--enable-controller-type"}
Switched(args, t, a) == {i \in Seen(args, Switches, a) : args[i + 1].text = t}
Disabled(args, t, a) ==
  LET S == Switched(args, t, a) IN IF S = {} THEN t = "IDN" ELSE args[Last(S)].text = "--disable-controller-type"

LEMMA LastIs ==
  ASSUME NEW S \in SUBSET Nat, NEW a \in S, \A i \in S : i <= a
  PROVE  Last(S) = a
<1>1. \E i \in S : \A j \in S : j <= i
  OBVIOUS
<1>2. Last(S) \in S /\ \A j \in S : j <= Last(S)
  BY <1>1 DEF Last
<1>3. Last(S) \in Nat /\ a \in Nat /\ Last(S) <= a /\ a <= Last(S)
  BY <1>2
<1> QED
  BY <1>3

(* The option at a is the next to be seen, with the value behind it, and    *)
(* then the argument behind both.                                           *)
LEMMA SeesOne ==
  ASSUME NEW args \in Args, NEW a \in DOMAIN args, IsOption(args)[a], NEW b \in Nat,
         b = IF args[a].text \in Flags THEN a + 1 ELSE a + 2
  PROVE  /\ IsOption(args)[b]
         /\ \A names : Seen(args, names, b) = Seen(args, names, a) \cup (IF args[a].text \in names THEN {a} ELSE {})
         /\ \A names : Seen(args, names, a) \in SUBSET Nat /\ \A i \in Seen(args, names, a) : i < a
<1>0. DOMAIN args \subseteq Nat \ {0} /\ a \in Nat \ {0} /\ a + 1 \in Nat \ {0}
  BY DEF Args
<1>1. IsOption(args)[a + 1] = (args[a].text \in Flags)
  BY <1>0, OptionReading
<1>2. IsOption(args)[b]
  <2>1. CASE args[a].text \in Flags
    BY <1>1, <2>1
  <2>2. CASE args[a].text \notin Flags
    <3>1. IsOption(args)[a + 1 + 1] = (IsOption(args)[a + 1] => args[a + 1].text \in Flags)
      BY <1>0, OptionReading
    <3>2. b = a + 1 + 1
      BY <1>0, <2>2
    <3> QED
      BY <1>1, <2>2, <3>1, <3>2, Zenon
  <2> QED
    BY <2>1, <2>2
<1>3. ASSUME NEW i \in DOMAIN args, IsOption(args)[i]
      PROVE  i < b <=> i < a \/ i = a
  <2>1. i # a + 1 \/ args[a].text \in Flags
    BY <1>1, <1>3
  <2> QED
    BY <1>0, <2>1
<1>4. ASSUME NEW names
      PROVE  Seen(args, names, b) = Seen(args, names, a) \cup (IF args[a].text \in names THEN {a} ELSE {})
  <2>1. ASSUME NEW i PROVE i \in Seen(args, names, b) <=>
           i \in Seen(args, names, a) \/ (i = a /\ args[a].text \in names)
    <3>1. CASE i \in DOMAIN args /\ IsOption(args)[i]
      BY <1>0, <1>3, <3>1 DEF Seen
    <3>2. CASE ~(i \in DOMAIN args /\ IsOption(args)[i])
      BY <3>2 DEF Seen
    <3> QED
      BY <3>1, <3>2
  <2> QED
    BY <2>1
<1>5. \A names : Seen(args, names, a) \in SUBSET Nat /\ \A i \in Seen(args, names, a) : i < a
  BY <1>0 DEF Seen
<1> QED
  BY <1>2, <1>4, <1>5

LEMMA NextNumber ==
  ASSUME NEW args \in Args, NEW a \in DOMAIN args, IsOption(args)[a], NEW b \in Nat,
         b = IF args[a].text \in Flags THEN a + 1 ELSE a + 2
  PROVE  \A o, default : NumberBefore(args, o, default, b) =
           IF args[a].text = o THEN args[a + 1].number % U64 ELSE NumberBefore(args, o, default, a)
<1>0. a \in Nat
  BY DEF Args
<1> SUFFICES ASSUME NEW o, NEW default
             PROVE  NumberBefore(args, o, default, b) =
                      IF args[a].text = o THEN args[a + 1].number % U64 ELSE NumberBefore(args, o, default, a)
  OBVIOUS
<1>1. CASE args[a].text = o
  <2>1. Seen(args, {o}, b) = Seen(args, {o}, a) \cup {a}
    BY <1>1, SeesOne
  <2>2. Last(Seen(args, {o}, b)) = a
    <3>1. Seen(args, {o}, b) \in SUBSET Nat /\ \A i \in Seen(args, {o}, b) : i <= a
      BY <1>0, <2>1, SeesOne
    <3> QED
      BY <2>1, <3>1, LastIs
  <2> QED
    BY <1>1, <2>1, <2>2 DEF NumberBefore
<1>2. CASE args[a].text # o
  <2>1. Seen(args, {o}, b) = Seen(args, {o}, a)
    <3>1. Seen(args, {o}, b) = Seen(args, {o}, a) \cup (IF args[a].text \in {o} THEN {a} ELSE {})
      BY SeesOne
    <3> QED
      BY <1>2, <3>1
  <2>2. NumberBefore(args, o, default, b) = NumberBefore(args, o, default, a)
    BY <2>1, Zenon DEF NumberBefore
  <2> QED
    BY <1>2, <2>2, Zenon
<1> QED
  BY <1>1, <1>2

LEMMA NextSwitch ==
  ASSUME NEW args \in Args, NEW a \in DOMAIN args, IsOption(args)[a], NEW b \in Nat,
         b = IF args[a].text \in Flags THEN a + 1 ELSE a + 2
  PROVE  \A t : Disabled(args, t, b) =
           IF args[a].text \in Switches /\ args[a + 1].text = t
             THEN args[a].text = "--disable-controller-type" ELSE Disabled(args, t, a)
<1>0. a \in Nat
  BY DEF Args
<1> SUFFICES ASSUME NEW t
             PROVE  Disabled(args, t, b) =
                      IF args[a].text \in Switches /\ args[a + 1].text = t
                        THEN args[a].text = "--disable-controller-type" ELSE Disabled(args, t, a)
  OBVIOUS
<1>1. CASE args[a].text \in Switches /\ args[a + 1].text = t
  <2>1. Switched(args, t, b) = Switched(args, t, a) \cup {a}
    BY <1>1, SeesOne DEF Switched
  <2>2. Last(Switched(args, t, b)) = a
    <3>1. Switched(args, t, b) \in SUBSET Nat /\ \A i \in Switched(args, t, b) : i <= a
      BY <1>0, <2>1, SeesOne DEF Switched
    <3> QED
      BY <2>1, <3>1, LastIs
  <2> QED
    BY <1>1, <2>1, <2>2 DEF Disabled
<1>2. CASE ~(args[a].text \in Switches /\ args[a + 1].text = t)
  <2>1. Switched(args, t, b) = Switched(args, t, a)
    BY <1>2, SeesOne DEF Switched
  <2> QED
    BY <1>2, <2>1 DEF Disabled
<1> QED
  BY <1>1, <1>2
------------------------------------------------------------------------------
(* Command lines: what the options are *)

(* The provers do not know that a literal is in STRING.                     *)
Texts == STRING \cup {"", "IDN"}
OptionValues ==
  [discoveryTimeoutMs : Int, maxDacs : Int, sliceDurationUs : Int, maxQueuedPoints : Int,
   latencyMs : Int, maxLatencyMs : Int, autoLatency : BOOLEAN, hostId : Texts,
   hostOptions : SUBSET (Texts \X Texts), disabledControllerTypes : SUBSET Texts]

(* options is what the arguments before a say.                              *)
ReadUpTo(args, a, o) ==
  /\ o.latencyMs = Clipped(0, NumberBefore(args, "--latency-ms", 1, a), 5)
  /\ o.maxLatencyMs = Clipped(0, NumberBefore(args, "--max-latency-ms", 3, a), 7)
  /\ NumberBefore(args, "--latency-ms", 1, a) \in Nat /\ NumberBefore(args, "--max-latency-ms", 3, a) \in Nat
  /\ o.maxQueuedPoints = Clipped(2, NumberBefore(args, "--max-queue-points", 8, a), U64)
  /\ o.autoLatency <=> Seen(args, {"--no-auto-latency"}, a) = {}
  /\ \A t \in Texts : t \in o.disabledControllerTypes <=> Disabled(args, t, a)
  /\ \A p, q \in o.hostOptions : p[1] = q[1] => p = q
  /\ Seen(args, {"--virtual-controller"}, a) = {} => o.hostId = ""

LEMMA ReadNothing == ASSUME NEW args \in Args PROVE ReadUpTo(args, 1, LinkOptions)
<1>1. \A names : Seen(args, names, 1) = {}
  BY DEF Seen, Args
<1>2. \A o, default : NumberBefore(args, o, default, 1) = default
  BY <1>1 DEF NumberBefore
<1>3. \A t : Disabled(args, t, 1) <=> t = "IDN"
  BY <1>1 DEF Disabled, Switched
<1> QED
  BY <1>1, <1>2, <1>3 DEF ReadUpTo, LinkOptions, Clipped, U64

(* What ParseOption makes of the options, one field at a time.              *)
LEMMA OptionEffect ==
  ASSUME options \in OptionValues, argv \in Args, arg \in DOMAIN argv, ParseOption
  PROVE  /\ arg + 1 \in DOMAIN argv /\ Value.number % U64 \in Nat
         /\ options' \in OptionValues
         /\ options'.latencyMs = IF Option = "--latency-ms" THEN Clipped(0, Value.number % U64, 5) ELSE options.latencyMs
         /\ options'.maxLatencyMs =
              IF Option = "--max-latency-ms" THEN Clipped(0, Value.number % U64, 7) ELSE options.maxLatencyMs
         /\ options'.maxQueuedPoints =
              IF Option = "--max-queue-points" THEN Clipped(2, Value.number % U64, U64) ELSE options.maxQueuedPoints
         /\ options'.autoLatency = options.autoLatency
         /\ options'.hostId = IF Option = "--virtual-controller" THEN Value.text ELSE options.hostId
         /\ options'.disabledControllerTypes =
              CASE Option = "--disable-controller-type" -> options.disabledControllerTypes \cup {Value.text}
                [] Option = "--enable-controller-type" -> options.disabledControllerTypes \ {Value.text}
                [] OTHER -> options.disabledControllerTypes
         /\ options'.hostOptions =
              IF Option = "--virtual-controller-opt"
                THEN {o \in options.hostOptions : o[1] # Value.key} \cup {<<Value.key, Value.value>>}
                ELSE options.hostOptions
<1>1. arg \in Nat /\ arg < Len(argv) /\ arg + 1 \in DOMAIN argv /\ Option \notin Flags
  <2>1. Option \notin Flags /\ arg < Len(argv)
    BY DEF ParseOption, Rejected
  <2>2. arg \in 1..Len(argv) /\ DOMAIN argv = 1..Len(argv) /\ Len(argv) \in Nat
    BY DEF Args
  <2> QED
    BY <2>1, <2>2
<1>2. Value.text \in Texts /\ Value.number \in Int /\ Value.key \in Texts /\ Value.value \in Texts
  <2>1. argv[arg + 1] \in [text : STRING, number : Int, key : STRING, value : STRING]
    <3>1. arg + 1 \in 1..Len(argv)
      BY <1>1 DEF Args
    <3> QED
      BY <3>1, ElementOfSeq DEF Args
  <2> QED
    BY <2>1 DEF Value, Texts
<1>3. Value.number % U64 \in Nat
  BY <1>2 DEF U64
<1>4. CASE Option = "--virtual-controller"
  BY <1>1, <1>2, <1>3, <1>4 DEF ParseOption, OptionValues
<1>5. CASE Option = "--disable-controller-type"
  BY <1>1, <1>2, <1>3, <1>5 DEF ParseOption, OptionValues
<1>6. CASE Option = "--enable-controller-type"
  BY <1>1, <1>2, <1>3, <1>6 DEF ParseOption, OptionValues
<1>7. CASE Option = "--virtual-controller-opt"
  <2> DEFINE new == {o \in options.hostOptions : o[1] # Value.key} \cup {<<Value.key, Value.value>>}
  <2>1. new \in SUBSET (Texts \X Texts)
    BY <1>2 DEF OptionValues
  <2>2. options' = [options EXCEPT !.hostOptions = new]
    BY <1>7 DEF ParseOption
  <2> HIDE DEF new
  <2>3. /\ options' \in OptionValues /\ options'.hostOptions = new
        /\ options'.latencyMs = options.latencyMs /\ options'.maxLatencyMs = options.maxLatencyMs
        /\ options'.maxQueuedPoints = options.maxQueuedPoints /\ options'.autoLatency = options.autoLatency
        /\ options'.hostId = options.hostId
        /\ options'.disabledControllerTypes = options.disabledControllerTypes
    BY <2>1, <2>2 DEF OptionValues
  <2> QED
    BY <1>1, <1>3, <1>7, <2>3 DEF new
<1>8. CASE Option \notin TextOptions \cup {"--virtual-controller-opt"}
  <2>1. Option \in NumericOptions /\ ParseUnsigned(Value.number).ok
    BY <1>1, <1>8 DEF ParseOption, Rejected
  <2>2. ParseUnsigned(Value.number).raw = Value.number % U64
    BY <2>1 DEF ParseUnsigned
  <2>3. options' = NumericOption(Option, Value.number % U64)
    BY <1>8, <2>2 DEF ParseOption, TextOptions
  <2> DEFINE raw == Value.number % U64
  <2>4. raw \in Nat /\ raw \in Int /\ Clipped(0, raw, U32 - 1) \in Int /\ Clipped(2, raw, U64) % U32 \in Int
        /\ Clipped(2, raw, U64) \in Int /\ Clipped(0, raw, 5) \in Int /\ Clipped(0, raw, 7) \in Int
    BY <1>3 DEF Clipped, U32, U64
  <2> HIDE DEF raw
  <2>n. options' = NumericOption(Option, raw)
    BY <2>3 DEF raw
  <2>5. CASE Option = "--discovery-timeout-ms"
    BY <1>1, <1>3, <2>n, <2>4, <2>5 DEF NumericOption, OptionValues
  <2>6. CASE Option = "--max-dacs"
    BY <1>1, <1>3, <2>n, <2>4, <2>6 DEF NumericOption, OptionValues
  <2>7. CASE Option = "--slice-us"
    BY <1>1, <1>3, <2>n, <2>4, <2>7 DEF NumericOption, OptionValues
  <2>8. CASE Option = "--max-queue-points"
    BY <1>1, <1>3, <2>n, <2>4, <2>8 DEF NumericOption, OptionValues, raw
  <2>9. CASE Option = "--latency-ms"
    BY <1>1, <1>3, <2>n, <2>4, <2>9 DEF NumericOption, OptionValues, raw
  <2>10. CASE Option = "--max-latency-ms"
    BY <1>1, <1>3, <2>n, <2>4, <2>10 DEF NumericOption, OptionValues, raw
  <2> QED
    BY <2>1, <2>5, <2>6, <2>7, <2>8, <2>9, <2>10 DEF NumericOptions
<1> QED
  BY <1>4, <1>5, <1>6, <1>7, <1>8 DEF TextOptions

LEMMA ReadsOption ==
  ASSUME options \in OptionValues, argv \in Args, arg \in DOMAIN argv, IsOption(argv)[arg],
         ReadUpTo(argv, arg, options), ParseOption
  PROVE  ReadUpTo(argv, arg + 2, options') /\ IsOption(argv)[arg + 2]
<1>1. arg \in Nat /\ arg + 2 \in Nat /\ Option \notin Flags /\ Option = argv[arg].text /\ Value = argv[arg + 1]
  BY DEF ParseOption, Args, Option, Value
<1>2. arg + 2 = IF argv[arg].text \in Flags THEN arg + 1 ELSE arg + 2
  BY <1>1
<1>3. \A o, default : NumberBefore(argv, o, default, arg + 2) =
        IF Option = o THEN Value.number % U64 ELSE NumberBefore(argv, o, default, arg)
  BY <1>1, <1>2, NextNumber
<1>4. \A t : Disabled(argv, t, arg + 2) =
        IF Option \in Switches /\ Value.text = t
          THEN Option = "--disable-controller-type" ELSE Disabled(argv, t, arg)
  BY <1>1, <1>2, NextSwitch
<1>5. /\ IsOption(argv)[arg + 2]
      /\ \A names : Seen(argv, names, arg + 2) = Seen(argv, names, arg) \cup (IF Option \in names THEN {arg} ELSE {})
  BY <1>1, <1>2, SeesOne
<1>6. Value.number % U64 \in Nat
  BY OptionEffect
<1>7. /\ options'.latencyMs = Clipped(0, NumberBefore(argv, "--latency-ms", 1, arg + 2), 5)
      /\ NumberBefore(argv, "--latency-ms", 1, arg + 2) \in Nat
  BY <1>3, <1>6, OptionEffect DEF ReadUpTo
<1>8. /\ options'.maxLatencyMs = Clipped(0, NumberBefore(argv, "--max-latency-ms", 3, arg + 2), 7)
      /\ NumberBefore(argv, "--max-latency-ms", 3, arg + 2) \in Nat
  BY <1>3, <1>6, OptionEffect DEF ReadUpTo
<1>9. options'.maxQueuedPoints = Clipped(2, NumberBefore(argv, "--max-queue-points", 8, arg + 2), U64)
  BY <1>3, OptionEffect DEF ReadUpTo
<1>10. options'.autoLatency <=> Seen(argv, {"--no-auto-latency"}, arg + 2) = {}
  <2>1. Option \notin {"--no-auto-latency"}
    BY <1>1 DEF Flags
  <2>2. Seen(argv, {"--no-auto-latency"}, arg + 2) = Seen(argv, {"--no-auto-latency"}, arg)
    BY <1>5, <2>1
  <2> QED
    BY <2>2, OptionEffect DEF ReadUpTo
<1>11. ASSUME NEW t \in Texts PROVE t \in options'.disabledControllerTypes <=> Disabled(argv, t, arg + 2)
  <2>0. t \in options.disabledControllerTypes <=> Disabled(argv, t, arg)
    BY DEF ReadUpTo
  <2>1. CASE Option = "--disable-controller-type"
    <3>1. options'.disabledControllerTypes = options.disabledControllerTypes \cup {Value.text}
      BY <2>1, OptionEffect
    <3> QED
      BY <1>4, <2>0, <2>1, <3>1 DEF Switches
  <2>2. CASE Option = "--enable-controller-type"
    <3>1. options'.disabledControllerTypes = options.disabledControllerTypes \ {Value.text}
      BY <2>2, OptionEffect
    <3> QED
      BY <1>4, <2>0, <2>2, <3>1 DEF Switches
  <2>3. CASE Option \notin Switches
    <3>1. options'.disabledControllerTypes = options.disabledControllerTypes
      BY <2>3, OptionEffect DEF Switches
    <3> QED
      BY <1>4, <2>0, <2>3, <3>1
  <2> QED
    BY <2>1, <2>2, <2>3 DEF Switches
<1>12. \A p, q \in options'.hostOptions : p[1] = q[1] => p = q
  <2>1. \A p, q \in options.hostOptions : p[1] = q[1] => p = q
    BY DEF ReadUpTo
  <2>2. CASE Option # "--virtual-controller-opt"
    BY <2>1, <2>2, OptionEffect
  <2>3. CASE Option = "--virtual-controller-opt"
    <3>1. options'.hostOptions = {o \in options.hostOptions : o[1] # Value.key} \cup {<<Value.key, Value.value>>}
      BY <2>3, OptionEffect
    <3> QED
      BY <2>1, <3>1
  <2> QED
    BY <2>2, <2>3
<1>13. Seen(argv, {"--virtual-controller"}, arg + 2) = {} => options'.hostId = ""
  <2>1. CASE Option = "--virtual-controller"
    BY <1>5, <2>1
  <2>2. CASE Option # "--virtual-controller"
    <3>1. options'.hostId = options.hostId
      BY <2>2, OptionEffect
    <3>2. Seen(argv, {"--virtual-controller"}, arg + 2) = {} => Seen(argv, {"--virtual-controller"}, arg) = {}
      BY <1>5
    <3> QED
      BY <3>1, <3>2 DEF ReadUpTo
  <2> QED
    BY <2>1, <2>2
<1> QED
  BY <1>5, <1>7, <1>8, <1>9, <1>10, <1>11, <1>12, <1>13 DEF ReadUpTo

LEMMA ReadsFlag ==
  ASSUME options \in OptionValues, argv \in Args, arg \in DOMAIN argv, IsOption(argv)[arg],
         ReadUpTo(argv, arg, options), ParseNoAutoLatency
  PROVE  ReadUpTo(argv, arg + 1, options') /\ IsOption(argv)[arg + 1] /\ options' \in OptionValues
<1>1. /\ arg \in Nat /\ arg + 1 \in Nat /\ argv[arg].text = "--no-auto-latency" /\ argv[arg].text \in Flags
      /\ argv[arg].text \notin Switches
  BY DEF ParseNoAutoLatency, Args, Option, Flags, Switches
<1>2. arg + 1 = IF argv[arg].text \in Flags THEN arg + 1 ELSE arg + 2
  BY <1>1
<1>3. \A o, default : NumberBefore(argv, o, default, arg + 1) =
        IF argv[arg].text = o THEN argv[arg + 1].number % U64 ELSE NumberBefore(argv, o, default, arg)
  BY <1>1, <1>2, NextNumber
<1>4. \A t : Disabled(argv, t, arg + 1) = Disabled(argv, t, arg)
  BY <1>1, <1>2, NextSwitch
<1>5. /\ IsOption(argv)[arg + 1]
      /\ \A names : Seen(argv, names, arg + 1)
           = Seen(argv, names, arg) \cup (IF argv[arg].text \in names THEN {arg} ELSE {})
  BY <1>1, <1>2, SeesOne
<1>6. /\ options' \in OptionValues /\ ~options'.autoLatency
      /\ options'.latencyMs = options.latencyMs /\ options'.maxLatencyMs = options.maxLatencyMs
      /\ options'.maxQueuedPoints = options.maxQueuedPoints /\ options'.hostOptions = options.hostOptions
      /\ options'.hostId = options.hostId
      /\ options'.disabledControllerTypes = options.disabledControllerTypes
  BY DEF ParseNoAutoLatency, OptionValues
<1>7. Seen(argv, {"--no-auto-latency"}, arg + 1) # {}
  BY <1>1, <1>5
<1>8. Seen(argv, {"--virtual-controller"}, arg + 1) = {} => Seen(argv, {"--virtual-controller"}, arg) = {}
  BY <1>5
<1>9. /\ NumberBefore(argv, "--latency-ms", 1, arg + 1) = NumberBefore(argv, "--latency-ms", 1, arg)
      /\ NumberBefore(argv, "--max-latency-ms", 3, arg + 1) = NumberBefore(argv, "--max-latency-ms", 3, arg)
      /\ NumberBefore(argv, "--max-queue-points", 8, arg + 1) = NumberBefore(argv, "--max-queue-points", 8, arg)
  BY <1>1, <1>3
<1> QED
  BY <1>4, <1>5, <1>6, <1>7, <1>8, <1>9 DEF ReadUpTo
------------------------------------------------------------------------------
(* Command lines: the hosts that are registered *)

Usable(r) == r.id # "" /\ r.factory

(* Every usable host whose registrar has run is in the list.                *)
Registered ==
  /\ unregistered \subseteq Registrations /\ orderedInfos \in Seq(Registrations)
  /\ \A r \in Registrations \ unregistered : Usable(r) => \E i \in DOMAIN orderedInfos : orderedInfos[i] = r

LEMMA RegisterKeeps ==
  ASSUME Registered, NEW r \in unregistered, RegisterHost(r)
  PROVE  Registered'
<1>1. r \in Registrations /\ unregistered' = unregistered \ {r}
  BY DEF Registered, RegisterHost
<1>2. CASE Accepts(r)
  <2>1. orderedInfos' = Append(orderedInfos, r) /\ orderedInfos \in Seq(Registrations)
    BY <1>2 DEF RegisterHost, Registered
  <2>2. orderedInfos' \in Seq(Registrations) /\ orderedInfos'[Len(orderedInfos) + 1] = r
        /\ Len(orderedInfos) + 1 \in DOMAIN orderedInfos'
    BY <1>1, <2>1
  <2>3. \A i \in DOMAIN orderedInfos : i \in DOMAIN orderedInfos' /\ orderedInfos'[i] = orderedInfos[i]
    BY <1>1, <2>1
  <2> QED
    BY <1>1, <2>2, <2>3 DEF Registered
<1>3. CASE ~Accepts(r)
  <2>1. orderedInfos' = orderedInfos
    BY <1>3 DEF RegisterHost
  <2>2. ASSUME Usable(r) PROVE \E i \in DOMAIN orderedInfos : orderedInfos[i] = r
    <3>1. PICK i \in DOMAIN orderedInfos : orderedInfos[i].id = r.id
      BY <1>3, <2>2 DEF Accepts, FindHost, HostIds, Usable
    <3>2. orderedInfos[i] \in Registrations
      BY DEF Registered
    <3> QED
      BY <1>1, <3>1, <3>2, RegistrationsAssumption
  <2> QED
    BY <1>1, <2>1, <2>2 DEF Registered
<1> QED
  BY <1>2, <1>3

(* Once all registrars have run there is a default host, and it is one that *)
(* is flagged.                                                              *)
LEMMA DefaultIsFlagged ==
  ASSUME Registered, unregistered = {}
  PROVE  DefaultHost \in HostIds /\ \A r \in Registrations : r.id = DefaultHost => r.defaultSelection
<1> DEFINE flagged == {i \in DOMAIN orderedInfos : orderedInfos[i].defaultSelection}
           first == CHOOSE i \in flagged : \A j \in flagged : i <= j
<1>1. flagged # {}
  <2>1. PICK r \in Registrations : Usable(r) /\ r.defaultSelection
    BY RegistrationsAssumption DEF Usable
  <2>2. PICK i \in DOMAIN orderedInfos : orderedInfos[i] = r
    BY <2>1 DEF Registered
  <2> QED
    BY <2>1, <2>2
<1>2. flagged \in SUBSET Nat
  BY DEF Registered
<1>3. first \in flagged
  BY <1>1, <1>2, Lowest
<1>4. DefaultHost = orderedInfos[first].id
  BY <1>1 DEF DefaultHost
<1>5. first \in DOMAIN orderedInfos /\ orderedInfos[first].defaultSelection /\ orderedInfos[first] \in Registrations
  BY <1>3 DEF Registered
<1> HIDE DEF first
<1>6. DefaultHost \in HostIds
  BY <1>4, <1>5 DEF HostIds
<1>7. ASSUME NEW r \in Registrations, r.id = DefaultHost PROVE r.defaultSelection
  <2>1. r = orderedInfos[first]
    BY <1>4, <1>5, <1>7, RegistrationsAssumption
  <2> QED
    BY <1>5, <2>1
<1> QED
  BY <1>6, <1>7
------------------------------------------------------------------------------
(* Command lines: the inductive invariant *)

(* What the options say once they are all read.                             *)
OptionsFinished ==
  /\ options.latencyMs = Clipped(0, LastNumber("--latency-ms", 1), 5)
  /\ options.maxLatencyMs = Clipped(options.latencyMs, LastNumber("--max-latency-ms", 3), 7)
  /\ options.maxQueuedPoints = Clipped(2, LastNumber("--max-queue-points", 8), U64)
  /\ options.autoLatency <=> Positions({"--no-auto-latency"}) = {}
  /\ \A t \in {"IDN"} \cup {argv[i].text : i \in DOMAIN argv} :
       t \in options.disabledControllerTypes <=>
         IF Mentions(t) = {} THEN t = "IDN" ELSE argv[Last(Mentions(t))].text = "--disable-controller-type"
  /\ \A o, p \in options.hostOptions : o[1] = p[1] => o = p
  /\ Host \in HostIds
  /\ Positions({"--virtual-controller"}) = {} => \A r \in Registrations : r.id = Host => r.defaultSelection

CliInv ==
  /\ Registered /\ options \in OptionValues
  /\ cli = "static" => options = LinkOptions /\ arg = 1
  /\ cli # "static" => unregistered = {}
  /\ cli = "parse" =>
       /\ argv \in Args /\ arg \in 1..(Len(argv) + 1) /\ IsOption(argv)[arg]
       /\ ReadUpTo(argv, arg, options)
  /\ cli = "discover" => OptionsFinished

(* The reference depends on the arguments and the registered hosts only.    *)
LEMMA ReferenceStays ==
  ASSUME UNCHANGED <<argv, orderedInfos>>
  PROVE  /\ \A names : Positions(names)' = Positions(names)
         /\ \A o, default : LastNumber(o, default)' = LastNumber(o, default)
         /\ \A t : Mentions(t)' = Mentions(t)
         /\ HostIds' = HostIds /\ DefaultHost' = DefaultHost
<1>1. argv' = argv /\ orderedInfos' = orderedInfos
  OBVIOUS
<1>2. ASSUME NEW names PROVE Positions(names)' = Positions(names)
  BY <1>1 DEF Positions
<1>3. ASSUME NEW o, NEW default PROVE LastNumber(o, default)' = LastNumber(o, default)
  <2>1. Positions({o})' = Positions({o})
    BY <1>2
  <2> QED
    BY <1>1, <2>1 DEF LastNumber
<1>4. ASSUME NEW t PROVE Mentions(t)' = Mentions(t)
  <2>1. Positions({"--disable-controller-type", "--enable-controller-type"})'
          = Positions({"--disable-controller-type", "--enable-controller-type"})
    BY <1>2
  <2> QED
    BY <1>1, <2>1 DEF Mentions
<1>5. HostIds' = HostIds
  BY <1>1 DEF HostIds
<1>6. DefaultHost' = DefaultHost
  BY <1>1 DEF DefaultHost
<1> QED
  BY <1>2, <1>3, <1>4, <1>5, <1>6

LEMMA ArgTexts == ASSUME NEW args \in Args, NEW i \in DOMAIN args PROVE args[i].text \in Texts
<1>1. i \in 1..Len(args)
  BY DEF Args
<1>2. args[i] \in [text : STRING, number : Int, key : STRING, value : STRING]
  BY <1>1, ElementOfSeq DEF Args
<1> QED
  BY <1>2 DEF Texts

LEMMA EndReads ==
  ASSUME CliInv, ParseEnds, cli' = "discover"
  PROVE  OptionsFinished' /\ options' \in OptionValues
<1>1. /\ Registered /\ unregistered = {} /\ options \in OptionValues /\ argv \in Args
      /\ arg = Len(argv) + 1 /\ ReadUpTo(argv, arg, options)
      /\ UNCHANGED <<argv, unregistered, orderedInfos>>
  <2>1. cli = "parse" /\ arg > Len(argv) /\ UNCHANGED <<argv, unregistered, orderedInfos>>
    BY DEF ParseEnds, unparsed, registryVars
  <2>2. /\ Registered /\ unregistered = {} /\ options \in OptionValues /\ argv \in Args
        /\ arg \in 1..(Len(argv) + 1) /\ ReadUpTo(argv, arg, options)
    BY <2>1 DEF CliInv
  <2>3. arg = Len(argv) + 1
    BY <2>1, <2>2 DEF Args
  <2> QED
    BY <2>1, <2>2, <2>3
<1>2. \A names : Positions(names) = Seen(argv, names, arg)
  BY <1>1 DEF Positions, Seen, Args
<1>3. \A o, default : LastNumber(o, default) = NumberBefore(argv, o, default, arg)
  BY <1>2, Zenon DEF LastNumber, NumberBefore
<1>4. \A t : Mentions(t) = Switched(argv, t, arg)
  BY <1>2, Zenon DEF Mentions, Switched, Switches
<1>5. /\ options' \in OptionValues
      /\ options'.maxLatencyMs =
           IF options.maxLatencyMs < options.latencyMs THEN options.latencyMs ELSE options.maxLatencyMs
      /\ options'.latencyMs = options.latencyMs /\ options'.maxQueuedPoints = options.maxQueuedPoints
      /\ options'.autoLatency = options.autoLatency /\ options'.hostId = options.hostId
      /\ options'.hostOptions = options.hostOptions
      /\ options'.disabledControllerTypes = options.disabledControllerTypes
  BY <1>1 DEF ParseEnds, FinishedOptions, OptionValues
<1>6. options.hostId = "" \/ FindHost(options.hostId)
  BY DEF ParseEnds, Exit
<1>7. /\ \A names : Positions(names)' = Positions(names)
      /\ \A o, default : LastNumber(o, default)' = LastNumber(o, default)
      /\ \A t : Mentions(t)' = Mentions(t)
      /\ HostIds' = HostIds /\ DefaultHost' = DefaultHost
  BY <1>1, ReferenceStays
<1>8. options'.maxLatencyMs = Clipped(options'.latencyMs, LastNumber("--max-latency-ms", 3), 7)
  <2>1. options.latencyMs \in 0..5
    <3>1. /\ NumberBefore(argv, "--latency-ms", 1, arg) \in Nat
          /\ options.latencyMs = Clipped(0, NumberBefore(argv, "--latency-ms", 1, arg), 5)
      BY <1>1 DEF ReadUpTo
    <3> QED
      BY <3>1 DEF Clipped
  <2>2. /\ NumberBefore(argv, "--max-latency-ms", 3, arg) \in Nat
        /\ options.maxLatencyMs = Clipped(0, NumberBefore(argv, "--max-latency-ms", 3, arg), 7)
    BY <1>1 DEF ReadUpTo
  <2> QED
    BY <1>3, <1>5, <2>1, <2>2 DEF Clipped
<1>9. /\ options'.latencyMs = Clipped(0, LastNumber("--latency-ms", 1), 5)
      /\ options'.maxQueuedPoints = Clipped(2, LastNumber("--max-queue-points", 8), U64)
  BY <1>1, <1>3, <1>5 DEF ReadUpTo
<1>10. /\ options'.autoLatency <=> Positions({"--no-auto-latency"}) = {}
       /\ \A o, p \in options'.hostOptions : o[1] = p[1] => o = p
  BY <1>1, <1>2, <1>5 DEF ReadUpTo
<1>11. ASSUME NEW t \in {"IDN"} \cup {argv[i].text : i \in DOMAIN argv}
       PROVE  t \in options'.disabledControllerTypes <=>
                IF Mentions(t) = {} THEN t = "IDN" ELSE argv[Last(Mentions(t))].text = "--disable-controller-type"
  <2>1. t \in Texts
    <3>1. CASE t = "IDN"
      BY <3>1 DEF Texts
    <3>2. CASE \E i \in DOMAIN argv : t = argv[i].text
      BY <1>1, <3>2, ArgTexts
    <3> QED
      BY <3>1, <3>2
  <2>2. t \in options.disabledControllerTypes <=> Disabled(argv, t, arg)
    BY <1>1, <2>1 DEF ReadUpTo
  <2> QED
    BY <1>4, <1>5, <2>2, Zenon DEF Disabled
<1>12. Host' \in HostIds
  BY <1>1, <1>5, <1>6, <1>7, DefaultIsFlagged DEF Host, FindHost
<1>13. Positions({"--virtual-controller"}) = {} => \A r \in Registrations : r.id = Host' => r.defaultSelection
  <2>1. Positions({"--virtual-controller"}) = {} => options.hostId = ""
    BY <1>1, <1>2 DEF ReadUpTo
  <2> QED
    BY <1>1, <1>5, <1>7, <2>1, DefaultIsFlagged DEF Host
<1> QED
  BY <1>1, <1>5, <1>7, <1>8, <1>9, <1>10, <1>11, <1>12, <1>13, ZenonT(60) DEF OptionsFinished

(* Nothing that the options are compared with changes once they are read.   *)
LEMMA FinishedStays ==
  ASSUME OptionsFinished, UNCHANGED <<argv, options, orderedInfos>>
  PROVE  OptionsFinished'
<1>1. Host' = Host
  BY ReferenceStays DEF Host
<1>2. argv' = argv /\ options' = options
  OBVIOUS
<1>3. /\ \A names : Positions(names)' = Positions(names)
      /\ \A o, default : LastNumber(o, default)' = LastNumber(o, default)
      /\ \A t : Mentions(t)' = Mentions(t)
      /\ HostIds' = HostIds
  BY <1>2, ReferenceStays
<1>4. ASSUME NEW t \in {"IDN"} \cup {argv[i].text : i \in DOMAIN argv}
      PROVE  t \in options'.disabledControllerTypes <=>
                IF Mentions(t)' = {} THEN t = "IDN" ELSE argv'[Last(Mentions(t)')].text = "--disable-controller-type"
  <2>1. Mentions(t)' = Mentions(t)
    BY <1>3
  <2> QED
    BY <1>2, <2>1, Zenon DEF OptionsFinished
<1>5. /\ options'.latencyMs = Clipped(0, LastNumber("--latency-ms", 1)', 5)
      /\ options'.maxLatencyMs = Clipped(options'.latencyMs, LastNumber("--max-latency-ms", 3)', 7)
      /\ options'.maxQueuedPoints = Clipped(2, LastNumber("--max-queue-points", 8)', U64)
      /\ options'.autoLatency <=> Positions({"--no-auto-latency"})' = {}
      /\ \A o, p \in options'.hostOptions : o[1] = p[1] => o = p
      /\ Host' \in HostIds'
      /\ Positions({"--virtual-controller"})' = {} => \A r \in Registrations : r.id = Host' => r.defaultSelection
  BY <1>1, <1>2, <1>3 DEF OptionsFinished
<1>6. \A t \in {"IDN"} \cup {argv'[i].text : i \in DOMAIN argv'} :
        t \in options'.disabledControllerTypes <=>
          IF Mentions(t)' = {} THEN t = "IDN" ELSE argv'[Last(Mentions(t)')].text = "--disable-controller-type"
  BY <1>2, <1>4, Zenon
<1> QED
  BY <1>5, <1>6, Zenon DEF OptionsFinished

LEMMA CliKeeps ==
  ASSUME CliInv, [CliNext]_cliVars
  PROVE  CliInv'
<1>1. CASE Register
  <2>1. PICK r \in unregistered : RegisterHost(r)
    BY <1>1 DEF Register
  <2>2. Registered'
    BY <2>1, RegisterKeeps DEF CliInv
  <2> QED
    BY <1>1, <2>2 DEF CliInv, Register
<1>2. CASE Launch
  <2>1. /\ argv' \in Args /\ arg' = 1 /\ options' = LinkOptions /\ options \in OptionValues /\ cli' = "parse"
        /\ options' = options /\ UNCHANGED <<unregistered, orderedInfos>> /\ unregistered = {}
    BY <1>2, CommandLineAssumption DEF CliInv, Launch, Args, registryVars
  <2>2. ReadUpTo(argv', arg', options') /\ IsOption(argv')[arg'] /\ arg' \in 1..(Len(argv') + 1)
    BY <2>1, ReadNothing, OptionReading DEF Args
  <2> QED
    BY <2>1, <2>2 DEF CliInv, Registered
<1>3. CASE ParseNoAutoLatency
  <2>1. /\ cli = "parse" /\ cli' = cli /\ arg' = arg + 1 /\ argv \in Args /\ arg \in 1..Len(argv)
        /\ UNCHANGED <<argv, unregistered, orderedInfos>>
    BY <1>3 DEF CliInv, ParseNoAutoLatency, Parsing, unparsed, registryVars, Args
  <2>2. ReadUpTo(argv, arg + 1, options') /\ IsOption(argv)[arg + 1] /\ options' \in OptionValues
    <3>1. arg \in DOMAIN argv
      BY <2>1 DEF Args
    <3> QED
      BY <1>3, <2>1, <3>1, ReadsFlag DEF CliInv
  <2>3. arg + 1 \in 1..(Len(argv) + 1)
    BY <2>1 DEF Args
  <2> QED
    BY <2>1, <2>2, <2>3 DEF CliInv, Registered
<1>4. CASE ParseOption
  <2>1. /\ cli = "parse" /\ cli' = cli /\ arg' = arg + 2 /\ argv \in Args /\ arg \in 1..Len(argv)
        /\ UNCHANGED <<argv, unregistered, orderedInfos>>
    BY <1>4 DEF CliInv, ParseOption, Parsing, unparsed, registryVars, Args
  <2>2. arg \in DOMAIN argv
    BY <2>1 DEF Args
  <2>3. ReadUpTo(argv, arg + 2, options') /\ IsOption(argv)[arg + 2]
    BY <1>4, <2>1, <2>2, ReadsOption DEF CliInv
  <2>4. options' \in OptionValues /\ arg + 1 \in DOMAIN argv
    BY <1>4, <2>1, <2>2, OptionEffect DEF CliInv
  <2>5. arg + 2 \in 1..(Len(argv) + 1)
    BY <2>1, <2>4 DEF Args
  <2> QED
    BY <2>1, <2>3, <2>4, <2>5 DEF CliInv, Registered
<1>5. CASE ParseEnds
  <2>1. UNCHANGED <<unregistered, orderedInfos>> /\ cli = "parse" /\ cli' \in {"exited", "discover"}
    BY <1>5 DEF ParseEnds, unparsed, registryVars, Exit
  <2>2. options' \in OptionValues
    BY <1>5 DEF ParseEnds, FinishedOptions, CliInv, OptionValues
  <2> QED
    BY <1>5, <2>1, <2>2, EndReads DEF CliInv, Registered
<1>6. CASE ParseHelp \/ ParseFails
  BY <1>6 DEF ParseHelp, ParseFails, Parsing, Exit, CliInv, Registered, unparsed, registryVars
<1>7. CASE Signal
  <2>1. UNCHANGED <<unregistered, orderedInfos, argv, arg, options>> /\ cli # "static" /\ (cli' = cli \/ cli' = "exited")
    BY <1>7 DEF Signal, Exit, registryVars
  <2> QED
    BY <2>1, FinishedStays DEF CliInv, Registered
<1>8. CASE Poll
  <2>1. UNCHANGED <<unregistered, orderedInfos, argv, arg, options>> /\ cli = "discover" /\ cli' \in {"discover", "connect"}
    BY <1>8 DEF Poll, registryVars
  <2> QED
    BY <2>1, FinishedStays DEF CliInv, Registered
<1>9. CASE Change
  <2>1. UNCHANGED <<unregistered, orderedInfos, argv, arg, options, cli>>
    BY <1>9 DEF Change, registryVars
  <2> QED
    BY <2>1, FinishedStays DEF CliInv, Registered
<1>10. CASE Stop \/ \E chosen \in SUBSET Controllers : Connect(chosen)
  <2>1. UNCHANGED <<unregistered, orderedInfos, options>> /\ cli # "static" /\ cli' \in {"running", "exited"}
    BY <1>10 DEF Stop, Connect, Exit, registryVars
  <2> QED
    BY <2>1 DEF CliInv, Registered
<1>11. CASE Done \/ UNCHANGED cliVars
  <2>1. UNCHANGED <<unregistered, orderedInfos, argv, arg, options, cli>>
    BY <1>11 DEF Done, cliVars, registryVars
  <2> QED
    BY <2>1, FinishedStays DEF CliInv, Registered
<1> QED
  BY <1>1, <1>2, <1>3, <1>4, <1>5, <1>6, <1>7, <1>8, <1>9, <1>10, <1>11 DEF CliNext, CliStep

(* For every command line that parseOptions() accepts the options are what  *)
(* the last argument of each kind says, clamped as the code's limits say,   *)
(* whatever the order of the arguments; and with no host named the program  *)
(* uses one that is flagged as default, in whichever order the static       *)
(* registrars ran.                                                          *)
THEOREM OptionsAreRead == CliSpec => []OptionsMatchReference
<1>1. CliInit => CliInv
  <2>1. LinkOptions \in OptionValues
    <3>1. "" \in Texts /\ {} \in SUBSET (Texts \X Texts) /\ {"IDN"} \in SUBSET Texts
      BY DEF Texts
    <3>2. /\ 4 \in Int /\ 0 \in Int /\ 6 \in Int /\ 8 \in Int /\ 1 \in Int /\ 3 \in Int
          /\ TRUE \in BOOLEAN
      OBVIOUS
    <3> QED
      BY <3>1, <3>2, Zenon DEF LinkOptions, OptionValues
  <2> QED
    BY <2>1 DEF CliInit, RegistryInit, CliInv, Registered
<1>2. CliInv => OptionsMatchReference
  BY Zenon DEF CliInv, OptionsFinished, OptionsMatchReference
<1> QED
  BY <1>1, <1>2, CliKeeps, PTL DEF CliSpec
=============================================================================
