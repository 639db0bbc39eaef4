----------------------------- MODULE GuiSettings -----------------------------
(***************************************************************************)
(* The settings of the graphical program: four lists in memory, each saved  *)
(* to a text file of its own whenever it changes and loaded when the        *)
(* program starts.  A save truncates the file and writes it again; nothing  *)
(* looks at its result.  Each frame begins by bringing the lists in line    *)
(* with the registered hosts and the discovered controllers.                *)
(***************************************************************************)
EXTENDS Integers, Sequences, FiniteSets

CONSTANTS
  Ids,            \* controller ids
  Lossy,          \* ids whose line does not load as it was saved: "#" or blanks at an end, a tab
  Types,          \* controller types
  HostSets,       \* the hosts a build of the program may have
  MaxFaults       \* saves that fail

(* The marks for what is not there are none of the names.                   *)
ASSUME SettingsAssumption ==
  /\ Lossy \subseteq Ids /\ "no results" \notin Ids
  /\ "IDN" \in Types /\ "missing" \notin Types
  /\ \A H \in HostSets : "idn" \in H /\ "unset" \notin H

VARIABLES
  gui,                      \* "down", or how far the frame is: "top", "pruned" or "open"
  available,                \* availableVirtualControllerHosts
  disabledTypes,            \* disabledControllerTypes
  hostId,                   \* linkOptions.virtualControllerHostId
  routes,                   \* controllerHostRoutes: a host or Unset for each id
  enabled,                  \* enabledControllers
  saved,                    \* the four files
  snapshot,                 \* the linkable controllers of this frame's snapshot, or NoResults
  stale,                    \* files whose last save failed
  faults

lists == <<disabledTypes, hostId, routes, enabled>>
settingsVars == <<gui, available, lists, saved, snapshot, stale, faults>>

Unset == "unset"
Missing == {"missing"}                   \* no file of disabled types
NoResults == {"no results"}
NoRoutes == [c \in Ids |-> Unset]
DefaultHostId == "idn"
Files == {"types", "host", "routes", "enabled"}

(* What each loader makes of its file.                                      *)
LoadTypes(f) == IF f.types = Missing THEN {"IDN"} ELSE f.types
LoadHost(f) == IF f.host = Unset THEN DefaultHostId ELSE f.host
LoadRoutes(f) == [c \in Ids |-> IF c \in Lossy THEN Unset ELSE f.routes[c]]
LoadEnabled(f) == f.enabled \ Lossy

(* A file as a save that fails half way leaves it.                          *)
Truncated == [types |-> {}, host |-> Unset, routes |-> NoRoutes, enabled |-> {}]

SettingsInit ==
  /\ gui = "down" /\ available \in HostSets /\ snapshot = NoResults
  /\ disabledTypes = {} /\ hostId = DefaultHostId /\ routes = NoRoutes /\ enabled = {}
  /\ saved = [Truncated EXCEPT !.types = Missing] /\ stale = {} /\ faults = 0

(* The file is written, or cannot be opened, or is left truncated.          *)
Save(file, content) ==
  \/ saved' = [saved EXCEPT ![file] = content] /\ stale' = stale \ {file} /\ UNCHANGED faults
  \/ /\ faults < MaxFaults /\ faults' = faults + 1 /\ stale' = stale \cup {file}
     /\ saved' \in {saved, [saved EXCEPT ![file] = Truncated[file]]}

Unsaved == UNCHANGED <<saved, stale, faults>>
------------------------------------------------------------------------------
(* Start and end of the program *)

LaunchGui(hosts) ==
  /\ gui = "down" /\ gui' = "top" /\ available' = hosts
  /\ disabledTypes' = LoadTypes(saved) /\ hostId' = LoadHost(saved)
  /\ routes' = LoadRoutes(saved) /\ enabled' = LoadEnabled(saved)
  /\ stale' = {} /\ UNCHANGED <<saved, snapshot, faults>>

(* Closed, or killed.                                                       *)
CloseGui ==
  /\ gui # "down" /\ gui' = "down" /\ snapshot' = NoResults
  /\ disabledTypes' = {} /\ hostId' = DefaultHostId /\ routes' = NoRoutes /\ enabled' = {}
  /\ stale' = {} /\ UNCHANGED <<available, saved, faults>>

(* The plugins window starts the program again and exits at once: nothing   *)
(* is saved on the way out.                                                 *)
RelaunchGui ==
  /\ gui = "open" /\ gui' = "top" /\ snapshot' = NoResults
  /\ disabledTypes' = LoadTypes(saved) /\ hostId' = LoadHost(saved)
  /\ routes' = LoadRoutes(saved) /\ enabled' = LoadEnabled(saved)
  /\ stale' = {} /\ UNCHANGED <<available, saved, faults>>
------------------------------------------------------------------------------
(* The top of a frame: the runtime has found nothing yet, or some controllers *)

KnownHost(h) == IF h \in available THEN h ELSE DefaultHostId

(* Mistake: routes to hosts that are not there are kept.                    *)
KnownRoutesAll == routes

KnownRoutes == [c \in Ids |-> IF routes[c] \in available THEN routes[c] ELSE Unset]

FrameBegins(found) ==
  /\ gui = "top" /\ gui' = "pruned" /\ snapshot' = found
  /\ hostId' = KnownHost(hostId) /\ routes' = KnownRoutes
  /\ IF routes' # routes THEN Save("routes", routes') ELSE Unsaved
  /\ UNCHANGED <<available, disabledTypes, enabled>>

Present == IF snapshot = NoResults THEN enabled ELSE enabled \cap snapshot

(* Mistake: the pruned list is not saved.                                   *)
FramePrunesUnsaved ==
  /\ gui = "pruned" /\ gui' = "open" /\ enabled' = Present /\ Unsaved
  /\ UNCHANGED <<available, disabledTypes, hostId, routes, snapshot>>

(* An enabled controller that the last scan did not find is forgotten.      *)
FramePrunes ==
  /\ gui = "pruned" /\ gui' = "open" /\ enabled' = Present
  /\ IF enabled' # enabled THEN Save("enabled", enabled') ELSE Unsaved
  /\ UNCHANGED <<available, disabledTypes, hostId, routes, snapshot>>

FrameEnds ==
  /\ gui = "open" /\ gui' = "top" /\ UNCHANGED <<available, lists, saved, snapshot, stale, faults>>
------------------------------------------------------------------------------
(* What the user does *)

Linkable == IF snapshot = NoResults THEN {} ELSE snapshot

SetEnabled(S) ==
  /\ gui = "open" /\ enabled' = S /\ Save("enabled", S)
  /\ UNCHANGED <<gui, available, disabledTypes, hostId, routes, snapshot>>

PowerClicked(c) ==
  /\ c \in Linkable
  /\ SetEnabled(IF c \in enabled THEN enabled \ {c} ELSE enabled \cup {c})

BulkClicked == Linkable # {} /\ (SetEnabled({}) \/ SetEnabled(Linkable))

(* Choosing the default host removes the route.                             *)
RouteTo(c, h) == [routes EXCEPT ![c] = IF h = hostId THEN Unset ELSE h]

RouteChosen(c, h) ==
  /\ gui = "open" /\ c \in Linkable /\ h \in available \cup {Unset}
  /\ routes' = RouteTo(c, h) /\ Save("routes", routes')
  /\ UNCHANGED <<gui, available, disabledTypes, hostId, enabled, snapshot>>

DefaultChosen(h) ==
  /\ gui = "open" /\ h \in available /\ hostId' = h /\ Save("host", h)
  /\ UNCHANGED <<gui, available, disabledTypes, routes, enabled, snapshot>>

SetDisabled(S) ==
  /\ gui = "open" /\ disabledTypes' = S /\ Save("types", S)
  /\ UNCHANGED <<gui, available, hostId, routes, enabled, snapshot>>

EnableAllClicked == disabledTypes # {} /\ SetDisabled({})
TypeClicked(t) == SetDisabled(IF t \in disabledTypes THEN disabledTypes \ {t} ELSE disabledTypes \cup {t})

(* The plugin library keeps the choice of a driver; the types are saved     *)
(* with it.                                                                 *)
DriverChosen == SetDisabled(disabledTypes)

SettingsNext ==
  \/ (\E hosts \in HostSets : LaunchGui(hosts)) \/ CloseGui \/ RelaunchGui
  \/ (\E found \in (SUBSET Ids) \cup {NoResults} : FrameBegins(found)) \/ FramePrunes \/ FrameEnds
  \/ (\E c \in Ids : PowerClicked(c)) \/ BulkClicked
  \/ \E c \in Ids, h \in (UNION HostSets) \cup {Unset} : RouteChosen(c, h)
  \/ \E h \in UNION HostSets : DefaultChosen(h)
  \/ EnableAllClicked \/ (\E t \in Types : TypeClicked(t)) \/ DriverChosen

SettingsSpec == SettingsInit /\ [][SettingsNext]_settingsVars
------------------------------------------------------------------------------
(* The host a controller is linked through (launchSelectedStart).           *)
HostFor(c) == IF routes[c] # Unset THEN routes[c] ELSE hostId

(* start() is never asked for a host that is not registered, although the   *)
(* files may name hosts of another build.                                   *)
RoutesKnown == gui = "open" => \A c \in Ids : HostFor(c) \in available

(* While the program runs, what the next start would load is what is in     *)
(* memory: every change, the prunings at the top of a frame included, is    *)
(* saved.  Lists whose last save failed, and ids that the line format       *)
(* cannot carry, are excepted.                                              *)
SavedMatchesMemory ==
  gui = "open" =>
    /\ "types" \in stale \/ LoadTypes(saved) = disabledTypes
    /\ "host" \in stale \/ KnownHost(LoadHost(saved)) = hostId
    /\ "routes" \in stale \/ \A c \in Ids \ Lossy : LoadRoutes(saved)[c] = routes[c]
    /\ "enabled" \in stale \/ LoadEnabled(saved) = enabled \ Lossy

(* The settings as a whole: what is saved is what is in memory, and every   *)
(* route leads to a registered host.                                        *)
SettingsConsistent == SavedMatchesMemory /\ RoutesKnown
=============================================================================
