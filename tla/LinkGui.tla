------------------------------ MODULE LinkGui ------------------------------
(***************************************************************************)
(* The main loop of gui_main.cpp on top of LinkRuntime: each frame polls    *)
(* the futures of the calls in flight, takes a snapshot, lets the user act  *)
(* and then decides which call to launch next.                              *)
(*                                                                          *)
(* A call is in flight (scanInFlight, startInFlight, stopInFlight) from its *)
(* launch until a frame has polled its future.                              *)
(***************************************************************************)
EXTENDS LinkRuntime

CONSTANTS
  DefaultHost,    \* the registry's default virtual controller host
  SavedRoutes,    \* the controllerHostRoutes the settings may hold at startup
  MaxUserActions  \* bound on what the user does

ASSUME GuiAssumption ==
  /\ DefaultHost \in Hosts
  /\ SavedRoutes \subseteq UNION {[D -> Hosts \cup {UnknownHost}] : D \in SUBSET Controllers}
  /\ MaxUserActions \in Nat

VARIABLES
  gui,         \* "poll", "act", "request" within a frame; then shutting down
  shown,       \* the snapshot of this frame
  pending,     \* linkSyncPending
  rescan,      \* rescanInFlight
  enabled,     \* enabledControllers
  route,       \* controllerHostRoutes, a partial function
  defaultHost, \* linkOptions.virtualControllerHostId
  options,     \* linkOptions
  actions      \* user actions left

guiVars == <<gui, shown, pending, rescan, enabled, route, defaultHost, options, actions>>
vars == <<runtimeVars, guiVars>>

Frame(g) == ~terminated /\ gui = g
InFlight(k) == task[k].pc # "off"
NothingInFlight == \A k \in {"scan", "start", "stop"} : ~InFlight(k)
LinkRunning == shown.state \in {"Running", "StopRequested"}
SelectedLinkableIds(chosen) == chosen \cap shown.discovered
HostFor(c) == IF c \in DOMAIN route THEN route[c] ELSE defaultHost

Launched(k, want) == [task EXCEPT ![k] = [Idle EXCEPT !.pc = "begin", !.want = want,
                                          !.options = options]]
LaunchedStop(k) == [task EXCEPT ![k] = [Idle EXCEPT !.pc = "flag"]]

Init ==
  /\ RuntimeInit
  /\ gui = "poll" /\ shown = [state |-> "Stopped", discovered |-> {}, targets |-> {}]
  /\ pending = FALSE /\ rescan = FALSE
  /\ enabled \in SUBSET Controllers /\ route \in SavedRoutes
  /\ defaultHost \in {DefaultHost, UnknownHost} /\ options \in OptionSets
  /\ actions = MaxUserActions
  /\ task = [k \in Calls |-> IF k = "scan" THEN [Idle EXCEPT !.pc = "begin", !.options = options]
                                           ELSE Idle]
------------------------------------------------------------------------------
(* Mistake: a rescan whose start came back is not over.                     *)
CollectKeepsRescan ==
  /\ task' = [k \in Calls |-> IF task[k].pc = "ready" THEN Idle ELSE task[k]]
  /\ pending' = (pending \/ task["scan"].pc = "ready")
  /\ rescan' = rescan
  /\ shown' = [state |-> state, discovered |-> discovered, targets |-> targets]

(* Collects the finished calls and takes the frame's snapshot.              *)
Collect ==
  /\ task' = [k \in Calls |-> IF task[k].pc = "ready" THEN Idle ELSE task[k]]
  /\ pending' = (pending \/ task["scan"].pc = "ready")
  /\ rescan' = (rescan /\ task["start"].pc # "ready")
  /\ shown' = [state |-> state, discovered |-> discovered, targets |-> targets]

(* Mistake: saved hosts that are not registered any more are kept.          *)
PruneKeepsRoutes ==
  /\ UNCHANGED <<defaultHost, route>>
  /\ enabled' = IF hasResults THEN enabled \cap discovered ELSE enabled

(* Host ids that are not registered and enabled controllers that the last   *)
(* discovery did not find are dropped from the settings.                    *)
Prune ==
  /\ defaultHost' = IF defaultHost \in Hosts THEN defaultHost ELSE DefaultHost
  /\ route' = [c \in {d \in DOMAIN route : route[d] \in Hosts} |-> route[c]]
  /\ enabled' = IF hasResults THEN enabled \cap discovered ELSE enabled

Poll ==
  /\ Frame("poll") /\ gui' = "act" /\ Collect /\ Prune
  /\ UNCHANGED <<state, stopRequested, monitor, linkVars, discoveryVars, activeOptions,
                 terminated, options, actions>>

UserActs == Frame("act") /\ actions > 0 /\ actions' = actions - 1

(* Changing the selection or a route asks for a sync, and asks a start that *)
(* is in flight to stop: the flag first, the state in RequestState.         *)
RequestSync ==
  /\ pending' = TRUE
  /\ IF InFlight("start") THEN stopRequested' = TRUE /\ gui' = "request"
                          ELSE UNCHANGED <<stopRequested, gui>>
  /\ UNCHANGED <<state, monitor, linkVars, discoveryVars, activeOptions, task, terminated>>

TogglePower(c) ==
  /\ UserActs /\ c \in shown.discovered /\ RequestSync
  /\ enabled' = IF c \in enabled THEN enabled \ {c} ELSE enabled \cup {c}
  /\ UNCHANGED <<shown, rescan, route, defaultHost, options>>

(* A route to the default host is no route.                                 *)
ChangeRoute(c, h) ==
  /\ UserActs /\ c \in shown.discovered /\ RequestSync
  /\ route' = IF h = defaultHost
                THEN [d \in DOMAIN route \ {c} |-> route[d]]
                ELSE [d \in DOMAIN route \cup {c} |-> IF d = c THEN h ELSE route[d]]
  /\ UNCHANGED <<shown, rescan, enabled, defaultHost, options>>

ChangeDefault(h) ==
  /\ UserActs /\ NothingInFlight /\ ~rescan
  /\ defaultHost' = h /\ pending' = TRUE
  /\ UNCHANGED <<runtimeVars, gui, shown, rescan, enabled, route, options>>

RequestState ==
  /\ (Frame("request") \/ Frame("closeState")) /\ RequestStopState
  /\ gui' = IF gui = "request" THEN "act" ELSE "waiting"
  /\ UNCHANGED <<stopRequested, monitor, linkVars, discoveryVars, activeOptions, task,
                 terminated, shown, pending, rescan, enabled, route, defaultHost, options, actions>>

AllControllersRunning == shown.state = "Running" /\ shown.discovered \subseteq shown.targets

StartOrStopAll ==
  /\ UserActs /\ NothingInFlight /\ ~rescan /\ shown.discovered # {}
  /\ enabled' = IF AllControllersRunning THEN {} ELSE shown.discovered
  /\ pending' = TRUE
  /\ UNCHANGED <<runtimeVars, gui, shown, rescan, route, defaultHost, options>>

(* RESCAN: a running link is stopped and started again without its cache.   *)
RescanClicked ==
  /\ UserActs /\ NothingInFlight /\ ~rescan
  /\ IF LinkRunning
       THEN cache' = {} /\ rescan' = TRUE /\ pending' = FALSE /\ UNCHANGED task
       ELSE task' = Launched("scan", {}) /\ UNCHANGED <<cache, rescan, pending>>
  /\ UNCHANGED <<state, stopRequested, monitor, linkVars, discovered, hasResults, systemOptions,
                 activeOptions, terminated, gui, shown, enabled, route, defaultHost, options>>

(* requestDiscoverySettingsSync: other controller types, or other AVB       *)
(* interfaces or rates, which leave the options of the link as they are;    *)
(* the AVB window is locked while a call is in flight.                      *)
ChangeSettings(o) ==
  /\ UserActs /\ options' = o
  /\ o # options \/ (NothingInFlight /\ ~rescan)
  /\ IF NothingInFlight /\ ~rescan
       THEN /\ pending' = FALSE /\ rescan' = LinkRunning
            /\ task' = IF LinkRunning THEN task
                       ELSE [task EXCEPT !["scan"] = [Idle EXCEPT !.pc = "begin", !.options = o]]
            /\ UNCHANGED <<stopRequested, gui>>
       ELSE /\ pending' = TRUE
            /\ IF InFlight("start") THEN stopRequested' = TRUE /\ gui' = "request"
                                    ELSE UNCHANGED <<stopRequested, gui>>
            /\ UNCHANGED <<rescan, task>>
  /\ UNCHANGED <<state, monitor, linkVars, discoveryVars, activeOptions, terminated,
                 shown, enabled, route, defaultHost>>
------------------------------------------------------------------------------
(* Mistake: a call is launched while a stop is still in flight.             *)
DispatchReadyEarly == ~InFlight("scan") /\ ~InFlight("start")

DispatchReady == NothingInFlight

(* The end of the frame: at most one call is launched.                      *)
Dispatch ==
  LET ids == SelectedLinkableIds(enabled)
      want == {<<HostFor(c), c>> : c \in ids}
  IN /\ Frame("act") /\ gui' = "poll"
     /\ IF ~DispatchReady \/ ~(rescan \/ pending) THEN UNCHANGED <<task, pending, rescan>>
        ELSE IF rescan /\ LinkRunning
          THEN task' = LaunchedStop("stop") /\ UNCHANGED <<pending, rescan>>
        ELSE IF ids # {}
          THEN task' = Launched("start", want) /\ pending' = FALSE /\ UNCHANGED rescan
        ELSE IF rescan
          THEN rescan' = FALSE /\ UNCHANGED <<task, pending>>
        ELSE /\ pending' = FALSE /\ UNCHANGED rescan
             /\ task' = IF LinkRunning THEN LaunchedStop("stop") ELSE task
     /\ UNCHANGED <<state, stopRequested, monitor, linkVars, discoveryVars, activeOptions,
                    terminated, shown, enabled, route, defaultHost, options, actions>>
------------------------------------------------------------------------------
(* The window closes, which ends the loop between two frames: requestStop(), *)
(* wait for the futures, stop().                                            *)
Close ==
  /\ Frame("poll") /\ gui' = "closeState" /\ stopRequested' = TRUE
  /\ UNCHANGED <<state, monitor, linkVars, discoveryVars, activeOptions, task, terminated,
                 shown, pending, rescan, enabled, route, defaultHost, options, actions>>

CloseWait ==
  /\ Frame("waiting") /\ gui' = "stopping"
  /\ \A k \in {"scan", "start", "stop"} : task[k].pc \in {"off", "ready"}
  /\ task' = LaunchedStop("exit")
  /\ UNCHANGED <<state, stopRequested, monitor, linkVars, discoveryVars, activeOptions, terminated,
                 shown, pending, rescan, enabled, route, defaultHost, options, actions>>

CloseDone ==
  /\ Frame("stopping") /\ task["exit"].pc = "ready" /\ gui' = "gone"
  /\ UNCHANGED <<runtimeVars, shown, pending, rescan, enabled, route, defaultHost, options, actions>>

UserAction ==
  \/ \E c \in Controllers : TogglePower(c) \/ \E h \in Hosts : ChangeRoute(c, h)
  \/ (\E h \in Hosts : ChangeDefault(h))
  \/ StartOrStopAll \/ RescanClicked
  \/ \E o \in OptionSets : ChangeSettings(o)

GuiStep == Poll \/ RequestState \/ Dispatch \/ CloseWait \/ CloseDone
RuntimeStep == (CallStep \/ MonitorExit) /\ UNCHANGED guiVars

Next == UserAction \/ Close \/ GuiStep \/ RuntimeStep

Spec == Init /\ [][Next]_vars

(* The frame loop, the asynchronous calls and the monitor thread run; the   *)
(* user does what he likes.                                                 *)
Fairness ==
  /\ WF_vars(GuiStep)
  /\ WF_vars(CallStep /\ UNCHANGED guiVars)
  /\ WF_vars(MonitorExit /\ UNCHANGED guiVars)

FairSpec == Spec /\ Fairness
------------------------------------------------------------------------------
States == {"Stopped", "Scanning", "Starting", "Running", "StopRequested", "Failed"}
Links == Hosts \X Controllers
Positions == {"off", "ready", "begin", "configure", "discover", "fresh", "connect", "launch",
              "monitor", "update", "reconnect", "apply", "flag", "state", "join", "take",
              "hosts", "done"}

(* Every variable holds a value of its type; in particular no call is ever  *)
(* launched with a host that is not registered, whatever the settings held. *)
TypeOK ==
  /\ state \in States /\ stopRequested \in BOOLEAN /\ monitor \in {"none", "run", "exited"}
  /\ hosts \subseteq Links /\ live \subseteq Links
  /\ targets \subseteq Controllers
  /\ cache \subseteq Controllers /\ discovered \subseteq Controllers /\ hasResults \in BOOLEAN
  /\ systemOptions \in OptionSets \cup {"none"} /\ activeOptions \in OptionSets \cup {"none"}
  /\ task \in [Calls -> [pc : Positions, after : {"ready", "begin"}, want : SUBSET Links,
                         made : SUBSET Links, options : OptionSets \cup {"none"}]]
  /\ terminated \in BOOLEAN
  /\ gui \in {"poll", "act", "request", "closeState", "waiting", "stopping", "gone"}
  /\ shown \in [state : States, discovered : SUBSET Controllers, targets : SUBSET Controllers]
  /\ pending \in BOOLEAN /\ rescan \in BOOLEAN
  /\ enabled \subseteq Controllers /\ defaultHost \in Hosts \cup {UnknownHost}
  /\ DOMAIN route \subseteq Controllers /\ \A c \in DOMAIN route : route[c] \in Hosts \cup {UnknownHost}
  /\ options \in OptionSets /\ actions \in 0..MaxUserActions

(* Nothing is executing in the runtime.                                     *)
Executing(k) == task[k].pc \notin {"off", "ready"}
AtRest == ~terminated /\ \A k \in Calls : ~Executing(k)

(* Two calls never execute at the same time, which LinkRuntime relies on:   *)
(* it moves its threads and vectors outside the lock.  The frame loop       *)
(* ensures it with the three in-flight flags.                               *)
CallsExclusive == \A j, k \in Calls : Executing(j) /\ Executing(k) => j = k

(* At rest every running host is one that stop() will find, and serves the  *)
(* targets the runtime lists; a stopped runtime serves none.  No path out   *)
(* of start(), an update or stop() leaves a host behind.                    *)
HostsAccountedFor ==
  AtRest => /\ live = hosts /\ targets = ControllersOf(hosts)
            /\ state = "Stopped" => live = {}

(* When the window has closed no host serves and no thread is left, however *)
(* the last click raced with a scan, a start or a stop.                     *)
ShutdownReleasesAll == gui = "gone" => live = {} /\ targets = {} /\ monitor = "none"

(* The link as a whole: no call asks for an unknown host, at rest the       *)
(* runtime knows of every host that serves, and a closed window leaves      *)
(* none.                                                                    *)
LinkConsistent == TypeOK /\ HostsAccountedFor /\ ShutdownReleasesAll

(* Closing the window ends the program: the futures become ready, the       *)
(* monitor can be joined.                                                   *)
CloseReturns == (gui = "closeState") ~> (gui = "gone" \/ terminated)

(* Without further clicks the frame loop comes to rest: no sync or rescan   *)
(* is pending for ever and none starts another one.                         *)
Settled == NothingInFlight /\ ~pending /\ ~rescan
GuiSettles == (actions = 0) ~> (Settled \/ gui = "gone" \/ terminated)

(* docs/internals.md: LinkRuntime "stops the virtual controller host and    *)
(* releases controllers on shutdown": the process never ends in             *)
(* std::terminate with its hosts running.                                   *)
NeverTerminates == ~terminated

(* README.md: "The app starts the selected host and shows one active        *)
(* endpoint per enabled controller", once a frame has settled.              *)
OneEndpointPerEnabled ==
  gui = "act" /\ Settled /\ LinkRunning => shown.targets = SelectedLinkableIds(enabled)
=============================================================================
