---------------------------- MODULE LinkRuntime ----------------------------
(***************************************************************************)
(* The lifecycle of class LinkRuntime: scan(), start() (a fresh start or an *)
(* update of a running link), requestStop(), stop() and the monitor thread. *)
(* Each call runs on a thread of its own and is split where the runtime's   *)
(* mutex is released or where stopRequested is read or written.             *)
(*                                                                          *)
(* A link is a pair <<host, controller>>: controllers routed to the same    *)
(* host type share one host instance (no registered host asks for separate  *)
(* instances).  Controllers, hosts and their failures are external.         *)
(***************************************************************************)
EXTENDS Integers, FiniteSets

CONSTANTS
  Controllers,        \* controllers that may be discovered
  Hosts,              \* registered virtual controller hosts
  UnknownHost,        \* a host id that is not registered
  OptionSets,         \* runtime options that force a restart when they change
  DiscoveryResults,   \* what a discovery may return
  ConnectMayFail,     \* may a controller refuse to connect?
  HostMayFail         \* may a host fail to start?

ASSUME RuntimeAssumption ==
  /\ UnknownHost \notin Hosts
  /\ DiscoveryResults \subseteq SUBSET Controllers
  /\ ConnectMayFail \in BOOLEAN /\ HostMayFail \in BOOLEAN

VARIABLES
  state,          \* impl_->state
  stopRequested,  \* impl_->stopRequested
  monitor,        \* monitorThread: "none", "run", or "exited" but not joined
  hosts,          \* virtualControllerHosts, as links
  targets,        \* impl_->targets
  live,           \* the links that running host instances really serve
  cache,          \* discoveredControllerInfos
  discovered,     \* the discovered controllers a snapshot shows
  hasResults,     \* hasDiscoveryResults
  systemOptions,  \* options liberaSystem was built with
  activeOptions,  \* impl_->activeOptions
  task,           \* the calls in flight
  terminated      \* std::terminate was called

linkVars == <<hosts, targets, live>>
discoveryVars == <<cache, discovered, hasResults, systemOptions>>
runtimeVars == <<state, stopRequested, monitor, linkVars, discoveryVars, activeOptions,
                 task, terminated>>

Calls == {"scan", "start", "stop", "exit"}
Busy == {"Scanning", "Starting", "StopRequested"}
Idle == [pc |-> "off", after |-> "ready", want |-> {}, made |-> {}, options |-> "none"]

ControllersOf(links) == {l[2] : l \in links}
HostsOf(links) == {l[1] : l \in links}
LinksOf(links, h) == {l \in links : l[1] = h}

RuntimeInit ==
  /\ state = "Stopped" /\ stopRequested = FALSE /\ monitor = "none"
  /\ hosts = {} /\ targets = {} /\ live = {}
  /\ cache = {} /\ discovered = {} /\ hasResults = FALSE /\ systemOptions = "none" /\ activeOptions = "none"
  /\ terminated = FALSE

At(k, from) == ~terminated /\ task[k].pc = from
Goto(k, from, to) == At(k, from) /\ task' = [task EXCEPT ![k].pc = to]
------------------------------------------------------------------------------
(* scan() *)

ScanBegin ==
  /\ IF state \in Busy \cup {"Running"}
       THEN Goto("scan", "begin", "ready") /\ UNCHANGED <<state, discovered, hasResults>>
       ELSE /\ Goto("scan", "begin", "configure") /\ state' = "Scanning"
            /\ discovered' = {} /\ hasResults' = FALSE
  /\ UNCHANGED <<stopRequested, monitor, linkVars, cache, systemOptions, activeOptions, terminated>>

(* stopRequested is cleared after the state is set; the cache is dropped.   *)
ScanConfigure ==
  /\ Goto("scan", "configure", "discover")
  /\ stopRequested' = FALSE /\ cache' = {} /\ systemOptions' = task["scan"].options
  /\ UNCHANGED <<state, monitor, linkVars, discovered, hasResults, activeOptions, terminated>>

(* discoverControllers returns early when a stop is requested.              *)
ScanFinish ==
  /\ Goto("scan", "discover", "ready")
  /\ IF stopRequested THEN state' = "Stopped" /\ UNCHANGED <<cache, discovered, hasResults>>
     ELSE \E found \in DiscoveryResults :
            /\ cache' = found /\ discovered' = found /\ hasResults' = TRUE
            /\ state' \in IF found = {} THEN {"Stopped", "Failed"} ELSE {"Stopped"}
  /\ UNCHANGED <<stopRequested, monitor, linkVars, systemOptions, activeOptions, terminated>>

Scan == ScanBegin \/ ScanConfigure \/ ScanFinish
------------------------------------------------------------------------------
(* start(), when nothing is running *)

StartBegin ==
  /\ CASE state = "Running" -> Goto("start", "begin", "update") /\ UNCHANGED state
       [] state \in Busy    -> Goto("start", "begin", "ready") /\ UNCHANGED state
       [] OTHER             -> Goto("start", "begin", "fresh") /\ state' = "Starting"
  /\ UNCHANGED <<stopRequested, monitor, linkVars, discoveryVars, activeOptions, terminated>>

StartFresh ==
  /\ Goto("start", "fresh", "configure") /\ stopRequested' = FALSE
  /\ UNCHANGED <<state, monitor, linkVars, discoveryVars, activeOptions, terminated>>

(* configureLiberaSystem forgets the controllers when the options changed.  *)
StartConfigure ==
  LET known == IF systemOptions = task["start"].options THEN cache ELSE {}
  IN /\ Goto("start", "configure", IF known = {} THEN "discover" ELSE "connect")
     /\ cache' = known /\ systemOptions' = task["start"].options /\ state' = "Starting"
     /\ UNCHANGED <<stopRequested, monitor, linkVars, discovered, hasResults, activeOptions,
                    terminated>>

StartDiscover ==
  /\ \/ /\ stopRequested /\ state' = "Stopped"
        /\ Goto("start", "discover", "ready") /\ UNCHANGED <<cache, discovered, hasResults>>
     \/ /\ ~stopRequested
        /\ \E found \in DiscoveryResults :
             /\ discovered' = found /\ hasResults' = TRUE
             /\ IF found = {}
                  THEN /\ Goto("start", "discover", "ready")
                       /\ state' = "Failed" /\ UNCHANGED cache
                  ELSE /\ Goto("start", "discover", "connect")
                       /\ cache' = found /\ UNCHANGED state
  /\ UNCHANGED <<stopRequested, monitor, linkVars, systemOptions, activeOptions, terminated>>

(* The links a connect loop over the wanted controllers may end up with.    *)
Connected(wanted, present) ==
  LET possible == {l \in wanted : l[2] \in present}
  IN IF ConnectMayFail THEN SUBSET possible ELSE {possible}

StartConnect ==
  /\ \E links \in Connected(task["start"].want, cache) :
       LET unknown == UnknownHost \in HostsOf(links)
       IN /\ At("start", "connect")
          /\ IF stopRequested \/ links = {} \/ unknown
               THEN /\ Goto("start", "connect", "ready")
                    /\ state' = IF stopRequested THEN "Stopped" ELSE "Failed"
               ELSE /\ task' = [task EXCEPT !["start"].pc = "launch",
                                            !["start"].want = links, !["start"].made = {}]
                    /\ UNCHANGED state
  /\ UNCHANGED <<stopRequested, monitor, linkVars, discoveryVars, activeOptions, terminated>>

(* Mistake: a failed start forgets the hosts it had already started.        *)
StartHostLeaks(h) ==
  LET t == task["start"] new == LinksOf(t.want, h)
  IN /\ At("start", "launch") /\ h \in HostsOf(t.want) \ HostsOf(t.made)
     /\ \/ /\ HostMayFail /\ live' = live
           /\ state' = "Failed" /\ Goto("start", "launch", "ready")
        \/ /\ stopRequested /\ live' = hosts
           /\ state' = "Stopped" /\ Goto("start", "launch", "ready")
        \/ /\ ~stopRequested /\ live' = live \cup new
           /\ task' = [task EXCEPT !["start"].made = t.made \cup new] /\ UNCHANGED state
     /\ UNCHANGED <<stopRequested, monitor, hosts, targets, discoveryVars, activeOptions, terminated>>

(* One host instance of the group: it fails, or starts and finds a stop     *)
(* requested, or starts; in the first two cases the ones before it stop and *)
(* only what the runtime already had keeps running.                         *)
StartHost(h) ==
  LET t == task["start"] new == LinksOf(t.want, h)
  IN /\ At("start", "launch") /\ h \in HostsOf(t.want) \ HostsOf(t.made)
     /\ \/ /\ HostMayFail /\ live' = hosts
           /\ state' = "Failed" /\ Goto("start", "launch", "ready")
        \/ /\ stopRequested /\ live' = hosts
           /\ state' = "Stopped" /\ Goto("start", "launch", "ready")
        \/ /\ ~stopRequested /\ live' = live \cup new
           /\ task' = [task EXCEPT !["start"].made = t.made \cup new] /\ UNCHANGED state
     /\ UNCHANGED <<stopRequested, monitor, hosts, targets, discoveryVars, activeOptions, terminated>>

(* The new hosts replace the old ones, whose destructors stop them.         *)
StartPublish ==
  LET t == task["start"]
  IN /\ At("start", "launch") /\ t.made = t.want /\ Goto("start", "launch", "monitor")
     /\ live' = t.made /\ hosts' = t.made /\ targets' = ControllersOf(t.made)
     /\ activeOptions' = t.options /\ state' = "Running"
     /\ UNCHANGED <<stopRequested, monitor, discoveryVars, terminated>>

(* Assigning to a joinable std::thread ends the process.                    *)
StartMonitor ==
  /\ Goto("start", "monitor", "ready")
  /\ IF monitor = "none" THEN monitor' = "run" /\ UNCHANGED terminated
                         ELSE terminated' = TRUE /\ UNCHANGED monitor
  /\ UNCHANGED <<state, stopRequested, linkVars, discoveryVars, activeOptions>>
------------------------------------------------------------------------------
(* start(), when the link is running *)

(* Changed runtime options: stop() and start() again.                       *)
UpdateOptions ==
  /\ At("start", "update")
  /\ task' = IF activeOptions = task["start"].options
               THEN [task EXCEPT !["start"].pc = "reconnect"]
               ELSE [task EXCEPT !["start"].pc = "flag", !["start"].after = "begin"]
  /\ UNCHANGED <<state, stopRequested, monitor, linkVars, discoveryVars, activeOptions, terminated>>

(* Connects what is not linked yet.  An unknown host fails the update and   *)
(* leaves the running hosts as they are.                                    *)
UpdateConnect ==
  /\ At("start", "reconnect")
  /\ LET t == task["start"]
         kept == {l \in t.want : l[2] \in targets}
     IN \E new \in Connected(t.want \ kept, cache) :
          LET desired == kept \cup new
          IN IF UnknownHost \in HostsOf(desired)
               THEN state' = "Failed" /\ Goto("start", "reconnect", "ready")
             ELSE IF desired = {}
               THEN /\ task' = [task EXCEPT !["start"].pc = "flag", !["start"].after = "ready"]
                    /\ UNCHANGED state
             ELSE /\ task' = [task EXCEPT !["start"].pc = "apply", !["start"].want = desired]
                  /\ UNCHANGED state
  /\ UNCHANGED <<stopRequested, monitor, linkVars, discoveryVars, activeOptions, terminated>>

(* Under the lock: hosts that are not wanted stop, unchanged ones stay, the *)
(* others get or lose targets or are started again.                         *)
UpdateApply ==
  LET desired == task["start"].want
  IN /\ Goto("start", "apply", "ready")
     /\ live' = desired /\ hosts' = desired /\ targets' = ControllersOf(desired)
     /\ activeOptions' = task["start"].options /\ state' = "Running"
     /\ UNCHANGED <<stopRequested, monitor, discoveryVars, terminated>>

(* A host that has to be started or restarted fails: everything is stopped. *)
UpdateFails ==
  LET desired == task["start"].want
  IN /\ HostMayFail
     /\ \E h \in HostsOf(desired) : LinksOf(desired, h) # LinksOf(hosts, h)
     /\ Goto("start", "apply", "ready")
     /\ live' = {} /\ hosts' = {} /\ targets' = {} /\ state' = "Failed"
     /\ UNCHANGED <<stopRequested, monitor, discoveryVars, activeOptions, terminated>>

Start ==
  \/ StartBegin \/ StartFresh \/ StartConfigure \/ StartDiscover \/ StartConnect
  \/ (\E h \in Hosts : StartHost(h)) \/ StartPublish \/ StartMonitor
  \/ UpdateOptions \/ UpdateConnect \/ UpdateApply \/ UpdateFails
------------------------------------------------------------------------------
(* requestStop() and stop() *)

RequestStopState ==
  state' = IF state \in {"Starting", "Running"} THEN "StopRequested" ELSE state

StopFlag(k) ==
  /\ Goto(k, "flag", "state") /\ stopRequested' = TRUE
  /\ UNCHANGED <<state, monitor, linkVars, discoveryVars, activeOptions, terminated>>

StopState(k) ==
  /\ Goto(k, "state", "join") /\ RequestStopState
  /\ UNCHANGED <<stopRequested, monitor, linkVars, discoveryVars, activeOptions, terminated>>

(* Mistake: the monitor thread is not joined.                               *)
StopSkipsJoin(k) ==
  /\ Goto(k, "join", "take")
  /\ UNCHANGED <<state, stopRequested, monitor, linkVars, discoveryVars, activeOptions, terminated>>

StopJoin(k) ==
  /\ Goto(k, "join", "take") /\ monitor # "run" /\ monitor' = "none"
  /\ UNCHANGED <<state, stopRequested, linkVars, discoveryVars, activeOptions, terminated>>

StopTake(k) ==
  /\ At(k, "take") /\ task' = [task EXCEPT ![k].pc = "hosts", ![k].made = hosts]
  /\ hosts' = {} /\ targets' = {} /\ state' = "Stopped"
  /\ UNCHANGED <<stopRequested, monitor, live, discoveryVars, activeOptions, terminated>>

StopHosts(k) ==
  /\ Goto(k, "hosts", "done") /\ live' = live \ task[k].made
  /\ UNCHANGED <<state, stopRequested, monitor, hosts, targets, discoveryVars, activeOptions, terminated>>

StopDone(k) ==
  /\ Goto(k, "done", task[k].after) /\ stopRequested' = FALSE
  /\ UNCHANGED <<state, monitor, linkVars, discoveryVars, activeOptions, terminated>>

Stop(k) ==
  StopFlag(k) \/ StopState(k) \/ StopJoin(k) \/ StopTake(k) \/ StopHosts(k) \/ StopDone(k)
------------------------------------------------------------------------------
(* Mistake: the monitor does not look at stopRequested.                     *)
MonitorNeverExits == FALSE /\ UNCHANGED runtimeVars

(* The monitor thread leaves its loop when a stop is requested.             *)
MonitorExit ==
  /\ ~terminated /\ monitor = "run" /\ stopRequested /\ monitor' = "exited"
  /\ UNCHANGED <<state, stopRequested, linkVars, discoveryVars, activeOptions, task, terminated>>

CallStep == Scan \/ Start \/ \E k \in {"start", "stop", "exit"} : Stop(k)
=============================================================================
