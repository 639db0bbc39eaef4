----------------------------- MODULE HostFleet -----------------------------
(***************************************************************************)
(* The hosts a link runs: LinkRuntime::start() groups the selected targets  *)
(* by the host they are routed to, starts a host per group, and on a later  *)
(* start() changes the running hosts into the wanted ones; stop() stops     *)
(* them all.  The Libera and Ether Dream hosts are the modules of those     *)
(* names; the IDN host starts or fails, and stops.                          *)
(*                                                                          *)
(* One instance per host type: instance keys and options do not change.     *)
(***************************************************************************)
EXTENDS LiberaHost, EtherDreamHost

CONSTANT MaxCrashes    \* how often the process may die

VARIABLES
  fleet,       \* impl_->virtualControllerHosts
  published,   \* impl_->targets
  wanted,      \* desiredGroups
  nextHosts,   \* nextActiveHosts
  rest,        \* active hosts the update has not come to, or that are to be stopped
  dynamic,     \* dynamicUpdateSucceeded
  step,        \* where start() or stop() is
  linkState,   \* impl_->state
  idnTargets,  \* targets of the running IDN host
  crashes

fleetVars == <<fleet, published, wanted, nextHosts, rest, dynamic, step, linkState, idnTargets, crashes>>
vars == <<call, lbVars, edVars, fleetVars>>

Group(h, ts) == [host |-> h, targets |-> ts]
Host(h, ts, es) == [host |-> h, targets |-> ts, endpoints |-> es]

Smallest(S) == CHOOSE x \in S : \A y \in S : x <= y
Ascending(S) == [i \in 1..Cardinality(S) |-> CHOOSE t \in S : Cardinality({u \in S : u < t}) = i - 1]

(* Groups in the order of their first target, targets in their order: an    *)
(* update goes by the ids of the selected controllers, a fresh start by the *)
(* order of discovery, and targets are numbered so that one order stands    *)
(* for both.  Every layout of ports is reached by removing and adding.      *)
GroupsOf(route) ==
  LET selected == DOMAIN route
      of(h) == {t \in selected : route[t] = h}
      used == {h \in HostTypes : of(h) # {}}
      place(h) == Cardinality({g \in used : Smallest(of(g)) < Smallest(of(h))}) + 1
  IN [i \in 1..Cardinality(used) |->
        LET h == CHOOSE g \in used : place(g) = i IN Group(h, of(h))]

(* endpoints(): what the host serves now.                                   *)
EndpointsOf(h) ==
  CASE h = "libera" -> LbEndpoints
    [] h = "etherdream" -> EdEndpoints
    [] h = "idn" -> {<<t, 0>> : t \in idnTargets}

Served(h) == {e[1] : e \in EndpointsOf(h)}

FleetInit ==
  /\ fleet = <<>> /\ published = {} /\ wanted = <<>> /\ nextHosts = <<>> /\ rest = <<>>
  /\ dynamic = TRUE /\ step = "idle" /\ linkState = "Stopped" /\ idnTargets = {} /\ crashes = 0
------------------------------------------------------------------------------
(* Calls into a host *)

StartHost(h, S) ==
  \/ h = "libera" /\ LbStart(Ascending(S)) /\ UNCHANGED <<edVars, idnTargets>>
  \/ h = "etherdream" /\ EdStart(Ascending(S)) /\ UNCHANGED <<lbVars, idnTargets>>
  \/ h = "idn" /\ Answer("idn", TRUE) /\ idnTargets' = S /\ UNCHANGED <<lbVars, edVars>>
  \/ h = "idn" /\ Answer("idn", FALSE) /\ UNCHANGED <<lbVars, edVars, idnTargets>>

StopHost(h) ==
  \/ h = "libera" /\ LbStop /\ UNCHANGED <<edVars, idnTargets>>
  \/ h = "etherdream" /\ EdStop /\ UNCHANGED <<lbVars, idnTargets>>
  \/ h = "idn" /\ Answer("idn", TRUE) /\ idnTargets' = {} /\ UNCHANGED <<lbVars, edVars>>

(* Control returns to start() or stop(), which goes on at the given place.  *)
Resume(place) ==
  /\ call.pc = "done" /\ call' = NoCall /\ step' = place /\ UNCHANGED <<lbVars, edVars, idnTargets>>

Quiet == call.pc = "idle" /\ UNCHANGED <<call, lbVars, edVars, idnTargets>>
------------------------------------------------------------------------------
(* start(): every active host is kept, changed or stopped *)

Request(route) ==
  /\ step = "idle" /\ Quiet
  /\ wanted' = GroupsOf(route) /\ nextHosts' = <<>> /\ rest' = fleet /\ step' = "hosts"
  /\ linkState' = IF linkState = "Running" THEN "Running" ELSE "Starting"
  /\ UNCHANGED <<fleet, published, dynamic, crashes>>

Current == Head(rest)
Wants(h) == \E i \in DOMAIN wanted : wanted[i].host = h
GroupFor(h) == wanted[CHOOSE i \in DOMAIN wanted : wanted[i].host = h]
Next1 == rest' = Tail(rest)

DropHost ==
  /\ step = "hosts" /\ rest # <<>> /\ ~Wants(Current.host)
  /\ StopHost(Current.host) /\ step' = "dropped"
  /\ UNCHANGED <<fleet, published, wanted, nextHosts, rest, dynamic, linkState, crashes>>

Dropped ==
  /\ step = "dropped" /\ Resume("hosts") /\ Next1
  /\ UNCHANGED <<fleet, published, wanted, nextHosts, dynamic, linkState, crashes>>

(* Mistake: a host that gained or lost targets keeps the old endpoints.     *)
KeptStale(es) == [Current EXCEPT !.targets = GroupFor(Current.host).targets]

Kept(es) == Host(Current.host, GroupFor(Current.host).targets, es)

Same == Current.targets = GroupFor(Current.host).targets
Surplus == Current.targets \ GroupFor(Current.host).targets
Lacking == GroupFor(Current.host).targets \ Current.targets

KeepHost ==
  /\ step = "hosts" /\ rest # <<>> /\ Wants(Current.host) /\ Same /\ Quiet
  /\ nextHosts' = Append(nextHosts, Kept(EndpointsOf(Current.host))) /\ Next1
  /\ UNCHANGED <<fleet, published, wanted, step, dynamic, linkState, crashes>>

(* Mistake: a host that could change its targets is restarted all the same. *)
ChangeHostRestarts ==
  /\ step = "hosts" /\ rest # <<>> /\ Wants(Current.host) /\ ~Same /\ Quiet
  /\ dynamic' = SupportsDynamicTargets(Current.host) /\ step' = "restart"
  /\ UNCHANGED <<fleet, published, wanted, nextHosts, rest, linkState, crashes>>

(* A host that can do so gives targets up, then takes targets, one by one;  *)
(* if it cannot, or refuses one, it is stopped and started again.           *)
ChangeHost ==
  /\ step = "hosts" /\ rest # <<>> /\ Wants(Current.host) /\ ~Same /\ Quiet
  /\ dynamic' = SupportsDynamicTargets(Current.host) /\ step' = IF dynamic' THEN "change" ELSE "restart"
  /\ UNCHANGED <<fleet, published, wanted, nextHosts, rest, linkState, crashes>>

ToRemove == Surplus \cap Served(Current.host)
ToAdd == Lacking \ Served(Current.host)

RemoveSurplus ==
  /\ step = "change" /\ call.pc = "idle" /\ ToRemove # {}
  /\ LbRemoveTarget(Smallest(ToRemove)) /\ step' = "changing"
  /\ UNCHANGED <<edVars, fleet, published, wanted, nextHosts, rest, dynamic, linkState, idnTargets, crashes>>

AddLacking ==
  /\ step = "change" /\ call.pc = "idle" /\ ToRemove = {} /\ ToAdd # {}
  /\ LbAddTarget(Smallest(ToAdd)) /\ step' = "changing"
  /\ UNCHANGED <<edVars, fleet, published, wanted, nextHosts, rest, dynamic, linkState, idnTargets, crashes>>

Changing ==
  /\ step = "changing" /\ dynamic' = call.ok /\ Resume(IF call.ok THEN "change" ELSE "restart")
  /\ UNCHANGED <<fleet, published, wanted, nextHosts, rest, linkState, crashes>>

Changed ==
  /\ step = "change" /\ ToRemove = {} /\ ToAdd = {} /\ Quiet
  /\ nextHosts' = Append(nextHosts, Kept(EndpointsOf(Current.host))) /\ Next1 /\ step' = "hosts"
  /\ UNCHANGED <<fleet, published, wanted, dynamic, linkState, crashes>>

RestartHost ==
  /\ step = "restart" /\ StopHost(Current.host) /\ step' = "restopped"
  /\ UNCHANGED <<fleet, published, wanted, nextHosts, rest, dynamic, linkState, crashes>>

Restopped ==
  /\ step = "restopped" /\ Resume("relaunch")
  /\ UNCHANGED <<fleet, published, wanted, nextHosts, rest, dynamic, linkState, crashes>>
------------------------------------------------------------------------------
(* startActiveHostGroup(), for a host that restarts and for a new one *)

Missing == {i \in DOMAIN wanted : \A j \in DOMAIN nextHosts : nextHosts[j].host # wanted[i].host}
Launching == IF step \in {"relaunch", "relaunched"} THEN GroupFor(Current.host) ELSE wanted[Smallest(Missing)]

LaunchHost ==
  /\ \/ step = "relaunch" /\ step' = "relaunched"
     \/ step = "hosts" /\ rest = <<>> /\ Missing # {} /\ step' = "launched"
  /\ StartHost(Launching.host, Launching.targets)
  /\ UNCHANGED <<fleet, published, wanted, nextHosts, rest, dynamic, linkState, crashes>>

Launched ==
  /\ step \in {"launched", "relaunched"} /\ call.ok /\ Resume("hosts")
  /\ nextHosts' = Append(nextHosts, Host(Launching.host, Launching.targets, EndpointsOf(Launching.host)))
  /\ rest' = IF step = "relaunched" THEN Tail(rest) ELSE rest
  /\ dynamic' = TRUE /\ UNCHANGED <<fleet, published, wanted, linkState, crashes>>

(* Mistake: the hosts that were already kept are forgotten.                 *)
LaunchFailsForgets ==
  /\ step \in {"launched", "relaunched"} /\ ~call.ok /\ Resume("destroy")
  /\ rest' = <<Host(Launching.host, {}, {})>> \o rest /\ nextHosts' = <<>>
  /\ dynamic' = TRUE /\ UNCHANGED <<fleet, published, wanted, linkState, crashes>>

(* A host that fails to start is destroyed, which stops it; then failUpdate *)
(* stops the hosts already kept and the ones not come to.                   *)
LaunchFails ==
  /\ step \in {"launched", "relaunched"} /\ ~call.ok /\ Resume("destroy")
  /\ rest' = <<Host(Launching.host, {}, {})>> \o nextHosts \o rest /\ nextHosts' = <<>>
  /\ dynamic' = TRUE /\ UNCHANGED <<fleet, published, wanted, linkState, crashes>>

(* failUpdate() and stop() stop one host after another.                     *)
StopNext ==
  /\ step \in {"destroy", "stopAll"} /\ rest # <<>> /\ StopHost(Current.host)
  /\ step' = IF step = "destroy" THEN "destroying" ELSE "stopping"
  /\ UNCHANGED <<fleet, published, wanted, nextHosts, rest, dynamic, linkState, crashes>>

StoppedNext ==
  /\ \/ step = "destroying" /\ Resume("destroy")
     \/ step = "stopping" /\ Resume("stopAll")
  /\ rest' = Tail(rest)
  /\ UNCHANGED <<fleet, published, wanted, nextHosts, dynamic, linkState, crashes>>

UpdateFailed ==
  /\ step = "destroy" /\ rest = <<>> /\ Quiet /\ step' = "idle"
  /\ fleet' = <<>> /\ published' = {} /\ linkState' = "Failed" /\ wanted' = <<>>
  /\ UNCHANGED <<nextHosts, rest, dynamic, crashes>>

(* The monitor thread belongs to LinkRuntime and is left out here, so a     *)
(* start after a failed update goes on where the code ends in               *)
(* std::terminate (NeverTerminates of LinkGui).                             *)
Publish ==
  /\ step = "hosts" /\ rest = <<>> /\ Missing = {} /\ Quiet /\ step' = "idle"
  /\ fleet' = nextHosts /\ linkState' = "Running" /\ nextHosts' = <<>> /\ wanted' = <<>>
  /\ published' = UNION {wanted[i].targets : i \in DOMAIN wanted}
  /\ UNCHANGED <<rest, dynamic, crashes>>

(* stop() takes the hosts out of the runtime first.                         *)
StopAll ==
  /\ step = "idle" /\ linkState # "Stopped" /\ Quiet /\ step' = "stopAll"
  /\ rest' = fleet /\ fleet' = <<>> /\ published' = {} /\ linkState' = "Stopped" /\ wanted' = <<>>
  /\ UNCHANGED <<nextHosts, dynamic, crashes>>

AllStopped ==
  /\ step = "stopAll" /\ rest = <<>> /\ Quiet /\ step' = "idle"
  /\ UNCHANGED <<fleet, published, wanted, nextHosts, rest, dynamic, linkState, crashes>>

(* snapshot(): each published target, the first host that has it, and the   *)
(* endpoint kept with that host.  The update holds the mutex that it needs. *)
ActiveHostForTarget(t) ==
  LET having == {i \in DOMAIN fleet : t \in fleet[i].targets}
  IN IF having = {} THEN Host("none", {}, {}) ELSE fleet[Smallest(having)]

EndpointForTarget(es, t) ==
  LET of == {e \in es : e[1] = t} IN IF of = {} THEN <<t, NoAddress>> ELSE CHOOSE e \in of : TRUE

Snapshot ==
  {LET h == ActiveHostForTarget(t) IN [host |-> h.host, endpoint |-> EndpointForTarget(h.endpoints, t)]
     : t \in published}

(* The process dies and is started again: the sockets and threads are gone. *)
(* Without an alias to lose it would be back where it began.                *)
Crash ==
  /\ crashes < MaxCrashes /\ crashes' = crashes + 1 /\ aliases # <<>>
  /\ call' = NoCall /\ EdCrash
  /\ lbActive' = FALSE /\ servers' = Nowhere /\ closing' = Nowhere
  /\ advertiser' = "none" /\ ads' = {} /\ UNCHANGED <<lbConfig, lbOptions, foreignPorts>>
  /\ fleet' = <<>> /\ published' = {} /\ wanted' = <<>> /\ nextHosts' = <<>> /\ rest' = <<>>
  /\ dynamic' = TRUE /\ step' = "idle" /\ linkState' = "Stopped" /\ idnTargets' = {}
------------------------------------------------------------------------------
Update ==
  \/ DropHost \/ Dropped \/ KeepHost \/ ChangeHost \/ RemoveSurplus \/ AddLacking \/ Changing
  \/ Changed \/ RestartHost \/ Restopped \/ LaunchHost \/ Launched \/ LaunchFails
  \/ StopNext \/ StoppedNext \/ UpdateFailed \/ Publish \/ AllStopped

HostStep ==
  \/ LbCallStep /\ UNCHANGED <<edVars, fleetVars>>
  \/ EdCallStep /\ UNCHANGED <<lbVars, fleetVars>>

Routes == UNION {[S -> HostTypes] : S \in (SUBSET Targets) \ {{}}}

Environment ==
  \/ (Advertiser \/ LbEnvironment) /\ UNCHANGED <<edVars, fleetVars>>
  \/ \E a \in ForeignAddresses : EdForeign(a) /\ UNCHANGED <<lbVars, fleetVars>>

Init == CallInit /\ LbInit /\ EdInit /\ FleetInit
Next ==
  \/ \E route \in Routes : Request(route)
  \/ StopAll \/ Update \/ HostStep \/ Environment \/ Crash

Spec == Init /\ [][Next]_vars

(* start() and stop() run to their end, the hosts they call answer, and the *)
(* advertiser is a thread of its own.                                       *)
Fairness ==
  /\ WF_vars(Update) /\ WF_vars(HostStep)
  /\ WF_vars(Advertiser /\ UNCHANGED <<edVars, fleetVars>>)
FairSpec == Spec /\ Fairness
------------------------------------------------------------------------------
(* Every variable keeps its type; a port never leaves the range of ports,   *)
(* although nextServerIndexLocked() adds an index to the base port.         *)
FleetTypeOK ==
  /\ CallOK /\ LbTypeOK /\ EdTypeOK
  /\ published \subseteq Targets /\ idnTargets \subseteq Targets
  /\ linkState \in {"Stopped", "Starting", "Running", "Failed"} /\ dynamic \in BOOLEAN
  /\ \A f \in {fleet, nextHosts, rest} : \A i \in DOMAIN f :
       f[i].host \in HostTypes /\ f[i].targets \subseteq Targets

FleetTargets(h) == UNION {fleet[i].targets : i \in {j \in DOMAIN fleet : fleet[j].host = h}}

(* Between two calls of the runtime each host serves exactly the targets    *)
(* the runtime believes it serves, no target is served by two hosts, and    *)
(* the published targets are all served: whatever mix of kept, changed,     *)
(* restarted, new and failed hosts the updates went through.                *)
FleetMatchesHosts ==
  step = "idle" =>
    /\ \A h \in HostTypes : Served(h) = FleetTargets(h)
    /\ \A g, h \in HostTypes : g # h => Served(g) \cap Served(h) = {}
    /\ published = UNION {Served(h) : h \in HostTypes}
    /\ linkState = "Running" <=> published # {}

(* snapshot() shows every target that a host serves, once, with that host   *)
(* and the endpoint the host has for it now, also while stop() is at work.  *)
EndpointsCurrent ==
  step \in {"idle", "stopAll", "stopping"} =>
    /\ \A s \in Snapshot : s.host \in HostTypes /\ s.endpoint \in EndpointsOf(s.host)
    /\ step = "idle" => {s.endpoint : s \in Snapshot} = UNION {EndpointsOf(h) : h \in HostTypes}

(* When no Ether Dream host is left, none of its aliases is either, however *)
(* the host ended.                                                          *)
StoppedHoldsNoAlias == step = "idle" /\ ~edActive => aliases = <<>> /\ devices = NoDevices

(* The hosts as a whole: typed, serving what the runtime believes they      *)
(* serve, with the rates of their sessions in order, and nothing left of a  *)
(* host that is gone, neither a port nor an advertiser nor an alias.        *)
FleetConsistent ==
  /\ FleetTypeOK /\ RatesOrdered /\ FleetMatchesHosts
  /\ StoppedHostIsSilent /\ StoppedHoldsNoAlias

(* A running update never interrupts a target that stays on the Libera      *)
(* host, unless the host refused a change: "keeps compatible active hosts   *)
(* when they support dynamic target changes".                               *)
StaysOn(h, t) == Wants(h) /\ t \in GroupFor(h).targets
UnaffectedTargetsStay ==
  [][\A t \in Targets :
       servers[t] # NoPort /\ servers'[t] # servers[t] /\ StaysOn("libera", t) =>
         ~dynamic \/ ~call.ok \/ step = "destroying" \/ crashes' # crashes]_vars

(* start() and stop() return, although stop() waits for the advertiser.     *)
UpdateReturns == step # "idle" ~> step = "idle"
=============================================================================
