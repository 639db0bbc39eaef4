----------------------------- MODULE LiberaHost -----------------------------
(***************************************************************************)
(* LiberaProtocolVirtualControllerHost: a TargetServer with a TCP port of   *)
(* its own per target, and an advertiser thread that announces them.  What  *)
(* goes on inside a TargetServer is the subject of LiberaTargetServer; here *)
(* a server listens and stops.                                              *)
(***************************************************************************)
EXTENDS VirtualControllerHost

CONSTANTS
  LbConfigs,       \* option texts the host may be configured with
  DefaultTcpPort,  \* DEFAULT_SESSION_PORT
  MaxPort,         \* the largest port number
  ForeignPorts     \* ports that other programs may take and give back

ASSUME PortsAssumption ==
  /\ MaxPort \in Nat /\ DefaultTcpPort \in 1..MaxPort /\ ForeignPorts \subseteq 1..MaxPort
  /\ LbConfigs \subseteq [tcpPort : Int, discoveryPort : Int, discovery : BOOLEAN,
                          minPointRate : Int, maxPointRate : Int]

VARIABLES
  lbConfig,      \* config_
  lbOptions,     \* impl_->options
  lbActive,      \* impl_->active
  servers,       \* impl_->servers: the port of each target's server, or NoPort
  closing,       \* servers taken out of the list that have not stopped yet
  advertiser,    \* advertiserThread
  ads,           \* advertisements of this round that are still to be sent
  foreignPorts   \* ports other programs hold

lbVars == <<lbConfig, lbOptions, lbActive, servers, closing, advertiser, ads, foreignPorts>>

NoPort == 0
Nowhere == [t \in Targets |-> NoPort]

(* What a server shows of itself, in snapshots and on the network.          *)
Endpoint(t) == <<t, servers[t]>>
Advertisement(t) == <<t, servers[t]>>

Running == {t \in Targets : servers[t] # NoPort}
LbEndpoints == {Endpoint(t) : t \in Running}
------------------------------------------------------------------------------
(* Options *)

OptionU16(text, fallback) == IF text \in 0..MaxPort THEN text ELSE fallback
OptionU32(text, fallback) == IF text >= 0 THEN text ELSE fallback
AtLeast(lowest, n) == IF n < lowest THEN lowest ELSE n

DefaultMinPointRate == 1
DefaultMaxPointRate == 2
DefaultDiscoveryPort == 1

(* Mistake: the maximum is not raised to the minimum.                       *)
MakeHostOptionsUnordered(c) ==
  [tcpPort |-> OptionU16(c.tcpPort, DefaultTcpPort),
   discoveryPort |-> OptionU16(c.discoveryPort, DefaultDiscoveryPort),
   discovery |-> c.discovery,
   minPointRate |-> AtLeast(1, OptionU32(c.minPointRate, DefaultMinPointRate)),
   maxPointRate |-> AtLeast(1, OptionU32(c.maxPointRate, DefaultMaxPointRate))]

MakeHostOptions(c) ==
  LET min == AtLeast(1, OptionU32(c.minPointRate, DefaultMinPointRate))
  IN [tcpPort |-> OptionU16(c.tcpPort, DefaultTcpPort),
      discoveryPort |-> OptionU16(c.discoveryPort, DefaultDiscoveryPort),
      discovery |-> c.discovery,
      minPointRate |-> min,
      maxPointRate |-> AtLeast(min, OptionU32(c.maxPointRate, DefaultMaxPointRate))]

LbInit ==
  /\ lbConfig \in LbConfigs /\ lbOptions = MakeHostOptions(lbConfig)
  /\ lbActive = FALSE /\ servers = Nowhere /\ closing = Nowhere
  /\ advertiser = "none" /\ ads = {} /\ foreignPorts = {}
------------------------------------------------------------------------------
(* Adding servers *)

(* Mistake: the port follows from the number of servers.                    *)
NextPortByCount == lbOptions.tcpPort + Cardinality({t \in Targets : servers[t] # NoPort})

(* Mistake: the index is not checked against the end of the port range.     *)
UnusedPortsUnbounded == {p \in lbOptions.tcpPort..(MaxPort + 1) : \A t \in Targets : servers[t] # p}

UnusedPorts == {p \in lbOptions.tcpPort..MaxPort : \A t \in Targets : servers[t] # p}
NextPort == CHOOSE p \in UnusedPorts : \A q \in UnusedPorts : p <= q

(* A port cannot be bound while another program, or a server of this host   *)
(* that has not stopped yet, holds it.                                      *)
CanBind(p) == p \notin foreignPorts /\ \A t \in Targets : closing[t] # p

CanAdd(t) == servers[t] # NoPort \/ (UnusedPorts # {} /\ CanBind(NextPort))
AddFails(t) == ~CanAdd(t)
AddServer(t) ==
  servers' = IF servers[t] # NoPort THEN servers ELSE [servers EXCEPT ![t] = NextPort]

(* start() up to its loop over the targets.                                 *)
LbStart(ts) ==
  LET o == MakeHostOptions(lbConfig)
      refused == ts = <<>> \/ o.tcpPort = 0 \/ (o.discovery /\ o.discoveryPort = 0)
  IN /\ call.pc = "idle"
     /\ \/ /\ lbActive \/ refused
           /\ Answer("libera", lbActive) /\ UNCHANGED <<lbOptions, lbActive>>
        \/ /\ ~lbActive /\ ~refused
           /\ Enter("libera", "adding", ts) /\ lbOptions' = o /\ lbActive' = TRUE
     /\ UNCHANGED <<lbConfig, servers, closing, advertiser, ads, foreignPorts>>

(* One target of start(); the first that fails stops the host.              *)
LbStartAdds ==
  /\ Serving("libera", "adding") /\ call.todo # <<>>
  /\ \/ /\ AddFails(Head(call.todo))
        /\ call' = [call EXCEPT !.pc = "join", !.todo = <<>>, !.ok = FALSE]
        /\ lbActive' = FALSE /\ UNCHANGED servers
     \/ /\ ~AddFails(Head(call.todo)) /\ AddServer(Head(call.todo))
        /\ call' = [call EXCEPT !.todo = Tail(call.todo)] /\ UNCHANGED lbActive
  /\ UNCHANGED <<lbConfig, lbOptions, closing, advertiser, ads, foreignPorts>>

LbStarted ==
  /\ Serving("libera", "adding") /\ call.todo = <<>> /\ Return(TRUE)
  /\ advertiser' = IF lbOptions.discovery THEN "open" ELSE "none"
  /\ UNCHANGED <<lbConfig, lbOptions, lbActive, servers, closing, ads, foreignPorts>>

LbAddTarget(t) ==
  /\ call.pc = "idle"
  /\ IF ~lbActive \/ AddFails(t)
       THEN Answer("libera", FALSE) /\ UNCHANGED servers
       ELSE Answer("libera", TRUE) /\ AddServer(t)
  /\ UNCHANGED <<lbConfig, lbOptions, lbActive, closing, advertiser, ads, foreignPorts>>
------------------------------------------------------------------------------
(* Removing servers *)

(* The server leaves the list under the lock and stops outside it.          *)
LbRemoveTarget(t) ==
  /\ call.pc = "idle"
  /\ IF ~lbActive \/ servers[t] = NoPort
       THEN Answer("libera", FALSE) /\ UNCHANGED <<servers, closing>>
       ELSE /\ Enter("libera", "drainOne", <<>>)
            /\ closing' = [closing EXCEPT ![t] = servers[t]]
            /\ servers' = [servers EXCEPT ![t] = NoPort]
  /\ UNCHANGED <<lbConfig, lbOptions, lbActive, advertiser, ads, foreignPorts>>

(* A server stops: its sessions have ended and its port is free.            *)
LbServerStops(t) ==
  /\ Serving("libera", "drain") \/ Serving("libera", "drainOne")
  /\ closing[t] # NoPort /\ closing' = [closing EXCEPT ![t] = NoPort]
  /\ UNCHANGED <<call, lbConfig, lbOptions, lbActive, servers, advertiser, ads, foreignPorts>>

LbServersStopped ==
  /\ Serving("libera", "drain") \/ Serving("libera", "drainOne")
  /\ closing = Nowhere /\ Return(call.ok)
  /\ UNCHANGED lbVars

LbStop ==
  /\ call.pc = "idle" /\ lbActive' = FALSE
  /\ IF lbActive THEN Enter("libera", "join", <<>>) ELSE Answer("libera", TRUE)
  /\ UNCHANGED <<lbConfig, lbOptions, servers, closing, advertiser, ads, foreignPorts>>

(* Mistake: the advertiser thread is detached, not joined.                  *)
LbJoinSkipped ==
  /\ Serving("libera", "join") /\ Move("take")
  /\ UNCHANGED lbVars

LbJoin ==
  /\ Serving("libera", "join") /\ Move("take")
  /\ advertiser \in {"none", "gone"} /\ advertiser' = "none"
  /\ UNCHANGED <<lbConfig, lbOptions, lbActive, servers, closing, ads, foreignPorts>>

LbTake ==
  /\ Serving("libera", "take") /\ Move("drain")
  /\ closing' = servers /\ servers' = Nowhere
  /\ UNCHANGED <<lbConfig, lbOptions, lbActive, advertiser, ads, foreignPorts>>
------------------------------------------------------------------------------
(* The advertiser thread *)

AdvOpens ==
  /\ advertiser = "open" /\ advertiser' \in {"top", "gone"}
  /\ UNCHANGED <<call, lbConfig, lbOptions, lbActive, servers, closing, ads, foreignPorts>>

(* Mistake: the thread never looks at active.                               *)
AdvCopiesForever ==
  /\ advertiser = "top" /\ advertiser' = "send"
  /\ ads' = {Advertisement(t) : t \in Running}
  /\ UNCHANGED <<call, lbConfig, lbOptions, lbActive, servers, closing, foreignPorts>>

(* A round copies the list under the lock and sends the copy without it.    *)
AdvCopies ==
  /\ advertiser = "top"
  /\ IF lbActive
       THEN /\ advertiser' = "send"
            /\ ads' = {Advertisement(t) : t \in Running}
       ELSE advertiser' = "gone" /\ UNCHANGED ads
  /\ UNCHANGED <<call, lbConfig, lbOptions, lbActive, servers, closing, foreignPorts>>

(* Mistake: the list is copied once, before the loop.                       *)
AdvSendsSameCopy ==
  /\ advertiser = "send" /\ advertiser' = (IF lbActive THEN "send" ELSE "gone")
  /\ UNCHANGED <<call, lbConfig, lbOptions, lbActive, servers, closing, ads, foreignPorts>>

(* The copy is sent; the sleep that follows ends early when the host stops. *)
AdvSends ==
  /\ advertiser = "send" /\ advertiser' = "top" /\ ads' = {}
  /\ UNCHANGED <<call, lbConfig, lbOptions, lbActive, servers, closing, foreignPorts>>

Advertiser == AdvOpens \/ AdvCopies \/ AdvSends
------------------------------------------------------------------------------
(* Other programs *)

ForeignPort(p) ==
  /\ p \in ForeignPorts /\ \A t \in Targets : servers[t] # p /\ closing[t] # p
  /\ foreignPorts' = IF p \in foreignPorts THEN foreignPorts \ {p} ELSE foreignPorts \cup {p}
  /\ UNCHANGED <<call, lbConfig, lbOptions, lbActive, servers, closing, advertiser, ads>>

LbEnvironment == \E p \in ForeignPorts : ForeignPort(p)

(* The steps of a call once LinkRuntime has made it.                        *)
LbCallStep ==
  \/ LbStartAdds \/ LbStarted \/ LbServersStopped \/ LbJoin \/ LbTake
  \/ \E t \in Targets : LbServerStops(t)
------------------------------------------------------------------------------
(* The host under any sequence of calls. *)

LbCalls ==
  \/ \E ts \in Seq(Targets) : LbStart(ts)
  \/ \E t \in Targets : LbAddTarget(t) \/ LbRemoveTarget(t)
  \/ LbStop
  \/ Returned("libera") /\ call' = NoCall /\ UNCHANGED lbVars

LbNext == LbCalls \/ LbCallStep \/ Advertiser \/ LbEnvironment
LbSpec == CallInit /\ LbInit /\ [][LbNext]_<<call, lbVars>>

(* Stop has begun to take the host down.                                    *)
Stopping == call.host = "libera" /\ call.pc \in {"join", "take", "drain"}

LbOptionsOK ==
  lbOptions \in [tcpPort : 0..MaxPort, discoveryPort : 0..MaxPort, discovery : BOOLEAN,
                 minPointRate : Nat \ {0}, maxPointRate : Nat \ {0}]

LbTypeOK ==
  /\ lbConfig \in LbConfigs /\ LbOptionsOK /\ lbActive \in BOOLEAN
  /\ servers \in [Targets -> 0..MaxPort] /\ closing \in [Targets -> 0..MaxPort]
  /\ advertiser \in {"none", "open", "top", "send", "gone"}
  /\ ads \subseteq Targets \X (1..MaxPort) /\ foreignPorts \subseteq ForeignPorts

(* No two servers hold the same port, whether they are in the list or on    *)
(* their way out, and every port is at or above the configured base port:   *)
(* nextServerIndexLocked() finds gaps that removeServer() left.             *)
PortsDistinct ==
  \A t, u \in Targets :
    /\ servers[t] # NoPort => /\ servers[t] # closing[u] /\ servers[t] >= lbOptions.tcpPort
                              /\ t # u => servers[t] # servers[u]
    /\ closing[t] # NoPort /\ t # u => closing[t] # closing[u]

(* A host that is not running and not being stopped holds no port and sends *)
(* nothing: whatever call ended it, stop() or a start() that failed half    *)
(* way, left nothing behind.                                                *)
StoppedHostIsSilent ==
  ~lbActive /\ ~Stopping =>
    servers = Nowhere /\ closing = Nowhere /\ advertiser = "none"

(* The rates that runSession() clamps between are ordered, whatever the     *)
(* options say: std::clamp with its bounds reversed is undefined.           *)
RatesOrdered == lbOptions.minPointRate <= lbOptions.maxPointRate

(* How far a call is, and what that says of the host: with the invariants   *)
(* above it is inductive.                                                   *)
CallShape ==
  /\ Stopping => ~lbActive
  /\ Serving("libera", "adding") \/ Serving("libera", "drainOne") => lbActive
  /\ Serving("libera", "take") \/ Serving("libera", "drain") => advertiser = "none"
  /\ Serving("libera", "drain") => servers = Nowhere
  /\ ~(Serving("libera", "drain") \/ Serving("libera", "drainOne")) => closing = Nowhere

LbInv == PortsDistinct /\ StoppedHostIsSilent /\ RatesOrdered /\ CallShape

(* A target is announced at the port it has, however late it was added: by  *)
(* start() before there is an advertiser, or while the advertiser sends an  *)
(* older copy of the list or sleeps.  Otherwise its server has gone, or the *)
(* advertiser has ended: it could not open its socket, or the host stops.   *)
AddedTargetsAreAdvertised ==
  \A t \in Targets :
    (lbOptions.discovery /\ servers[t] # NoPort) ~>
      (Advertisement(t) \in ads \/ servers[t] = NoPort \/ advertiser = "gone")
=============================================================================
