-------------------------- MODULE LiberaHostProofs --------------------------
(* Proofs about LiberaHost under any sequence of calls, for every set of    *)
(* targets, every configuration and every range of ports.                   *)
EXTENDS LiberaHost, SequenceTheorems, WellFoundedInduction, TLAPS

(* A non-empty set of naturals has a smallest member.                       *)
LEMMA SmallestMember ==
  ASSUME NEW S \in SUBSET Nat, S # {}
  PROVE  \E m \in S : \A n \in S : m <= n
<1>1. PICK m \in S : \A n \in S : ~(<<n, m>> \in OpToRel(<, Nat))
  BY NatLessThanWellFounded, WFMin
<1>2. ASSUME NEW n \in S PROVE m <= n
  <2>1. n < m => <<n, m>> \in OpToRel(<, Nat)
    BY Zenon DEF OpToRel
  <2>2. ~(n < m)
    BY <1>1, <2>1, Zenon
  <2> QED
    BY <2>2
<1> QED
  BY <1>2

(* Options read from any text have the types of the members they set, and   *)
(* the rates are in order.                                                  *)
LEMMA OptionsTyped ==
  ASSUME NEW c \in LbConfigs
  PROVE  LET o == MakeHostOptions(c)
         IN /\ o \in [tcpPort : 0..MaxPort, discoveryPort : 0..MaxPort, discovery : BOOLEAN,
                      minPointRate : Nat \ {0}, maxPointRate : Nat \ {0}]
            /\ o.minPointRate <= o.maxPointRate
<1>1. c \in [tcpPort : Int, discoveryPort : Int, discovery : BOOLEAN,
             minPointRate : Int, maxPointRate : Int]
  BY PortsAssumption
<1>2. c.tcpPort \in Int /\ c.discoveryPort \in Int /\ c.discovery \in BOOLEAN
      /\ c.minPointRate \in Int /\ c.maxPointRate \in Int
  BY <1>1
<1> DEFINE min == AtLeast(1, OptionU32(c.minPointRate, DefaultMinPointRate))
           max == AtLeast(min, OptionU32(c.maxPointRate, DefaultMaxPointRate))
<1>3. min \in Nat \ {0}
  BY <1>2 DEF AtLeast, OptionU32, DefaultMinPointRate
<1>4. OptionU32(c.maxPointRate, DefaultMaxPointRate) \in Nat
  BY <1>2 DEF OptionU32, DefaultMaxPointRate
<1>5. max \in Nat \ {0} /\ min <= max
  BY <1>3, <1>4 DEF AtLeast
<1>6. OptionU16(c.tcpPort, DefaultTcpPort) \in 0..MaxPort
      /\ OptionU16(c.discoveryPort, DefaultDiscoveryPort) \in 0..MaxPort
  BY <1>2, PortsAssumption DEF OptionU16, DefaultDiscoveryPort
<1> QED
  BY <1>2, <1>3, <1>5, <1>6 DEF MakeHostOptions

(* Where a new server goes: an unused port at or above the base port.       *)
LEMMA NextPortUnused ==
  ASSUME LbOptionsOK, UnusedPorts # {}
  PROVE  /\ NextPort \in lbOptions.tcpPort..MaxPort
         /\ \A t \in Targets : servers[t] # NextPort
<1>1. lbOptions.tcpPort \in 0..MaxPort /\ MaxPort \in Nat
  BY PortsAssumption DEF LbOptionsOK
<1>2. UnusedPorts \in SUBSET Nat
  BY <1>1 DEF UnusedPorts
<1>3. \E m \in UnusedPorts : \A n \in UnusedPorts : m <= n
  BY <1>2, SmallestMember
<1>4. NextPort \in UnusedPorts
  BY <1>3, Zenon DEF NextPort
<1> QED
  BY <1>1, <1>4 DEF UnusedPorts

(* What adding a server does to the list: nothing, or one target that had   *)
(* no server gets an unused port that can be bound.                         *)
LEMMA AddServerAdds ==
  ASSUME LbTypeOK, NEW t \in Targets, CanAdd(t), AddServer(t)
  PROVE  \/ UNCHANGED servers
         \/ \E p \in lbOptions.tcpPort..MaxPort :
              /\ servers' = [servers EXCEPT ![t] = p]
              /\ \A u \in Targets : servers[u] # p /\ closing[u] # p
<1>1. CASE servers[t] # NoPort
  BY <1>1 DEF AddServer
<1>2. CASE servers[t] = NoPort
  <2>1. UnusedPorts # {} /\ CanBind(NextPort)
    BY <1>2 DEF CanAdd
  <2>2. /\ NextPort \in lbOptions.tcpPort..MaxPort
        /\ \A u \in Targets : servers[u] # NextPort
    BY <2>1, NextPortUnused DEF LbTypeOK
  <2>3. servers' = [servers EXCEPT ![t] = NextPort]
    BY <1>2 DEF AddServer
  <2> QED
    BY <2>1, <2>2, <2>3 DEF CanBind
<1> QED
  BY <1>1, <1>2
------------------------------------------------------------------------------
(* Types *)

Typed == CallOK /\ LbTypeOK

(* Every call record is typed by its parts, and so is what Move and Return  *)
(* make of it.                                                              *)
Calls == [host : HostTypes \cup {"none"}, pc : Places, todo : Seq(Targets), ok : BOOLEAN]

LEMMA CallTyped ==
  ASSUME NEW h \in HostTypes \cup {"none"}, NEW p \in Places, NEW ts \in Seq(Targets), NEW b \in BOOLEAN
  PROVE  [host |-> h, pc |-> p, todo |-> ts, ok |-> b] \in Calls
  BY Zenon DEF Calls

LEMMA NoTodo == <<>> \in Seq(Targets)
  OBVIOUS

LEMMA CallChanged ==
  ASSUME call \in Calls, NEW p \in Places, NEW ts \in Seq(Targets), NEW b \in BOOLEAN
  PROVE  /\ [call EXCEPT !.pc = p] \in Calls
         /\ [call EXCEPT !.todo = ts] \in Calls
         /\ [call EXCEPT !.pc = p, !.todo = ts, !.ok = b] \in Calls
  BY DEF Calls

(* Every step keeps the type of the call in progress.                       *)
LEMMA LbCallStepTyped == Typed /\ [LbNext]_<<call, lbVars>> => CallOK'
<1> SUFFICES ASSUME call \in Calls, lbActive \in BOOLEAN, [LbNext]_<<call, lbVars>>
             PROVE  call' \in Calls
  BY DEF Typed, CallOK, Calls, LbTypeOK
<1>0. /\ {"idle", "adding", "join", "take", "drain", "drainOne", "done"} \subseteq Places
      /\ call.ok \in BOOLEAN /\ {"libera", "none"} \subseteq HostTypes \cup {"none"}
  BY DEF Places, Calls, HostTypes
<1>1. ASSUME NEW b \in BOOLEAN, Answer("libera", b) PROVE call' \in Calls
  BY <1>0, <1>1, CallTyped, NoTodo DEF Answer
<1>2. ASSUME NEW ts \in Seq(Targets), NEW p \in {"adding", "drainOne", "join"}, Enter("libera", p, ts)
      PROVE  call' \in Calls
  BY <1>0, <1>2, CallTyped DEF Enter
<1>3. ASSUME NEW p \in {"take", "drain"}, Move(p) PROVE call' \in Calls
  BY <1>0, <1>3, CallChanged, NoTodo DEF Move
<1>4. ASSUME NEW b \in BOOLEAN, Return(b) PROVE call' \in Calls
  BY <1>0, <1>4, CallChanged, NoTodo DEF Return
<1>5. ASSUME NEW ts \in Seq(Targets), LbStart(ts) PROVE call' \in Calls
  BY <1>1, <1>2, <1>5 DEF LbStart
<1>6. ASSUME NEW t \in Targets, LbAddTarget(t) \/ LbRemoveTarget(t) PROVE call' \in Calls
  BY <1>1, <1>2, <1>6, NoTodo DEF LbAddTarget, LbRemoveTarget
<1>7. CASE LbStop
  BY <1>1, <1>2, <1>7, NoTodo DEF LbStop
<1>8. CASE call' = NoCall
  BY <1>0, <1>8, CallTyped, NoTodo DEF NoCall
<1>9. CASE LbStartAdds
  <2>1. Tail(call.todo) \in Seq(Targets)
    BY <1>9 DEF LbStartAdds, Calls
  <2>2. \/ call' = [call EXCEPT !.pc = "join", !.todo = <<>>, !.ok = FALSE]
        \/ call' = [call EXCEPT !.todo = Tail(call.todo)]
    BY <1>9 DEF LbStartAdds
  <2>3. CASE call' = [call EXCEPT !.pc = "join", !.todo = <<>>, !.ok = FALSE]
    <3>1. "join" \in Places /\ FALSE \in BOOLEAN
      BY <1>0
    <3> QED
      BY <2>3, <3>1, CallChanged, NoTodo
  <2>4. CASE call' = [call EXCEPT !.todo = Tail(call.todo)]
    BY <1>0, <2>1, <2>4, CallChanged
  <2> QED
    BY <2>2, <2>3, <2>4
<1>10. CASE LbStarted \/ LbServersStopped \/ LbJoin \/ LbTake
  BY <1>0, <1>3, <1>4, <1>10 DEF LbStarted, LbServersStopped, LbJoin, LbTake
<1>11. CASE UNCHANGED call
  BY <1>11
<1> QED
  BY <1>5, <1>6, <1>7, <1>8, <1>9, <1>10, <1>11
  DEF LbNext, LbCalls, LbCallStep, LbServerStops, Advertiser, AdvOpens, AdvCopies, AdvSends,
      LbEnvironment, ForeignPort

(* Every step keeps the types of the host's own variables.                  *)
LEMMA LbTypeStep == Typed /\ [LbNext]_<<call, lbVars>> => LbTypeOK'
<1> SUFFICES ASSUME CallOK, LbTypeOK, [LbNext]_<<call, lbVars>> PROVE LbTypeOK'
  BY DEF Typed
<1> USE PortsAssumption DEF LbTypeOK, NoPort
<1>0. ASSUME NEW t \in Targets, CanAdd(t), AddServer(t)
      PROVE  servers' \in [Targets -> 0..MaxPort]
  <2>1. lbOptions.tcpPort \in 0..MaxPort
    BY DEF LbOptionsOK
  <2> QED
    BY <1>0, <2>1, AddServerAdds
<1>1. ASSUME NEW ts \in Seq(Targets), LbStart(ts) PROVE LbTypeOK'
  BY <1>1, OptionsTyped DEF LbStart, LbOptionsOK
<1>2. ASSUME NEW t \in Targets, LbAddTarget(t) PROVE LbTypeOK'
  BY <1>0, <1>2 DEF LbAddTarget, AddFails, LbOptionsOK
<1>3. ASSUME NEW t \in Targets, LbRemoveTarget(t) PROVE LbTypeOK'
  <2>1. servers[t] \in 0..MaxPort /\ 0 \in 0..MaxPort
    OBVIOUS
  <2>2. [closing EXCEPT ![t] = servers[t]] \in [Targets -> 0..MaxPort]
        /\ [servers EXCEPT ![t] = NoPort] \in [Targets -> 0..MaxPort]
    BY <2>1
  <2>3. servers' \in [Targets -> 0..MaxPort] /\ closing' \in [Targets -> 0..MaxPort]
    BY <1>3, <2>2 DEF LbRemoveTarget
  <2> QED
    BY <1>3, <2>3 DEF LbRemoveTarget, LbOptionsOK
<1>4. CASE LbStop \/ LbStarted \/ LbJoin
  BY <1>4 DEF LbStop, LbStarted, LbJoin, LbOptionsOK
<1>5. CASE LbStartAdds
  <2>1. Head(call.todo) \in Targets
    BY <1>5 DEF LbStartAdds, CallOK
  <2> QED
    BY <1>0, <1>5, <2>1 DEF LbStartAdds, AddFails, LbOptionsOK
<1>6. CASE LbTake
  BY <1>6 DEF LbTake, Nowhere, LbOptionsOK
<1>7. ASSUME NEW t \in Targets, LbServerStops(t) PROVE LbTypeOK'
  BY <1>7 DEF LbServerStops, LbOptionsOK
<1>8. CASE AdvOpens \/ AdvSends
  BY <1>8 DEF AdvOpens, AdvSends, LbOptionsOK
<1>9. CASE AdvCopies
  <2>1. {Advertisement(t) : t \in Running} \subseteq Targets \X (1..MaxPort)
    BY DEF Advertisement, Running
  <2> QED
    BY <1>9, <2>1 DEF AdvCopies, LbOptionsOK
<1>10. ASSUME NEW p \in ForeignPorts, ForeignPort(p) PROVE LbTypeOK'
  BY <1>10 DEF ForeignPort, LbOptionsOK
<1>11. CASE UNCHANGED lbVars
  BY <1>11 DEF lbVars, LbOptionsOK
<1> QED
  BY <1>1, <1>2, <1>3, <1>4, <1>5, <1>6, <1>7, <1>8, <1>9, <1>10, <1>11
  DEF LbNext, LbCalls, LbCallStep, LbServersStopped, Advertiser, LbEnvironment

(* The variables of the Libera host keep their types; in particular no      *)
(* port ever leaves the 16 bits it is stored in.                            *)
THEOREM LiberaHostTyped == LbSpec => []Typed
<1>1. CallInit /\ LbInit => Typed
  <2> SUFFICES ASSUME CallInit, LbInit PROVE CallOK /\ LbTypeOK
    BY DEF Typed
  <2>1. CallOK
    BY CallTyped, NoTodo, "idle" \in Places DEF CallInit, CallOK, Calls, NoCall, Places, HostTypes
  <2>2. LbOptionsOK
    BY OptionsTyped DEF LbInit, LbOptionsOK
  <2>3. Nowhere \in [Targets -> 0..MaxPort]
    BY PortsAssumption DEF Nowhere, NoPort
  <2> QED
    BY <2>1, <2>2, <2>3 DEF LbInit, LbTypeOK
<1>2. Typed /\ [LbNext]_<<call, lbVars>> => Typed'
  BY LbCallStepTyped, LbTypeStep DEF Typed
<1> QED
  BY <1>1, <1>2, PTL DEF LbSpec
------------------------------------------------------------------------------
(* Ports and threads *)

(* What the call in progress is after each kind of step, as far as the      *)
(* invariant asks.                                                          *)
LEMMA CallMoves ==
  ASSUME CallOK, NEW p, NEW ts, NEW b
  PROVE  /\ Answer("libera", b) => call'.host = "libera" /\ call'.pc = "done"
         /\ Enter("libera", p, ts) => call'.host = "libera" /\ call'.pc = p
         /\ Move(p) => call'.host = call.host /\ call'.pc = p
         /\ Return(b) => call'.host = call.host /\ call'.pc = "done"
<1>1. Answer("libera", b) => call'.host = "libera" /\ call'.pc = "done"
  BY DEF Answer
<1>2. Enter("libera", p, ts) => call'.host = "libera" /\ call'.pc = p
  BY DEF Enter
<1>3. Move(p) => call'.host = call.host /\ call'.pc = p
  BY DEF CallOK, Move
<1>4. Return(b) => call'.host = call.host /\ call'.pc = "done"
  BY DEF CallOK, Return
<1> QED
  BY <1>1, <1>2, <1>3, <1>4

(* A new server leaves all ports distinct.                                  *)
LEMMA AddKeepsPorts ==
  ASSUME LbTypeOK, LbInv, NEW t \in Targets, CanAdd(t), AddServer(t),
         UNCHANGED <<closing, lbOptions>>
  PROVE  PortsDistinct'
<1>1. CASE UNCHANGED servers
  BY <1>1 DEF LbInv, PortsDistinct
<1>2. ASSUME NEW p \in lbOptions.tcpPort..MaxPort,
             servers' = [servers EXCEPT ![t] = p],
             \A u \in Targets : servers[u] # p /\ closing[u] # p
      PROVE  PortsDistinct'
  <2>1. lbOptions.tcpPort \in Nat /\ servers \in [Targets -> 0..MaxPort]
        /\ MaxPort \in Nat
    BY PortsAssumption DEF LbTypeOK, LbOptionsOK
  <2>2. /\ servers'[t] = p /\ p >= lbOptions.tcpPort
        /\ \A u \in Targets \ {t} : servers'[u] = servers[u]
    BY <1>2, <2>1
  <2>3. ASSUME NEW u \in Targets, NEW v \in Targets, servers'[u] # NoPort
        PROVE  /\ servers'[u] # closing[v] /\ servers'[u] >= lbOptions.tcpPort
               /\ u # v => servers'[u] # servers'[v]
    BY <1>2, <2>2, <2>3 DEF LbInv, PortsDistinct
  <2> QED
    BY <2>3 DEF LbInv, PortsDistinct
<1> QED
  BY <1>1, <1>2, AddServerAdds

(* A host that holds nothing has distinct ports.                            *)
LEMMA NowhereDistinct == servers = Nowhere /\ closing = Nowhere => PortsDistinct
  BY DEF PortsDistinct, Nowhere

(* The invariant of the host is inductive.                                  *)
LEMMA InvStep == Typed /\ LbInv /\ [LbNext]_<<call, lbVars>> => LbInv'
<1> SUFFICES ASSUME CallOK, LbTypeOK, LbInv, [LbNext]_<<call, lbVars>> PROVE LbInv'
  BY DEF Typed
<1>0. {"idle", "adding", "join", "take", "drain", "drainOne", "done"} \subseteq Places
  BY DEF Places
<1> USE DEF LbInv
<1>1. ASSUME NEW ts \in Seq(Targets), LbStart(ts) PROVE LbInv'
  <2>1. call.pc = "idle" /\ closing = Nowhere /\ UNCHANGED <<servers, closing, advertiser>>
    BY <1>1 DEF LbStart, CallShape, Serving
  <2>2. CASE Answer("libera", lbActive) /\ UNCHANGED <<lbOptions, lbActive>>
    <3>1. call'.host = "libera" /\ call'.pc = "done"
      BY <1>0, <2>2, CallMoves
    <3>2. CallShape' /\ StoppedHostIsSilent'
      BY <2>1, <2>2, <3>1 DEF CallShape, StoppedHostIsSilent, Stopping, Serving
    <3> QED
      BY <2>1, <2>2, <3>2 DEF PortsDistinct, RatesOrdered
  <2>3. CASE /\ ~lbActive /\ Enter("libera", "adding", ts)
             /\ lbOptions' = MakeHostOptions(lbConfig) /\ lbActive'
    <3>1. call'.host = "libera" /\ call'.pc = "adding"
      BY <1>0, <2>3, CallMoves
    <3>2. servers = Nowhere
      BY <2>1, <2>3 DEF StoppedHostIsSilent, Stopping
    <3>3. PortsDistinct'
      BY <2>1, <3>2 DEF PortsDistinct, Nowhere
    <3>4. RatesOrdered'
      BY <2>3, OptionsTyped DEF RatesOrdered, LbTypeOK
    <3>5. CallShape' /\ StoppedHostIsSilent'
      BY <2>1, <2>3, <3>1 DEF CallShape, StoppedHostIsSilent, Stopping, Serving
    <3> QED
      BY <3>3, <3>4, <3>5
  <2> QED
    BY <1>1, <2>2, <2>3 DEF LbStart
<1>2. ASSUME NEW t \in Targets, LbAddTarget(t) PROVE LbInv'
  <2>1. /\ call.pc = "idle" /\ closing = Nowhere
        /\ UNCHANGED <<lbOptions, lbActive, closing, advertiser>>
    BY <1>2 DEF LbAddTarget, CallShape, Serving
  <2>2. call'.host = "libera" /\ call'.pc = "done"
    BY <1>0, <1>2, CallMoves DEF LbAddTarget
  <2>3. CASE UNCHANGED servers
    BY <2>1, <2>2, <2>3
    DEF PortsDistinct, RatesOrdered, CallShape, StoppedHostIsSilent, Stopping, Serving
  <2>4. CASE lbActive /\ ~AddFails(t) /\ AddServer(t)
    <3>1. PortsDistinct'
      BY <2>1, <2>4, AddKeepsPorts DEF AddFails
    <3> QED
      BY <2>1, <2>2, <2>4, <3>1
      DEF RatesOrdered, CallShape, StoppedHostIsSilent, Stopping, Serving
  <2> QED
    BY <1>2, <2>3, <2>4 DEF LbAddTarget
<1>3. ASSUME NEW t \in Targets, LbRemoveTarget(t) PROVE LbInv'
  <2>1. /\ call.pc = "idle" /\ closing = Nowhere
        /\ UNCHANGED <<lbOptions, lbActive, advertiser>>
    BY <1>3 DEF LbRemoveTarget, CallShape, Serving
  <2>2. CASE Answer("libera", FALSE) /\ UNCHANGED <<servers, closing>>
    <3>1. call'.host = "libera" /\ call'.pc = "done"
      BY <1>0, <2>2, CallMoves
    <3> QED
      BY <2>1, <2>2, <3>1
      DEF PortsDistinct, RatesOrdered, CallShape, StoppedHostIsSilent, Stopping, Serving
  <2>3. CASE /\ lbActive /\ Enter("libera", "drainOne", <<>>)
             /\ closing' = [closing EXCEPT ![t] = servers[t]]
             /\ servers' = [servers EXCEPT ![t] = NoPort]
    <3>1. call'.host = "libera" /\ call'.pc = "drainOne"
      BY <1>0, <2>3, CallMoves
    <3>2. /\ servers'[t] = NoPort /\ closing'[t] = servers[t]
          /\ \A u \in Targets \ {t} : servers'[u] = servers[u] /\ closing'[u] = NoPort
      BY <2>1, <2>3 DEF LbTypeOK, Nowhere
    <3>3. PortsDistinct'
      BY <2>1, <3>2 DEF PortsDistinct
    <3> QED
      BY <2>1, <2>3, <3>1, <3>3
      DEF RatesOrdered, CallShape, StoppedHostIsSilent, Stopping, Serving
  <2> QED
    BY <1>3, <2>2, <2>3 DEF LbRemoveTarget
<1>4. CASE LbStop
  <2>1. /\ call.pc = "idle" /\ closing = Nowhere /\ lbActive' = FALSE
        /\ UNCHANGED <<lbOptions, servers, closing, advertiser>>
    BY <1>4 DEF LbStop, CallShape, Serving
  <2>2. CASE lbActive /\ Enter("libera", "join", <<>>)
    <3>1. call'.host = "libera" /\ call'.pc = "join"
      BY <1>0, <2>2, CallMoves
    <3> QED
      BY <2>1, <3>1
      DEF PortsDistinct, RatesOrdered, CallShape, StoppedHostIsSilent, Stopping, Serving
  <2>3. CASE ~lbActive /\ Answer("libera", TRUE)
    <3>1. call'.host = "libera" /\ call'.pc = "done"
      BY <1>0, <2>3, CallMoves
    <3> QED
      BY <2>1, <2>3, <3>1
      DEF PortsDistinct, RatesOrdered, CallShape, StoppedHostIsSilent, Stopping, Serving
  <2> QED
    BY <1>4, <2>2, <2>3 DEF LbStop
<1>5. CASE Returned("libera") /\ call' = NoCall /\ UNCHANGED lbVars
  BY <1>5
  DEF Returned, NoCall, lbVars, PortsDistinct, RatesOrdered, CallShape, StoppedHostIsSilent,
      Stopping, Serving
<1>6. CASE LbStartAdds
  <2>1. /\ call.host = "libera" /\ call.pc = "adding" /\ lbActive /\ closing = Nowhere
        /\ UNCHANGED <<lbOptions, closing, advertiser>>
    BY <1>6 DEF LbStartAdds, CallShape, Serving
  <2>2. CASE /\ call' = [call EXCEPT !.pc = "join", !.todo = <<>>, !.ok = FALSE]
             /\ lbActive' = FALSE /\ UNCHANGED servers
    <3>1. call'.host = "libera" /\ call'.pc = "join"
      BY <2>1, <2>2 DEF CallOK
    <3> QED
      BY <2>1, <2>2, <3>1
      DEF PortsDistinct, RatesOrdered, CallShape, StoppedHostIsSilent, Stopping, Serving
  <2>3. CASE /\ ~AddFails(Head(call.todo)) /\ AddServer(Head(call.todo))
             /\ call' = [call EXCEPT !.todo = Tail(call.todo)] /\ UNCHANGED lbActive
    <3>1. call'.host = "libera" /\ call'.pc = "adding"
      BY <2>1, <2>3 DEF CallOK
    <3>2. Head(call.todo) \in Targets
      BY <1>6 DEF LbStartAdds, CallOK
    <3>3. PortsDistinct'
      BY <2>1, <2>3, <3>2, AddKeepsPorts DEF AddFails
    <3> QED
      BY <2>1, <2>3, <3>1, <3>3
      DEF RatesOrdered, CallShape, StoppedHostIsSilent, Stopping, Serving
  <2> QED
    BY <1>6, <2>2, <2>3 DEF LbStartAdds
<1>7. CASE LbStarted
  <2>1. /\ call.host = "libera" /\ call.pc = "adding" /\ lbActive /\ closing = Nowhere
        /\ UNCHANGED <<lbOptions, lbActive, servers, closing>>
    BY <1>7 DEF LbStarted, CallShape, Serving
  <2>2. call'.host = "libera" /\ call'.pc = "done"
    BY <1>0, <1>7, <2>1, CallMoves DEF LbStarted
  <2> QED
    BY <2>1, <2>2
    DEF PortsDistinct, RatesOrdered, CallShape, StoppedHostIsSilent, Stopping, Serving
<1>8. CASE LbServersStopped
  <2>1. /\ call.host = "libera" /\ call.pc \in {"drain", "drainOne"} /\ closing = Nowhere
        /\ UNCHANGED <<lbOptions, lbActive, servers, closing, advertiser>>
    BY <1>8 DEF LbServersStopped, Serving, lbVars
  <2>2. call'.host = "libera" /\ call'.pc = "done"
    BY <1>0, <1>8, <2>1, CallMoves DEF LbServersStopped
  <2> QED
    BY <2>1, <2>2
    DEF PortsDistinct, RatesOrdered, CallShape, StoppedHostIsSilent, Stopping, Serving
<1>9. CASE LbJoin
  <2>1. /\ call.host = "libera" /\ call.pc = "join" /\ advertiser' = "none"
        /\ UNCHANGED <<lbOptions, lbActive, servers, closing>>
    BY <1>9 DEF LbJoin, Serving
  <2>2. call'.host = "libera" /\ call'.pc = "take"
    BY <1>0, <1>9, <2>1, CallMoves DEF LbJoin
  <2> QED
    BY <2>1, <2>2
    DEF PortsDistinct, RatesOrdered, CallShape, StoppedHostIsSilent, Stopping, Serving
<1>10. CASE LbTake
  <2>1. /\ call.host = "libera" /\ call.pc = "take"
        /\ closing' = servers /\ servers' = Nowhere
        /\ UNCHANGED <<lbOptions, lbActive, advertiser>>
    BY <1>10 DEF LbTake, Serving
  <2>2. call'.host = "libera" /\ call'.pc = "drain"
    BY <1>0, <1>10, <2>1, CallMoves DEF LbTake
  <2>3. PortsDistinct'
    BY <2>1 DEF PortsDistinct, Nowhere
  <2> QED
    BY <2>1, <2>2, <2>3 DEF RatesOrdered, CallShape, StoppedHostIsSilent, Stopping, Serving
<1>11. ASSUME NEW t \in Targets, LbServerStops(t) PROVE LbInv'
  <2>1. /\ call.host = "libera" /\ call.pc \in {"drain", "drainOne"}
        /\ closing' = [closing EXCEPT ![t] = NoPort]
        /\ UNCHANGED <<call, lbOptions, lbActive, servers, advertiser>>
    BY <1>11 DEF LbServerStops, Serving
  <2>2. /\ closing'[t] = NoPort
        /\ \A u \in Targets \ {t} : closing'[u] = closing[u]
    BY <2>1 DEF LbTypeOK
  <2>3. PortsDistinct'
    BY <2>1, <2>2 DEF PortsDistinct
  <2>4. CallShape' /\ StoppedHostIsSilent'
    BY <2>1 DEF CallShape, StoppedHostIsSilent, Stopping, Serving
  <2> QED
    BY <2>1, <2>3, <2>4 DEF RatesOrdered
<1>12. CASE Advertiser
  <2>1. /\ advertiser # "none"
        /\ UNCHANGED <<call, lbOptions, lbActive, servers, closing>>
    BY <1>12 DEF Advertiser, AdvOpens, AdvCopies, AdvSends
  <2> QED
    BY <2>1 DEF PortsDistinct, RatesOrdered, CallShape, StoppedHostIsSilent, Stopping, Serving
<1>13. CASE LbEnvironment \/ UNCHANGED <<call, lbVars>>
  <2>1. UNCHANGED <<call, lbOptions, lbActive, servers, closing, advertiser>>
    BY <1>13 DEF LbEnvironment, ForeignPort, lbVars
  <2> QED
    BY <2>1 DEF PortsDistinct, RatesOrdered, CallShape, StoppedHostIsSilent, Stopping, Serving
<1> QED
  BY <1>1, <1>2, <1>3, <1>4, <1>5, <1>6, <1>7, <1>8, <1>9, <1>10, <1>11, <1>12, <1>13
  DEF LbNext, LbCalls, LbCallStep

LEMMA InvHolds == LbSpec => []LbInv
<1>1. CallInit /\ LbInit => LbInv
  <2> SUFFICES ASSUME CallInit, LbInit PROVE LbInv
    OBVIOUS
  <2>1. RatesOrdered
    BY OptionsTyped DEF LbInit, RatesOrdered
  <2>2. PortsDistinct
    BY NowhereDistinct DEF LbInit
  <2> QED
    BY <2>1, <2>2
    DEF CallInit, NoCall, LbInit, LbInv, CallShape, StoppedHostIsSilent, Stopping, Serving
<1> QED
  BY <1>1, LiberaHostTyped, InvStep, PTL DEF LbSpec

(* No two servers of a host ever hold the same port, and none lies below    *)
(* the configured base, whatever targets come and go: addServer() and       *)
(* removeServer() with the gaps nextServerIndexLocked() finds again.        *)
THEOREM PortsAreDistinct == LbSpec => []PortsDistinct
  BY InvHolds, PTL DEF LbInv

(* Whatever ended it, stop() or a start() that failed at any target, a host *)
(* that is down holds no port and its advertiser thread has been joined.    *)
THEOREM StoppedHostsAreSilent == LbSpec => []StoppedHostIsSilent
  BY InvHolds, PTL DEF LbInv

(* The bounds runSession() hands to std::clamp are in order for every       *)
(* option text makeHostOptions() may read.                                  *)
THEOREM RatesAreOrdered == LbSpec => []RatesOrdered
  BY InvHolds, PTL DEF LbInv
=============================================================================
