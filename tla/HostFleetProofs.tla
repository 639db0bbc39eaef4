-------------------------- MODULE HostFleetProofs --------------------------
(***************************************************************************)
(* Proofs about the Ether Dream host under any sequence of calls (EdInv),   *)
(* and about both hosts under the calls that LinkRuntime::start and stop    *)
(* make of them (FleetInv), for every finite set of targets, every          *)
(* configuration, every list of interfaces, every route and any number of   *)
(* failed removals and crashes.                                             *)
(***************************************************************************)
EXTENDS HostFleet, LiberaHostProofs, FiniteSetTheorems

(* What the steps of the host need to know of the types.                    *)
Allocs == [got : Seq(Int), next : Int, floor : Int]
EdTyped ==
  /\ CallOK /\ edConfig \in DeviceOptions /\ interfaces \in InterfaceLists
  /\ aliases \in Seq(Int) /\ alloc \in Allocs /\ DOMAIN devices = Targets

(* Addresses are chosen, and aliases removed, only while no device listens. *)
NoDeviceYet ==
  /\ call.host = "etherdream" /\ call.pc \in {"cleanup", "allocate", "ensure"} => devices = NoDevices
  /\ devices # NoDevices =>
       edActive \/ (call.host = "etherdream" /\ call.pc \in {"device", "stopDevices"})
  /\ Serving("etherdream", "allocate") => call.todo # <<>>

(* The devices get one address each.                                        *)
AddressForEach == Serving("etherdream", "device") => Len(alloc.got) = Len(call.todo)

(* The walk is on loopback addresses, or below the broadcast address of an  *)
(* interface.                                                               *)
InWalk(next, floor) ==
  IsLoopback(next) \/ (Candidates # {} /\ floor = Network /\ next < Broadcast)
WalkInSubnet == Serving("etherdream", "ensure") => InWalk(alloc.next, alloc.floor)

EdInv == EdTyped /\ AddressesAccounted /\ NoDeviceYet /\ AddressForEach /\ WalkInSubnet
------------------------------------------------------------------------------
(* Addresses *)

LEMMA SpaceInt == 2^Width \in Int /\ \A i \in Int : Loopback(i) \in Int /\ (i > 0 => IsLoopback(Loopback(i)))
<1>1. 2^Width \in Int
  BY NetworkAssumption
<1> QED
  BY <1>1 DEF Loopback, IsLoopback

LEMMA AddressesNat ==
  /\ Addresses \subseteq Nat /\ Addresses \subseteq Int /\ NetworkAddresses \subseteq Addresses
  /\ Cardinality(Targets) \in Nat /\ NoAddress \notin Addresses
<1>1. Cardinality(Targets) \in Nat
  BY TargetsAssumption, FS_CardinalityType
<1>2. \A i \in 1..Cardinality(Targets) : Loopback(i) \in Nat
  BY <1>1, NetworkAssumption DEF Loopback
<1>3. NetworkAddresses \subseteq Nat
  BY NetworkAssumption DEF NetworkAddresses
<1>4. Addresses \subseteq Nat /\ NetworkAddresses \subseteq Addresses
  BY <1>2, <1>3 DEF Addresses
<1>5. NoAddress \notin Nat
  BY DEF NoAddress
<1>6. NoAddress \notin Addresses
  BY <1>4, <1>5, Zenon
<1>7. Addresses \subseteq Int
  BY <1>4
<1> QED
  BY <1>1, <1>4, <1>6, <1>7, Zenon

LEMMA ConfigTyped ==
  ASSUME EdTyped
  PROVE  /\ edConfig.addresses \in Seq(Int) /\ edConfig.base \in Int
         /\ edConfig.base \in NetworkAddresses \cup {Absent, Malformed}
<1>1. PICK c \in EdConfigs : edConfig = MakeDeviceOptions(c)
  BY DEF EdTyped, DeviceOptions
<1>2. c \in [addresses : Seq(Int), mode : STRING, interface : Nat,
             base : NetworkAddresses \cup {Absent, Malformed}, manage : STRING, discovery : STRING]
  BY NetworkAssumption
<1>3. edConfig.addresses = c.addresses /\ edConfig.base = c.base
  BY <1>1, <1>2 DEF MakeDeviceOptions
<1>4. c.addresses \in Seq(Int) /\ c.base \in NetworkAddresses \cup {Absent, Malformed}
  BY <1>2
<1>5. NetworkAddresses \cup {Absent, Malformed} \subseteq Int
  BY DEF NetworkAddresses, Absent, Malformed
<1> QED
  BY <1>3, <1>4, <1>5

(* The interface that is used, when there is one.                           *)
LEMMA InterfaceTyped ==
  ASSUME EdTyped, Candidates # {}
  PROVE  /\ Interface.addr \in Int /\ Interface.size \in Nat \ {0} /\ Interface.bcast \in Int
         /\ Interface.addr \in NetworkAddresses /\ Interface.bcast \in NetworkAddresses
         /\ \A a \in NetworkAddresses : NetworkOf(a) + Interface.size <= 2^Width
<1> DEFINE R == [name : Nat \ {0}, addr : Addresses, size : Nat \ {0}, bcast : Addresses,
                 loopback : BOOLEAN, default : BOOLEAN]
<1>1. interfaces \in Seq(R)
  BY NetworkAssumption DEF EdTyped
<1>2. Candidates \subseteq DOMAIN interfaces /\ Preferred \subseteq Candidates /\ Preferred # {}
  BY DEF Candidates, Preferred
<1>3. DOMAIN interfaces \subseteq Nat
  BY <1>1
<1>4. \E i \in Preferred : \A j \in Preferred : i <= j
  BY <1>2, <1>3, SmallestMember
<1> DEFINE k == CHOOSE i \in Preferred : \A j \in Preferred : i <= j
<1>5. k \in DOMAIN interfaces /\ ~interfaces[k].loopback
  <2>1. k \in Preferred
    BY <1>4, Zenon
  <2>2. k \in Candidates
    BY <1>2, <2>1, Zenon
  <2> QED
    BY <2>2, Zenon DEF Candidates
<1> HIDE DEF R
<1>6. interfaces[k] \in R
  BY <1>1, <1>5
<1>7. Interface = interfaces[k] /\ Interface \in R
  BY <1>6 DEF Interface
<1>8. /\ Interface.addr \in NetworkAddresses /\ Interface.bcast \in NetworkAddresses
      /\ \A a \in NetworkAddresses : (a \div Interface.size) * Interface.size + Interface.size <= 2^Width
  <2> HIDE DEF k
  <2> QED
    BY <1>5, <1>7, NetworkAssumption DEF EdTyped
<1>9. Interface.size \in Nat \ {0}
  BY <1>7 DEF R
<1> QED
  BY <1>8, <1>9, AddressesNat DEF NetworkOf

LEMMA SubnetTyped ==
  ASSUME EdTyped, Candidates # {}
  PROVE  /\ Network \in Int /\ Broadcast \in Int
         /\ edConfig.base # Malformed => Network \in Nat /\ Broadcast < 2^Width
<1>1. Interface.addr \in Int /\ Interface.size \in Nat \ {0} /\ Interface.bcast \in Int
  BY InterfaceTyped
<1>2. \A a \in Int : NetworkOf(a) \in Int
  BY <1>1 DEF NetworkOf
<1>3. Network \in Int
  BY <1>1, <1>2, ConfigTyped DEF Network
<1>4. \A a \in NetworkAddresses : NetworkOf(a) \in Nat /\ NetworkOf(a) + Interface.size <= 2^Width
  <2>1. \A a \in NetworkAddresses : NetworkOf(a) + Interface.size <= 2^Width
    BY InterfaceTyped
  <2>2. \A a \in Nat : NetworkOf(a) \in Nat
    BY <1>1 DEF NetworkOf
  <2> QED
    BY <2>1, <2>2, AddressesNat
<1>5. ASSUME edConfig.base # Malformed PROVE Network \in Nat /\ Network + Interface.size <= 2^Width
  BY <1>4, <1>5, ConfigTyped, InterfaceTyped DEF Network
<1>6. Interface.bcast < 2^Width /\ 2^Width \in Int
  BY InterfaceTyped, NetworkAssumption DEF NetworkAddresses
<1>7. Broadcast \in {Interface.bcast, Network + Interface.size - 1}
  BY DEF Broadcast
<1> QED
  BY <1>1, <1>3, <1>5, <1>6, <1>7

LEMMA SameSubnet ==
  ASSUME UNCHANGED <<edConfig, interfaces>>
  PROVE  Network' = Network /\ Broadcast' = Broadcast /\ Original' = Original /\ Candidates' = Candidates
BY DEF Network, Broadcast, NetworkOf, Interface, Preferred, Candidates, Original, Elements

LEMMA EdUnmoved ==
  ASSUME EdInv, UNCHANGED <<edConfig, interfaces, assigned, aliases, left, devices>>
  PROVE  /\ AddressesAccounted' /\ DOMAIN devices' = Targets /\ aliases' \in Seq(Int)
         /\ (edConfig \in DeviceOptions /\ interfaces \in InterfaceLists)'
<1>1. Network' = Network /\ Broadcast' = Broadcast /\ Original' = Original
  BY SameSubnet
<1>2. AddressesAccounted'
  BY <1>1 DEF EdInv, AddressesAccounted, AliasesAccounted, AliasesInsideSubnet, DevicesKeepAddresses,
              Elements, IsLoopback
<1> QED
  BY <1>2 DEF EdInv, EdTyped

(* What the call in progress is after a step of the host.                   *)
LEMMA EdCallMoves ==
  ASSUME CallOK, NEW p \in Places, NEW b \in BOOLEAN, NEW ts \in Seq(Targets)
  PROVE  /\ Answer("etherdream", b) => CallOK' /\ call'.host = "etherdream" /\ call'.pc = "done"
         /\ Enter("etherdream", p, ts) =>
              CallOK' /\ call'.host = "etherdream" /\ call'.pc = p /\ call'.todo = ts
         /\ Move(p) => CallOK' /\ call'.host = call.host /\ call'.pc = p /\ call'.todo = call.todo
         /\ Return(b) => CallOK' /\ call'.host = call.host /\ call'.pc = "done"
         /\ call' = NoCall => CallOK' /\ call'.host = "none" /\ call'.pc = "idle"
<1>1. /\ call \in Calls /\ "done" \in Places /\ "idle" \in Places /\ "etherdream" \in HostTypes
      /\ <<>> \in Seq(Targets)
  BY DEF CallOK, Calls, Places, HostTypes
<1>2. call' \in Calls => CallOK'
  BY DEF CallOK, Calls
<1>3. ASSUME Answer("etherdream", b) PROVE CallOK' /\ call'.host = "etherdream" /\ call'.pc = "done"
  <2>1. call' = [host |-> "etherdream", pc |-> "done", todo |-> <<>>, ok |-> b]
    BY <1>3 DEF Answer
  <2>2. call' \in Calls
    BY <1>1, <2>1, CallTyped, Zenon
  <2> QED
    BY <1>2, <2>1, <2>2
<1>4. ASSUME Enter("etherdream", p, ts)
      PROVE  CallOK' /\ call'.host = "etherdream" /\ call'.pc = p /\ call'.todo = ts
  <2>1. call' = [host |-> "etherdream", pc |-> p, todo |-> ts, ok |-> TRUE]
    BY <1>4 DEF Enter
  <2>2. call' \in Calls
    BY <1>1, <2>1, CallTyped, Zenon
  <2> QED
    BY <1>2, <2>1, <2>2
<1>5. ASSUME Move(p) PROVE CallOK' /\ call'.host = call.host /\ call'.pc = p /\ call'.todo = call.todo
  <2>1. call' = [call EXCEPT !.pc = p]
    BY <1>5 DEF Move
  <2>2. call' \in Calls
    BY <1>1, <2>1, CallChanged
  <2> QED
    BY <1>1, <1>2, <2>1, <2>2 DEF Calls
<1>6. ASSUME Return(b) PROVE CallOK' /\ call'.host = call.host /\ call'.pc = "done"
  <2>1. call' = [call EXCEPT !.pc = "done", !.todo = <<>>, !.ok = b]
    BY <1>6 DEF Return
  <2>2. call' \in Calls
    BY <1>1, <2>1, CallChanged
  <2> QED
    BY <1>1, <1>2, <2>1, <2>2 DEF Calls
<1>7. ASSUME call' = NoCall PROVE CallOK' /\ call'.host = "none" /\ call'.pc = "idle"
  <2>1. call' = [host |-> "none", pc |-> "idle", todo |-> <<>>, ok |-> TRUE]
    BY <1>7 DEF NoCall
  <2>2. call' \in Calls
    BY <1>1, <2>1, CallTyped, Zenon
  <2> QED
    BY <1>2, <2>1, <2>2
<1> QED
  BY <1>3, <1>4, <1>5, <1>6, <1>7
------------------------------------------------------------------------------
(* The steps of the host *)

(* A step that only moves the call, or makes or ends one.                   *)
LEMMA EdPassive ==
  ASSUME EdInv, UNCHANGED edVars, CallOK',
         call'.host = "etherdream" =>
           \/ call'.pc = "done" /\ (edActive \/ devices = NoDevices)
           \/ call'.pc = "cleanup" /\ devices = NoDevices
           \/ call'.pc = "stopDevices",
         call'.host # "etherdream" => devices = NoDevices \/ edActive
  PROVE  EdInv'
<1>1. UNCHANGED <<edConfig, interfaces, assigned, aliases, left, devices, alloc, edActive>>
  BY DEF edVars
<1>2. EdTyped' /\ AddressesAccounted'
  BY <1>1, EdUnmoved DEF EdInv, EdTyped
<1>3. NoDeviceYet'
  BY <1>1 DEF NoDeviceYet, Serving, NoDevices
<1>4. WalkInSubnet' /\ AddressForEach'
  BY DEF WalkInSubnet, AddressForEach, Serving
<1> QED
  BY <1>2, <1>3, <1>4 DEF EdInv

(* allocate() up to the first address it has to make sure of.               *)
LEMMA EdAllocateKeeps == ASSUME EdInv, EdAllocate PROVE EdInv'
<1>1. /\ CallOK /\ NoDeviceYet /\ EdTyped /\ {"device", "ensure", "done"} \subseteq Places
      /\ FALSE \in BOOLEAN /\ <<>> \in Seq(Targets)
  BY DEF EdInv, EdTyped, Places
<1>2. /\ call.host = "etherdream" /\ call.pc = "allocate" /\ devices = NoDevices /\ call.todo # <<>>
      /\ UNCHANGED <<edConfig, interfaces, assigned, aliases, left, devices, edActive>>
  BY <1>1 DEF EdAllocate, NoDeviceYet, Serving, machine
<1>3. Count \in Nat \ {0}
  BY <1>1, <1>2 DEF Count, CallOK
<1>4. /\ alloc' \in Allocs /\ CallOK' /\ call'.host = "etherdream" /\ call'.pc \in {"done", "device", "ensure"}
      /\ call'.pc = "ensure" => InWalk(alloc'.next, alloc'.floor)
      /\ call'.pc = "device" => Len(alloc'.got) = Len(call'.todo)
  <2>1. CASE Return(FALSE) /\ UNCHANGED alloc
    BY <1>1, <1>2, <2>1, EdCallMoves DEF EdTyped
  <2>2. CASE Ready /\ Move("device") /\ ~Refuses /\ alloc' = [NoAlloc EXCEPT !.got = ReadyAddresses]
    <3>1. ReadyAddresses \in Seq(Int) /\ Len(ReadyAddresses) = Count
      <4>1. CASE edConfig.addresses # <<>>
        <5>1. edConfig.addresses \in Seq(Int) /\ Count <= Len(edConfig.addresses)
          BY <1>1, <1>3, <2>2, <4>1, ConfigTyped DEF Refuses
        <5>2. Explicit(Count) \in Seq(Int) /\ Len(Explicit(Count)) = Count
          BY <1>3, <5>1 DEF Explicit
        <5> QED
          BY <4>1, <5>2 DEF ReadyAddresses
      <4>2. CASE edConfig.addresses = <<>>
        <5>1. Loopback(1) \in Int /\ (Candidates # {} => Interface.addr \in Int)
          BY <1>1, SpaceInt, InterfaceTyped
        <5>2. Count = 1
          BY <2>2, <4>2 DEF Ready
        <5> QED
          BY <4>2, <5>1, <5>2 DEF ReadyAddresses
      <4> QED
        BY <4>1, <4>2
    <3>2. alloc' \in Allocs /\ alloc'.got = ReadyAddresses
      BY <2>2, <3>1 DEF NoAlloc, Allocs
    <3> QED
      BY <1>1, <1>2, <2>2, <3>1, <3>2, EdCallMoves DEF Count
  <2>3. CASE /\ ~Refuses /\ ~Ready /\ Move("ensure")
             /\ alloc' = [got |-> <<>>, next |-> FirstCandidate,
                          floor |-> IF edConfig.mode = "loopback" THEN 0 ELSE Network]
    <3>1. /\ FirstCandidate \in Int /\ (edConfig.mode # "loopback" => Network \in Int)
          /\ InWalk(FirstCandidate, IF edConfig.mode = "loopback" THEN 0 ELSE Network)
      <4>1. CASE edConfig.mode = "loopback"
        BY <4>1, SpaceInt DEF FirstCandidate, InWalk
      <4>2. CASE edConfig.mode # "loopback"
        <5>1. Candidates # {}
          BY <1>3, <2>3, <4>2 DEF Refuses, Ready, OnLan
        <5>2. Network \in Int /\ Broadcast \in Int
          BY <1>1, <5>1, SubnetTyped
        <5> QED
          BY <4>2, <5>1, <5>2 DEF FirstCandidate, InWalk
      <4> QED
        BY <4>1, <4>2
    <3>2. alloc' \in Allocs
      BY <2>3, <3>1 DEF Allocs
    <3>3. alloc'.next = FirstCandidate
          /\ alloc'.floor = IF edConfig.mode = "loopback" THEN 0 ELSE Network
      BY <2>3
    <3> QED
      BY <1>1, <1>2, <2>3, <3>1, <3>2, <3>3, EdCallMoves
  <2> QED
    BY <2>1, <2>2, <2>3 DEF EdAllocate
<1>5. EdTyped' /\ AddressesAccounted'
  BY <1>2, <1>4, EdUnmoved DEF EdTyped
<1>6. NoDeviceYet'
  BY <1>2, <1>4 DEF NoDeviceYet, Serving, NoDevices
<1>7. WalkInSubnet' /\ AddressForEach'
  BY <1>2, <1>4, SameSubnet DEF WalkInSubnet, InWalk, AddressForEach, Serving, IsLoopback
<1> QED
  BY <1>5, <1>6, <1>7 DEF EdInv

(* The next candidate is in the subnet, or the walk has ended.              *)
LEMMA WalkGoesOn ==
  ASSUME EdTyped, NEW a \in Int, NEW floor, InWalk(a, floor), IsLoopback(a) \/ a > floor
  PROVE  Following(a) \in Int /\ InWalk(Following(a), floor)
<1>1. CASE IsLoopback(a)
  BY <1>1, SpaceInt DEF Following, InWalk, IsLoopback
<1>2. CASE ~IsLoopback(a)
  <2>1. Candidates # {} /\ floor = Network /\ a < Broadcast
    BY <1>2 DEF InWalk
  <2>2. Broadcast \in Int
    BY <2>1, SubnetTyped
  <2> QED
    BY <1>2, <2>1, <2>2 DEF Following, InWalk
<1> QED
  BY <1>1, <1>2

(* The candidate is taken, and the walk goes on or is over.                 *)
LEMMA TakeMoves ==
  ASSUME EdInv, Considering, Take
  PROVE  /\ alloc' \in Allocs /\ CallOK' /\ call'.host = "etherdream" /\ call'.pc \in {"device", "ensure"}
         /\ InWalk(alloc'.next, alloc'.floor)
         /\ call'.pc = "device" => Len(alloc'.got) = Len(call'.todo)
<1>1. /\ CallOK /\ EdTyped /\ {"device", "ensure"} \subseteq Places
      /\ FALSE \in BOOLEAN /\ <<>> \in Seq(Targets)
  BY DEF EdInv, EdTyped, Places
<1>2. call.host = "etherdream" /\ call.pc = "ensure" /\ alloc \in Allocs /\ InWalk(alloc.next, alloc.floor)
  BY DEF EdInv, EdTyped, WalkInSubnet, Considering, Serving
<1>3. alloc' = [alloc EXCEPT !.got = Append(alloc.got, alloc.next), !.next = Following(alloc.next)]
  BY <1>2 DEF Take, Allocs
<1>4. alloc.got \in Seq(Int) /\ alloc.next \in Int
  BY <1>2 DEF Allocs
<1>5. Following(alloc.next) \in Int /\ InWalk(Following(alloc.next), alloc.floor)
  BY <1>1, <1>2, <1>4, WalkGoesOn DEF Considering
<1>6. Append(alloc.got, alloc.next) \in Seq(Int) /\ Len(Append(alloc.got, alloc.next)) = Len(alloc.got) + 1
  BY <1>4
<1>7. /\ alloc' \in Allocs /\ alloc'.next = Following(alloc.next) /\ alloc'.floor = alloc.floor
      /\ alloc'.got = Append(alloc.got, alloc.next)
  BY <1>2, <1>3, <1>5, <1>6 DEF Allocs
<1>8. (Move("device") /\ Len(alloc.got) + 1 = Len(call.todo)) \/ Move("ensure")
  BY DEF Take, Count
<1> QED
  BY <1>1, <1>2, <1>5, <1>6, <1>7, <1>8, EdCallMoves

(* A step of the walk that leaves the machine's addresses alone: the        *)
(* candidate is skipped, is fine, or start() fails.                         *)
LEMMA EdLooksKeeps == ASSUME EdInv, EdSkips \/ EdEnsureBinds \/ EdEnsureFails PROVE EdInv'
<1>1. /\ CallOK /\ NoDeviceYet /\ EdTyped /\ {"device", "ensure", "done"} \subseteq Places
      /\ FALSE \in BOOLEAN /\ <<>> \in Seq(Targets)
  BY DEF EdInv, EdTyped, Places
<1>2. /\ call.host = "etherdream" /\ call.pc = "ensure" /\ devices = NoDevices
      /\ UNCHANGED <<edConfig, interfaces, assigned, aliases, left, devices, edActive>>
  BY <1>1 DEF EdSkips, EdEnsureBinds, EdEnsureFails, Considering, NoDeviceYet, Serving, machine, edVars
<1>3. alloc \in Allocs /\ InWalk(alloc.next, alloc.floor)
  BY <1>2 DEF EdInv, EdTyped, WalkInSubnet, Serving
<1>4. /\ alloc' \in Allocs /\ CallOK' /\ call'.host = "etherdream" /\ call'.pc \in {"done", "device", "ensure"}
      /\ call'.pc = "ensure" => InWalk(alloc'.next, alloc'.floor)
      /\ call'.pc = "device" => Len(alloc'.got) = Len(call'.todo)
  <2>1. CASE Return(FALSE) /\ UNCHANGED alloc
    BY <1>1, <1>2, <1>3, <2>1, EdCallMoves
  <2>2. ASSUME IsLoopback(alloc.next) \/ alloc.next > alloc.floor
        PROVE  Following(alloc.next) \in Int /\ InWalk(Following(alloc.next), alloc.floor)
    BY <1>1, <1>3, <2>2, WalkGoesOn DEF Allocs
  <2>3. CASE /\ alloc.next > alloc.floor /\ UNCHANGED call
             /\ alloc' = [alloc EXCEPT !.next = Following(alloc.next)]
    <3>1. alloc' \in Allocs /\ alloc'.next = Following(alloc.next) /\ alloc'.floor = alloc.floor
      BY <1>3, <2>2, <2>3 DEF Allocs
    <3>2. CallOK'
      BY <1>1, <2>3 DEF CallOK
    <3> QED
      BY <1>2, <2>2, <2>3, <3>1, <3>2
  <2>4. CASE Considering /\ Take
    BY <1>2, <2>4, TakeMoves
  <2> QED
    BY <2>1, <2>3, <2>4 DEF EdSkips, EdEnsureBinds, EdEnsureFails, edVars
<1>5. EdTyped' /\ AddressesAccounted'
  BY <1>2, <1>4, EdUnmoved DEF EdTyped
<1>6. NoDeviceYet'
  BY <1>2, <1>4 DEF NoDeviceYet, Serving, NoDevices
<1>7. WalkInSubnet' /\ AddressForEach'
  BY <1>2, <1>4, SameSubnet DEF WalkInSubnet, InWalk, AddressForEach, Serving, IsLoopback
<1> QED
  BY <1>5, <1>6, <1>7 DEF EdInv

(* An alias is added, or added and removed again.                           *)
LEMMA EdAddsKeeps == ASSUME EdInv, EdEnsureAdds PROVE EdInv'
<1>1. /\ CallOK /\ NoDeviceYet /\ EdTyped /\ AddressesAccounted /\ "done" \in Places
      /\ FALSE \in BOOLEAN /\ <<>> \in Seq(Targets)
  BY DEF EdInv, EdTyped, Places
<1>2. /\ call.host = "etherdream" /\ call.pc = "ensure" /\ devices = NoDevices
      /\ UNCHANGED <<edConfig, interfaces, devices, edActive>> /\ Considering
  BY <1>1 DEF EdEnsureAdds, Considering, NoDeviceYet, Serving, machine
<1>3. alloc \in Allocs /\ InWalk(alloc.next, alloc.floor) /\ aliases \in Seq(Int)
  BY <1>2 DEF EdInv, EdTyped, WalkInSubnet, Serving
<1>4. PICK a \in Int : a = alloc.next
  BY <1>3 DEF Allocs
<1>5. a \notin assigned /\ (IsLoopback(a) \/ (Network < a /\ a < Broadcast))
  BY <1>2, <1>3, <1>4 DEF EdEnsureAdds, Considering, InWalk
<1>6. Network' = Network /\ Broadcast' = Broadcast /\ Original' = Original /\ Candidates' = Candidates
  BY <1>2, SameSubnet
<1>7. a \notin Original \cup left \cup Elements(aliases)
  BY <1>1, <1>5 DEF AddressesAccounted, AliasesAccounted
<1>8. CASE Return(FALSE) /\ RemoveAlias(a, assigned) /\ UNCHANGED <<alloc, aliases>>
  <2>1. CallOK' /\ call'.host = "etherdream" /\ call'.pc = "done"
    BY <1>1, <1>2, <1>8, EdCallMoves
  <2>2. \/ UNCHANGED <<assigned, left>>
        \/ assigned' = assigned \cup {a} /\ left' = left \cup {a}
    BY <1>5, <1>8 DEF RemoveAlias
  <2>3. AliasesAccounted'
    BY <1>1, <1>6, <1>7, <1>8, <2>2 DEF AddressesAccounted, AliasesAccounted, Elements
  <2>4. AliasesInsideSubnet' /\ DevicesKeepAddresses'
    BY <1>1, <1>2, <1>6, <1>8
       DEF AddressesAccounted, AliasesInsideSubnet, DevicesKeepAddresses, NoDevices, IsLoopback
  <2>5. EdTyped' /\ NoDeviceYet' /\ WalkInSubnet' /\ AddressForEach'
    BY <1>1, <1>2, <1>8, <2>1 DEF EdTyped, NoDeviceYet, WalkInSubnet, AddressForEach, Serving, NoDevices
  <2> QED
    BY <2>3, <2>4, <2>5 DEF EdInv, AddressesAccounted
<1>9. CASE /\ Take /\ UNCHANGED left /\ assigned' = assigned \cup {a} /\ aliases' = Append(aliases, a)
  <2>1. /\ alloc' \in Allocs /\ CallOK' /\ call'.host = "etherdream" /\ call'.pc \in {"device", "ensure"}
        /\ InWalk(alloc'.next, alloc'.floor)
        /\ call'.pc = "device" => Len(alloc'.got) = Len(call'.todo)
    BY <1>2, <1>9, TakeMoves
  <2>2. PICK n \in Nat : n = Len(aliases)
    BY <1>3
  <2>3. /\ aliases' \in Seq(Int) /\ DOMAIN aliases = 1..n /\ DOMAIN aliases' = 1..(n + 1)
        /\ aliases'[n + 1] = a /\ \A i \in 1..n : aliases'[i] = aliases[i]
    BY <1>3, <1>9, <2>2
  <2>4. Elements(aliases)' = Elements(aliases) \cup {a}
    BY <2>3 DEF Elements
  <2>5. AliasesAccounted'
    <3>1. \A i \in 1..n : aliases[i] # a
      BY <1>7, <2>3 DEF Elements
    <3>2. \A i, j \in DOMAIN aliases' : aliases'[i] = aliases'[j] => i = j
      BY <1>1, <2>3, <3>1 DEF AddressesAccounted, AliasesAccounted
    <3> QED
      BY <1>1, <1>6, <1>7, <1>9, <2>4, <3>2 DEF AddressesAccounted, AliasesAccounted
  <2>6. AliasesInsideSubnet'
    BY <1>1, <1>5, <1>6, <2>3 DEF AddressesAccounted, AliasesInsideSubnet, IsLoopback
  <2>7. DevicesKeepAddresses'
    BY <1>2 DEF DevicesKeepAddresses, NoDevices
  <2>8. EdTyped' /\ NoDeviceYet'
    BY <1>1, <1>2, <2>1, <2>3 DEF EdTyped, NoDeviceYet, Serving, NoDevices
  <2>9. WalkInSubnet' /\ AddressForEach'
    BY <1>6, <2>1 DEF WalkInSubnet, InWalk, AddressForEach, Serving, IsLoopback
  <2> QED
    BY <2>5, <2>6, <2>7, <2>8, <2>9 DEF EdInv, AddressesAccounted
<1> QED
  BY <1>4, <1>8, <1>9 DEF EdEnsureAdds

(* A device starts, or start() fails and stops the devices.                 *)
LEMMA EdDeviceKeeps == ASSUME EdInv, EdDevice PROVE EdInv'
<1>1. CallOK /\ NoDeviceYet /\ EdTyped /\ AddressesAccounted
  BY DEF EdInv, EdTyped
<1>2. /\ call.host = "etherdream" /\ call.pc = "device" /\ call.todo # <<>>
      /\ UNCHANGED <<edConfig, interfaces, assigned, aliases, left, edActive>>
  BY DEF EdDevice, Serving, machine
<1>3. call \in Calls /\ Tail(call.todo) \in Seq(Targets) /\ "stopDevices" \in Places /\ FALSE \in BOOLEAN
      /\ <<>> \in Seq(Targets)
  BY <1>1, <1>2 DEF CallOK, Calls, Places
<1>4. call' \in Calls => CallOK'
  BY DEF CallOK, Calls
<1>5. CASE /\ CanBindAddress(Head(alloc.got))
           /\ devices' = [devices EXCEPT ![Head(call.todo)] = Head(alloc.got)]
           /\ alloc' = [alloc EXCEPT !.got = Tail(@)]
           /\ call' = [call EXCEPT !.todo = Tail(@)]
  <2>1. PICK a : a = Head(alloc.got)
    OBVIOUS
  <2>2. PICK u : u = Head(call.todo)
    OBVIOUS
  <2>3. /\ DOMAIN devices' = Targets
        /\ \A t \in Targets : devices'[t] = IF t = u THEN a ELSE devices[t]
    BY <1>1, <1>5, <2>1, <2>2 DEF EdTyped
  <2>4. (a \in assigned \/ IsLoopback(a)) /\ \A t \in Targets : devices[t] # a
    BY <1>5, <2>1 DEF CanBindAddress
  <2>5. DevicesKeepAddresses'
    BY <1>1, <1>2, <2>3, <2>4 DEF AddressesAccounted, DevicesKeepAddresses, IsLoopback
  <2>6. AliasesAccounted' /\ AliasesInsideSubnet'
    BY <1>1, <1>2, SameSubnet
       DEF AddressesAccounted, AliasesAccounted, AliasesInsideSubnet, Elements, IsLoopback
  <2>0. Len(alloc.got) = Len(call.todo)
    BY <1>2 DEF EdInv, AddressForEach, Serving
  <2>7. alloc' \in Allocs /\ Len(alloc'.got) = Len(call.todo) - 1
    <3>1. alloc.got \in Seq(Int)
      BY <1>1 DEF EdTyped, Allocs
    <3>2. alloc.got # <<>>
      BY <1>2, <1>3, <2>0, <3>1 DEF Calls
    <3>3. Tail(alloc.got) \in Seq(Int) /\ Len(Tail(alloc.got)) = Len(alloc.got) - 1
      BY <3>1, <3>2
    <3>4. alloc' \in Allocs /\ alloc'.got = Tail(alloc.got)
      BY <1>1, <1>5, <3>3 DEF EdTyped, Allocs
    <3> QED
      BY <2>0, <3>3, <3>4
  <2>8. CallOK' /\ call'.host = "etherdream" /\ call'.pc = "device" /\ Len(call'.todo) = Len(call.todo) - 1
    <3>1. call' = [call EXCEPT !.todo = Tail(call.todo)]
      BY <1>3, <1>5 DEF Calls
    <3>2. call' \in Calls
      BY <1>3, <3>1, CallChanged
    <3>3. call.todo \in Seq(Targets) /\ call'.todo = Tail(call.todo) /\ call'.host = call.host /\ call'.pc = call.pc
      BY <1>3, <3>1 DEF Calls
    <3>4. Len(Tail(call.todo)) = Len(call.todo) - 1
      BY <1>2, <3>3
    <3> QED
      BY <1>2, <1>4, <3>2, <3>3, <3>4
  <2>9. EdTyped' /\ NoDeviceYet' /\ WalkInSubnet' /\ AddressForEach'
    BY <1>1, <1>2, <2>3, <2>7, <2>8 DEF EdTyped, NoDeviceYet, WalkInSubnet, AddressForEach, Serving
  <2> QED
    BY <2>5, <2>6, <2>9 DEF EdInv, AddressesAccounted
<1>6. CASE /\ call' = [call EXCEPT !.pc = "stopDevices", !.todo = <<>>, !.ok = FALSE]
           /\ UNCHANGED <<alloc, devices>>
  <2>1. call' \in Calls
    BY <1>3, <1>6, CallChanged
  <2>2. CallOK' /\ call'.host = "etherdream" /\ call'.pc = "stopDevices"
    BY <1>2, <1>3, <1>4, <1>6, <2>1 DEF Calls
  <2>3. EdTyped' /\ AddressesAccounted'
    BY <1>1, <1>2, <1>6, <2>2, EdUnmoved DEF EdTyped
  <2>4. NoDeviceYet' /\ WalkInSubnet' /\ AddressForEach'
    BY <2>2 DEF NoDeviceYet, WalkInSubnet, AddressForEach, Serving
  <2> QED
    BY <2>3, <2>4 DEF EdInv
<1> QED
  BY <1>5, <1>6 DEF EdDevice

(* The end of start(), the middle of stop(), and the end of a cleanup.      *)
LEMMA EdTurnKeeps == ASSUME EdInv, EdStarted \/ EdStopDevices \/ EdCleaned PROVE EdInv'
<1>1. /\ CallOK /\ NoDeviceYet /\ EdTyped /\ AddressesAccounted /\ call.ok \in BOOLEAN
      /\ {"cleanup", "allocate", "done"} \subseteq Places /\ TRUE \in BOOLEAN /\ <<>> \in Seq(Targets)
  BY DEF EdInv, EdTyped, Places, CallOK
<1>2. CASE EdStarted
  <2>1. /\ UNCHANGED <<edConfig, interfaces, assigned, aliases, left, devices, alloc>> /\ edActive'
        /\ CallOK' /\ call'.host = "etherdream" /\ call'.pc = "done"
    BY <1>1, <1>2, EdCallMoves DEF EdStarted, Serving, machine
  <2>2. EdTyped' /\ AddressesAccounted'
    BY <1>1, <2>1, EdUnmoved DEF EdTyped
  <2>3. NoDeviceYet' /\ WalkInSubnet' /\ AddressForEach'
    BY <2>1 DEF NoDeviceYet, WalkInSubnet, AddressForEach, Serving
  <2> QED
    BY <2>2, <2>3 DEF EdInv
<1>3. CASE EdStopDevices
  <2>1. /\ UNCHANGED <<edConfig, interfaces, assigned, aliases, left, alloc>> /\ devices' = NoDevices
        /\ CallOK' /\ call'.host = "etherdream" /\ call'.pc = "cleanup"
    BY <1>1, <1>3, EdCallMoves DEF EdStopDevices, Serving, machine
  <2>2. EdTyped' /\ NoDeviceYet' /\ WalkInSubnet' /\ AddressForEach'
    BY <1>1, <2>1 DEF EdTyped, NoDeviceYet, WalkInSubnet, AddressForEach, Serving, NoDevices
  <2>3. AddressesAccounted'
    BY <1>1, <2>1, SameSubnet
       DEF AddressesAccounted, AliasesAccounted, AliasesInsideSubnet, DevicesKeepAddresses, NoDevices,
           Elements, IsLoopback
  <2> QED
    BY <2>2, <2>3 DEF EdInv
<1>4. CASE EdCleaned
  <2>1. /\ UNCHANGED <<edConfig, interfaces, assigned, aliases, left, devices>> /\ alloc' = NoAlloc
        /\ call.host = "etherdream" /\ call.pc = "cleanup" /\ devices = NoDevices
    BY <1>1, <1>4 DEF EdCleaned, Serving, machine, NoDeviceYet
  <2>2. /\ CallOK' /\ call'.host = "etherdream"
        /\ call'.pc = "done" \/ (call'.pc = "allocate" /\ call'.todo # <<>>)
    BY <1>1, <1>4, <2>1, EdCallMoves DEF EdCleaned
  <2>3. alloc' \in Allocs
    <3>1. <<>> \in Seq(Int)
      OBVIOUS
    <3> QED
      BY <2>1, <3>1 DEF NoAlloc, Allocs
  <2>4. EdTyped' /\ AddressesAccounted'
    BY <1>1, <2>1, <2>2, <2>3, EdUnmoved DEF EdTyped
  <2>5. NoDeviceYet' /\ WalkInSubnet' /\ AddressForEach'
    BY <2>1, <2>2 DEF NoDeviceYet, WalkInSubnet, AddressForEach, Serving, NoDevices
  <2> QED
    BY <2>4, <2>5 DEF EdInv
<1> QED
  BY <1>2, <1>3, <1>4

(* The last alias goes, or stays behind and is known to be lost.            *)
LEMMA EdCleanupKeeps == ASSUME EdInv, EdCleanup PROVE EdInv'
<1>1. /\ CallOK /\ NoDeviceYet /\ EdTyped /\ AddressesAccounted /\ aliases \in Seq(Int) /\ aliases # <<>>
      /\ UNCHANGED <<call, edConfig, interfaces, alloc, devices, edActive>> /\ devices = NoDevices
      /\ call.host = "etherdream" /\ call.pc = "cleanup"
  BY DEF EdInv, EdTyped, EdCleanup, NoDeviceYet, Serving, machine
<1>2. PICK n \in Nat \ {0} : n = Len(aliases)
  BY <1>1
<1>3. PICK a : a = aliases[n]
  OBVIOUS
<1>4. /\ aliases' \in Seq(Int) /\ DOMAIN aliases = 1..n /\ DOMAIN aliases' = 1..(n - 1)
      /\ \A i \in 1..(n - 1) : aliases'[i] = aliases[i]
  BY <1>1, <1>2 DEF EdCleanup
<1>5. Elements(aliases)' = Elements(aliases) \ {a} /\ a \in Elements(aliases)
  BY <1>1, <1>3, <1>4 DEF Elements, AddressesAccounted, AliasesAccounted
<1>6. \/ assigned' = assigned \ {a} /\ UNCHANGED left
      \/ assigned' = assigned \cup {a} /\ left' = left \cup {a}
  BY <1>2, <1>3 DEF EdCleanup, RemoveAlias
<1>7. AliasesAccounted'
  <2>1. \A i, j \in DOMAIN aliases' : aliases'[i] = aliases'[j] => i = j
    BY <1>1, <1>4 DEF AddressesAccounted, AliasesAccounted
  <2>2. Original' = Original
    BY <1>1, SameSubnet
  <2>3. assigned = Original \cup left \cup Elements(aliases) /\ Elements(aliases) \cap (Original \cup left) = {}
    BY <1>1 DEF AddressesAccounted, AliasesAccounted
  <2>4. assigned' = Original \cup left' \cup (Elements(aliases) \ {a})
    BY <1>5, <1>6, <2>3
  <2>5. (Elements(aliases) \ {a}) \cap (Original \cup left') = {}
    BY <1>6, <2>3
  <2> QED
    BY <1>5, <2>1, <2>2, <2>4, <2>5 DEF AliasesAccounted
<1>8. AliasesInsideSubnet' /\ DevicesKeepAddresses'
  BY <1>1, <1>4, SameSubnet
     DEF AddressesAccounted, AliasesInsideSubnet, DevicesKeepAddresses, NoDevices, IsLoopback
<1>9. EdTyped' /\ NoDeviceYet' /\ WalkInSubnet' /\ AddressForEach'
  BY <1>1, <1>4 DEF EdTyped, CallOK, NoDeviceYet, WalkInSubnet, AddressForEach, Serving, NoDevices
<1> QED
  BY <1>7, <1>8, <1>9 DEF EdInv, AddressesAccounted

(* The process dies: every alias it knew of is left behind.                 *)
LEMMA EdCrashKeeps == ASSUME EdInv, EdCrash, call' = NoCall PROVE EdInv'
<1>1. /\ CallOK /\ EdTyped /\ AddressesAccounted /\ "idle" \in Places /\ TRUE \in BOOLEAN
      /\ <<>> \in Seq(Targets) /\ <<>> \in Seq(Int)
  BY DEF EdInv, EdTyped, Places
<1>2. /\ UNCHANGED <<edConfig, interfaces, assigned>> /\ devices' = NoDevices /\ alloc' = NoAlloc
      /\ aliases' = <<>> /\ left' = left \cup Elements(aliases)
  BY DEF EdCrash, machine
<1>3. CallOK' /\ call'.host = "none" /\ call'.pc = "idle"
  BY <1>1, EdCallMoves
<1>4. alloc' \in Allocs
  BY <1>1, <1>2 DEF NoAlloc, Allocs
<1>5. EdTyped' /\ NoDeviceYet' /\ WalkInSubnet' /\ AddressForEach'
  BY <1>1, <1>2, <1>3, <1>4 DEF EdTyped, NoDeviceYet, WalkInSubnet, AddressForEach, Serving, NoDevices
<1>6. AddressesAccounted'
  <2>1. DOMAIN aliases' = {} /\ Elements(aliases)' = {}
    BY <1>2 DEF Elements
  <2> QED
    BY <1>1, <1>2, <2>1, SameSubnet
       DEF AddressesAccounted, AliasesAccounted, AliasesInsideSubnet, DevicesKeepAddresses, NoDevices
<1> QED
  BY <1>5, <1>6 DEF EdInv

LEMMA EdCallsKeep == ASSUME EdInv, EdCalls PROVE EdInv'
<1>1. /\ CallOK /\ NoDeviceYet /\ {"cleanup", "stopDevices"} \subseteq Places /\ FALSE \in BOOLEAN
      /\ <<>> \in Seq(Targets)
  BY DEF EdInv, EdTyped, Places
<1>2. ASSUME NEW ts \in Seq(Targets), EdStart(ts) PROVE EdInv'
  <2>1. call.pc = "idle" /\ (devices # NoDevices => edActive) /\ UNCHANGED edVars
    BY <1>1, <1>2 DEF EdStart, NoDeviceYet
  <2>2. CASE Answer("etherdream", FALSE)
    BY <1>1, <2>1, <2>2, EdCallMoves, EdPassive
  <2>3. CASE Enter("etherdream", "cleanup", ts) /\ ~edActive
    BY <1>1, <2>1, <2>3, EdCallMoves, EdPassive
  <2> QED
    BY <1>2, <2>2, <2>3 DEF EdStart
<1>3. CASE EdStop
  <2>1. call.pc = "idle" /\ UNCHANGED edVars /\ Enter("etherdream", "stopDevices", <<>>)
    BY <1>3 DEF EdStop
  <2> QED
    BY <1>1, <2>1, EdCallMoves, EdPassive
<1>4. CASE Returned("etherdream") /\ call' = NoCall /\ UNCHANGED edVars
  <2>1. devices # NoDevices => edActive
    BY <1>1, <1>4 DEF NoDeviceYet, Returned, Serving
  <2> QED
    BY <1>1, <1>4, <2>1, EdCallMoves, EdPassive
<1> QED
  BY <1>2, <1>3, <1>4, EdCrashKeeps DEF EdCalls

LEMMA EdForeignKeeps ==
  ASSUME EdInv, UNCHANGED <<call, edConfig, interfaces, assigned, aliases, left, alloc, devices, edActive>>
  PROVE  EdInv'
<1>1. EdTyped' /\ AddressesAccounted'
  BY EdUnmoved DEF EdInv, EdTyped, CallOK
<1>2. NoDeviceYet' /\ WalkInSubnet' /\ AddressForEach'
  BY SameSubnet DEF EdInv, NoDeviceYet, WalkInSubnet, InWalk, AddressForEach, Serving, NoDevices, IsLoopback
<1> QED
  BY <1>1, <1>2 DEF EdInv

LEMMA EdStepKeeps == EdInv /\ EdCallStep => EdInv'
BY EdAllocateKeeps, EdLooksKeeps, EdAddsKeeps, EdDeviceKeeps, EdTurnKeeps, EdCleanupKeeps DEF EdCallStep

LEMMA EdInitially == CallInit /\ EdInit => EdInv
<1> SUFFICES ASSUME CallInit, EdInit PROVE EdInv
  OBVIOUS
<1>1. <<>> \in Seq(Targets) /\ <<>> \in Seq(Int) /\ "idle" \in Places /\ "none" \in HostTypes \cup {"none"}
  BY DEF Places
<1>2. CallOK
  BY <1>1, CallTyped DEF CallInit, NoCall, CallOK, Calls
<1>3. EdTyped
  BY <1>1, <1>2 DEF EdInit, EdTyped, NoAlloc, Allocs, NoDevices
<1>4. AddressesAccounted
  <2>1. aliases = <<>> /\ DOMAIN aliases = {} /\ Elements(aliases) = {} /\ left = {} /\ assigned = Original
    BY DEF EdInit, Elements
  <2>2. \A t \in Targets : devices[t] = NoAddress
    BY DEF EdInit, NoDevices
  <2> QED
    BY <2>1, <2>2 DEF AddressesAccounted, AliasesAccounted, AliasesInsideSubnet, DevicesKeepAddresses
<1>5. NoDeviceYet /\ WalkInSubnet /\ AddressForEach
  BY DEF CallInit, NoCall, EdInit, NoDeviceYet, WalkInSubnet, AddressForEach, Serving
<1> QED
  BY <1>3, <1>4, <1>5 DEF EdInv

(* Under any sequence of calls of start() and stop(), with addresses that   *)
(* cannot be bound, removals that fail and crashes in between, the machine  *)
(* has its own addresses and the aliases the host knows of or lost, each a  *)
(* host address of the subnet, and every device an address of its own that  *)
(* the machine still has.                                                   *)
THEOREM EdAddressesAccounted == EdSpec => []AddressesAccounted
<1>1. EdInv /\ [EdNext]_<<call, edVars>> => EdInv'
  <2> SUFFICES ASSUME EdInv, [EdNext]_<<call, edVars>> PROVE EdInv'
    OBVIOUS
  <2>1. CASE EdCalls
    BY <2>1, EdCallsKeep
  <2>2. ASSUME NEW a, EdForeign(a) PROVE EdInv'
    BY <2>2, EdForeignKeeps DEF EdForeign
  <2>3. CASE UNCHANGED <<call, edVars>>
    BY <2>3, EdForeignKeeps DEF edVars
  <2> QED
    BY <2>1, <2>2, <2>3, EdStepKeeps DEF EdNext
<1>2. EdInv => AddressesAccounted
  BY DEF EdInv
<1> QED
  BY <1>1, <1>2, EdInitially, PTL DEF EdSpec
------------------------------------------------------------------------------
(* Groups of a request *)

Below(S, f, x) == {y \in S : f[y] < f[x]}

(* Finitely many different numbers have different ranks, and as there are   *)
(* as many ranks as numbers each of them is taken.                          *)
LEMMA Ranks ==
  ASSUME NEW S, IsFiniteSet(S), NEW f \in [S -> Nat], \A x, y \in S : f[x] = f[y] => x = y
  PROVE  /\ \A x \in S : Cardinality(Below(S, f, x)) \in 0..(Cardinality(S) - 1)
         /\ \A x, y \in S : Cardinality(Below(S, f, x)) = Cardinality(Below(S, f, y)) => x = y
         /\ \A i \in 1..Cardinality(S) : \E x \in S : Cardinality(Below(S, f, x)) = i - 1
<1> DEFINE n == Cardinality(S)
           R == 0..(n - 1)
           r == [x \in S |-> Cardinality(Below(S, f, x))]
<1>1. n \in Nat
  BY FS_CardinalityType
<1>2. \A x \in S : IsFiniteSet(Below(S, f, x)) /\ Cardinality(Below(S, f, x)) \in Nat
  <2> SUFFICES ASSUME NEW x \in S PROVE IsFiniteSet(Below(S, f, x)) /\ Cardinality(Below(S, f, x)) \in Nat
    OBVIOUS
  <2>1. Below(S, f, x) \in SUBSET S
    BY DEF Below
  <2>2. IsFiniteSet(Below(S, f, x))
    BY <2>1, FS_Subset
  <2> QED
    BY <2>2, FS_CardinalityType
<1>3. ASSUME NEW x \in S PROVE r[x] \in R
  <2>1. Below(S, f, x) \in SUBSET S /\ x \notin Below(S, f, x)
    BY DEF Below
  <2>2. Cardinality(Below(S, f, x)) <= n /\ (n = Cardinality(Below(S, f, x)) => S = Below(S, f, x))
    BY <2>1, FS_Subset
  <2>3. Cardinality(Below(S, f, x)) # n
    BY <2>1, <2>2
  <2> HIDE DEF n
  <2> QED
    BY <1>1, <1>2, <2>2, <2>3
<1>4. ASSUME NEW x \in S, NEW y \in S, f[x] < f[y] PROVE r[x] < r[y]
  <2> DEFINE B == Below(S, f, x)
             C == Below(S, f, y)
  <2>1. B \in SUBSET C /\ x \in C /\ x \notin B
    BY <1>4 DEF Below
  <2>2. IsFiniteSet(B) /\ IsFiniteSet(C) /\ Cardinality(B) \in Nat /\ Cardinality(C) \in Nat
    BY <1>2
  <2> HIDE DEF B, C
  <2>3. Cardinality(B) <= Cardinality(C) /\ Cardinality(C) # Cardinality(B)
    BY <2>1, <2>2, FS_Subset
  <2>4. Cardinality(B) < Cardinality(C)
    BY <2>2, <2>3
  <2> QED
    BY <2>4 DEF B, C
<1>5. \A x, y \in S : r[x] = r[y] => x = y
  <2> SUFFICES ASSUME NEW x \in S, NEW y \in S, r[x] = r[y], x # y PROVE FALSE
    OBVIOUS
  <2>1. f[x] \in Nat /\ f[y] \in Nat /\ f[x] # f[y]
    OBVIOUS
  <2>2. f[x] < f[y] \/ f[y] < f[x]
    BY <2>1
  <2>3. r[x] < r[y] \/ r[y] < r[x]
    BY <2>2, <1>4
  <2>4. r[x] \in Int /\ r[y] \in Int
    BY <1>2
  <2> HIDE DEF r
  <2> QED
    BY <2>3, <2>4
<1>6. IsFiniteSet(R) /\ Cardinality(R) = n
  <2>1. /\ IsFiniteSet(0..(n - 1))
        /\ Cardinality(0..(n - 1)) = IF 0 > n - 1 THEN 0 ELSE (n - 1) - 0 + 1
    <3>1. 0 \in Int /\ n - 1 \in Int
      BY <1>1
    <3> HIDE DEF n
    <3> QED
      BY <3>1, FS_Interval
  <2> HIDE DEF n
  <2>2. (IF 0 > n - 1 THEN 0 ELSE (n - 1) - 0 + 1) = n
    BY <1>1
  <2> QED
    BY <2>1, <2>2
<1>7. r \in Injection(S, R)
  <2>1. r \in [S -> R]
    BY <1>3
  <2> HIDE DEF r, R
  <2> QED
    BY <2>1, <1>5 DEF Injection, IsInjective
<1>8. r \in Surjection(S, R)
  <2> HIDE DEF r, R
  <2> QED
    BY <1>6, <1>7, FS_Injection
<1>9. ASSUME NEW i \in 1..n PROVE \E x \in S : Cardinality(Below(S, f, x)) = i - 1
  <2>1. i - 1 \in R
    BY <1>1
  <2>2. PICK x \in S : r[x] = i - 1
    <3> HIDE DEF r, R
    <3> QED
      BY <1>8, <2>1 DEF Surjection
  <2> QED
    BY <2>2
<1>10. \A x, y \in S : Cardinality(Below(S, f, x)) = Cardinality(Below(S, f, y)) => x = y
  BY <1>5
<1>11. \A x \in S : Cardinality(Below(S, f, x)) \in R
  BY <1>3
<1> QED
  BY <1>9, <1>10, <1>11

LEMMA SmallestOf == ASSUME NEW S \in SUBSET Nat, S # {} PROVE Smallest(S) \in S /\ \A y \in S : Smallest(S) <= y
<1>1. \E x \in S : \A y \in S : x <= y
  BY SmallestMember
<1> QED
  BY <1>1, Zenon DEF Smallest

(* A host is handed its targets in order, each of them once.                *)
LEMMA AscendingSound ==
  ASSUME NEW S \in SUBSET Targets
  PROVE  /\ Ascending(S) \in Seq(Targets) /\ Elements(Ascending(S)) = S
         /\ Len(Ascending(S)) \in Nat /\ Len(Ascending(S)) <= Cardinality(Targets)
         /\ (Ascending(S) = <<>> <=> S = {})
<1> DEFINE f == [x \in S |-> x]
           n == Cardinality(S)
           Rank(t) == Cardinality({u \in S : u < t})
           At(i) == CHOOSE t \in S : Rank(t) = i - 1
<1>1. IsFiniteSet(S) /\ n \in Nat /\ n <= Cardinality(Targets)
  BY TargetsAssumption, FS_Subset, FS_CardinalityType
<1>2. \A t \in S : Below(S, f, t) = {u \in S : u < t}
  BY DEF Below
<1>3. f \in [S -> Nat] /\ \A x, y \in S : f[x] = f[y] => x = y
  BY TargetsAssumption
<1>4. /\ \A x \in S : Cardinality(Below(S, f, x)) \in 0..(n - 1)
      /\ \A x, y \in S : Cardinality(Below(S, f, x)) = Cardinality(Below(S, f, y)) => x = y
      /\ \A i \in 1..n : \E x \in S : Cardinality(Below(S, f, x)) = i - 1
  <2> HIDE DEF f
  <2> QED
    BY <1>1, <1>3, Ranks
<1>5. /\ \A x \in S : Rank(x) \in 0..(n - 1)
      /\ \A x, y \in S : Rank(x) = Rank(y) => x = y
      /\ \A i \in 1..n : \E x \in S : Rank(x) = i - 1
  BY <1>2, <1>4
<1> HIDE DEF Rank
<1>6. \A i \in 1..n : At(i) \in S /\ Rank(At(i)) = i - 1
  BY <1>5
<1>7. Ascending(S) = [i \in 1..n |-> At(i)]
  BY DEF Ascending, Rank
<1> HIDE DEF At, n
<1>8. Ascending(S) \in Seq(Targets) /\ Len(Ascending(S)) = n /\ DOMAIN Ascending(S) = 1..n
  <2>1. Ascending(S) \in [1..n -> Targets]
    BY <1>6, <1>7
  <2>2. Ascending(S) \in Seq(Targets)
    BY <1>1, <2>1, SeqDef
  <2>3. DOMAIN Ascending(S) = 1..n
    BY <2>1
  <2>4. Len(Ascending(S)) \in Nat /\ DOMAIN Ascending(S) = 1..Len(Ascending(S))
    BY <2>2, LenProperties
  <2> DEFINE m == Len(Ascending(S))
  <2>5. 1..m = 1..n /\ m \in Nat
    BY <2>3, <2>4
  <2> HIDE DEF m
  <2>6. m = n
    BY <1>1, <2>5
  <2> QED
    BY <2>2, <2>3, <2>6 DEF m
<1>9. \A x \in S : x = Ascending(S)[Rank(x) + 1] /\ Rank(x) + 1 \in 1..n
  <2> SUFFICES ASSUME NEW x \in S PROVE x = Ascending(S)[Rank(x) + 1] /\ Rank(x) + 1 \in 1..n
    OBVIOUS
  <2>1. Rank(x) \in Nat /\ Rank(x) + 1 \in 1..n /\ (Rank(x) + 1) - 1 = Rank(x)
    BY <1>1, <1>5
  <2>2. At(Rank(x) + 1) \in S /\ Rank(At(Rank(x) + 1)) = Rank(x)
    BY <1>6, <2>1
  <2>3. At(Rank(x) + 1) = x
    BY <1>5, <2>2
  <2> QED
    BY <1>7, <2>1, <2>3
<1>10. Elements(Ascending(S)) = S
  <2>1. \A i \in 1..n : Ascending(S)[i] \in S
    BY <1>6, <1>7
  <2>2. \A x \in S : \E i \in 1..n : x = Ascending(S)[i]
    BY <1>9
  <2> QED
    BY <1>8, <2>1, <2>2, Zenon DEF Elements
<1>11. n = 0 <=> S = {}
  BY <1>1, FS_EmptySet DEF n
<1> QED
  BY <1>1, <1>8, <1>10, <1>11

(* What start() makes of a request: groups for different hosts, with        *)
(* targets of their own.                                                    *)
WantedOK(w) ==
  /\ w # <<>> /\ DOMAIN w \subseteq Nat \ {0} /\ DOMAIN w # {}
  /\ \A i \in DOMAIN w : w[i].host \in HostTypes /\ w[i].targets \in SUBSET Targets /\ w[i].targets # {}
  /\ \A i, j \in DOMAIN w : i # j => w[i].host # w[j].host /\ w[i].targets \cap w[j].targets = {}

LEMMA GroupsSound == ASSUME NEW route \in Routes PROVE WantedOK(GroupsOf(route))
<1>1. PICK D \in (SUBSET Targets) \ {{}} : route \in [D -> HostTypes]
  BY DEF Routes
<1> DEFINE Of(h) == {t \in D : route[t] = h}
           used == {h \in HostTypes : Of(h) # {}}
           f == [h \in used |-> Smallest(Of(h))]
           n == Cardinality(used)
           Place(h) == Cardinality({g \in used : Smallest(Of(g)) < Smallest(Of(h))}) + 1
           At(i) == CHOOSE g \in used : Place(g) = i
<1>2. DOMAIN route = D /\ D # {} /\ D \subseteq Nat /\ D \subseteq Targets
  BY <1>1, TargetsAssumption
<1>3. \A h \in used : Of(h) \in SUBSET Nat /\ Of(h) # {} /\ Smallest(Of(h)) \in Of(h)
  <2> SUFFICES ASSUME NEW h \in used PROVE Of(h) \in SUBSET Nat /\ Of(h) # {} /\ Smallest(Of(h)) \in Of(h)
    OBVIOUS
  <2>1. Of(h) \in SUBSET Nat /\ Of(h) # {}
    BY <1>2
  <2> HIDE DEF Of
  <2> QED
    BY <2>1, SmallestOf
<1>4. IsFiniteSet(used) /\ n \in Nat
  <2>1. IsFiniteSet(HostTypes)
    <3>1. IsFiniteSet({"libera"}) /\ IsFiniteSet({"etherdream"}) /\ IsFiniteSet({"idn"})
      BY FS_Singleton
    <3>2. IsFiniteSet(({"libera"} \cup {"etherdream"}) \cup {"idn"})
      BY <3>1, FS_Union
    <3>3. ({"libera"} \cup {"etherdream"}) \cup {"idn"} = HostTypes
      BY DEF HostTypes
    <3> QED
      BY <3>2, <3>3
  <2>2. used \in SUBSET HostTypes
    OBVIOUS
  <2> HIDE DEF used
  <2> QED
    BY <2>1, <2>2, FS_Subset, FS_CardinalityType
<1>5. f \in [used -> Nat] /\ \A g, h \in used : f[g] = f[h] => g = h
  <2>1. \A h \in used : f[h] = Smallest(Of(h)) /\ f[h] \in Of(h) /\ Of(h) \subseteq Nat
    BY <1>3
  <2>2. \A g, h \in used : f[g] = f[h] => g = h
    BY <2>1
  <2> QED
    BY <2>1, <2>2
<1>6. /\ \A x, y \in used : Cardinality(Below(used, f, x)) = Cardinality(Below(used, f, y)) => x = y
      /\ \A i \in 1..n : \E x \in used : Cardinality(Below(used, f, x)) = i - 1
      /\ \A x \in used : Cardinality(Below(used, f, x)) \in Int
  <2> HIDE DEF used, f
  <2>1. \A x \in used : Cardinality(Below(used, f, x)) \in 0..(Cardinality(used) - 1)
    BY <1>4, <1>5, Ranks
  <2> QED
    BY <1>4, <1>5, <2>1, Ranks
<1>7. \A h \in used : Place(h) = Cardinality(Below(used, f, h)) + 1
  BY DEF Below
<1>8. \A i \in 1..n : \E x \in used : Place(x) = i
  <2> SUFFICES ASSUME NEW i \in 1..n PROVE \E x \in used : Place(x) = i
    OBVIOUS
  <2>1. PICK x \in used : Cardinality(Below(used, f, x)) = i - 1
    BY <1>6
  <2>2. Place(x) = (i - 1) + 1
    BY <1>7, <2>1
  <2> HIDE DEF Place, used
  <2> QED
    BY <2>2
<1>9. GroupsOf(route) = [i \in 1..n |-> Group(At(i), Of(At(i)))]
  BY <1>2 DEF GroupsOf
<1> HIDE DEF Place
<1>10. \A i \in 1..n : At(i) \in used /\ Place(At(i)) = i
  BY <1>8
<1>11. \A i \in 1..n : /\ GroupsOf(route)[i].host = At(i) /\ GroupsOf(route)[i].targets = Of(At(i))
  <2> HIDE DEF At, Of, n
  <2> QED
    BY <1>9 DEF Group
<1>12. DOMAIN GroupsOf(route) = 1..n
  BY <1>9
<1>13. used # {}
  <2>1. PICK t \in D : TRUE
    BY <1>2
  <2>2. route[t] \in HostTypes /\ t \in Of(route[t])
    BY <1>1
  <2> QED
    BY <2>2
<1>14. \A i \in 1..n : Of(At(i)) \subseteq Targets /\ Of(At(i)) # {} /\ At(i) \in HostTypes
  BY <1>2, <1>10
<1>15. \A i, j \in 1..n : i # j => At(i) # At(j) /\ Of(At(i)) \cap Of(At(j)) = {}
  <2> SUFFICES ASSUME NEW i \in 1..n, NEW j \in 1..n, i # j
               PROVE  At(i) # At(j) /\ Of(At(i)) \cap Of(At(j)) = {}
    OBVIOUS
  <2>1. At(i) # At(j)
    BY <1>10
  <2> HIDE DEF At
  <2> QED
    BY <2>1
<1> HIDE DEF At, Of, used
<1>16. n \in Nat \ {0}
  BY <1>4, <1>13, FS_EmptySet DEF n
<1> HIDE DEF n
<1>17. 1..n # {} /\ 1..n \subseteq Nat \ {0}
  BY <1>16
<1>18. GroupsOf(route) # <<>>
  <2>1. DOMAIN <<>> = {}
    OBVIOUS
  <2> QED
    BY <1>12, <1>17, <2>1, Zenon
<1> QED
  BY <1>11, <1>12, <1>14, <1>15, <1>17, <1>18 DEF WantedOK
------------------------------------------------------------------------------
(* Every address is an address *)

EdPlaced ==
  /\ assigned \subseteq Addresses /\ left \subseteq Addresses /\ aliases \in Seq(Addresses)
  /\ alloc.got \in Seq(Addresses) /\ devices \in [Targets -> Addresses \cup {NoAddress}]
  /\ edActive \in BOOLEAN /\ taken \subseteq ForeignAddresses

(* The walk takes no more loopback addresses than there are targets, and    *)
(* one through a subnet stays between its bounds.                           *)
EdWalk ==
  /\ call.host = "etherdream" => Len(call.todo) <= Cardinality(Targets)
  /\ Serving("etherdream", "ensure") =>
       /\ Len(alloc.got) < Len(call.todo)
       /\ IsLoopback(alloc.next) => alloc.next = Loopback(Len(alloc.got) + 1)
       /\ ~IsLoopback(alloc.next) => edConfig.base # Malformed

LEMMA EdTypesTogether == EdTyped /\ EdPlaced => EdTypeOK
BY DEF EdTyped, EdPlaced, EdTypeOK, Allocs

LEMMA CandidatePlaced == ASSUME EdInv, EdWalk, Considering PROVE alloc.next \in Addresses
<1>1. /\ EdTyped /\ CallOK /\ alloc \in Allocs /\ alloc.next \in Int /\ Len(alloc.got) \in Nat
      /\ call.host = "etherdream" /\ call.pc = "ensure" /\ Len(call.todo) \in Nat
  BY DEF EdInv, EdTyped, Allocs, Considering, Serving, CallOK
<1>2. InWalk(alloc.next, alloc.floor)
  BY <1>1 DEF EdInv, WalkInSubnet, Serving
<1>3. CASE IsLoopback(alloc.next)
  <2>1. alloc.next = Loopback(Len(alloc.got) + 1) /\ Len(alloc.got) + 1 \in 1..Cardinality(Targets)
    BY <1>1, <1>3, AddressesNat DEF EdWalk, Serving
  <2> QED
    BY <2>1 DEF Addresses
<1>4. CASE ~IsLoopback(alloc.next)
  <2>1. Candidates # {} /\ alloc.floor = Network /\ alloc.next < Broadcast /\ alloc.next > Network
    BY <1>2, <1>4 DEF InWalk, Considering
  <2>2. Network \in Nat /\ Broadcast < 2^Width /\ Broadcast \in Int /\ 2^Width \in Int
    BY <1>1, <1>4, <2>1, SubnetTyped, NetworkAssumption DEF EdWalk, Serving
  <2>3. alloc.next \in NetworkAddresses
    BY <1>1, <2>1, <2>2 DEF NetworkAddresses
  <2> QED
    BY <2>3, AddressesNat
<1> QED
  BY <1>3, <1>4

LEMMA TakePlaced ==
  ASSUME EdInv, EdPlaced, EdWalk, Considering, Take, UNCHANGED edConfig
  PROVE  alloc'.got \in Seq(Addresses) /\ EdWalk'
<1>1. /\ EdTyped /\ CallOK /\ alloc \in Allocs /\ alloc.next \in Int /\ alloc.got \in Seq(Addresses)
      /\ call.host = "etherdream" /\ call.pc = "ensure" /\ Len(call.todo) \in Nat /\ Len(alloc.got) \in Nat
  BY DEF EdInv, EdTyped, EdPlaced, Allocs, Considering, Serving, CallOK
<1>2. alloc.next \in Addresses
  BY CandidatePlaced
<1>3. alloc'.got = Append(alloc.got, alloc.next) /\ alloc'.next = Following(alloc.next)
  BY <1>1 DEF Take, Allocs
<1>4. alloc'.got \in Seq(Addresses) /\ Len(alloc'.got) = Len(alloc.got) + 1
  BY <1>1, <1>2, <1>3
<1>5. /\ call'.host = call.host /\ call'.todo = call.todo
      /\ call'.pc = "ensure" => Len(alloc.got) + 1 # Len(call.todo)
  BY <1>1 DEF Take, Move, Count, CallOK
<1>6. /\ Len(call.todo) <= Cardinality(Targets) /\ Len(alloc.got) < Len(call.todo)
      /\ IsLoopback(alloc.next) => alloc.next = Loopback(Len(alloc.got) + 1)
      /\ ~IsLoopback(alloc.next) => edConfig.base # Malformed
  BY <1>1 DEF EdWalk, Serving
<1>7. Len(call.todo) # Len(alloc.got) + 1 => Len(alloc.got) + 1 < Len(call.todo)
  BY <1>1, <1>6
<1>8. ASSUME IsLoopback(alloc'.next) PROVE alloc'.next = Loopback(Len(alloc'.got) + 1)
  <2>1. IsLoopback(alloc.next)
    BY <1>1, <1>3, <1>8, SpaceInt DEF Following, IsLoopback
  <2>2. alloc'.next = alloc.next + 1
    BY <1>3, <2>1 DEF Following
  <2> QED
    <3> DEFINE n == Len(alloc.got)
               w == 2^Width
    <3>1. n \in Nat /\ w \in Int /\ alloc'.next = (w + (n + 1)) + 1 /\ Len(alloc'.got) = n + 1
      BY <1>1, <1>4, <1>6, <2>1, <2>2, SpaceInt DEF Loopback
    <3>2. Loopback(Len(alloc'.got) + 1) = w + ((n + 1) + 1)
      BY <3>1 DEF Loopback
    <3> HIDE DEF n, w
    <3> QED
      BY <3>1, <3>2
<1>9. ASSUME ~IsLoopback(alloc'.next) PROVE ~IsLoopback(alloc.next)
  BY <1>1, <1>3, <1>9, SpaceInt DEF Following, IsLoopback
<1>10. IsLoopback(alloc.next)' <=> IsLoopback(alloc'.next)
  BY DEF IsLoopback
<1>11. EdWalk'
  BY <1>4, <1>5, <1>6, <1>7, <1>8, <1>9, <1>10 DEF EdWalk, Serving, Loopback
<1> QED
  BY <1>4, <1>11

(* The steps of the Ether Dream host keep every address an address.         *)
LEMMA EdStepPlaced == ASSUME EdInv, EdPlaced, EdWalk, EdCallStep PROVE EdPlaced' /\ EdWalk'
<1>1. /\ EdTyped /\ CallOK /\ alloc \in Allocs /\ call \in Calls
      /\ call.todo \in Seq(Targets) /\ Len(call.todo) \in Nat /\ <<>> \in Seq(Addresses)
  BY DEF EdInv, EdTyped, CallOK, Calls
<1>2. call.host = "etherdream" /\ call'.host = "etherdream" /\ Len(call.todo) <= Cardinality(Targets)
  BY <1>1 DEF EdCallStep, EdAllocate, EdSkips, EdEnsureBinds, EdEnsureFails, EdEnsureAdds, Considering,
     EdDevice, EdStarted, EdStopDevices, EdCleanup, EdCleaned, Serving, Return, Move, Take, EdWalk, Calls
<1>3. ASSUME call'.pc # "ensure", call'.todo \in {<<>>, call.todo} PROVE EdWalk'
  <2>1. Len(<<>>) <= Cardinality(Targets)
    BY AddressesNat
  <2> QED
    BY <1>2, <1>3, <2>1 DEF EdWalk, Serving
<1>4. ASSUME NEW p, Move(p) PROVE call'.pc = p /\ call'.todo = call.todo
  BY <1>1, <1>4 DEF Move, Calls
<1>5. ASSUME NEW b, Return(b) PROVE call'.pc = "done" /\ call'.todo = <<>>
  BY <1>1, <1>5 DEF Return, Calls
<1>6. CASE EdAllocate
  <2>1. UNCHANGED <<edConfig, interfaces, taken, assigned, aliases, left, devices, edActive>> /\ call.pc = "allocate"
    BY <1>6 DEF EdAllocate, machine, Serving
  <2>2. CASE Return(FALSE) /\ UNCHANGED alloc
    BY <1>3, <1>5, <2>1, <2>2 DEF EdPlaced
  <2>3. Count \in Nat \ {0}
    BY <1>1, <1>2, <2>1 DEF Count, EdInv, NoDeviceYet, Serving
  <2>4. CASE Ready /\ Move("device") /\ ~Refuses /\ alloc' = [NoAlloc EXCEPT !.got = ReadyAddresses]
    <3>1. ReadyAddresses \in Seq(Addresses)
      <4>1. CASE edConfig.addresses # <<>>
        <5>1. /\ edConfig.addresses \in Seq(Int) /\ Count <= Len(edConfig.addresses)
              /\ \A i \in 1..Count : edConfig.addresses[i] \in Addresses
          BY <1>1, <2>3, <2>4, <4>1, ConfigTyped DEF Refuses
        <5>2. Explicit(Count) \in Seq(Int) /\ Len(Explicit(Count)) = Count
              /\ \A i \in 1..Count : Explicit(Count)[i] = edConfig.addresses[i]
          BY <2>3, <5>1 DEF Explicit
        <5>3. Explicit(Count) \in [1..Count -> Addresses]
          BY <5>1, <5>2
        <5>4. Explicit(Count) \in Seq(Addresses)
          BY <2>3, <5>3, SeqDef
        <5> QED
          BY <4>1, <5>4 DEF ReadyAddresses
      <4>2. CASE edConfig.addresses = <<>>
        <5>1. Loopback(1) \in Addresses
          <6>1. 1 \in 1..Cardinality(Targets)
            BY <1>1, <1>2, <2>3, AddressesNat DEF Count
          <6> QED
            BY <6>1 DEF Addresses
        <5>2. Candidates # {} => Interface.addr \in Addresses
          BY <1>1, InterfaceTyped, AddressesNat
        <5> QED
          BY <4>2, <5>1, <5>2 DEF ReadyAddresses
      <4> QED
        BY <4>1, <4>2
    <3>2. alloc'.got = ReadyAddresses
      BY <2>4 DEF NoAlloc
    <3>3. EdWalk'
      BY <1>3, <1>4, <2>4
    <3> QED
      BY <2>1, <3>1, <3>2, <3>3 DEF EdPlaced
  <2>5. CASE /\ ~Refuses /\ ~Ready /\ Move("ensure")
             /\ alloc' = [got |-> <<>>, next |-> FirstCandidate,
                          floor |-> IF edConfig.mode = "loopback" THEN 0 ELSE Network]
    <3>1. call'.pc = "ensure" /\ call'.todo = call.todo /\ alloc'.got = <<>> /\ alloc'.next = FirstCandidate
      BY <1>4, <2>5
    <3>2. 0 < Len(call.todo) /\ Len(<<>>) = 0
      BY <2>3 DEF Count
    <3>3. CASE edConfig.mode = "loopback"
      <4>1. FirstCandidate = Loopback(0 + 1) /\ IsLoopback(FirstCandidate)
        BY <3>3, SpaceInt DEF FirstCandidate
      <4>2. EdWalk'
        BY <1>2, <3>1, <3>2, <4>1 DEF EdWalk, Serving, IsLoopback, Loopback
      <4> QED
        BY <1>1, <2>1, <3>1, <4>2 DEF EdPlaced
    <3>4. CASE edConfig.mode # "loopback"
      <4>1. Candidates # {}
        BY <2>3, <2>5, <3>4 DEF Refuses, Ready, OnLan
      <4>2. edConfig.base # Malformed
        BY <2>3, <2>5, <3>4, <4>1 DEF Refuses, Ready, OnLan
      <4>3. Broadcast \in Int /\ Broadcast < 2^Width
        BY <1>1, <4>1, <4>2, SubnetTyped
      <4>4. FirstCandidate = Broadcast - 1
        BY <3>4 DEF FirstCandidate
      <4>5. ~IsLoopback(alloc'.next)
        BY <3>1, <4>3, <4>4, SpaceInt DEF IsLoopback
      <4>6. EdWalk'
        BY <1>2, <2>1, <3>1, <3>2, <4>2, <4>5 DEF EdWalk, Serving, IsLoopback
      <4> QED
        BY <1>1, <2>1, <3>1, <4>6 DEF EdPlaced
    <3> QED
      BY <3>3, <3>4
  <2> QED
    BY <1>6, <2>2, <2>4, <2>5 DEF EdAllocate
<1>7. CASE EdSkips
  <2>1. /\ UNCHANGED <<edConfig, interfaces, taken, assigned, aliases, left, devices, edActive>>
        /\ call.pc = "ensure" /\ ~IsLoopback(alloc.next)
    BY <1>7 DEF EdSkips, machine, Serving
  <2>2. CASE Return(FALSE) /\ UNCHANGED alloc
    BY <1>3, <1>5, <2>1, <2>2 DEF EdPlaced
  <2>3. CASE alloc' = [alloc EXCEPT !.next = Following(alloc.next)] /\ UNCHANGED call
    <3>1. alloc'.got = alloc.got /\ alloc'.next = alloc.next - 1 /\ alloc.next \in Int
      BY <1>1, <2>1, <2>3 DEF Allocs, Following
    <3>2. ~IsLoopback(alloc'.next)
      BY <2>1, <3>1, SpaceInt DEF IsLoopback
    <3>3. EdWalk'
      BY <1>2, <2>1, <2>3, <3>1, <3>2 DEF EdWalk, Serving, IsLoopback
    <3> QED
      BY <2>1, <3>1, <3>3 DEF EdPlaced
  <2> QED
    BY <1>7, <2>2, <2>3 DEF EdSkips
<1>8. CASE EdEnsureBinds
  <2>1. /\ UNCHANGED <<edConfig, taken, assigned, aliases, left, devices, edActive>>
        /\ Considering /\ Take
    BY <1>8 DEF EdEnsureBinds, machine
  <2> QED
    BY <2>1, TakePlaced DEF EdPlaced
<1>9. CASE EdEnsureFails
  BY <1>3, <1>5, <1>9 DEF EdEnsureFails, edVars, EdPlaced
<1>10. CASE EdEnsureAdds
  <2>1. /\ UNCHANGED <<edConfig, taken, devices, edActive>> /\ Considering
    BY <1>10 DEF EdEnsureAdds, machine
  <2>2. alloc.next \in Addresses
    BY <2>1, CandidatePlaced
  <2>3. CASE Return(FALSE) /\ RemoveAlias(alloc.next, assigned) /\ UNCHANGED <<alloc, aliases>>
    BY <1>3, <1>5, <2>1, <2>2, <2>3 DEF EdPlaced, RemoveAlias
  <2>4. CASE /\ Take /\ UNCHANGED left
             /\ assigned' = assigned \cup {alloc.next} /\ aliases' = Append(aliases, alloc.next)
    <3>1. alloc'.got \in Seq(Addresses) /\ EdWalk'
      BY <2>1, <2>4, TakePlaced
    <3>2. aliases' \in Seq(Addresses)
      BY <2>2, <2>4 DEF EdPlaced
    <3> QED
      BY <2>1, <2>2, <2>4, <3>1, <3>2 DEF EdPlaced
  <2> QED
    BY <1>10, <2>3, <2>4 DEF EdEnsureAdds
<1>11. CASE EdDevice
  <2>1. /\ UNCHANGED <<edConfig, taken, assigned, aliases, left, edActive>>
        /\ call.pc = "device" /\ call.todo # <<>>
    BY <1>11 DEF EdDevice, machine, Serving
  <2>2. CASE /\ devices' = [devices EXCEPT ![Head(call.todo)] = Head(alloc.got)]
             /\ alloc' = [alloc EXCEPT !.got = Tail(@)]
             /\ call' = [call EXCEPT !.todo = Tail(@)]
    <3>1. Len(alloc.got) = Len(call.todo) /\ alloc.got \in Seq(Addresses)
      BY <1>2, <2>1 DEF EdInv, AddressForEach, Serving, EdPlaced
    <3>2. Head(alloc.got) \in Addresses /\ Tail(alloc.got) \in Seq(Addresses) /\ Len(Tail(call.todo)) <= Len(call.todo)
      BY <1>1, <2>1, <3>1
    <3>3. alloc'.got = Tail(alloc.got) /\ call'.todo = Tail(call.todo) /\ call'.pc = "device"
      BY <1>1, <2>1, <2>2 DEF Allocs, Calls
    <3>4. devices' \in [Targets -> Addresses \cup {NoAddress}]
      BY <2>2, <3>2 DEF EdPlaced
    <3>5. Len(Tail(call.todo)) <= Cardinality(Targets)
      <4>1. Len(Tail(call.todo)) \in Nat
        BY <1>1, <2>1
      <4> QED
        BY <1>1, <1>2, <3>2, <4>1, AddressesNat
    <3> QED
      BY <2>1, <3>2, <3>3, <3>4, <3>5 DEF EdPlaced, EdWalk, Serving
  <2>3. CASE /\ call' = [call EXCEPT !.pc = "stopDevices", !.todo = <<>>, !.ok = FALSE]
             /\ UNCHANGED <<alloc, devices>>
    <3>1. call'.pc = "stopDevices" /\ call'.todo = <<>>
      BY <1>1, <2>3 DEF Calls
    <3> QED
      BY <1>3, <2>1, <2>3, <3>1 DEF EdPlaced
  <2> QED
    BY <1>11, <2>2, <2>3 DEF EdDevice
<1>12. CASE EdStarted \/ EdStopDevices
  <2>0. \/ call'.pc = "done" /\ call'.todo = <<>>
        \/ call'.pc = "cleanup" /\ call'.todo = call.todo
    BY <1>4, <1>5, <1>12 DEF EdStarted, EdStopDevices
  <2>1. EdWalk'
    BY <1>3, <2>0
  <2>2. NoDevices \in [Targets -> Addresses \cup {NoAddress}]
    BY DEF NoDevices
  <2> QED
    BY <1>12, <2>1, <2>2 DEF EdStarted, EdStopDevices, EdPlaced, machine
<1>13. CASE EdCleanup
  <2>1. aliases # <<>> /\ aliases \in Seq(Addresses) /\ UNCHANGED <<call, edConfig, taken, alloc, devices, edActive>>
        /\ call.pc = "cleanup"
    BY <1>13 DEF EdCleanup, EdPlaced, machine, Serving
  <2>2. aliases[Len(aliases)] \in Addresses /\ SubSeq(aliases, 1, Len(aliases) - 1) \in Seq(Addresses)
    BY <2>1
  <2>3. EdWalk'
    BY <1>3, <2>1
  <2> QED
    BY <1>13, <2>1, <2>2, <2>3 DEF EdCleanup, EdPlaced, RemoveAlias
<1>14. CASE EdCleaned
  <2>0. \/ call'.pc = "done" /\ call'.todo = <<>>
        \/ call'.pc = "allocate" /\ call'.todo = call.todo
    BY <1>4, <1>5, <1>14 DEF EdCleaned
  <2>1. EdWalk'
    BY <1>3, <2>0
  <2>2. NoAlloc.got = <<>>
    BY DEF NoAlloc
  <2> QED
    BY <1>1, <1>14, <2>1, <2>2 DEF EdCleaned, EdPlaced, machine
<1> QED
  BY <1>6, <1>7, <1>8, <1>9, <1>10, <1>11, <1>12, <1>13, <1>14 DEF EdCallStep
------------------------------------------------------------------------------
(* The hosts side by side: a step of one leaves the other as it was *)

(* start() refuses to run without a port to begin with.                     *)
BasePort == lbActive => lbOptions.tcpPort # 0

HostsInv == Typed /\ LbInv /\ BasePort /\ EdInv /\ EdPlaced /\ EdWalk

LEMMA LbAside ==
  ASSUME HostsInv, UNCHANGED lbVars, call'.host # "libera",
         call.host = "libera" => call.pc \in {"idle", "done"}
  PROVE  LbTypeOK' /\ LbInv' /\ BasePort'
<1>1. LbTypeOK'
  BY DEF HostsInv, Typed, LbTypeOK, LbOptionsOK, lbVars
<1>2. PortsDistinct' /\ RatesOrdered' /\ BasePort'
  BY DEF HostsInv, LbInv, PortsDistinct, RatesOrdered, BasePort, lbVars
<1>3. closing = Nowhere /\ (~lbActive => servers = Nowhere /\ advertiser = "none")
  BY DEF HostsInv, LbInv, CallShape, StoppedHostIsSilent, Stopping, Serving
<1>4. StoppedHostIsSilent' /\ CallShape'
  BY <1>3 DEF StoppedHostIsSilent, CallShape, Stopping, Serving, lbVars, Nowhere
<1> QED
  BY <1>1, <1>2, <1>4 DEF LbInv

LEMMA EdAside ==
  ASSUME HostsInv, UNCHANGED edVars, CallOK', call'.host # "etherdream",
         call.host = "etherdream" => call.pc \in {"idle", "done"}
  PROVE  EdInv' /\ EdPlaced' /\ EdWalk'
<1>1. devices = NoDevices \/ edActive
  BY DEF HostsInv, EdInv, NoDeviceYet
<1>2. EdInv'
  BY <1>1, EdPassive DEF HostsInv
<1> QED
  BY <1>2 DEF HostsInv, EdPlaced, EdWalk, Serving, edVars

LEMMA EdStays ==
  ASSUME HostsInv, UNCHANGED <<call, edVars>>
  PROVE  EdInv' /\ EdPlaced' /\ EdWalk'
<1>1. EdInv'
  BY EdForeignKeeps DEF HostsInv, edVars
<1> QED
  BY <1>1 DEF HostsInv, EdPlaced, EdWalk, Serving, edVars

LEMMA LbStays ==
  ASSUME HostsInv, UNCHANGED <<call, lbVars>>
  PROVE  Typed' /\ LbInv' /\ BasePort'
<1>1. [LbNext]_<<call, lbVars>>
  OBVIOUS
<1>2. Typed' /\ LbInv'
  BY <1>1, LbCallStepTyped, LbTypeStep, InvStep DEF HostsInv, Typed
<1> QED
  BY <1>2 DEF HostsInv, BasePort, lbVars

(* The Libera host on its own.                                              *)
LEMMA LbNextKeeps == ASSUME HostsInv, LbNext PROVE Typed' /\ LbInv' /\ BasePort'
<1>1. Typed' /\ LbInv'
  BY LbCallStepTyped, LbTypeStep, InvStep DEF HostsInv, Typed
<1>2. ASSUME NEW ts, LbStart(ts) PROVE BasePort'
  <2>1. \/ UNCHANGED <<lbOptions, lbActive>>
        \/ lbOptions' = MakeHostOptions(lbConfig) /\ MakeHostOptions(lbConfig).tcpPort # 0
    BY <1>2 DEF LbStart
  <2> QED
    BY <2>1 DEF HostsInv, BasePort
<1>3. ASSUME UNCHANGED lbOptions, lbActive' => lbActive PROVE BasePort'
  BY <1>3 DEF HostsInv, BasePort
<1>4. CASE LbCalls
  <2>1. \/ \E ts \in Seq(Targets) : LbStart(ts)
        \/ UNCHANGED lbOptions /\ (lbActive' => lbActive)
    BY <1>4 DEF LbCalls, LbAddTarget, LbRemoveTarget, LbStop, lbVars
  <2> QED
    BY <1>1, <1>2, <1>3, <2>1
<1>5. CASE LbCallStep
  <2>1. UNCHANGED lbOptions /\ (lbActive' = FALSE \/ UNCHANGED lbActive)
    BY <1>5, Zenon
    DEF LbCallStep, LbStartAdds, LbStarted, LbServersStopped, LbJoin, LbTake, LbServerStops, lbVars
  <2> QED
    BY <1>1, <1>3, <2>1
<1>6. CASE Advertiser \/ LbEnvironment
  <2>1. UNCHANGED <<lbOptions, lbActive>>
    BY <1>6 DEF Advertiser, AdvOpens, AdvCopies, AdvSends, LbEnvironment, ForeignPort
  <2> QED
    BY <1>1, <1>3, <2>1
<1> QED
  BY <1>4, <1>5, <1>6 DEF LbNext

(* Calls begin *)
LEMMA StartHostKeeps ==
  ASSUME HostsInv, call = NoCall, NEW h, NEW S \in SUBSET Targets, StartHost(h, S)
  PROVE  HostsInv'
<1>1. call.host = "none" /\ call.pc = "idle" /\ CallOK
  BY DEF NoCall, HostsInv, Typed
<1>2. /\ Ascending(S) \in Seq(Targets) /\ Len(Ascending(S)) <= Cardinality(Targets)
  BY AscendingSound
<1>3. CASE LbStart(Ascending(S)) /\ UNCHANGED edVars
  <2>1. Typed' /\ LbInv' /\ BasePort'
    BY <1>2, <1>3, LbNextKeeps DEF LbNext, LbCalls
  <2>2. call'.host = "libera"
    BY <1>3 DEF LbStart, Answer, Enter
  <2> QED
    BY <1>1, <1>3, <2>1, <2>2, EdAside DEF HostsInv, Typed
<1>4. CASE EdStart(Ascending(S)) /\ UNCHANGED lbVars
  <2>1. EdInv'
    BY <1>2, <1>4, EdCallsKeep DEF HostsInv, EdCalls
  <2>2. /\ call'.host = "etherdream" /\ call'.pc \in {"done", "cleanup"}
        /\ call'.todo \in {<<>>, Ascending(S)} /\ UNCHANGED edVars
    BY <1>4 DEF EdStart, Answer, Enter
  <2>3. Len(<<>>) <= Cardinality(Targets)
    BY AddressesNat
  <2>4. EdWalk'
    BY <1>2, <2>2, <2>3 DEF EdWalk, Serving
  <2>5. EdPlaced'
    BY <2>2 DEF HostsInv, EdPlaced, edVars
  <2>6. LbTypeOK' /\ LbInv' /\ BasePort'
    BY <1>1, <1>4, <2>2, LbAside
  <2> QED
    BY <2>1, <2>4, <2>5, <2>6 DEF HostsInv, Typed, EdInv, EdTyped
<1>5. ASSUME NEW b \in BOOLEAN, Answer("idn", b), UNCHANGED <<lbVars, edVars>> PROVE HostsInv'
  <2>1. call'.host = "idn" /\ CallOK'
    <3>1. "idn" \in HostTypes \cup {"none"} /\ "done" \in Places
      BY DEF HostTypes, Places
    <3> QED
      BY <1>5, <3>1, CallTyped, NoTodo DEF Answer, CallOK, Calls
  <2> QED
    BY <1>1, <1>5, <2>1, LbAside, EdAside DEF HostsInv, Typed
<1> QED
  BY <1>3, <1>4, <1>5 DEF StartHost

LEMMA StopHostKeeps == ASSUME HostsInv, call = NoCall, NEW h, StopHost(h) PROVE HostsInv'
<1>1. call.host = "none" /\ call.pc = "idle" /\ CallOK
  BY DEF NoCall, HostsInv, Typed
<1>2. CASE LbStop /\ UNCHANGED edVars
  <2>1. Typed' /\ LbInv' /\ BasePort'
    BY <1>2, LbNextKeeps DEF LbNext, LbCalls
  <2>2. call'.host = "libera"
    BY <1>2 DEF LbStop, Answer, Enter
  <2> QED
    BY <1>1, <1>2, <2>1, <2>2, EdAside DEF HostsInv, Typed
<1>3. CASE EdStop /\ UNCHANGED lbVars
  <2>1. EdInv'
    BY <1>3, EdCallsKeep DEF HostsInv, EdCalls
  <2>2. /\ call'.host = "etherdream" /\ call'.pc = "stopDevices"
        /\ call'.todo = <<>> /\ UNCHANGED edVars
    BY <1>3 DEF EdStop, Enter
  <2>3. Len(<<>>) <= Cardinality(Targets)
    BY AddressesNat
  <2>4. EdWalk' /\ EdPlaced'
    BY <2>2, <2>3 DEF EdWalk, Serving, HostsInv, EdPlaced, edVars
  <2>5. LbTypeOK' /\ LbInv' /\ BasePort'
    BY <1>1, <1>3, <2>2, LbAside
  <2> QED
    BY <2>1, <2>4, <2>5 DEF HostsInv, Typed, EdInv, EdTyped
<1>4. CASE Answer("idn", TRUE) /\ UNCHANGED <<lbVars, edVars>>
  <2>1. call'.host = "idn" /\ CallOK'
    <3>1. "idn" \in HostTypes \cup {"none"} /\ "done" \in Places
      BY DEF HostTypes, Places
    <3> QED
      BY <1>4, <3>1, CallTyped, NoTodo DEF Answer, CallOK, Calls
  <2> QED
    BY <1>1, <1>4, <2>1, LbAside, EdAside DEF HostsInv, Typed
<1> QED
  BY <1>2, <1>3, <1>4 DEF StopHost

LEMMA TargetChangeKeeps ==
  ASSUME HostsInv, call = NoCall, NEW t \in Targets, LbAddTarget(t) \/ LbRemoveTarget(t), UNCHANGED edVars
  PROVE  HostsInv'
<1>1. call.host = "none" /\ call.pc = "idle"
  BY DEF NoCall
<1>2. Typed' /\ LbInv' /\ BasePort'
  BY LbNextKeeps DEF LbNext, LbCalls
<1>3. call'.host = "libera"
  BY DEF LbAddTarget, LbRemoveTarget, Answer, Enter
<1> QED
  BY <1>1, <1>2, <1>3, EdAside DEF HostsInv, Typed

(* Calls end, go on, and nothing happens *)
LEMMA HostsResume ==
  ASSUME HostsInv, call.pc = "done", call' = NoCall, UNCHANGED <<lbVars, edVars>>
  PROVE  HostsInv'
<1>1. call'.host = "none" /\ call'.pc = "idle" /\ CallOK'
  <2>1. "none" \in HostTypes \cup {"none"} /\ "idle" \in Places
    BY DEF HostTypes, Places
  <2> QED
    BY <2>1, CallTyped, NoTodo DEF NoCall, CallOK, Calls
<1> QED
  BY <1>1, LbAside, EdAside DEF HostsInv, Typed

LEMMA HostsQuiet == ASSUME HostsInv, UNCHANGED <<call, lbVars, edVars>> PROVE HostsInv'
BY EdStays, LbStays DEF HostsInv

LEMMA HostStepKeeps == ASSUME HostsInv, HostStep PROVE HostsInv'
<1>1. CASE LbCallStep /\ UNCHANGED edVars
  <2>1. Typed' /\ LbInv' /\ BasePort'
    BY <1>1, LbNextKeeps DEF LbNext
  <2>2. CallOK
    BY DEF HostsInv, Typed
  <2>3. call.host = "libera" /\ call'.host = "libera"
    BY <1>1, <2>2 DEF LbCallStep, LbStartAdds, LbStarted, LbServersStopped, LbJoin, LbTake, LbServerStops,
       Serving, Return, Move, CallOK
  <2> QED
    BY <1>1, <2>1, <2>3, EdAside DEF HostsInv, Typed
<1>2. CASE EdCallStep /\ UNCHANGED lbVars
  <2>1. EdInv' /\ EdPlaced' /\ EdWalk'
    BY <1>2, EdStepKeeps, EdStepPlaced DEF HostsInv
  <2>2. call.host = "etherdream"
    BY <1>2 DEF EdCallStep, EdAllocate, EdSkips, EdEnsureBinds, EdEnsureFails, EdEnsureAdds, Considering,
     EdDevice, EdStarted, EdStopDevices, EdCleanup, EdCleaned, Serving
  <2>3. call \in Calls
    BY DEF HostsInv, Typed, CallOK, Calls
  <2>4. call'.host = "etherdream"
    BY <1>2, <2>2, <2>3 DEF EdCallStep, EdAllocate, EdSkips, EdEnsureBinds, EdEnsureFails, EdEnsureAdds,
     EdDevice, EdStarted, EdStopDevices, EdCleanup, EdCleaned, Return, Move, Take, Calls
  <2>5. LbTypeOK' /\ LbInv' /\ BasePort'
    BY <1>2, <2>2, <2>4, LbAside
  <2> QED
    BY <2>1, <2>5 DEF HostsInv, Typed, EdInv, EdTyped
<1> QED
  BY <1>1, <1>2 DEF HostStep

LEMMA EnvironmentKeeps == ASSUME HostsInv, Environment PROVE HostsInv'
<1>1. CASE (Advertiser \/ LbEnvironment) /\ UNCHANGED edVars
  <2>1. Typed' /\ LbInv' /\ BasePort'
    BY <1>1, LbNextKeeps DEF LbNext
  <2>2. UNCHANGED call
    BY <1>1 DEF Advertiser, AdvOpens, AdvCopies, AdvSends, LbEnvironment, ForeignPort
  <2> QED
    BY <1>1, <2>1, <2>2, EdStays DEF HostsInv
<1>2. ASSUME NEW a \in ForeignAddresses, EdForeign(a), UNCHANGED lbVars PROVE HostsInv'
  <2>1. UNCHANGED <<call, edConfig, interfaces, assigned, aliases, left, alloc, devices, edActive>>
    BY <1>2 DEF EdForeign
  <2>2. EdInv'
    BY <2>1, EdForeignKeeps DEF HostsInv
  <2>3. taken' \subseteq ForeignAddresses
    BY <1>2 DEF EdForeign, HostsInv, EdPlaced
  <2>4. EdPlaced' /\ EdWalk'
    BY <2>1, <2>3 DEF HostsInv, EdPlaced, EdWalk, Serving
  <2> QED
    BY <1>2, <2>1, <2>2, <2>4, LbStays DEF HostsInv
<1> QED
  BY <1>1, <1>2 DEF Environment

LEMMA CrashKeeps == ASSUME HostsInv, Crash PROVE HostsInv'
<1>1. /\ call' = NoCall /\ EdCrash /\ lbActive' = FALSE /\ servers' = Nowhere /\ closing' = Nowhere
      /\ advertiser' = "none" /\ ads' = {} /\ UNCHANGED <<lbConfig, lbOptions, foreignPorts>>
  BY DEF Crash
<1>2. EdInv'
  BY <1>1, EdCrashKeeps DEF HostsInv
<1>3. call'.host = "none" /\ call'.pc = "idle"
  BY <1>1 DEF NoCall
<1>4. EdPlaced' /\ EdWalk'
  <2>1. Elements(aliases) \subseteq Addresses
    BY DEF HostsInv, EdPlaced, Elements
  <2>2. NoAlloc.got \in Seq(Addresses) /\ NoDevices \in [Targets -> Addresses \cup {NoAddress}]
    BY DEF NoAlloc, NoDevices
  <2> QED
    <3>1. <<>> \in Seq(Addresses) /\ assigned \subseteq Addresses /\ left \subseteq Addresses
          /\ taken \subseteq ForeignAddresses
      BY DEF HostsInv, EdPlaced
    <3>2. /\ left' = left \cup Elements(aliases) /\ aliases' = <<>> /\ alloc' = NoAlloc
          /\ devices' = NoDevices /\ edActive' = FALSE /\ UNCHANGED <<taken, assigned>>
      BY <1>1 DEF EdCrash, machine
    <3>3. EdPlaced'
      BY <2>1, <2>2, <3>1, <3>2 DEF EdPlaced
    <3> QED
      BY <1>3, <3>3 DEF EdWalk, Serving
<1>5. Nowhere \in [Targets -> 0..MaxPort]
  BY PortsAssumption DEF Nowhere, NoPort
<1>6. LbTypeOK'
  BY <1>1, <1>5 DEF HostsInv, Typed, LbTypeOK, LbOptionsOK
<1>7. PortsDistinct'
  BY <1>1 DEF PortsDistinct, Nowhere
<1>8. LbInv' /\ BasePort'
  BY <1>1, <1>3, <1>7 DEF HostsInv, LbInv, RatesOrdered, CallShape, StoppedHostIsSilent, Stopping, Serving,
     BasePort, Nowhere
<1> QED
  BY <1>2, <1>4, <1>6, <1>8 DEF HostsInv, Typed, EdInv, EdTyped

LEMMA HostsInitially == CallInit /\ LbInit /\ EdInit => HostsInv
<1> SUFFICES ASSUME CallInit, LbInit, EdInit PROVE HostsInv
  OBVIOUS
<1>1. EdInv
  BY EdInitially
<1>2. EdPlaced /\ EdWalk
  <2>1. Original \subseteq Addresses
    <3> DEFINE R == [name : Nat \ {0}, addr : Addresses, size : Nat \ {0}, bcast : Addresses,
                     loopback : BOOLEAN, default : BOOLEAN]
    <3>1. interfaces \in Seq(R) /\ \A r \in R : r.addr \in Addresses
      BY NetworkAssumption DEF EdInit
    <3> HIDE DEF R
    <3>2. ASSUME NEW i \in DOMAIN interfaces PROVE interfaces[i].addr \in Addresses
      BY <3>1
    <3>3. ASSUME NEW a \in Original PROVE a \in Addresses
      <4>1. PICK i \in Elements(interfaces) : a = i.addr
        BY <3>3 DEF Original
      <4>2. PICK j \in DOMAIN interfaces : i = interfaces[j]
        BY <4>1 DEF Elements
      <4> QED
        BY <3>2, <4>1, <4>2
    <3> QED
      BY <3>3
  <2>2. NoAlloc.got \in Seq(Addresses) /\ NoDevices \in [Targets -> Addresses \cup {NoAddress}]
        /\ <<>> \in Seq(Addresses)
    BY DEF NoAlloc, NoDevices
  <2> QED
    BY <2>1, <2>2 DEF EdInit, CallInit, NoCall, EdPlaced, EdWalk, Serving
<1>3. LbTypeOK
  <2>1. LbOptionsOK
    BY OptionsTyped DEF LbInit, LbOptionsOK
  <2>2. Nowhere \in [Targets -> 0..MaxPort]
    BY PortsAssumption DEF Nowhere, NoPort
  <2> QED
    BY <2>1, <2>2 DEF LbInit, LbTypeOK
<1>4. LbInv /\ BasePort
  <2>1. RatesOrdered
    BY OptionsTyped DEF LbInit, RatesOrdered
  <2>2. PortsDistinct
    BY NowhereDistinct DEF LbInit
  <2> QED
    BY <2>1, <2>2
    DEF CallInit, NoCall, LbInit, LbInv, CallShape, StoppedHostIsSilent, Stopping, Serving, BasePort
<1> QED
  BY <1>1, <1>2, <1>3, <1>4 DEF HostsInv, Typed, EdInv, EdTyped
------------------------------------------------------------------------------
(* Lists of hosts and of targets *)

LEMMA Shorter ==
  ASSUME NEW X, NEW s \in Seq(X), s # <<>>
  PROVE  /\ Head(s) \in X /\ Tail(s) \in Seq(X) /\ Len(Tail(s)) = Len(s) - 1 /\ Len(s) \in Nat \ {0}
         /\ Head(s) = s[1] /\ \A i \in DOMAIN Tail(s) : i + 1 \in DOMAIN s /\ Tail(s)[i] = s[i + 1]
         /\ 1 \in DOMAIN s /\ \A i \in DOMAIN s : i = 1 \/ (i - 1 \in DOMAIN Tail(s) /\ Tail(s)[i - 1] = s[i])
         /\ Elements(s) = {Head(s)} \cup Elements(Tail(s))
<1>1. /\ Head(s) \in X /\ Tail(s) \in Seq(X) /\ Len(Tail(s)) = Len(s) - 1 /\ Len(s) \in Nat \ {0}
      /\ Head(s) = s[1] /\ DOMAIN s = 1..Len(s) /\ DOMAIN Tail(s) = 1..(Len(s) - 1)
  OBVIOUS
<1>2. \A i \in DOMAIN Tail(s) : i + 1 \in DOMAIN s /\ Tail(s)[i] = s[i + 1]
  OBVIOUS
<1>3. \A i \in DOMAIN s : i = 1 \/ (i - 1 \in DOMAIN Tail(s) /\ Tail(s)[i - 1] = s[i])
  BY <1>1, <1>2
<1>4. 1 \in DOMAIN s
  BY <1>1
<1>5. Elements(s) = {Head(s)} \cup Elements(Tail(s))
  <2>1. ASSUME NEW x \in Elements(s) PROVE x \in {Head(s)} \cup Elements(Tail(s))
    <3>1. PICK i \in DOMAIN s : x = s[i]
      BY <2>1, Zenon DEF Elements
    <3>2. CASE i = 1
      BY <1>1, <3>1, <3>2
    <3>3. CASE i # 1
      BY <1>3, <3>1, <3>3, Zenon DEF Elements
    <3> QED
      BY <3>2, <3>3
  <2>2. ASSUME NEW x \in {Head(s)} \cup Elements(Tail(s)) PROVE x \in Elements(s)
    <3>1. CASE x = Head(s)
      BY <1>1, <1>4, <3>1, Zenon DEF Elements
    <3>2. CASE x \in Elements(Tail(s))
      <4>1. PICK i \in DOMAIN Tail(s) : x = Tail(s)[i]
        BY <3>2, Zenon DEF Elements
      <4> QED
        BY <1>2, <4>1, Zenon DEF Elements
    <3> QED
      BY <2>2, <3>1, <3>2
  <2> QED
    BY <2>1, <2>2, Zenon
<1> QED
  BY <1>1, <1>2, <1>3, <1>4, <1>5

LEMMA NoElements == Elements(<<>>) = {}
<1>1. DOMAIN <<>> = {}
  OBVIOUS
<1> QED
  BY <1>1, Zenon DEF Elements

HostsIn(s) == {r.host : r \in Elements(s)}
Apart(s) == \A i, j \in DOMAIN s : s[i].host = s[j].host => i = j
Endpoints == SUBSET (Targets \X Int)
Records == [host : HostTypes, targets : SUBSET Targets, endpoints : Endpoints]

LEMMA HostTyped ==
  ASSUME NEW h \in HostTypes, NEW ts \in SUBSET Targets, NEW es \in Endpoints
  PROVE  Host(h, ts, es) \in Records /\ Host(h, ts, es).host = h /\ Host(h, ts, es).targets = ts
         /\ Host(h, ts, es).endpoints = es
<1> HIDE DEF Endpoints
<1> QED
  BY DEF Host, Records

LEMMA RecordTyped ==
  ASSUME NEW r \in Records
  PROVE  r.host \in HostTypes /\ r.targets \in SUBSET Targets /\ r.endpoints \in Endpoints
BY DEF Records

LEMMA Members ==
  ASSUME NEW s \in Seq(Records)
  PROVE  /\ Elements(s) \subseteq Records /\ HostsIn(s) \subseteq HostTypes
         /\ \A r \in Elements(s) : r.host \in HostsIn(s)
         /\ \A h \in HostsIn(s) : \E r \in Elements(s) : r.host = h
         /\ \A i \in DOMAIN s : s[i] \in Elements(s)
<1> HIDE DEF Records
<1>1. \A i \in DOMAIN s : s[i] \in Records
  OBVIOUS
<1>2. Elements(s) \subseteq Records /\ \A i \in DOMAIN s : s[i] \in Elements(s)
  BY <1>1, Zenon DEF Elements
<1>3. \A r \in Records : r.host \in HostTypes
  BY RecordTyped
<1> QED
  BY <1>2, <1>3, Zenon DEF HostsIn

LEMMA WithoutFirst ==
  ASSUME NEW s \in Seq(Records), s # <<>>
  PROVE  /\ Head(s) \in Records /\ Head(s) \in Elements(s) /\ Tail(s) \in Seq(Records)
         /\ Elements(Tail(s)) \subseteq Elements(s) /\ HostsIn(s) = HostsIn(Tail(s)) \cup {Head(s).host}
         /\ Apart(s) => /\ Apart(Tail(s)) /\ Head(s).host \notin HostsIn(Tail(s))
                        /\ \A r \in Elements(s) : r.host = Head(s).host => r = Head(s)
                        /\ Elements(Tail(s)) = Elements(s) \ {Head(s)}
<1> HIDE DEF Records
<1>1. /\ Head(s) \in Records /\ Tail(s) \in Seq(Records) /\ Head(s) = s[1] /\ 1 \in DOMAIN s
      /\ \A i \in DOMAIN Tail(s) : i + 1 \in DOMAIN s /\ Tail(s)[i] = s[i + 1]
      /\ Elements(s) = {Head(s)} \cup Elements(Tail(s))
  BY Shorter
<1>2. HostsIn(s) = HostsIn(Tail(s)) \cup {Head(s).host}
  BY <1>1, Zenon DEF HostsIn
<1>3. DOMAIN Tail(s) \subseteq Nat \ {0}
  BY <1>1
<1>4. ASSUME Apart(s) PROVE Apart(Tail(s))
  <2> SUFFICES ASSUME NEW i \in DOMAIN Tail(s), NEW j \in DOMAIN Tail(s), Tail(s)[i].host = Tail(s)[j].host
               PROVE  i = j
    BY DEF Apart
  <2>1. i + 1 = j + 1
    BY <1>1, <1>4 DEF Apart
  <2> QED
    BY <1>3, <2>1
<1>5. ASSUME Apart(s), NEW r \in Elements(Tail(s)) PROVE r.host # Head(s).host
  <2>1. PICK i \in DOMAIN Tail(s) : r = Tail(s)[i]
    BY <1>5, Zenon DEF Elements
  <2>2. i + 1 # 1
    BY <1>3
  <2> QED
    BY <1>1, <1>5, <2>1, <2>2 DEF Apart
<1>6. ASSUME Apart(s) PROVE Head(s).host \notin HostsIn(Tail(s))
  BY <1>5, <1>6, Zenon DEF HostsIn
<1>7. ASSUME Apart(s) PROVE /\ \A r \in Elements(s) : r.host = Head(s).host => r = Head(s)
                            /\ Elements(Tail(s)) = Elements(s) \ {Head(s)}
  BY <1>1, <1>5, <1>7, Zenon
<1> QED
  BY <1>1, <1>2, <1>4, <1>6, <1>7

LEMMA WithOneMore ==
  ASSUME NEW s \in Seq(Records), NEW r \in Records
  PROVE  /\ Append(s, r) \in Seq(Records) /\ Elements(Append(s, r)) = Elements(s) \cup {r}
         /\ HostsIn(Append(s, r)) = HostsIn(s) \cup {r.host}
         /\ Apart(s) /\ r.host \notin HostsIn(s) => Apart(Append(s, r))
<1> HIDE DEF Records
<1> DEFINE a == Append(s, r)
           n == Len(s)
<1>1. /\ a \in Seq(Records) /\ DOMAIN a = 1..(n + 1) /\ DOMAIN s = 1..n /\ n \in Nat
      /\ a[n + 1] = r /\ \A i \in 1..n : a[i] = s[i]
  OBVIOUS
<1> HIDE DEF a, n
<1>2. DOMAIN a = DOMAIN s \cup {n + 1} /\ n + 1 \notin DOMAIN s
  BY <1>1
<1>3. \A i \in DOMAIN s : a[i] = s[i]
  BY <1>1
<1>4. Elements(a) = Elements(s) \cup {r}
  <2>1. a[n + 1] = r /\ n + 1 \in DOMAIN a
    BY <1>1
  <2>2. ASSUME NEW x \in Elements(a) PROVE x \in Elements(s) \cup {r}
    <3>1. PICK i \in DOMAIN a : x = a[i]
      BY <2>2, Zenon DEF Elements
    <3> QED
      BY <1>2, <1>3, <2>1, <3>1, Zenon DEF Elements
  <2>3. ASSUME NEW i \in DOMAIN s PROVE s[i] \in Elements(a)
    BY <1>2, <1>3, Zenon DEF Elements
  <2>4. r \in Elements(a)
    BY <2>1, Zenon DEF Elements
  <2> QED
    BY <2>2, <2>3, <2>4, Zenon DEF Elements
<1>5. HostsIn(a) = HostsIn(s) \cup {r.host}
  BY <1>4, Zenon DEF HostsIn
<1>6. ASSUME Apart(s), r.host \notin HostsIn(s) PROVE Apart(a)
  <2>1. \A i \in DOMAIN s : s[i].host # r.host
    BY <1>6, Zenon DEF HostsIn, Elements
  <2>2. a[n + 1] = r
    BY <1>1
  <2> SUFFICES ASSUME NEW i \in DOMAIN a, NEW j \in DOMAIN a, a[i].host = a[j].host PROVE i = j
    BY DEF Apart
  <2>3. CASE i \in DOMAIN s /\ j \in DOMAIN s
    BY <1>3, <1>6, <2>3, Zenon DEF Apart
  <2>4. CASE i = n + 1 \/ j = n + 1
    BY <1>2, <1>3, <2>1, <2>2, <2>4, Zenon
  <2> QED
    BY <1>2, <2>3, <2>4, Zenon
<1> QED
  BY <1>1, <1>4, <1>5, <1>6, Zenon DEF a

LEMMA InARow ==
  ASSUME NEW s \in Seq(Records), NEW t \in Seq(Records)
  PROVE  s \o t \in Seq(Records) /\ HostsIn(s) \cup HostsIn(t) \subseteq HostsIn(s \o t)
<1> HIDE DEF Records
<1>1. /\ s \o t \in Seq(Records) /\ Len(s) \in Nat
      /\ \A i \in DOMAIN s : i \in DOMAIN (s \o t) /\ (s \o t)[i] = s[i]
      /\ \A i \in DOMAIN t : Len(s) + i \in DOMAIN (s \o t) /\ (s \o t)[Len(s) + i] = t[i]
  OBVIOUS
<1>2. Elements(s) \subseteq Elements(s \o t)
  BY <1>1, Zenon DEF Elements
<1>3. Elements(t) \subseteq Elements(s \o t)
  BY <1>1, Zenon DEF Elements
<1> QED
  BY <1>1, <1>2, <1>3, Zenon DEF HostsIn

LEMMA OneRecord ==
  ASSUME NEW r \in Records
  PROVE  <<r>> \in Seq(Records) /\ r.host \in HostsIn(<<r>>)
<1> HIDE DEF Records
<1>1. <<r>> \in Seq(Records) /\ 1 \in DOMAIN <<r>> /\ <<r>>[1] = r
  OBVIOUS
<1>2. r \in Elements(<<r>>)
  BY <1>1, Zenon DEF Elements
<1> QED
  BY <1>1, <1>2, Zenon DEF HostsIn
------------------------------------------------------------------------------
(* What a host serves, and when that changes *)

Listening == {t \in Targets : devices[t] # NoAddress}

(* A host that is stopped.                                                  *)
Down(h) ==
  /\ h = "libera" => ~lbActive /\ servers = Nowhere
  /\ h = "etherdream" => ~edActive /\ devices = NoDevices /\ aliases = <<>>
  /\ h = "idn" => idnTargets = {}

(* A host that serves what its record says.                                 *)
Intact(r) ==
  /\ r.host = "libera" => lbActive
  /\ r.host = "etherdream" => edActive
  /\ r.targets # {} /\ r.endpoints = EndpointsOf(r.host) /\ Served(r.host) = r.targets

Undisturbed(h) ==
  /\ h = "libera" => UNCHANGED <<lbActive, servers>>
  /\ h = "etherdream" => UNCHANGED <<edActive, devices, aliases>>
  /\ h = "idn" => UNCHANGED idnTargets

LEMMA EndpointsBy ==
  /\ EndpointsOf("libera") = LbEndpoints
  /\ EndpointsOf("etherdream") = EdEndpoints
  /\ EndpointsOf("idn") = {<<t, 0>> : t \in idnTargets}
BY DEF EndpointsOf

LEMMA ServedBy ==
  Served("libera") = Running /\ Served("etherdream") = Listening /\ Served("idn") = idnTargets
<1>1. Served("libera") = Running
  <2>1. ASSUME NEW t \in Running PROVE t \in Served("libera")
    <3>1. <<t, servers[t]>> \in EndpointsOf("libera") /\ <<t, servers[t]>>[1] = t
      BY EndpointsBy DEF LbEndpoints, Endpoint, EdEndpoints, DeviceEndpoint, Listening
    <3> QED
      BY <3>1, Zenon DEF Served
  <2>2. ASSUME NEW t \in Served("libera") PROVE t \in Running
    <3>1. PICK e \in EndpointsOf("libera") : t = e[1]
      BY <2>2, Zenon DEF Served
    <3>2. PICK u \in Running : e = <<u, servers[u]>>
      BY EndpointsBy DEF LbEndpoints, Endpoint, EdEndpoints, DeviceEndpoint, Listening
    <3> QED
      BY <3>1, <3>2
  <2> QED
    BY <2>1, <2>2, Zenon
<1>2. Served("etherdream") = Listening
  <2>1. ASSUME NEW t \in Listening PROVE t \in Served("etherdream")
    <3>1. <<t, devices[t]>> \in EndpointsOf("etherdream") /\ <<t, devices[t]>>[1] = t
      BY EndpointsBy DEF LbEndpoints, Endpoint, EdEndpoints, DeviceEndpoint, Listening
    <3> QED
      BY <3>1, Zenon DEF Served
  <2>2. ASSUME NEW t \in Served("etherdream") PROVE t \in Listening
    <3>1. PICK e \in EndpointsOf("etherdream") : t = e[1]
      BY <2>2, Zenon DEF Served
    <3>2. PICK u \in Listening : e = <<u, devices[u]>>
      BY EndpointsBy DEF LbEndpoints, Endpoint, EdEndpoints, DeviceEndpoint, Listening
    <3> QED
      BY <3>1, <3>2
  <2> QED
    BY <2>1, <2>2, Zenon
<1>3. Served("idn") = idnTargets
  <2>1. ASSUME NEW t \in idnTargets PROVE t \in Served("idn")
    <3>1. <<t, 0>> \in EndpointsOf("idn") /\ <<t, 0>>[1] = t
      BY EndpointsBy DEF LbEndpoints, Endpoint, EdEndpoints, DeviceEndpoint, Listening
    <3> QED
      BY <3>1, Zenon DEF Served
  <2>2. ASSUME NEW t \in Served("idn") PROVE t \in idnTargets
    <3>1. PICK e \in EndpointsOf("idn") : t = e[1]
      BY <2>2, Zenon DEF Served
    <3>2. PICK u \in idnTargets : e = <<u, 0>>
      BY EndpointsBy DEF LbEndpoints, Endpoint, EdEndpoints, DeviceEndpoint, Listening
    <3> QED
      BY <3>1, <3>2
  <2> QED
    BY <2>1, <2>2, Zenon
<1> QED
  BY <1>1, <1>2, <1>3

LEMMA UndisturbedKeeps ==
  ASSUME NEW h \in HostTypes, Undisturbed(h)
  PROVE  /\ EndpointsOf(h)' = EndpointsOf(h) /\ Served(h)' = Served(h)
         /\ Down(h) => Down(h)'
         /\ \A r \in Records : r.host = h /\ Intact(r) => Intact(r)'
<1>1. CASE h = "libera"
  <2>1. UNCHANGED <<lbActive, servers>>
    BY <1>1 DEF Undisturbed
  <2>2. EndpointsOf(h)' = EndpointsOf(h)
    BY <1>1, <2>1 DEF EndpointsOf, LbEndpoints, Endpoint, Running
  <2>3. Served(h)' = Served(h)
    BY <2>2 DEF Served
  <2> QED
    BY <1>1, <2>1, <2>2, <2>3 DEF Down, Intact, Nowhere
<1>2. CASE h = "etherdream"
  <2>1. UNCHANGED <<edActive, devices, aliases>>
    BY <1>2 DEF Undisturbed
  <2>2. EndpointsOf(h)' = EndpointsOf(h)
    BY <1>2, <2>1 DEF EndpointsOf, EdEndpoints, DeviceEndpoint
  <2>3. Served(h)' = Served(h)
    BY <2>2 DEF Served
  <2> QED
    BY <1>2, <2>1, <2>2, <2>3 DEF Down, Intact, NoDevices
<1>3. CASE h = "idn"
  <2>1. UNCHANGED idnTargets
    BY <1>3 DEF Undisturbed
  <2>2. EndpointsOf(h)' = EndpointsOf(h)
    BY <1>3, <2>1 DEF EndpointsOf
  <2>3. Served(h)' = Served(h)
    BY <2>2 DEF Served
  <2> QED
    BY <1>3, <2>1, <2>2, <2>3 DEF Down, Intact
<1> QED
  BY <1>1, <1>2, <1>3 DEF HostTypes

LEMMA NothingDisturbed ==
  ASSUME UNCHANGED <<lbVars, edVars, idnTargets>>, NEW h PROVE Undisturbed(h)
BY DEF Undisturbed, lbVars, edVars

LEMMA DownServesNothing == ASSUME NEW h \in HostTypes, Down(h) PROVE EndpointsOf(h) = {} /\ Served(h) = {}
<1>1. CASE h = "libera"
  <2>1. Running = {}
    BY <1>1 DEF Down, Running, Nowhere
  <2> QED
    BY <1>1, <2>1, EndpointsBy, ServedBy DEF LbEndpoints
<1>2. CASE h = "etherdream"
  <2>1. Listening = {}
    BY <1>2 DEF Down, Listening, NoDevices
  <2> QED
    BY <1>2, <2>1, EndpointsBy, ServedBy DEF EdEndpoints, Listening
<1>3. CASE h = "idn"
  BY <1>3, EndpointsBy, ServedBy DEF Down
<1> QED
  BY <1>1, <1>2, <1>3 DEF HostTypes

(* A host has one endpoint for a target.                                    *)
LEMMA OneEndpoint ==
  ASSUME NEW h \in HostTypes, NEW d \in EndpointsOf(h), NEW e \in EndpointsOf(h), d[1] = e[1]
  PROVE  d = e
<1>1. CASE h = "libera"
  <2>1. PICK t \in Running : d = <<t, servers[t]>>
    BY <1>1, EndpointsBy DEF LbEndpoints, Endpoint
  <2>2. PICK u \in Running : e = <<u, servers[u]>>
    BY <1>1, EndpointsBy DEF LbEndpoints, Endpoint
  <2> QED
    BY <2>1, <2>2
<1>2. CASE h = "etherdream"
  <2>1. PICK t \in Targets : d = <<t, devices[t]>>
    BY <1>2, EndpointsBy DEF EdEndpoints, DeviceEndpoint
  <2>2. PICK u \in Targets : e = <<u, devices[u]>>
    BY <1>2, EndpointsBy DEF EdEndpoints, DeviceEndpoint
  <2> QED
    BY <2>1, <2>2
<1>3. CASE h = "idn"
  <2>1. PICK t \in idnTargets : d = <<t, 0>>
    BY <1>3, EndpointsBy
  <2>2. PICK u \in idnTargets : e = <<u, 0>>
    BY <1>3, EndpointsBy
  <2> QED
    BY <2>1, <2>2
<1> QED
  BY <1>1, <1>2, <1>3 DEF HostTypes

LEMMA EndpointsTyped ==
  ASSUME HostsInv, idnTargets \subseteq Targets, NEW h \in HostTypes
  PROVE  EndpointsOf(h) \in Endpoints /\ Served(h) \subseteq Targets
<1>1. /\ servers \in [Targets -> 0..MaxPort] /\ MaxPort \in Nat
      /\ devices \in [Targets -> Addresses \cup {NoAddress}]
  BY PortsAssumption DEF HostsInv, Typed, LbTypeOK, EdPlaced
<1>2. \A t \in Targets : servers[t] \in Int
  BY <1>1
<1>3. \A t \in Targets : devices[t] \in Int
  <2>1. NoAddress \in Int
    BY DEF NoAddress
  <2>2. Addresses \cup {NoAddress} \subseteq Int
    BY <2>1, AddressesNat, Zenon
  <2> QED
    BY <1>1, <2>2, Zenon
<1>4. Served(h) \subseteq Targets
  <2>1. Running \subseteq Targets /\ Listening \subseteq Targets
    BY DEF Running, Listening
  <2> QED
    BY <2>1, ServedBy DEF HostTypes
<1>5. CASE h = "libera"
  BY <1>2, <1>4, <1>5, EndpointsBy DEF Endpoints, LbEndpoints, Endpoint, Running
<1>6. CASE h = "etherdream"
  BY <1>3, <1>4, <1>6, EndpointsBy DEF Endpoints, EdEndpoints, DeviceEndpoint
<1>7. CASE h = "idn"
  BY <1>4, <1>7, EndpointsBy DEF Endpoints
<1> QED
  BY <1>5, <1>6, <1>7 DEF HostTypes
------------------------------------------------------------------------------
(* Calls: what stop() and start() have done of their work *)

StopCall(h) ==
  /\ call.host = h
  /\ h = "libera" => ~lbActive /\ call.pc \in {"join", "take", "drain", "done"}
  /\ h = "etherdream" => /\ call.pc \in {"stopDevices", "cleanup", "done"} /\ call.todo = <<>>
                         /\ call.pc = "done" => Down(h)
  /\ h = "idn" => call.pc = "done" /\ Down(h)

LbStartCall(S) ==
  \/ call.pc = "adding" /\ call.ok /\ lbActive /\ Running \cup Elements(call.todo) = S
  \/ call.pc \in {"join", "take", "drain"} /\ ~call.ok
  \/ call.pc = "done" /\ (call.ok => lbActive /\ Running = S)

EdStartCall(S) ==
  \/ call.pc \in {"cleanup", "allocate", "ensure"} /\ call.ok /\ call.todo # <<>> /\ Elements(call.todo) = S
  \/ call.pc = "device" /\ call.ok /\ Listening \cup Elements(call.todo) = S
  \/ call.pc \in {"stopDevices", "cleanup"} /\ ~call.ok /\ call.todo = <<>>
  \/ call.pc = "done" /\ (call.ok => edActive /\ Listening = S)

StartCall(h, S) ==
  /\ call.host = h
  /\ h = "libera" => LbStartCall(S)
  /\ h = "etherdream" => EdStartCall(S)
  /\ h = "idn" => call.pc = "done" /\ (call.ok => idnTargets = S)

LEMMA StopBegins ==
  ASSUME HostsInv, NEW h \in HostTypes, StopHost(h)
  PROVE  StopCall(h)' /\ \A g \in HostTypes \ {h} : Undisturbed(g)
<1>1. CASE h = "libera"
  <2>1. LbStop /\ UNCHANGED <<edVars, idnTargets>>
    BY <1>1 DEF StopHost
  <2>2. lbActive' = FALSE /\ call'.host = "libera" /\ call'.pc \in {"join", "done"}
    BY <2>1 DEF LbStop, Enter, Answer
  <2> QED
    BY <1>1, <2>1, <2>2 DEF StopCall, Undisturbed, edVars, HostTypes
<1>2. CASE h = "etherdream"
  <2>1. EdStop /\ UNCHANGED <<lbVars, idnTargets>>
    BY <1>2 DEF StopHost
  <2>2. call'.host = "etherdream" /\ call'.pc = "stopDevices" /\ call'.todo = <<>>
    BY <2>1 DEF EdStop, Enter
  <2> QED
    BY <1>2, <2>1, <2>2 DEF StopCall, Undisturbed, lbVars, HostTypes
<1>3. CASE h = "idn"
  <2>1. Answer("idn", TRUE) /\ idnTargets' = {} /\ UNCHANGED <<lbVars, edVars>>
    BY <1>3 DEF StopHost
  <2>2. call'.host = "idn" /\ call'.pc = "done"
    BY <2>1 DEF Answer
  <2> QED
    BY <1>3, <2>1, <2>2 DEF StopCall, Undisturbed, lbVars, edVars, HostTypes, Down
<1> QED
  BY <1>1, <1>2, <1>3 DEF HostTypes

LEMMA StartBegins ==
  ASSUME HostsInv, NEW h \in HostTypes, NEW S \in SUBSET Targets, S # {}, Down(h), StartHost(h, S)
  PROVE  StartCall(h, S)' /\ \A g \in HostTypes \ {h} : Undisturbed(g)
<1>1. Ascending(S) # <<>> /\ Elements(Ascending(S)) = S
  BY AscendingSound
<1>2. CASE h = "libera"
  <2>1. LbStart(Ascending(S)) /\ UNCHANGED <<edVars, idnTargets>>
    BY <1>2 DEF StartHost
  <2>2. ~lbActive /\ servers = Nowhere
    BY <1>2 DEF Down
  <2>3. Running' = {}
    BY <2>1, <2>2 DEF LbStart, Running, Nowhere
  <2>4. /\ call'.host = "libera"
        /\ \/ call'.pc = "done" /\ ~call'.ok
           \/ call'.pc = "adding" /\ call'.ok /\ lbActive' /\ call'.todo = Ascending(S)
    BY <2>1, <2>2 DEF LbStart, Answer, Enter
  <2>5. LbStartCall(S)'
    BY <1>1, <2>3, <2>4 DEF LbStartCall
  <2> QED
    BY <1>2, <2>1, <2>4, <2>5 DEF StartCall, Undisturbed, edVars, HostTypes
<1>3. CASE h = "etherdream"
  <2>1. EdStart(Ascending(S)) /\ UNCHANGED <<lbVars, idnTargets>>
    BY <1>3 DEF StartHost
  <2>2. ~edActive
    BY <1>3 DEF Down
  <2>3. call'.host = "etherdream" /\ call'.pc = "cleanup" /\ call'.ok /\ call'.todo = Ascending(S)
    <3>1. Enter("etherdream", "cleanup", Ascending(S))
      BY <1>1, <2>1, <2>2, Zenon DEF EdStart
    <3> QED
      BY <3>1 DEF Enter
  <2>4. EdStartCall(S)'
    BY <1>1, <2>3 DEF EdStartCall
  <2> QED
    BY <1>3, <2>1, <2>3, <2>4 DEF StartCall, Undisturbed, lbVars, HostTypes
<1>4. CASE h = "idn"
  <2>1. /\ \/ Answer("idn", TRUE) /\ idnTargets' = S
           \/ Answer("idn", FALSE)
        /\ UNCHANGED <<lbVars, edVars>>
    BY <1>4 DEF StartHost
  <2>2. call'.host = "idn" /\ call'.pc = "done" /\ (call'.ok => idnTargets' = S)
    BY <2>1 DEF Answer
  <2> QED
    BY <1>4, <2>1, <2>2 DEF StartCall, Undisturbed, lbVars, edVars, HostTypes
<1> QED
  BY <1>2, <1>3, <1>4 DEF HostTypes

(* A step of a call concerns the host that serves it.                       *)
LEMMA HostStepAlone ==
  ASSUME HostsInv, HostStep
  PROVE  /\ UNCHANGED fleetVars /\ call'.host = call.host /\ call.pc \notin {"idle", "done"}
         /\ \A g \in HostTypes \ {call.host} : Undisturbed(g)
         /\ \/ LbCallStep /\ call.host = "libera" /\ UNCHANGED edVars
            \/ EdCallStep /\ call.host = "etherdream" /\ UNCHANGED lbVars
<1>1. call \in Calls
  BY DEF HostsInv, Typed, CallOK, Calls
<1>2. CASE LbCallStep /\ UNCHANGED <<edVars, fleetVars>>
  <2>1. call.host = "libera" /\ call'.host = "libera" /\ call.pc \notin {"idle", "done"}
    BY <1>1, <1>2 DEF LbCallStep, LbStartAdds, LbStarted, LbServersStopped, LbJoin, LbTake, LbServerStops,
       Serving, Return, Move, Calls
  <2> QED
    BY <1>2, <2>1 DEF Undisturbed, edVars, fleetVars
<1>3. CASE EdCallStep /\ UNCHANGED <<lbVars, fleetVars>>
  <2>1. call.host = "etherdream" /\ call.pc \notin {"idle", "done"}
    BY <1>3 DEF EdCallStep, EdAllocate, EdSkips, EdEnsureBinds, EdEnsureFails, EdEnsureAdds, Considering,
     EdDevice, EdStarted, EdStopDevices, EdCleanup, EdCleaned, Serving
  <2>2. call'.host = "etherdream"
    BY <1>1, <1>3, <2>1 DEF EdCallStep, EdAllocate, EdSkips, EdEnsureBinds, EdEnsureFails, EdEnsureAdds,
     EdDevice, EdStarted, EdStopDevices, EdCleanup, EdCleaned, Return, Move, Take, Calls
  <2> QED
    BY <1>3, <2>1, <2>2 DEF Undisturbed, lbVars, fleetVars
<1> QED
  BY <1>2, <1>3 DEF HostStep

LEMMA StopGoesOn == ASSUME HostsInv, NEW h \in HostTypes, StopCall(h), HostStep PROVE StopCall(h)'
<1>1. call \in Calls /\ call.host = h
  BY DEF HostsInv, Typed, CallOK, Calls, StopCall
<1>2. CASE LbCallStep /\ h = "libera"
  <2>1. ~lbActive /\ call.pc \in {"join", "take", "drain", "done"}
    BY <1>2 DEF StopCall
  <2>2. /\ LbServersStopped \/ LbJoin \/ LbTake \/ \E t \in Targets : LbServerStops(t)
    BY <1>2, <2>1 DEF LbCallStep, LbStartAdds, LbStarted, Serving
  <2>3. UNCHANGED lbActive /\ call'.host = "libera" /\ call'.pc \in {"join", "take", "drain", "done"}
    BY <1>1, <1>2, <2>1, <2>2
    DEF LbServersStopped, LbJoin, LbTake, LbServerStops, lbVars, Return, Move, Calls, Serving
  <2> QED
    BY <1>2, <2>1, <2>3 DEF StopCall
<1>3. CASE EdCallStep /\ h = "etherdream"
  <2>1. call.pc \in {"stopDevices", "cleanup", "done"} /\ call.todo = <<>>
    BY <1>3 DEF StopCall
  <2>2. EdStopDevices \/ EdCleanup \/ EdCleaned
    BY <1>3, <2>1 DEF EdCallStep, EdAllocate, EdSkips, EdEnsureBinds, EdEnsureFails, EdEnsureAdds, Considering,
     EdDevice, EdStarted, Serving
  <2>3. CASE EdStopDevices \/ EdCleanup
    <3>1. call'.host = "etherdream" /\ call'.pc = "cleanup" /\ call'.todo = <<>>
      BY <1>1, <1>3, <2>1, <2>3 DEF EdStopDevices, EdCleanup, Move, Calls, Serving
    <3> QED
      BY <1>3, <3>1 DEF StopCall
  <2>4. CASE EdCleaned
    <3>1. /\ call'.host = "etherdream" /\ call'.pc = "done" /\ call'.todo = <<>> /\ edActive' = FALSE
          /\ aliases' = <<>> /\ devices' = devices /\ call.pc = "cleanup"
      BY <1>1, <1>3, <2>1, <2>4 DEF EdCleaned, Return, Calls, Serving
    <3>2. devices = NoDevices
      BY <1>1, <1>3, <3>1 DEF HostsInv, EdInv, NoDeviceYet
    <3>3. Down("etherdream")'
      BY <3>1, <3>2 DEF Down, NoDevices
    <3> QED
      BY <1>3, <3>1, <3>3 DEF StopCall
  <2> QED
    BY <2>2, <2>3, <2>4
<1> QED
  BY <1>1, <1>2, <1>3, HostStepAlone

LEMMA StopEnds == ASSUME HostsInv, NEW h \in HostTypes, StopCall(h), call.pc = "done" PROVE Down(h)
<1>1. CASE h = "libera"
  BY <1>1 DEF StopCall, Down, HostsInv, LbInv, StoppedHostIsSilent, Stopping
<1>2. CASE h \in {"etherdream", "idn"}
  BY <1>2 DEF StopCall
<1> QED
  BY <1>1, <1>2 DEF HostTypes

LEMMA LbStartGoesOn == ASSUME HostsInv, NEW S, LbStartCall(S), LbCallStep PROVE LbStartCall(S)'
<1>1. call \in Calls /\ call.host = "libera"
  BY DEF HostsInv, Typed, CallOK, Calls, LbCallStep, LbStartAdds, LbStarted, LbServersStopped, LbJoin,
     LbTake, LbServerStops, Serving
<1>2. CASE LbStartAdds
  <2>1. call.pc = "adding" /\ call.ok /\ lbActive /\ Running \cup Elements(call.todo) = S /\ call.todo # <<>>
    BY <1>2 DEF LbStartAdds, Serving, LbStartCall
  <2>2. call.todo \in Seq(Targets)
    BY <1>1 DEF Calls
  <2>3. Head(call.todo) \in Targets /\ Elements(call.todo) = {Head(call.todo)} \cup Elements(Tail(call.todo))
    BY <2>1, <2>2, Shorter
  <2>4. CASE call' = [call EXCEPT !.pc = "join", !.todo = <<>>, !.ok = FALSE]
    <3>1. call'.pc = "join" /\ ~call'.ok
      BY <1>1, <2>4 DEF Calls
    <3> QED
      BY <3>1 DEF LbStartCall
  <2>5. CASE /\ ~AddFails(Head(call.todo)) /\ AddServer(Head(call.todo))
             /\ call' = [call EXCEPT !.todo = Tail(call.todo)] /\ UNCHANGED lbActive
    <3>1. call'.pc = "adding" /\ call'.ok = call.ok /\ call'.todo = Tail(call.todo)
      BY <1>1, <2>1, <2>5 DEF Calls
    <3>2. Running' = Running \cup {Head(call.todo)}
      <4>1. LbTypeOK /\ lbOptions.tcpPort \in Nat \ {0} /\ MaxPort \in Nat
        BY <2>1, PortsAssumption DEF HostsInv, Typed, LbTypeOK, LbOptionsOK, BasePort
      <4>2. CASE servers[Head(call.todo)] # NoPort
        <5>1. servers' = servers
          BY <2>5, <4>2 DEF AddServer
        <5> QED
          BY <2>3, <4>2, <5>1 DEF Running
      <4>3. CASE servers[Head(call.todo)] = NoPort
        <5>1. UnusedPorts # {} /\ servers' = [servers EXCEPT ![Head(call.todo)] = NextPort]
          BY <2>5, <4>3 DEF AddServer, AddFails, CanAdd
        <5>2. NextPort \in lbOptions.tcpPort..MaxPort
          BY <4>1, <5>1, NextPortUnused DEF LbTypeOK
        <5>3. NextPort # NoPort
          BY <4>1, <5>2 DEF NoPort
        <5>4. servers \in [Targets -> 0..MaxPort]
          BY <4>1 DEF LbTypeOK
        <5> QED
          BY <2>3, <5>1, <5>3, <5>4 DEF Running
      <4> QED
        BY <4>2, <4>3
    <3> QED
      BY <2>1, <2>3, <2>5, <3>1, <3>2 DEF LbStartCall
  <2> QED
    BY <1>2, <2>4, <2>5 DEF LbStartAdds
<1>3. CASE LbStarted
  <2>1. call.pc = "adding" /\ lbActive /\ Running \cup Elements(call.todo) = S /\ call.todo = <<>>
    BY <1>3 DEF LbStarted, Serving, LbStartCall
  <2>2. Running = S
    BY <2>1, NoElements
  <2>3. Running' = Running /\ lbActive' = lbActive
    BY <1>3 DEF LbStarted, Running
  <2>4. call'.pc = "done"
    BY <1>1, <1>3 DEF LbStarted, Return, Calls
  <2> QED
    BY <2>1, <2>2, <2>3, <2>4 DEF LbStartCall
<1>4. CASE LbServersStopped \/ LbJoin \/ LbTake \/ \E t \in Targets : LbServerStops(t)
  <2>1. call.pc \in {"join", "take", "drain"} /\ ~call.ok
    BY <1>4 DEF LbServersStopped, LbJoin, LbTake, LbServerStops, Serving, LbStartCall
  <2>2. call'.pc \in {"join", "take", "drain", "done"} /\ ~call'.ok
    BY <1>1, <1>4, <2>1 DEF LbServersStopped, LbJoin, LbTake, LbServerStops, Return, Move, Calls
  <2> QED
    BY <2>2 DEF LbStartCall
<1> QED
  BY <1>2, <1>3, <1>4 DEF LbCallStep

LEMMA EdStartGoesOn == ASSUME HostsInv, NEW S, EdStartCall(S), EdCallStep PROVE EdStartCall(S)'
<1>1. call \in Calls /\ call.host = "etherdream" /\ EdTyped
  BY DEF HostsInv, Typed, CallOK, Calls, EdInv, EdCallStep, EdAllocate, EdSkips, EdEnsureBinds, EdEnsureFails,
     EdEnsureAdds, Considering, EdDevice, EdStarted, EdStopDevices, EdCleanup, EdCleaned, Serving
<1>2. ASSUME NEW p, Move(p) PROVE call'.pc = p /\ call'.todo = call.todo /\ call'.ok = call.ok
  BY <1>1, <1>2 DEF Move, Calls
<1>3. ASSUME Return(FALSE) PROVE EdStartCall(S)'
  <2>1. call'.pc = "done" /\ ~call'.ok
    BY <1>1, <1>3 DEF Return, Calls
  <2> QED
    BY <2>1 DEF EdStartCall
<1>4. ASSUME call.pc \in {"allocate", "ensure"}
      PROVE  Listening = {} /\ call.ok /\ call.todo # <<>> /\ Elements(call.todo) = S
  <2>1. devices = NoDevices
    BY <1>1, <1>4 DEF HostsInv, EdInv, NoDeviceYet
  <2>2. Listening = {}
    BY <2>1 DEF Listening, NoDevices
  <2> QED
    BY <1>4, <2>2 DEF EdStartCall
<1>5. CASE EdAllocate
  <2>1. call.pc = "allocate" /\ devices' = devices
    BY <1>5 DEF EdAllocate, Serving
  <2>2. Listening' = {}
    BY <1>4, <2>1 DEF Listening
  <2>3. CASE Return(FALSE)
    BY <1>3, <2>3
  <2>4. CASE Move("device") \/ Move("ensure")
    <3>1. call'.pc \in {"device", "ensure"} /\ call'.todo = call.todo /\ call'.ok = call.ok
      BY <1>2, <2>4
    <3> QED
      BY <1>4, <2>1, <2>2, <3>1 DEF EdStartCall
  <2> QED
    BY <1>5, <2>3, <2>4 DEF EdAllocate
<1>6. CASE EdSkips \/ EdEnsureBinds \/ EdEnsureFails \/ EdEnsureAdds
  <2>1. call.pc = "ensure" /\ devices' = devices
    BY <1>6 DEF EdSkips, EdEnsureBinds, EdEnsureFails, EdEnsureAdds, Considering, Serving, edVars
  <2>2. Listening' = {}
    BY <1>4, <2>1 DEF Listening
  <2>3. CASE Return(FALSE)
    BY <1>3, <2>3
  <2>4. CASE UNCHANGED call
    BY <1>4, <2>1, <2>4 DEF EdStartCall
  <2>5. CASE Take
    <3>1. call'.pc \in {"device", "ensure"} /\ call'.todo = call.todo /\ call'.ok = call.ok
      BY <1>2, <2>5 DEF Take
    <3> QED
      BY <1>4, <2>1, <2>2, <3>1 DEF EdStartCall
  <2>6. Return(FALSE) \/ UNCHANGED call \/ Take
    BY <1>6 DEF EdSkips, EdEnsureBinds, EdEnsureFails, EdEnsureAdds
  <2> QED
    BY <2>3, <2>4, <2>5, <2>6
<1>7. CASE EdDevice
  <2>1. call.pc = "device" /\ call.ok /\ Listening \cup Elements(call.todo) = S /\ call.todo # <<>>
    BY <1>7 DEF EdDevice, Serving, EdStartCall
  <2>2. call.todo \in Seq(Targets)
    BY <1>1 DEF Calls
  <2>3. /\ Head(call.todo) \in Targets /\ Elements(call.todo) = {Head(call.todo)} \cup Elements(Tail(call.todo))
        /\ Len(call.todo) \in Nat \ {0}
    BY <2>1, <2>2, Shorter
  <2>4. CASE call' = [call EXCEPT !.pc = "stopDevices", !.todo = <<>>, !.ok = FALSE]
    <3>1. call'.pc = "stopDevices" /\ ~call'.ok /\ call'.todo = <<>>
      BY <1>1, <2>4 DEF Calls
    <3> QED
      BY <3>1 DEF EdStartCall
  <2>5. CASE /\ devices' = [devices EXCEPT ![Head(call.todo)] = Head(alloc.got)]
             /\ call' = [call EXCEPT !.todo = Tail(@)]
    <3>1. call'.pc = "device" /\ call'.ok = call.ok /\ call'.todo = Tail(call.todo)
      BY <1>1, <2>1, <2>5 DEF Calls
    <3>2. alloc.got \in Seq(Addresses) /\ Len(alloc.got) = Len(call.todo) /\ DOMAIN devices = Targets
      BY <1>1, <2>1 DEF HostsInv, EdInv, AddressForEach, Serving, EdPlaced, EdTyped
    <3>3. Head(alloc.got) \in Addresses
      BY <2>3, <3>2
    <3>4. Head(alloc.got) # NoAddress
      BY <3>3, AddressesNat, Zenon
    <3>5. Listening' = Listening \cup {Head(call.todo)}
      BY <2>3, <2>5, <3>2, <3>4 DEF Listening
    <3> QED
      BY <2>1, <2>3, <3>1, <3>5 DEF EdStartCall
  <2> QED
    BY <1>7, <2>4, <2>5 DEF EdDevice
<1>8. CASE EdStarted
  <2>1. call.pc = "device" /\ Listening \cup Elements(call.todo) = S /\ call.todo = <<>>
    BY <1>8 DEF EdStarted, Serving, EdStartCall
  <2>2. Listening = S
    BY <2>1, NoElements
  <2>3. Listening' = Listening /\ edActive' = TRUE
    BY <1>8 DEF EdStarted, Listening
  <2>4. call'.pc = "done"
    BY <1>1, <1>8 DEF EdStarted, Return, Calls
  <2> QED
    BY <2>2, <2>3, <2>4 DEF EdStartCall
<1>9. CASE EdStopDevices
  <2>1. ~call.ok /\ call.todo = <<>>
    BY <1>9 DEF EdStopDevices, Serving, EdStartCall
  <2>2. call'.pc = "cleanup" /\ call'.todo = call.todo /\ call'.ok = call.ok
    BY <1>2, <1>9 DEF EdStopDevices
  <2> QED
    BY <2>1, <2>2 DEF EdStartCall
<1>10. CASE EdCleanup
  BY <1>10 DEF EdCleanup, Serving, EdStartCall
<1>11. CASE EdCleaned
  <2>1. CASE call.todo # <<>> /\ Move("allocate")
    <3>1. call'.pc = "allocate" /\ call'.todo = call.todo /\ call'.ok = call.ok
      BY <1>2, <2>1
    <3> QED
      BY <1>11, <2>1, <3>1 DEF EdCleaned, Serving, EdStartCall
  <2>2. CASE call.todo = <<>> /\ Return(call.ok)
    <3>1. ~call.ok
      BY <1>11, <2>2 DEF EdCleaned, Serving, EdStartCall
    <3>2. call'.pc = "done" /\ ~call'.ok
      BY <1>1, <2>2, <3>1 DEF Return, Calls
    <3> QED
      BY <3>2 DEF EdStartCall
  <2> QED
    BY <1>11, <2>1, <2>2 DEF EdCleaned
<1> QED
  BY <1>5, <1>6, <1>7, <1>8, <1>9, <1>10, <1>11 DEF EdCallStep

LEMMA StartGoesOn ==
  ASSUME HostsInv, NEW h \in HostTypes, NEW S, StartCall(h, S), HostStep PROVE StartCall(h, S)'
<1>1. call.host = h
  BY DEF StartCall
<1>2. CASE LbCallStep /\ h = "libera"
  BY <1>1, <1>2, LbStartGoesOn, HostStepAlone DEF StartCall
<1>3. CASE EdCallStep /\ h = "etherdream"
  BY <1>1, <1>3, EdStartGoesOn, HostStepAlone DEF StartCall
<1> QED
  BY <1>1, <1>2, <1>3, HostStepAlone

LEMMA StartEnds ==
  ASSUME NEW h \in HostTypes, NEW S, StartCall(h, S), call.pc = "done", call.ok
  PROVE  Served(h) = S /\ (h = "libera" => lbActive) /\ (h = "etherdream" => edActive)
<1>1. CASE h = "libera"
  BY <1>1, ServedBy DEF StartCall, LbStartCall
<1>2. CASE h = "etherdream"
  BY <1>2, ServedBy DEF StartCall, EdStartCall
<1>3. CASE h = "idn"
  BY <1>3, ServedBy DEF StartCall
<1> QED
  BY <1>1, <1>2, <1>3 DEF HostTypes

(* One target fewer, one target more.                                       *)
LEMMA RemoveBegins ==
  ASSUME HostsInv, NEW t \in Running, lbActive, LbRemoveTarget(t)
  PROVE  /\ call'.host = "libera" /\ call'.pc = "drainOne" /\ lbActive'
         /\ Running' = Running \ {t} /\ \A u \in Targets \ {t} : servers'[u] = servers[u]
<1>1. Enter("libera", "drainOne", <<>>) /\ servers' = [servers EXCEPT ![t] = NoPort] /\ lbActive' = lbActive
  BY DEF LbRemoveTarget, Running
<1>2. DOMAIN servers = Targets
  BY DEF HostsInv, Typed, LbTypeOK
<1> QED
  BY <1>1, <1>2 DEF Enter, Running

LEMMA AddBegins ==
  ASSUME HostsInv, NEW t \in Targets, LbAddTarget(t)
  PROVE  /\ call'.host = "libera" /\ call'.pc = "done" /\ lbActive' = lbActive
         /\ Running \subseteq Running' /\ Running' \subseteq Running \cup {t}
         /\ \A u \in Running : servers'[u] = servers[u]
<1>1. call'.host = "libera" /\ call'.pc = "done" /\ lbActive' = lbActive
  BY DEF LbAddTarget, Answer
<1>2. UNCHANGED servers \/ (servers[t] = NoPort /\ ~AddFails(t) /\ servers' = [servers EXCEPT ![t] = NextPort])
  BY DEF LbAddTarget, AddServer
<1>3. DOMAIN servers = Targets
  BY DEF HostsInv, Typed, LbTypeOK
<1>4. CASE UNCHANGED servers
  BY <1>1, <1>4 DEF Running
<1>5. CASE servers[t] = NoPort /\ servers' = [servers EXCEPT ![t] = NextPort]
  BY <1>1, <1>3, <1>5 DEF Running
<1> QED
  BY <1>2, <1>4, <1>5
------------------------------------------------------------------------------
(* Where start() and stop() are *)

(* Places where start() deals with the first host of rest.                  *)
OnCurrent == {"dropped", "change", "changing", "restart", "restopped", "relaunch", "relaunched"}
Updating == OnCurrent \cup {"hosts", "launched"}
TakingDown == {"destroy", "destroying", "stopAll", "stopping"}

FleetTyped ==
  /\ fleet \in Seq(Records) /\ nextHosts \in Seq(Records) /\ rest \in Seq(Records)
  /\ published \subseteq Targets /\ idnTargets \subseteq Targets /\ dynamic \in BOOLEAN /\ crashes \in Nat
  /\ linkState \in {"Stopped", "Starting", "Running", "Failed"}
  /\ step \in Updating \cup TakingDown \cup {"idle"}

(* The call that each place waits for.                                      *)
CallFits ==
  /\ step \in {"idle", "hosts", "change", "restart", "relaunch", "destroy", "stopAll"} => call = NoCall
  /\ step \in {"dropped", "restopped", "destroying", "stopping"} => rest # <<>> /\ StopCall(Current.host)
  /\ step = "changing" => call.host = "libera" /\ call.pc \in {"drainOne", "done"}
  /\ step \in {"launched", "relaunched"} => StartCall(Launching.host, Launching.targets)

(* During an update: the hosts dealt with serve their groups, the ones not  *)
(* come to serve what they served, the others are down, except the one in   *)
(* hand.                                                                    *)
Dealt(r) == Intact(r) /\ Wants(r.host) /\ r.targets = GroupFor(r.host).targets
UpdateFits ==
  step \in Updating =>
    /\ WantedOK(wanted)
    /\ Apart(nextHosts) /\ Apart(rest) /\ HostsIn(nextHosts) \cap HostsIn(rest) = {}
    /\ \A r \in Elements(nextHosts) : Dealt(r)
    /\ \A r \in Elements(rest) : (step \in OnCurrent /\ r = Current) \/ Intact(r)
    /\ \A h \in HostTypes \ (HostsIn(nextHosts) \cup HostsIn(rest)) :
         (step = "launched" /\ h = Launching.host) \/ Down(h)

(* The host in hand.                                                        *)
CurrentFits ==
  /\ step \in OnCurrent => rest # <<>> /\ (step # "dropped" <=> Wants(Current.host))
  /\ step = "launched" => rest = <<>> /\ Missing # {}
  /\ step = "relaunch" => Down(Current.host)
  /\ step \in {"change", "changing"} =>
       /\ Current.host = "libera" /\ lbActive /\ dynamic
       /\ Current.targets \cap GroupFor("libera").targets \subseteq Running
       /\ Running \subseteq Current.targets \cup GroupFor("libera").targets
  /\ step \in {"restart", "restopped"} /\ Current.host = "libera" => ~dynamic

TakenDown ==
  /\ step \in TakingDown => \A h \in HostTypes \ HostsIn(rest) : Down(h)
  /\ step \notin Updating => nextHosts = <<>>
  /\ step \in {"stopAll", "stopping"} => published = {} /\ fleet = <<>> /\ linkState = "Stopped" /\ wanted = <<>>

(* Between two calls of the runtime.                                        *)
AtRest ==
  step = "idle" =>
    /\ rest = <<>> /\ Apart(fleet)
    /\ \A r \in Elements(fleet) : Intact(r)
    /\ \A q, r \in Elements(fleet) : q.host # r.host => q.targets \cap r.targets = {}
    /\ \A h \in HostTypes \ HostsIn(fleet) : Down(h)
    /\ published = UNION {r.targets : r \in Elements(fleet)}
    /\ (linkState = "Running" <=> published # {})

FleetInv == HostsInv /\ FleetTyped /\ CallFits /\ UpdateFits /\ CurrentFits /\ TakenDown /\ AtRest
------------------------------------------------------------------------------
(* The wanted groups *)

LEMMA GroupSound ==
  ASSUME WantedOK(wanted), NEW h, Wants(h)
  PROVE  /\ h \in HostTypes /\ GroupFor(h).host = h /\ GroupFor(h).targets \in SUBSET Targets
         /\ GroupFor(h).targets # {} /\ \E i \in DOMAIN wanted : GroupFor(h) = wanted[i]
<1>1. PICK i \in DOMAIN wanted : wanted[i].host = h /\ GroupFor(h) = wanted[i]
  <2> DEFINE i == CHOOSE k \in DOMAIN wanted : wanted[k].host = h
  <2>1. i \in DOMAIN wanted /\ wanted[i].host = h
    BY Zenon DEF Wants
  <2> QED
    BY <2>1, Zenon DEF GroupFor
<1> QED
  BY <1>1, Zenon DEF WantedOK

LEMMA GroupOf ==
  ASSUME WantedOK(wanted), NEW i \in DOMAIN wanted
  PROVE  Wants(wanted[i].host) /\ GroupFor(wanted[i].host) = wanted[i]
<1>1. Wants(wanted[i].host)
  BY DEF Wants
<1>2. PICK j \in DOMAIN wanted : GroupFor(wanted[i].host) = wanted[j] /\ wanted[j].host = wanted[i].host
  BY <1>1, GroupSound
<1> QED
  BY <1>1, <1>2, Zenon DEF WantedOK

LEMMA GroupsDisjoint ==
  ASSUME WantedOK(wanted), NEW g, NEW h, g # h, Wants(g), Wants(h)
  PROVE  GroupFor(g).targets \cap GroupFor(h).targets = {}
<1>1. PICK i \in DOMAIN wanted : GroupFor(g) = wanted[i] /\ wanted[i].host = g
  BY GroupSound
<1>2. PICK j \in DOMAIN wanted : GroupFor(h) = wanted[j] /\ wanted[j].host = h
  BY GroupSound
<1> QED
  BY <1>1, <1>2, Zenon DEF WantedOK

LEMMA SameWanted ==
  ASSUME UNCHANGED wanted, NEW h
  PROVE  (Wants(h)' <=> Wants(h)) /\ GroupFor(h)' = GroupFor(h)
BY DEF Wants, GroupFor

(* The host to launch is wanted, and none of the ones dealt with.           *)
LEMMA MissingGroup ==
  ASSUME WantedOK(wanted), nextHosts \in Seq(Records), Missing # {}
  PROVE  LET m == wanted[Smallest(Missing)]
         IN /\ m.host \in HostTypes \ HostsIn(nextHosts) /\ m.targets \in SUBSET Targets /\ m.targets # {}
            /\ Wants(m.host) /\ GroupFor(m.host) = m
<1>1. Missing \in SUBSET Nat /\ Missing \subseteq DOMAIN wanted
  BY DEF Missing, WantedOK
<1>2. PICK k \in Missing : k = Smallest(Missing)
  BY <1>1, SmallestOf
<1>3. k \in DOMAIN wanted /\ \A j \in DOMAIN nextHosts : nextHosts[j].host # wanted[k].host
  BY <1>2 DEF Missing
<1>4. wanted[k].host \notin HostsIn(nextHosts)
  BY <1>3, Zenon DEF HostsIn, Elements
<1>5. wanted[k].host \in HostTypes /\ wanted[k].targets \in SUBSET Targets /\ wanted[k].targets # {}
  BY <1>3, Zenon DEF WantedOK
<1> QED
  BY <1>2, <1>3, <1>4, <1>5, GroupOf
------------------------------------------------------------------------------
(* What each kind of step keeps *)

LEMMA Frame ==
  ASSUME NEW b, \A g \in HostTypes \ {b} : Undisturbed(g)
  PROVE  /\ \A r \in Records : r.host # b /\ Intact(r) => Intact(r)'
         /\ \A h \in HostTypes : h # b /\ Down(h) => Down(h)'
<1>1. ASSUME NEW r \in Records, r.host # b, Intact(r) PROVE Intact(r)'
  BY <1>1, UndisturbedKeeps, RecordTyped
<1>2. ASSUME NEW h \in HostTypes, h # b, Down(h) PROVE Down(h)'
  BY <1>2, UndisturbedKeeps
<1> QED
  BY <1>1, <1>2

LEMMA FrameAll ==
  ASSUME UNCHANGED <<lbVars, edVars, idnTargets>>
  PROVE  /\ \A r \in Records : Intact(r) => Intact(r)'
         /\ \A h \in HostTypes : Down(h) => Down(h)' /\ EndpointsOf(h)' = EndpointsOf(h)
<1>1. \A h \in HostTypes : Undisturbed(h)
  BY NothingDisturbed
<1>2. ASSUME NEW r \in Records, Intact(r) PROVE Intact(r)'
  BY <1>1, <1>2, UndisturbedKeeps, RecordTyped
<1> QED
  BY <1>1, <1>2, UndisturbedKeeps

(* The first host of rest is taken in hand, or stays there.                 *)
LEMMA InHandStays ==
  ASSUME FleetTyped, UpdateFits, step \in OnCurrent \cup {"hosts"}, step' \in OnCurrent, rest # <<>>,
         UNCHANGED <<nextHosts, rest, wanted>>, \A g \in HostTypes \ {Current.host} : Undisturbed(g)
  PROVE  UpdateFits'
<1>1. /\ nextHosts \in Seq(Records) /\ rest \in Seq(Records) /\ Current' = Current /\ Current = Head(rest)
      /\ WantedOK(wanted) /\ Apart(nextHosts) /\ Apart(rest) /\ HostsIn(nextHosts) \cap HostsIn(rest) = {}
      /\ \A r \in Elements(nextHosts) : Dealt(r)
      /\ \A r \in Elements(rest) : r = Current \/ Intact(r)
      /\ \A h \in HostTypes \ (HostsIn(nextHosts) \cup HostsIn(rest)) : Down(h)
  BY DEF FleetTyped, UpdateFits, Updating, OnCurrent, Current
<1>2. Current.host \in HostsIn(rest)
  BY <1>1, WithoutFirst, Members
<1>3. ASSUME NEW r \in Elements(nextHosts) PROVE Dealt(r)'
  <2>1. r \in Records /\ r.host # Current.host
    BY <1>1, <1>2, Members
  <2> QED
    BY <1>1, <2>1, Frame, SameWanted DEF Dealt
<1>4. ASSUME NEW r \in Elements(rest) PROVE r = Current \/ Intact(r)'
  <2>1. r \in Records /\ (r.host = Current.host => r = Current)
    BY <1>1, Members, WithoutFirst
  <2> QED
    BY <1>1, <2>1, Frame
<1>5. ASSUME NEW h \in HostTypes \ (HostsIn(nextHosts) \cup HostsIn(rest)) PROVE Down(h)'
  BY <1>1, <1>2, Frame
<1> QED
  BY <1>1, <1>3, <1>4, <1>5 DEF UpdateFits

(* The first host of rest has been dealt with.                              *)
LEMMA InHandDealt ==
  ASSUME FleetTyped, UpdateFits, step \in OnCurrent \cup {"hosts"}, step' = "hosts", rest # <<>>,
         UNCHANGED <<wanted, lbVars, edVars, idnTargets>>, rest' = Tail(rest),
         NEW r \in Records, r.host = Current.host, Dealt(r), nextHosts' = Append(nextHosts, r)
  PROVE  UpdateFits'
<1>1. /\ nextHosts \in Seq(Records) /\ rest \in Seq(Records) /\ Current = Head(rest)
      /\ WantedOK(wanted) /\ Apart(nextHosts) /\ Apart(rest) /\ HostsIn(nextHosts) \cap HostsIn(rest) = {}
      /\ \A q \in Elements(nextHosts) : Dealt(q)
      /\ \A q \in Elements(rest) : q = Current \/ Intact(q)
      /\ \A h \in HostTypes \ (HostsIn(nextHosts) \cup HostsIn(rest)) : Down(h)
  BY DEF FleetTyped, UpdateFits, Updating, OnCurrent, Current
<1>2. /\ HostsIn(rest) = HostsIn(Tail(rest)) \cup {r.host} /\ Apart(Tail(rest))
      /\ r.host \notin HostsIn(Tail(rest)) /\ Elements(Tail(rest)) = Elements(rest) \ {Current}
  BY <1>1, WithoutFirst
<1>3. r.host \notin HostsIn(nextHosts)
  BY <1>1, <1>2
<1>4. /\ Elements(nextHosts') = Elements(nextHosts) \cup {r} /\ Apart(nextHosts')
      /\ HostsIn(nextHosts') = HostsIn(nextHosts) \cup {r.host}
  BY <1>1, <1>3, WithOneMore
<1>5. ASSUME NEW q \in Elements(nextHosts') PROVE Dealt(q)'
  <2>1. q \in Records /\ Dealt(q)
    BY <1>1, <1>4, Members
  <2> QED
    BY <2>1, FrameAll, SameWanted DEF Dealt
<1>6. ASSUME NEW q \in Elements(rest') PROVE Intact(q)'
  <2>1. q \in Records /\ Intact(q)
    BY <1>1, <1>2, Members
  <2> QED
    BY <2>1, FrameAll
<1>7. ASSUME NEW h \in HostTypes \ (HostsIn(nextHosts') \cup HostsIn(rest')) PROVE Down(h)'
  BY <1>1, <1>2, <1>4, FrameAll
<1>8. HostsIn(nextHosts') \cap HostsIn(rest') = {}
  BY <1>1, <1>2, <1>4
<1> QED
  BY <1>1, <1>2, <1>4, <1>5, <1>6, <1>7, <1>8 DEF UpdateFits

(* The first host of rest is gone.                                          *)
LEMMA InHandGone ==
  ASSUME FleetTyped, UpdateFits, step \in OnCurrent, step' = "hosts", rest # <<>>,
         UNCHANGED <<wanted, nextHosts, lbVars, edVars, idnTargets>>, rest' = Tail(rest), Down(Current.host)
  PROVE  UpdateFits'
<1>1. /\ nextHosts \in Seq(Records) /\ rest \in Seq(Records) /\ Current = Head(rest)
      /\ WantedOK(wanted) /\ Apart(nextHosts) /\ Apart(rest) /\ HostsIn(nextHosts) \cap HostsIn(rest) = {}
      /\ \A q \in Elements(nextHosts) : Dealt(q)
      /\ \A q \in Elements(rest) : q = Current \/ Intact(q)
      /\ \A h \in HostTypes \ (HostsIn(nextHosts) \cup HostsIn(rest)) : Down(h)
  BY DEF FleetTyped, UpdateFits, Updating, OnCurrent, Current
<1>2. /\ HostsIn(rest) = HostsIn(Tail(rest)) \cup {Current.host} /\ Apart(Tail(rest))
      /\ Elements(Tail(rest)) = Elements(rest) \ {Current}
  BY <1>1, WithoutFirst
<1>3. ASSUME NEW q \in Elements(nextHosts') PROVE Dealt(q)'
  <2>1. q \in Records /\ Dealt(q)
    BY <1>1, Members
  <2> QED
    BY <2>1, FrameAll, SameWanted DEF Dealt
<1>4. ASSUME NEW q \in Elements(rest') PROVE Intact(q)'
  <2>1. q \in Records /\ Intact(q)
    BY <1>1, <1>2, Members
  <2> QED
    BY <2>1, FrameAll
<1>5. ASSUME NEW h \in HostTypes \ (HostsIn(nextHosts') \cup HostsIn(rest')) PROVE Down(h)'
  BY <1>1, <1>2, FrameAll
<1>6. HostsIn(nextHosts') \cap HostsIn(rest') = {}
  BY <1>1, <1>2
<1> QED
  BY <1>1, <1>2, <1>3, <1>4, <1>5, <1>6 DEF UpdateFits
------------------------------------------------------------------------------
(* start() goes through the active hosts *)

LEMMA PlacesApart ==
  /\ "hosts" \in Updating /\ "hosts" \notin OnCurrent /\ "hosts" \notin TakingDown
  /\ OnCurrent \subseteq Updating /\ Updating \cap TakingDown = {} /\ "idle" \notin Updating
  /\ "launched" \in Updating /\ "launched" \notin OnCurrent /\ "launched" \notin TakingDown
  /\ "idle" \notin OnCurrent /\ "idle" \notin TakingDown
BY DEF Updating, OnCurrent, TakingDown

LEMMA InTheLoop ==
  ASSUME step' = "hosts", call' = NoCall, HostsInv', FleetTyped', UpdateFits' PROVE FleetInv'
BY PlacesApart DEF FleetInv, CallFits, CurrentFits, TakenDown, AtRest

LEMMA WithCurrent ==
  ASSUME step' \in OnCurrent, HostsInv', FleetTyped', CallFits', UpdateFits', CurrentFits' PROVE FleetInv'
<1>1. step' \in Updating /\ step' \notin TakingDown /\ step' # "idle" /\ step' \notin {"stopAll", "stopping"}
  BY DEF OnCurrent, Updating, TakingDown
<1> QED
  BY <1>1 DEF FleetInv, TakenDown, AtRest

LEMMA CurrentTyped ==
  ASSUME FleetTyped, rest # <<>>
  PROVE  /\ Current \in Records /\ Current.host \in HostTypes /\ Current.targets \in SUBSET Targets
         /\ Tail(rest) \in Seq(Records) /\ Current \in Elements(rest)
<1>1. rest \in Seq(Records)
  BY DEF FleetTyped
<1> QED
  BY <1>1, WithoutFirst, RecordTyped DEF Current

LEMMA RequestKeeps == ASSUME FleetInv, NEW route \in Routes, Request(route) PROVE FleetInv'
<1>1. /\ step = "idle" /\ UNCHANGED <<call, lbVars, edVars, idnTargets>> /\ step' = "hosts"
      /\ wanted' = GroupsOf(route) /\ nextHosts' = <<>> /\ rest' = fleet
      /\ UNCHANGED <<fleet, published, dynamic, crashes>> /\ linkState' \in {"Running", "Starting"}
  BY DEF Request, Quiet
<1>2. HostsInv' /\ call' = NoCall
  BY <1>1, HostsQuiet DEF FleetInv, CallFits
<1>3. FleetTyped'
  BY <1>1, PlacesApart DEF FleetInv, FleetTyped
<1>4. Elements(<<>>) = {} /\ HostsIn(<<>>) = {} /\ Apart(<<>>)
  <2>1. DOMAIN <<>> = {}
    OBVIOUS
  <2> QED
    BY <2>1, NoElements, Zenon DEF HostsIn, Apart
<1>5. WantedOK(wanted')
  BY <1>1, GroupsSound
<1>6. /\ fleet \in Seq(Records) /\ Apart(fleet) /\ \A r \in Elements(fleet) : Intact(r)
      /\ \A h \in HostTypes \ HostsIn(fleet) : Down(h)
  BY <1>1 DEF FleetInv, AtRest, FleetTyped
<1>7. \A r \in Elements(fleet) : Intact(r)'
  BY <1>1, <1>6, FrameAll, Members
<1>8. \A h \in HostTypes \ HostsIn(fleet) : Down(h)'
  BY <1>1, <1>6, FrameAll
<1>9. UpdateFits'
  BY <1>1, <1>4, <1>5, <1>6, <1>7, <1>8 DEF UpdateFits
<1> QED
  BY <1>1, <1>2, <1>3, <1>9, InTheLoop

LEMMA DropHostKeeps == ASSUME FleetInv, DropHost PROVE FleetInv'
<1>1. /\ step = "hosts" /\ rest # <<>> /\ ~Wants(Current.host) /\ StopHost(Current.host) /\ step' = "dropped"
      /\ UNCHANGED <<fleet, published, wanted, nextHosts, rest, dynamic, linkState, crashes>>
  BY DEF DropHost
<1>2. HostsInv /\ FleetTyped /\ UpdateFits /\ call = NoCall
  BY <1>1 DEF FleetInv, CallFits
<1>3. Current.host \in HostTypes /\ Current' = Current
  BY <1>1, <1>2, CurrentTyped DEF Current
<1>4. HostsInv' /\ StopCall(Current.host)' /\ \A g \in HostTypes \ {Current.host} : Undisturbed(g)
  BY <1>1, <1>2, <1>3, StopHostKeeps, StopBegins
<1>5. step' \in OnCurrent /\ step' \in Updating
  BY <1>1 DEF OnCurrent, Updating
<1>6. UpdateFits'
  BY <1>1, <1>2, <1>4, <1>5, InHandStays
<1>7. CallFits'
  BY <1>1, <1>3, <1>4 DEF CallFits
<1>8. CurrentFits'
  BY <1>1, <1>3, <1>5, SameWanted DEF CurrentFits
<1>9. idnTargets' \subseteq Targets
  BY <1>1, <1>2 DEF StopHost, FleetTyped
<1>10. FleetTyped'
  BY <1>1, <1>2, <1>5, <1>9 DEF FleetTyped
<1> QED
  BY <1>4, <1>5, <1>6, <1>7, <1>8, <1>10, WithCurrent

LEMMA DroppedKeeps == ASSUME FleetInv, Dropped PROVE FleetInv'
<1>1. /\ step = "dropped" /\ step' = "hosts" /\ call.pc = "done" /\ call' = NoCall
      /\ UNCHANGED <<lbVars, edVars, idnTargets>> /\ rest' = Tail(rest)
      /\ UNCHANGED <<fleet, published, wanted, nextHosts, dynamic, linkState, crashes>>
  BY DEF Dropped, Resume, Next1
<1>2. HostsInv /\ FleetTyped /\ UpdateFits /\ rest # <<>> /\ StopCall(Current.host)
  BY <1>1 DEF FleetInv, CallFits
<1>3. Current.host \in HostTypes /\ Tail(rest) \in Seq(Records)
  BY <1>2, CurrentTyped
<1>4. Down(Current.host)
  BY <1>1, <1>2, <1>3, StopEnds
<1>5. HostsInv'
  BY <1>1, <1>2, HostsResume
<1>6. UpdateFits'
  BY <1>1, <1>2, <1>4, InHandGone DEF OnCurrent
<1>7. FleetTyped'
  BY <1>1, <1>2, <1>3, PlacesApart DEF FleetTyped
<1> QED
  BY <1>1, <1>5, <1>6, <1>7, InTheLoop

LEMMA KeepHostKeeps == ASSUME FleetInv, KeepHost PROVE FleetInv'
<1>1. /\ step = "hosts" /\ step' = "hosts" /\ rest # <<>> /\ Wants(Current.host) /\ Same
      /\ UNCHANGED <<call, lbVars, edVars, idnTargets>> /\ rest' = Tail(rest)
      /\ nextHosts' = Append(nextHosts, Kept(EndpointsOf(Current.host)))
      /\ UNCHANGED <<fleet, published, wanted, dynamic, linkState, crashes>>
  BY DEF KeepHost, Quiet, Next1
<1>2. HostsInv /\ FleetTyped /\ UpdateFits /\ call = NoCall /\ WantedOK(wanted) /\ idnTargets \subseteq Targets
  BY <1>1, PlacesApart DEF FleetInv, CallFits, UpdateFits, FleetTyped
<1>3. Current.host \in HostTypes /\ Tail(rest) \in Seq(Records) /\ Current \in Elements(rest)
  BY <1>1, <1>2, CurrentTyped
<1>4. Intact(Current)
  BY <1>1, <1>2, <1>3, PlacesApart DEF UpdateFits
<1> DEFINE r == Kept(EndpointsOf(Current.host))
<1>5. GroupFor(Current.host).targets \in SUBSET Targets /\ GroupFor(Current.host).targets # {}
  BY <1>1, <1>2, GroupSound
<1>6. /\ r \in Records /\ r.host = Current.host /\ r.targets = GroupFor(Current.host).targets
      /\ r.endpoints = EndpointsOf(Current.host)
  BY <1>2, <1>3, <1>5, EndpointsTyped, HostTyped DEF Kept
<1> HIDE DEF r
<1>7. Intact(r)
  BY <1>1, <1>4, <1>5, <1>6 DEF Intact, Same
<1>8. Dealt(r)
  BY <1>1, <1>6, <1>7 DEF Dealt
<1>9. nextHosts' = Append(nextHosts, r)
  BY <1>1 DEF r
<1>10. UpdateFits'
  BY <1>1, <1>2, <1>6, <1>8, <1>9, InHandDealt
<1>11. HostsInv'
  BY <1>1, <1>2, HostsQuiet
<1>12. FleetTyped'
  <2>1. nextHosts' \in Seq(Records)
    BY <1>2, <1>6, <1>9, WithOneMore DEF FleetTyped
  <2> QED
    BY <1>1, <1>2, <1>3, <2>1 DEF FleetTyped
<1> QED
  BY <1>1, <1>2, <1>10, <1>11, <1>12, InTheLoop

LEMMA ChangeHostKeeps == ASSUME FleetInv, ChangeHost PROVE FleetInv'
<1>1. /\ step = "hosts" /\ rest # <<>> /\ Wants(Current.host)
      /\ UNCHANGED <<call, lbVars, edVars, idnTargets>>
      /\ dynamic' = (Current.host = "libera") /\ step' = IF dynamic' THEN "change" ELSE "restart"
      /\ UNCHANGED <<fleet, published, wanted, nextHosts, rest, linkState, crashes>>
  BY DEF ChangeHost, Quiet, SupportsDynamicTargets
<1>2. HostsInv /\ FleetTyped /\ UpdateFits /\ call = NoCall
  BY <1>1 DEF FleetInv, CallFits
<1>3. Current.host \in HostTypes /\ Current' = Current /\ Current \in Elements(rest)
  BY <1>1, <1>2, CurrentTyped DEF Current
<1>4. Intact(Current)
  BY <1>1, <1>2, <1>3, PlacesApart DEF UpdateFits
<1>5. step' \in OnCurrent /\ step' \in Updating /\ step' \in {"change", "restart"}
  BY <1>1 DEF OnCurrent, Updating
<1>6. HostsInv' /\ CallFits'
  BY <1>1, <1>2, <1>5, HostsQuiet DEF CallFits
<1>7. UpdateFits'
  BY <1>1, <1>2, <1>5, NothingDisturbed, InHandStays
<1>8. CurrentFits'
  <2>1. CASE Current.host = "libera"
    <3>1. lbActive /\ Running = Current.targets /\ step' = "change" /\ dynamic'
      BY <1>1, <1>4, <2>1, ServedBy DEF Intact
    <3>2. lbActive' /\ Running' = Running
      BY <1>1, <3>1 DEF lbVars, Running
    <3> QED
      BY <1>1, <1>3, <2>1, <3>1, <3>2, SameWanted DEF CurrentFits
  <2>2. CASE Current.host # "libera"
    <3>1. step' = "restart"
      BY <1>1, <2>2
    <3> QED
      BY <1>1, <1>3, <2>2, <3>1, SameWanted DEF CurrentFits
  <2> QED
    BY <2>1, <2>2
<1>9. FleetTyped'
  BY <1>1, <1>2, <1>5 DEF FleetTyped
<1> QED
  BY <1>5, <1>6, <1>7, <1>8, <1>9, WithCurrent

LEMMA ChangeTarget ==
  ASSUME FleetInv, step = "change", step' = "changing",
         UNCHANGED <<edVars, fleet, published, wanted, nextHosts, rest, dynamic, linkState, idnTargets, crashes>>,
         HostsInv', call'.host = "libera", call'.pc \in {"drainOne", "done"}, lbActive',
         Current.targets \cap GroupFor("libera").targets \subseteq Running',
         Running' \subseteq Current.targets \cup GroupFor("libera").targets
  PROVE  FleetInv'
<1>1. /\ FleetTyped /\ UpdateFits /\ rest # <<>> /\ Current.host = "libera" /\ dynamic /\ Wants(Current.host)
      /\ step \in OnCurrent /\ step' \in OnCurrent /\ step' \in Updating
  BY DEF FleetInv, CurrentFits, OnCurrent, Updating
<1>2. Current' = Current
  BY DEF Current
<1>3. \A g \in HostTypes \ {Current.host} : Undisturbed(g)
  BY <1>1 DEF Undisturbed, edVars
<1>4. UpdateFits'
  BY <1>1, <1>3, InHandStays
<1>5. CallFits'
  BY DEF CallFits
<1>6. CurrentFits'
  BY <1>1, <1>2, SameWanted DEF CurrentFits
<1>7. FleetTyped'
  BY <1>1 DEF FleetTyped
<1> QED
  BY <1>1, <1>4, <1>5, <1>6, <1>7, WithCurrent

LEMMA TargetChangeKeepsFleet == ASSUME FleetInv, RemoveSurplus \/ AddLacking PROVE FleetInv'
<1>1. /\ step = "change" /\ step' = "changing"
      /\ UNCHANGED <<edVars, fleet, published, wanted, nextHosts, rest, dynamic, linkState, idnTargets, crashes>>
  BY DEF RemoveSurplus, AddLacking
<1>2. /\ HostsInv /\ FleetTyped /\ call = NoCall /\ Current.host = "libera" /\ lbActive /\ rest # <<>>
      /\ Current.targets \cap GroupFor("libera").targets \subseteq Running
      /\ Running \subseteq Current.targets \cup GroupFor("libera").targets
      /\ WantedOK(wanted) /\ Wants("libera")
  BY <1>1 DEF FleetInv, CallFits, CurrentFits, UpdateFits, OnCurrent, Updating
<1>3. GroupFor("libera").targets \in SUBSET Targets /\ Targets \in SUBSET Nat
  BY <1>2, GroupSound, TargetsAssumption
<1>4. Running \in SUBSET Nat
  BY <1>3 DEF Running
<1>5. Served("libera") = Running
  BY ServedBy
<1>6. CASE RemoveSurplus
  <2>1. ToRemove # {} /\ LbRemoveTarget(Smallest(ToRemove))
    BY <1>6 DEF RemoveSurplus
  <2>2. ToRemove = (Current.targets \ GroupFor("libera").targets) \cap Running
    BY <1>2, <1>5 DEF ToRemove, Surplus
  <2>3. Smallest(ToRemove) \in ToRemove
    BY <1>4, <2>1, <2>2, SmallestOf
  <2>4. PICK t \in Running : t = Smallest(ToRemove) /\ t \notin GroupFor("libera").targets
    BY <2>2, <2>3
  <2>5. /\ call'.host = "libera" /\ call'.pc = "drainOne" /\ lbActive' /\ Running' = Running \ {t}
    BY <1>2, <2>1, <2>4, RemoveBegins
  <2>6. HostsInv'
    <3>1. t \in Targets
      BY DEF Running
    <3> QED
      BY <1>1, <1>2, <2>1, <2>4, <3>1, TargetChangeKeeps
  <2> QED
    BY <1>1, <1>2, <2>4, <2>5, <2>6, ChangeTarget
<1>7. CASE AddLacking
  <2>1. ToAdd # {} /\ LbAddTarget(Smallest(ToAdd))
    BY <1>7 DEF AddLacking
  <2>2. ToAdd = (GroupFor("libera").targets \ Current.targets) \ Running
    BY <1>2, <1>5 DEF ToAdd, Lacking
  <2>3. Smallest(ToAdd) \in ToAdd
    BY <1>3, <2>1, <2>2, SmallestOf
  <2>4. PICK t \in Targets : t = Smallest(ToAdd) /\ t \in GroupFor("libera").targets
    BY <1>3, <2>2, <2>3
  <2>5. /\ call'.host = "libera" /\ call'.pc = "done" /\ lbActive' = lbActive
        /\ Running \subseteq Running' /\ Running' \subseteq Running \cup {t}
    BY <1>2, <2>1, <2>4, AddBegins
  <2>6. HostsInv'
    BY <1>1, <1>2, <2>1, <2>4, TargetChangeKeeps
  <2>7. /\ Current.targets \cap GroupFor("libera").targets \subseteq Running'
        /\ Running' \subseteq Current.targets \cup GroupFor("libera").targets
    BY <1>2, <2>4, <2>5
  <2> QED
    BY <1>1, <1>2, <2>5, <2>6, <2>7, ChangeTarget
<1> QED
  BY <1>6, <1>7

LEMMA ChangingKeeps == ASSUME FleetInv, Changing PROVE FleetInv'
<1>1. /\ step = "changing" /\ dynamic' = call.ok /\ call.pc = "done" /\ call' = NoCall
      /\ step' = (IF call.ok THEN "change" ELSE "restart") /\ UNCHANGED <<lbVars, edVars, idnTargets>>
      /\ UNCHANGED <<fleet, published, wanted, nextHosts, rest, linkState, crashes>>
  BY DEF Changing, Resume
<1>2. /\ HostsInv /\ FleetTyped /\ UpdateFits /\ rest # <<>> /\ Current.host = "libera" /\ lbActive
      /\ Current.targets \cap GroupFor("libera").targets \subseteq Running
      /\ Running \subseteq Current.targets \cup GroupFor("libera").targets
      /\ Wants(Current.host) /\ step \in OnCurrent
  BY <1>1 DEF FleetInv, CurrentFits, OnCurrent
<1>3. Current' = Current /\ Running' = Running /\ lbActive' = lbActive
  BY <1>1 DEF Current, Running, lbVars
<1>4. step' \in OnCurrent /\ step' \in Updating /\ step' \in {"change", "restart"}
  BY <1>1 DEF OnCurrent, Updating
<1>5. HostsInv' /\ CallFits'
  BY <1>1, <1>2, <1>4, HostsResume DEF CallFits
<1>6. UpdateFits'
  BY <1>1, <1>2, <1>4, NothingDisturbed, InHandStays
<1>7. call.ok \in BOOLEAN
  BY <1>2 DEF HostsInv, Typed, CallOK
<1>8. CurrentFits'
  BY <1>1, <1>2, <1>3, <1>4, SameWanted DEF CurrentFits
<1>9. FleetTyped'
  BY <1>1, <1>2, <1>4, <1>7 DEF FleetTyped
<1> QED
  BY <1>4, <1>5, <1>6, <1>8, <1>9, WithCurrent

LEMMA ChangedKeeps == ASSUME FleetInv, Changed PROVE FleetInv'
<1>1. /\ step = "change" /\ step' = "hosts" /\ ToRemove = {} /\ ToAdd = {}
      /\ UNCHANGED <<call, lbVars, edVars, idnTargets>> /\ rest' = Tail(rest)
      /\ nextHosts' = Append(nextHosts, Kept(EndpointsOf(Current.host)))
      /\ UNCHANGED <<fleet, published, wanted, dynamic, linkState, crashes>>
  BY DEF Changed, Quiet, Next1
<1>2. /\ HostsInv /\ FleetTyped /\ UpdateFits /\ call = NoCall /\ WantedOK(wanted) /\ idnTargets \subseteq Targets
      /\ rest # <<>> /\ Current.host = "libera" /\ lbActive /\ Wants("libera")
      /\ Current.targets \cap GroupFor("libera").targets \subseteq Running
      /\ Running \subseteq Current.targets \cup GroupFor("libera").targets /\ step \in OnCurrent
  BY <1>1 DEF FleetInv, CallFits, CurrentFits, UpdateFits, OnCurrent, Updating, FleetTyped
<1>3. Current.host \in HostTypes /\ Tail(rest) \in Seq(Records)
  BY <1>2, CurrentTyped
<1> DEFINE r == Kept(EndpointsOf(Current.host))
<1>4. GroupFor("libera").targets \in SUBSET Targets /\ GroupFor("libera").targets # {}
  BY <1>2, GroupSound
<1>5. /\ r \in Records /\ r.host = "libera" /\ r.targets = GroupFor("libera").targets
      /\ r.endpoints = EndpointsOf("libera")
  BY <1>2, <1>3, <1>4, EndpointsTyped, HostTyped DEF Kept
<1> HIDE DEF r
<1>6. Served("libera") = GroupFor("libera").targets
  <2>1. Served("libera") = Running
    BY ServedBy
  <2>2. (Current.targets \ GroupFor("libera").targets) \cap Running = {}
    BY <1>1, <1>2, <2>1 DEF ToRemove, Surplus
  <2>3. (GroupFor("libera").targets \ Current.targets) \ Running = {}
    BY <1>1, <1>2, <2>1 DEF ToAdd, Lacking
  <2>4. Running \subseteq GroupFor("libera").targets
    BY <1>2, <2>2, Zenon
  <2>5. GroupFor("libera").targets \subseteq Running
    BY <1>2, <2>3, Zenon
  <2> QED
    BY <2>1, <2>4, <2>5, Zenon
<1>7. Dealt(r)
  BY <1>2, <1>4, <1>5, <1>6 DEF Intact, Dealt
<1>8. nextHosts' = Append(nextHosts, r)
  BY <1>1 DEF r
<1>9. UpdateFits'
  BY <1>1, <1>2, <1>5, <1>7, <1>8, InHandDealt
<1>10. HostsInv'
  BY <1>1, <1>2, HostsQuiet
<1>11. FleetTyped'
  <2>1. nextHosts' \in Seq(Records)
    BY <1>2, <1>5, <1>8, WithOneMore DEF FleetTyped
  <2> QED
    BY <1>1, <1>2, <1>3, <2>1, PlacesApart DEF FleetTyped
<1> QED
  BY <1>1, <1>2, <1>9, <1>10, <1>11, InTheLoop

LEMMA RestartHostKeeps == ASSUME FleetInv, RestartHost PROVE FleetInv'
<1>1. /\ step = "restart" /\ StopHost(Current.host) /\ step' = "restopped"
      /\ UNCHANGED <<fleet, published, wanted, nextHosts, rest, dynamic, linkState, crashes>>
  BY DEF RestartHost
<1>2. /\ HostsInv /\ FleetTyped /\ UpdateFits /\ call = NoCall /\ rest # <<>> /\ Wants(Current.host)
      /\ (Current.host = "libera" => ~dynamic) /\ step \in OnCurrent
  BY <1>1 DEF FleetInv, CallFits, CurrentFits, OnCurrent
<1>3. Current.host \in HostTypes /\ Current' = Current
  BY <1>1, <1>2, CurrentTyped DEF Current
<1>4. HostsInv' /\ StopCall(Current.host)' /\ \A g \in HostTypes \ {Current.host} : Undisturbed(g)
  BY <1>1, <1>2, <1>3, StopHostKeeps, StopBegins
<1>5. step' \in OnCurrent /\ step' \in Updating
  BY <1>1 DEF OnCurrent, Updating
<1>6. UpdateFits'
  BY <1>1, <1>2, <1>4, <1>5, InHandStays
<1>7. CallFits'
  BY <1>1, <1>2, <1>3, <1>4 DEF CallFits
<1>8. CurrentFits'
  BY <1>1, <1>2, <1>3, <1>5, SameWanted DEF CurrentFits
<1>9. idnTargets' \subseteq Targets
  BY <1>1, <1>2 DEF StopHost, FleetTyped
<1>10. FleetTyped'
  BY <1>1, <1>2, <1>5, <1>9 DEF FleetTyped
<1> QED
  BY <1>4, <1>5, <1>6, <1>7, <1>8, <1>10, WithCurrent

LEMMA RestoppedKeeps == ASSUME FleetInv, Restopped PROVE FleetInv'
<1>1. /\ step = "restopped" /\ step' = "relaunch" /\ call.pc = "done" /\ call' = NoCall
      /\ UNCHANGED <<lbVars, edVars, idnTargets>>
      /\ UNCHANGED <<fleet, published, wanted, nextHosts, rest, dynamic, linkState, crashes>>
  BY DEF Restopped, Resume
<1>2. /\ HostsInv /\ FleetTyped /\ UpdateFits /\ rest # <<>> /\ StopCall(Current.host)
      /\ Wants(Current.host) /\ step \in OnCurrent
  BY <1>1 DEF FleetInv, CallFits, CurrentFits, OnCurrent
<1>3. Current.host \in HostTypes /\ Current' = Current
  BY <1>1, <1>2, CurrentTyped DEF Current
<1>4. Down(Current.host)
  BY <1>1, <1>2, <1>3, StopEnds
<1>5. Down(Current.host)'
  BY <1>1, <1>3, <1>4, FrameAll
<1>6. HostsInv' /\ CallFits'
  BY <1>1, <1>2, HostsResume DEF CallFits
<1>7. step' \in OnCurrent /\ step' \in Updating
  BY <1>1 DEF OnCurrent, Updating
<1>8. UpdateFits'
  BY <1>1, <1>2, <1>7, NothingDisturbed, InHandStays
<1>9. CurrentFits'
  BY <1>1, <1>2, <1>3, <1>5, <1>7, SameWanted DEF CurrentFits
<1>10. FleetTyped'
  BY <1>1, <1>2, <1>7 DEF FleetTyped
<1> QED
  BY <1>6, <1>7, <1>8, <1>9, <1>10, WithCurrent
------------------------------------------------------------------------------
(* start() launches hosts *)

LEMMA LaunchingTyped ==
  ASSUME FleetInv,
         \/ step \in {"relaunch", "relaunched", "launched"}
         \/ step = "hosts" /\ rest = <<>> /\ Missing # {}
  PROVE  /\ Launching.host \in HostTypes /\ Launching.targets \in SUBSET Targets /\ Launching.targets # {}
         /\ Wants(Launching.host) /\ Launching.targets = GroupFor(Launching.host).targets
         /\ Launching.host \notin HostsIn(nextHosts)
         /\ step \in {"relaunch", "relaunched"} => Launching.host = Current.host /\ rest # <<>>
         /\ step \notin {"relaunch", "relaunched"} => rest = <<>> /\ Missing # {}
<1>1. /\ WantedOK(wanted) /\ nextHosts \in Seq(Records) /\ rest \in Seq(Records) /\ FleetTyped
      /\ HostsIn(nextHosts) \cap HostsIn(rest) = {}
  BY DEF FleetInv, UpdateFits, FleetTyped, Updating, OnCurrent
<1>2. CASE step \in {"relaunch", "relaunched"}
  <2>1. rest # <<>> /\ Wants(Current.host) /\ Launching = GroupFor(Current.host)
    BY <1>2 DEF FleetInv, CurrentFits, OnCurrent, Launching
  <2>2. Current \in Elements(rest)
    BY <1>1, <2>1, CurrentTyped
  <2>3. Current.host \in HostsIn(rest)
    BY <1>1, <2>2, Members
  <2> QED
    BY <1>1, <1>2, <2>1, <2>3, GroupSound
<1>3. CASE step \in {"launched", "hosts"}
  <2>1. rest = <<>> /\ Missing # {} /\ Launching = wanted[Smallest(Missing)]
    BY <1>3 DEF FleetInv, CurrentFits, Launching
  <2> QED
    BY <1>1, <1>3, <2>1, MissingGroup
<1> QED
  BY <1>2, <1>3

(* A new host is in hand.                                                   *)
LEMMA InHandNew ==
  ASSUME FleetInv, step \in {"hosts", "launched"}, step' = "launched", rest = <<>>, Missing # {},
         UNCHANGED <<nextHosts, rest, wanted>>, \A g \in HostTypes \ {Launching.host} : Undisturbed(g)
  PROVE  UpdateFits' /\ Launching' = Launching
<1>1. Launching' = Launching
  BY DEF Launching, Missing
<1>2. /\ nextHosts \in Seq(Records)
      /\ WantedOK(wanted) /\ Apart(nextHosts) /\ Apart(rest) /\ HostsIn(nextHosts) \cap HostsIn(rest) = {}
      /\ \A r \in Elements(nextHosts) : Dealt(r)
      /\ \A h \in HostTypes \ (HostsIn(nextHosts) \cup HostsIn(rest)) : h = Launching.host \/ Down(h)
  BY PlacesApart DEF FleetInv, FleetTyped, UpdateFits
<1>3. Elements(rest) = {}
  BY NoElements
<1>4. Launching.host \notin HostsIn(nextHosts)
  BY LaunchingTyped
<1>5. ASSUME NEW r \in Elements(nextHosts) PROVE Dealt(r)'
  <2>1. r \in Records /\ r.host # Launching.host
    BY <1>2, <1>4, Members
  <2> QED
    BY <1>2, <2>1, Frame, SameWanted DEF Dealt
<1>6. ASSUME NEW h \in HostTypes \ (HostsIn(nextHosts) \cup HostsIn(rest)) PROVE h = Launching.host \/ Down(h)'
  BY <1>2, Frame
<1> QED
  BY <1>1, <1>2, <1>3, <1>5, <1>6 DEF UpdateFits

LEMMA LaunchHostKeeps == ASSUME FleetInv, LaunchHost PROVE FleetInv'
<1>1. /\ \/ step = "relaunch" /\ step' = "relaunched"
         \/ step = "hosts" /\ rest = <<>> /\ Missing # {} /\ step' = "launched"
      /\ StartHost(Launching.host, Launching.targets)
      /\ UNCHANGED <<fleet, published, wanted, nextHosts, rest, dynamic, linkState, crashes>>
  BY DEF LaunchHost
<1>2. HostsInv /\ FleetTyped /\ UpdateFits /\ call = NoCall
  BY <1>1 DEF FleetInv, CallFits
<1>3. /\ Launching.host \in HostTypes /\ Launching.targets \in SUBSET Targets /\ Launching.targets # {}
      /\ Launching.host \notin HostsIn(nextHosts) /\ Wants(Launching.host)
  BY <1>1, LaunchingTyped
<1>4. Down(Launching.host)
  <2>1. CASE step = "relaunch"
    BY <2>1, LaunchingTyped DEF FleetInv, CurrentFits
  <2>2. CASE step = "hosts" /\ rest = <<>>
    <3>1. HostsIn(rest) = {}
      BY <2>2, NoElements, Zenon DEF HostsIn
    <3> QED
      BY <1>2, <1>3, <2>2, <3>1, PlacesApart DEF UpdateFits
  <2> QED
    BY <1>1, <2>1, <2>2
<1>5. /\ HostsInv' /\ StartCall(Launching.host, Launching.targets)'
      /\ \A g \in HostTypes \ {Launching.host} : Undisturbed(g)
  <2>1. PICK h \in HostTypes, S \in SUBSET Targets : h = Launching.host /\ S = Launching.targets
    BY <1>3
  <2>2. StartCall(h, S)' /\ \A g \in HostTypes \ {h} : Undisturbed(g)
    BY <1>1, <1>2, <1>3, <1>4, <2>1, StartBegins
  <2>3. Launching' = Launching
    <3>1. Current' = Current /\ Missing' = Missing /\ \A g : GroupFor(g)' = GroupFor(g)
      BY <1>1 DEF Current, Missing, GroupFor
    <3> QED
      BY <1>1, <3>1 DEF Launching
  <2>4. HostsInv'
    BY <1>1, <1>2, <1>3, StartHostKeeps
  <2> QED
    BY <2>1, <2>2, <2>3, <2>4
<1>6. CallFits'
  BY <1>1, <1>5 DEF CallFits
<1>7. idnTargets' \subseteq Targets
  BY <1>1, <1>2, <1>3 DEF StartHost, FleetTyped
<1>8. FleetTyped'
  <2>1. step' \in Updating
    BY <1>1 DEF Updating, OnCurrent
  <2> QED
    BY <1>1, <1>2, <1>7, <2>1 DEF FleetTyped
<1>9. CASE step = "relaunch" /\ step' = "relaunched"
  <2>1. Launching.host = Current.host /\ rest # <<>> /\ step \in OnCurrent /\ step' \in OnCurrent
    BY <1>9, LaunchingTyped DEF OnCurrent
  <2>2. UpdateFits'
    BY <1>1, <1>2, <1>5, <2>1, InHandStays
  <2>3. Current' = Current
    BY <1>1 DEF Current
  <2>4. CurrentFits'
    BY <1>1, <1>3, <1>9, <2>1, <2>3, SameWanted DEF CurrentFits
  <2> QED
    BY <1>5, <1>6, <1>8, <2>1, <2>2, <2>4, WithCurrent
<1>10. CASE step = "hosts" /\ rest = <<>> /\ Missing # {} /\ step' = "launched"
  <2>1. UpdateFits'
    BY <1>1, <1>5, <1>10, InHandNew
  <2>2. Missing' = Missing
    BY <1>1 DEF Missing
  <2>3. CurrentFits' /\ TakenDown' /\ AtRest'
    BY <1>1, <1>10, <2>2, PlacesApart DEF CurrentFits, TakenDown, AtRest
  <2> QED
    BY <1>5, <1>6, <1>8, <2>1, <2>3 DEF FleetInv
<1> QED
  BY <1>1, <1>9, <1>10

LEMMA LaunchedKeeps == ASSUME FleetInv, Launched PROVE FleetInv'
<1>1. /\ step \in {"launched", "relaunched"} /\ call.ok /\ call.pc = "done" /\ call' = NoCall /\ step' = "hosts"
      /\ UNCHANGED <<lbVars, edVars, idnTargets>>
      /\ nextHosts' = Append(nextHosts, Host(Launching.host, Launching.targets, EndpointsOf(Launching.host)))
      /\ rest' = (IF step = "relaunched" THEN Tail(rest) ELSE rest)
      /\ dynamic' = TRUE /\ UNCHANGED <<fleet, published, wanted, linkState, crashes>>
  BY DEF Launched, Resume
<1>2. /\ HostsInv /\ FleetTyped /\ UpdateFits /\ StartCall(Launching.host, Launching.targets)
      /\ idnTargets \subseteq Targets /\ nextHosts \in Seq(Records)
  BY <1>1 DEF FleetInv, CallFits, FleetTyped
<1>3. /\ Launching.host \in HostTypes /\ Launching.targets \in SUBSET Targets /\ Launching.targets # {}
      /\ Wants(Launching.host) /\ Launching.targets = GroupFor(Launching.host).targets
      /\ Launching.host \notin HostsIn(nextHosts)
  BY <1>1, LaunchingTyped
<1> DEFINE r == Host(Launching.host, Launching.targets, EndpointsOf(Launching.host))
<1>4. /\ r \in Records /\ r.host = Launching.host /\ r.targets = Launching.targets
      /\ r.endpoints = EndpointsOf(Launching.host)
  BY <1>2, <1>3, EndpointsTyped, HostTyped
<1>5. nextHosts' = Append(nextHosts, r)
  BY <1>1
<1> HIDE DEF r
<1>6. /\ Served(Launching.host) = Launching.targets /\ (Launching.host = "libera" => lbActive)
      /\ (Launching.host = "etherdream" => edActive)
  BY <1>1, <1>2, <1>3, StartEnds
<1>7. Dealt(r)
  BY <1>3, <1>4, <1>6 DEF Dealt, Intact
<1>8. HostsInv'
  BY <1>1, <1>2, HostsResume
<1>9. nextHosts' \in Seq(Records)
  BY <1>2, <1>4, <1>5, WithOneMore
<1>10. CASE step = "relaunched"
  <2>1. Launching.host = Current.host /\ rest # <<>> /\ rest' = Tail(rest) /\ step \in OnCurrent
    BY <1>1, <1>10, LaunchingTyped DEF OnCurrent
  <2>2. UpdateFits'
    BY <1>1, <1>2, <1>4, <1>5, <1>7, <2>1, InHandDealt
  <2>3. Tail(rest) \in Seq(Records)
    BY <1>2, <2>1, CurrentTyped
  <2>4. FleetTyped'
    BY <1>1, <1>2, <1>9, <2>1, <2>3, PlacesApart DEF FleetTyped
  <2> QED
    BY <1>1, <1>8, <2>2, <2>4, InTheLoop
<1>11. CASE step = "launched"
  <2>1. rest = <<>> /\ rest' = rest
    BY <1>1, <1>11, LaunchingTyped
  <2>2. Elements(rest) = {} /\ HostsIn(rest) = {}
    BY <2>1, NoElements, Zenon DEF HostsIn
  <2>3. /\ WantedOK(wanted) /\ Apart(nextHosts) /\ Apart(rest) /\ \A q \in Elements(nextHosts) : Dealt(q)
        /\ \A h \in HostTypes \ (HostsIn(nextHosts) \cup HostsIn(rest)) : h = Launching.host \/ Down(h)
    BY <1>2, <1>11, PlacesApart DEF UpdateFits
  <2>4. /\ Elements(nextHosts') = Elements(nextHosts) \cup {r} /\ Apart(nextHosts')
        /\ HostsIn(nextHosts') = HostsIn(nextHosts) \cup {r.host}
    BY <1>2, <1>3, <1>4, <1>5, <2>3, WithOneMore
  <2>5. ASSUME NEW q \in Elements(nextHosts') PROVE Dealt(q)'
    <3>1. q \in Records /\ Dealt(q)
      BY <1>2, <1>4, <1>7, <2>3, <2>4, Members
    <3> QED
      BY <1>1, <3>1, FrameAll, SameWanted DEF Dealt
  <2>6. ASSUME NEW h \in HostTypes \ (HostsIn(nextHosts') \cup HostsIn(rest')) PROVE Down(h)'
    BY <1>1, <1>4, <2>1, <2>3, <2>4, FrameAll
  <2>7. UpdateFits'
    BY <1>1, <2>1, <2>2, <2>3, <2>4, <2>5, <2>6 DEF UpdateFits
  <2>8. FleetTyped'
    BY <1>1, <1>2, <1>9, <2>1, PlacesApart DEF FleetTyped
  <2> QED
    BY <1>1, <1>8, <2>7, <2>8, InTheLoop
<1> QED
  BY <1>1, <1>10, <1>11

LEMMA LaunchFailsKeeps == ASSUME FleetInv, LaunchFails PROVE FleetInv'
<1>1. /\ step \in {"launched", "relaunched"} /\ call.pc = "done" /\ call' = NoCall /\ step' = "destroy"
      /\ UNCHANGED <<lbVars, edVars, idnTargets>>
      /\ rest' = <<Host(Launching.host, {}, {})>> \o nextHosts \o rest /\ nextHosts' = <<>>
      /\ dynamic' = TRUE /\ UNCHANGED <<fleet, published, wanted, linkState, crashes>>
  BY DEF LaunchFails, Resume
<1>2. HostsInv /\ FleetTyped /\ UpdateFits /\ nextHosts \in Seq(Records) /\ rest \in Seq(Records)
  BY <1>1 DEF FleetInv, FleetTyped
<1> DEFINE r == Host(Launching.host, {}, {})
<1>3. r \in Records /\ r.host = Launching.host
  <2>1. {} \in Endpoints /\ Launching.host \in HostTypes
    BY <1>1, LaunchingTyped DEF Endpoints
  <2> QED
    BY <2>1, HostTyped
<1>4. rest' = (<<r>> \o nextHosts) \o rest
  BY <1>1
<1> HIDE DEF r
<1>5. /\ rest' \in Seq(Records)
      /\ HostsIn(nextHosts) \cup HostsIn(rest) \cup {Launching.host} \subseteq HostsIn(rest')
  <2>1. <<r>> \in Seq(Records) /\ r.host \in HostsIn(<<r>>)
    BY <1>3, OneRecord
  <2>2. /\ <<r>> \o nextHosts \in Seq(Records)
        /\ HostsIn(<<r>>) \cup HostsIn(nextHosts) \subseteq HostsIn(<<r>> \o nextHosts)
    BY <1>2, <2>1, InARow
  <2>3. /\ (<<r>> \o nextHosts) \o rest \in Seq(Records)
        /\ HostsIn(<<r>> \o nextHosts) \cup HostsIn(rest) \subseteq HostsIn((<<r>> \o nextHosts) \o rest)
    BY <1>2, <2>2, InARow
  <2> QED
    BY <1>3, <1>4, <2>1, <2>2, <2>3, Zenon
<1>6. ASSUME NEW h \in HostTypes \ HostsIn(rest') PROVE Down(h)'
  <2>1. Down(h)
    BY <1>1, <1>2, <1>5 DEF UpdateFits, Updating, OnCurrent
  <2> QED
    BY <1>1, <2>1, FrameAll
<1>7. HostsInv'
  BY <1>1, <1>2, HostsResume
<1>8. FleetTyped'
  <2>1. <<>> \in Seq(Records)
    OBVIOUS
  <2>2. step' \in TakingDown
    BY <1>1 DEF TakingDown
  <2> QED
    BY <1>1, <1>2, <1>5, <2>1, <2>2 DEF FleetTyped
<1>9. step' \notin Updating /\ step' \notin OnCurrent
  BY <1>1 DEF Updating, OnCurrent
<1>10. CallFits' /\ UpdateFits' /\ CurrentFits' /\ AtRest'
  BY <1>1, <1>9 DEF CallFits, UpdateFits, CurrentFits, AtRest
<1>11. TakenDown'
  BY <1>1, <1>6 DEF TakenDown
<1> QED
  BY <1>7, <1>8, <1>10, <1>11 DEF FleetInv
------------------------------------------------------------------------------
(* Hosts are taken down, and the runtime comes to rest *)

LEMMA StopNextKeeps == ASSUME FleetInv, StopNext PROVE FleetInv'
<1>1. /\ step \in {"destroy", "stopAll"} /\ rest # <<>> /\ StopHost(Current.host)
      /\ step' = (IF step = "destroy" THEN "destroying" ELSE "stopping")
      /\ UNCHANGED <<fleet, published, wanted, nextHosts, rest, dynamic, linkState, crashes>>
  BY DEF StopNext
<1>2. HostsInv /\ FleetTyped /\ call = NoCall /\ nextHosts = <<>> /\ \A h \in HostTypes \ HostsIn(rest) : Down(h)
  BY <1>1 DEF FleetInv, CallFits, TakenDown, TakingDown, Updating, OnCurrent
<1>3. Current.host \in HostTypes /\ Current' = Current /\ Current.host \in HostsIn(rest)
  BY <1>1, <1>2, CurrentTyped, Members DEF Current, FleetTyped
<1>4. HostsInv' /\ StopCall(Current.host)' /\ \A g \in HostTypes \ {Current.host} : Undisturbed(g)
  BY <1>1, <1>2, <1>3, StopHostKeeps, StopBegins
<1>5. \A h \in HostTypes \ HostsIn(rest) : Down(h)'
  BY <1>2, <1>3, <1>4, Frame
<1>6. step' \in {"destroying", "stopping"} /\ step' \in TakingDown /\ step' \notin Updating /\ step' \notin OnCurrent
  BY <1>1 DEF TakingDown, Updating, OnCurrent
<1>7. idnTargets' \subseteq Targets
  BY <1>1, <1>2 DEF StopHost, FleetTyped
<1>8. FleetTyped'
  BY <1>1, <1>2, <1>6, <1>7 DEF FleetTyped
<1>9. CallFits' /\ UpdateFits' /\ CurrentFits' /\ AtRest'
  BY <1>1, <1>3, <1>4, <1>6 DEF CallFits, UpdateFits, CurrentFits, AtRest
<1>10. TakenDown'
  BY <1>1, <1>2, <1>5, <1>6 DEF TakenDown, FleetInv
<1> QED
  BY <1>4, <1>8, <1>9, <1>10 DEF FleetInv

LEMMA StoppedNextKeeps == ASSUME FleetInv, StoppedNext PROVE FleetInv'
<1>1. /\ \/ step = "destroying" /\ step' = "destroy"
         \/ step = "stopping" /\ step' = "stopAll"
      /\ call.pc = "done" /\ call' = NoCall /\ UNCHANGED <<lbVars, edVars, idnTargets>> /\ rest' = Tail(rest)
      /\ UNCHANGED <<fleet, published, wanted, nextHosts, dynamic, linkState, crashes>>
  BY DEF StoppedNext, Resume
<1>2. /\ HostsInv /\ FleetTyped /\ nextHosts = <<>> /\ rest # <<>> /\ StopCall(Current.host)
      /\ rest \in Seq(Records) /\ \A h \in HostTypes \ HostsIn(rest) : Down(h)
  BY <1>1 DEF FleetInv, CallFits, TakenDown, TakingDown, Updating, OnCurrent, FleetTyped
<1>3. Current.host \in HostTypes /\ Tail(rest) \in Seq(Records)
  BY <1>2, CurrentTyped
<1>4. HostsIn(rest) = HostsIn(Tail(rest)) \cup {Current.host}
  BY <1>2, WithoutFirst DEF Current
<1>5. Down(Current.host)
  BY <1>1, <1>2, <1>3, StopEnds
<1>6. \A h \in HostTypes \ HostsIn(rest') : Down(h)'
  BY <1>1, <1>2, <1>3, <1>4, <1>5, FrameAll
<1>7. HostsInv'
  BY <1>1, <1>2, HostsResume
<1>8. step' \in {"destroy", "stopAll"} /\ step' \in TakingDown /\ step' \notin Updating /\ step' \notin OnCurrent
  BY <1>1 DEF TakingDown, Updating, OnCurrent
<1>9. FleetTyped'
  BY <1>1, <1>2, <1>3, <1>8 DEF FleetTyped
<1>10. CallFits' /\ UpdateFits' /\ CurrentFits' /\ AtRest'
  BY <1>1, <1>8 DEF CallFits, UpdateFits, CurrentFits, AtRest
<1>11. TakenDown'
  BY <1>1, <1>2, <1>6, <1>8 DEF TakenDown, FleetInv
<1> QED
  BY <1>7, <1>9, <1>10, <1>11 DEF FleetInv

LEMMA ComesToRest ==
  ASSUME step' = "idle", call' = NoCall, nextHosts' = <<>>, HostsInv', FleetTyped', AtRest' PROVE FleetInv'
BY PlacesApart DEF FleetInv, CallFits, UpdateFits, CurrentFits, TakenDown

LEMMA NoHosts == Elements(<<>>) = {} /\ HostsIn(<<>>) = {} /\ Apart(<<>>) /\ <<>> \in Seq(Records)
<1>1. DOMAIN <<>> = {} /\ <<>> \in Seq(Records)
  OBVIOUS
<1> QED
  BY <1>1, NoElements, Zenon DEF HostsIn, Apart

(* With no host at all the runtime is at rest.                              *)
LEMMA EmptyAtRest ==
  ASSUME rest' = <<>>, fleet' = <<>>, published' = {}, linkState' # "Running", \A h \in HostTypes : Down(h)'
  PROVE  AtRest'
<1>1. UNION {r.targets : r \in {}} = {}
  OBVIOUS
<1> QED
  BY <1>1, NoHosts DEF AtRest

LEMMA RestingKeeps == ASSUME FleetInv, UpdateFailed \/ AllStopped PROVE FleetInv'
<1>1. /\ step \in {"destroy", "stopAll"} /\ step' = "idle" /\ rest = <<>> /\ UNCHANGED <<call, lbVars, edVars, idnTargets>>
      /\ UNCHANGED <<nextHosts, rest, dynamic, crashes>>
  BY DEF UpdateFailed, AllStopped, Quiet
<1>2. /\ HostsInv /\ FleetTyped /\ call = NoCall /\ nextHosts = <<>> /\ \A h \in HostTypes \ HostsIn(rest) : Down(h)
  BY <1>1 DEF FleetInv, CallFits, TakenDown, TakingDown, Updating, OnCurrent
<1>3. /\ fleet' = <<>> /\ published' = {} /\ linkState' \in {"Failed", "Stopped"}
  BY DEF UpdateFailed, AllStopped, FleetInv, TakenDown
<1>4. \A h \in HostTypes : Down(h)'
  BY <1>1, <1>2, NoHosts, FrameAll
<1>5. AtRest'
  BY <1>1, <1>3, <1>4, EmptyAtRest
<1>6. FleetTyped'
  BY <1>1, <1>2, <1>3, NoHosts DEF FleetTyped
<1>7. HostsInv'
  BY <1>1, <1>2, HostsQuiet
<1> QED
  BY <1>1, <1>2, <1>5, <1>6, <1>7, ComesToRest

LEMMA StopAllKeeps == ASSUME FleetInv, StopAll PROVE FleetInv'
<1>1. /\ step = "idle" /\ step' = "stopAll" /\ UNCHANGED <<call, lbVars, edVars, idnTargets>>
      /\ rest' = fleet /\ fleet' = <<>> /\ published' = {} /\ linkState' = "Stopped" /\ wanted' = <<>>
      /\ UNCHANGED <<nextHosts, dynamic, crashes>>
  BY DEF StopAll, Quiet
<1>2. HostsInv /\ FleetTyped /\ call = NoCall /\ nextHosts = <<>> /\ \A h \in HostTypes \ HostsIn(fleet) : Down(h)
  BY <1>1, PlacesApart DEF FleetInv, CallFits, TakenDown, AtRest
<1>3. \A h \in HostTypes \ HostsIn(rest') : Down(h)'
  BY <1>1, <1>2, FrameAll
<1>4. HostsInv'
  BY <1>1, <1>2, HostsQuiet
<1>5. step' \in TakingDown /\ step' \notin Updating /\ step' \notin OnCurrent
  BY <1>1 DEF TakingDown, Updating, OnCurrent
<1>6. FleetTyped'
  BY <1>1, <1>2, <1>5, NoHosts DEF FleetTyped
<1>7. CallFits' /\ UpdateFits' /\ CurrentFits' /\ AtRest'
  BY <1>1, <1>2, <1>5 DEF CallFits, UpdateFits, CurrentFits, AtRest
<1>8. TakenDown'
  BY <1>1, <1>2, <1>3 DEF TakenDown
<1> QED
  BY <1>4, <1>6, <1>7, <1>8 DEF FleetInv

LEMMA PublishKeeps == ASSUME FleetInv, Publish PROVE FleetInv'
<1>1. /\ step = "hosts" /\ rest = <<>> /\ Missing = {} /\ UNCHANGED <<call, lbVars, edVars, idnTargets>>
      /\ step' = "idle" /\ fleet' = nextHosts /\ linkState' = "Running" /\ nextHosts' = <<>> /\ wanted' = <<>>
      /\ published' = UNION {wanted[i].targets : i \in DOMAIN wanted} /\ UNCHANGED <<rest, dynamic, crashes>>
  BY DEF Publish, Quiet
<1>2. /\ HostsInv /\ FleetTyped /\ call = NoCall /\ nextHosts \in Seq(Records)
      /\ WantedOK(wanted) /\ Apart(nextHosts) /\ \A r \in Elements(nextHosts) : Dealt(r)
      /\ \A h \in HostTypes \ HostsIn(nextHosts) : Down(h)
  <2>1. HostsIn(rest) = {}
    BY <1>1, NoHosts
  <2> QED
    BY <1>1, <2>1, PlacesApart DEF FleetInv, CallFits, UpdateFits, FleetTyped
<1>3. \A r \in Elements(nextHosts) : Intact(r)'
  BY <1>1, <1>2, FrameAll, Members DEF Dealt
<1>4. \A h \in HostTypes \ HostsIn(nextHosts) : Down(h)'
  BY <1>1, <1>2, FrameAll
<1>5. \A q, r \in Elements(nextHosts) : q.host # r.host => q.targets \cap r.targets = {}
  BY <1>2, GroupsDisjoint DEF Dealt
<1>6. ASSUME NEW t \in published' PROVE \E r \in Elements(nextHosts) : t \in r.targets
  <2>1. PICK i \in DOMAIN wanted : t \in wanted[i].targets
    BY <1>1, <1>6
  <2>2. PICK j \in DOMAIN nextHosts : nextHosts[j].host = wanted[i].host
    BY <1>1 DEF Missing
  <2>3. nextHosts[j] \in Elements(nextHosts)
    BY <1>2, Members
  <2>4. nextHosts[j].targets = wanted[i].targets
    BY <1>2, <2>2, <2>3, GroupOf DEF Dealt
  <2> QED
    BY <2>1, <2>3, <2>4
<1>7. ASSUME NEW r \in Elements(nextHosts) PROVE r.targets \subseteq published'
  <2>1. PICK i \in DOMAIN wanted : r.targets = wanted[i].targets
    BY <1>2, GroupSound DEF Dealt
  <2> QED
    BY <1>1, <2>1
<1>8. published' = UNION {r.targets : r \in Elements(nextHosts)}
  BY <1>6, <1>7, Zenon
<1>9. published' # {} /\ published' \subseteq Targets
  <2>1. \A i \in DOMAIN wanted : wanted[i].targets \in SUBSET Targets /\ wanted[i].targets # {}
    BY <1>2 DEF WantedOK
  <2>2. PICK i : i \in DOMAIN wanted
    BY <1>2 DEF WantedOK
  <2>3. published' \subseteq Targets
    BY <1>1, <2>1
  <2>4. wanted[i].targets \subseteq published'
    BY <1>1, <2>2
  <2> QED
    BY <2>1, <2>2, <2>3, <2>4
<1>10. AtRest'
  BY <1>1, <1>2, <1>3, <1>4, <1>5, <1>8, <1>9 DEF AtRest
<1>11. FleetTyped'
  BY <1>1, <1>2, <1>9, NoHosts DEF FleetTyped
<1>12. HostsInv'
  BY <1>1, <1>2, HostsQuiet
<1> QED
  BY <1>1, <1>2, <1>10, <1>11, <1>12, ComesToRest

LEMMA CrashKeepsFleet == ASSUME FleetInv, Crash PROVE FleetInv'
<1>1. /\ fleet' = <<>> /\ published' = {} /\ nextHosts' = <<>> /\ rest' = <<>> /\ call' = NoCall
      /\ dynamic' = TRUE /\ step' = "idle" /\ linkState' = "Stopped" /\ idnTargets' = {} /\ crashes' = crashes + 1
      /\ lbActive' = FALSE /\ servers' = Nowhere /\ EdCrash
  BY DEF Crash
<1>2. HostsInv' /\ FleetTyped
  BY CrashKeeps DEF FleetInv
<1>3. \A h \in HostTypes : Down(h)'
  BY <1>1 DEF Down, EdCrash, Nowhere, NoDevices
<1>4. AtRest'
  BY <1>1, <1>3, EmptyAtRest
<1>5. FleetTyped'
  BY <1>1, <1>2, NoHosts DEF FleetTyped
<1> QED
  BY <1>1, <1>2, <1>4, <1>5, ComesToRest
------------------------------------------------------------------------------
(* The hosts at work *)

(* A step of a call while the first host of rest is in hand.                *)
LEMMA CurrentAtWork ==
  ASSUME FleetInv, HostStep, step \in {"dropped", "restopped", "relaunched"} PROVE FleetInv'
<1>1. /\ HostsInv /\ FleetTyped /\ UpdateFits /\ rest # <<>> /\ step \in OnCurrent
      /\ (step # "dropped" <=> Wants(Current.host)) /\ (step = "restopped" /\ Current.host = "libera" => ~dynamic)
  BY DEF FleetInv, CurrentFits, OnCurrent
<1>2. UNCHANGED fleetVars /\ call'.host = call.host /\ \A g \in HostTypes \ {call.host} : Undisturbed(g)
  BY <1>1, HostStepAlone
<1>3. UNCHANGED <<fleet, published, wanted, nextHosts, rest, dynamic, step, linkState, idnTargets, crashes>>
  BY <1>2 DEF fleetVars
<1>4. Current.host \in HostTypes /\ Current' = Current
  BY <1>1, <1>3, CurrentTyped DEF Current
<1>5. call.host = Current.host /\ CallFits'
  <2>1. CASE step \in {"dropped", "restopped"}
    <3>1. PICK h \in HostTypes : h = Current.host
      BY <1>4
    <3>2. StopCall(h)
      BY <2>1, <3>1 DEF FleetInv, CallFits
    <3>3. StopCall(h)' /\ call.host = h
      BY <1>1, <3>2, StopGoesOn DEF StopCall
    <3> QED
      BY <1>1, <1>3, <1>4, <2>1, <3>1, <3>3 DEF CallFits
  <2>2. CASE step = "relaunched"
    <3>1. Launching.host = Current.host /\ Launching.targets \in SUBSET Targets
      BY <2>2, LaunchingTyped
    <3>2. PICK h \in HostTypes, S \in SUBSET Targets : h = Launching.host /\ S = Launching.targets
      BY <1>4, <3>1
    <3>3. StartCall(h, S)
      BY <2>2, <3>2 DEF FleetInv, CallFits
    <3>4. StartCall(h, S)' /\ call.host = h
      BY <1>1, <3>3, StartGoesOn DEF StartCall
    <3>5. Launching' = Launching
      BY <1>3 DEF Launching, GroupFor, Current, Missing
    <3> QED
      BY <1>3, <2>2, <3>1, <3>2, <3>4, <3>5 DEF CallFits
  <2> QED
    BY <2>1, <2>2
<1>6. step' \in OnCurrent
  BY <1>1, <1>3
<1>7. UpdateFits'
  BY <1>1, <1>2, <1>3, <1>5, <1>6, InHandStays
<1>8. CurrentFits'
  BY <1>1, <1>3, <1>4, <1>6, SameWanted DEF CurrentFits
<1>9. HostsInv' /\ FleetTyped'
  BY <1>1, <1>3, HostStepKeeps DEF FleetTyped
<1> QED
  BY <1>5, <1>6, <1>7, <1>8, <1>9, WithCurrent

LEMMA NewHostAtWork == ASSUME FleetInv, HostStep, step = "launched" PROVE FleetInv'
<1>1. HostsInv /\ FleetTyped /\ rest = <<>> /\ Missing # {}
  BY DEF FleetInv, CurrentFits
<1>2. UNCHANGED fleetVars /\ \A g \in HostTypes \ {call.host} : Undisturbed(g)
  BY <1>1, HostStepAlone
<1>3. UNCHANGED <<fleet, published, wanted, nextHosts, rest, dynamic, step, linkState, idnTargets, crashes>>
  BY <1>2 DEF fleetVars
<1>4. PICK h \in HostTypes, S \in SUBSET Targets : h = Launching.host /\ S = Launching.targets
  BY LaunchingTyped
<1>5. StartCall(h, S) /\ call.host = h
  BY <1>4 DEF FleetInv, CallFits, StartCall
<1>6. StartCall(h, S)'
  BY <1>1, <1>5, StartGoesOn
<1>7. UpdateFits' /\ Launching' = Launching
  BY <1>1, <1>2, <1>3, <1>4, <1>5, InHandNew
<1>8. CallFits'
  BY <1>3, <1>4, <1>6, <1>7 DEF CallFits
<1>9. Missing' = Missing
  BY <1>3 DEF Missing
<1>10. CurrentFits' /\ TakenDown' /\ AtRest'
  BY <1>1, <1>3, <1>9, PlacesApart DEF CurrentFits, TakenDown, AtRest
<1>11. HostsInv' /\ FleetTyped'
  BY <1>1, <1>3, HostStepKeeps DEF FleetTyped
<1> QED
  BY <1>7, <1>8, <1>10, <1>11 DEF FleetInv

LEMMA TakingDownAtWork ==
  ASSUME FleetInv, HostStep, step \in {"destroying", "stopping"} PROVE FleetInv'
<1>1. /\ HostsInv /\ FleetTyped /\ rest # <<>> /\ rest \in Seq(Records) /\ nextHosts = <<>>
      /\ \A h \in HostTypes \ HostsIn(rest) : Down(h)
  BY DEF FleetInv, CallFits, TakenDown, TakingDown, Updating, OnCurrent, FleetTyped
<1>2. UNCHANGED fleetVars /\ \A g \in HostTypes \ {call.host} : Undisturbed(g)
  BY <1>1, HostStepAlone
<1>3. UNCHANGED <<fleet, published, wanted, nextHosts, rest, dynamic, step, linkState, idnTargets, crashes>>
  BY <1>2 DEF fleetVars
<1>4. Current.host \in HostTypes /\ Current' = Current /\ Current.host \in HostsIn(rest)
  BY <1>1, <1>3, CurrentTyped, Members DEF Current
<1>5. PICK h \in HostTypes : h = Current.host
  BY <1>4
<1>6. StopCall(h) /\ call.host = h
  BY <1>5 DEF FleetInv, CallFits, StopCall
<1>7. StopCall(h)'
  BY <1>1, <1>6, StopGoesOn
<1>8. \A g \in HostTypes \ HostsIn(rest) : Down(g)'
  BY <1>1, <1>2, <1>4, <1>5, <1>6, Frame
<1>9. step' \notin Updating /\ step' \notin OnCurrent /\ step' = step
  BY <1>3 DEF Updating, OnCurrent
<1>10. CallFits' /\ UpdateFits' /\ CurrentFits' /\ AtRest'
  BY <1>1, <1>3, <1>4, <1>5, <1>7, <1>9 DEF CallFits, UpdateFits, CurrentFits, AtRest
<1>11. TakenDown'
  BY <1>1, <1>3, <1>8 DEF TakenDown, FleetInv
<1>12. HostsInv' /\ FleetTyped'
  BY <1>1, <1>3, HostStepKeeps DEF FleetTyped
<1> QED
  BY <1>10, <1>11, <1>12 DEF FleetInv

LEMMA TargetAtWork == ASSUME FleetInv, HostStep, step = "changing" PROVE FleetInv'
<1>1. /\ HostsInv /\ FleetTyped /\ UpdateFits /\ rest # <<>> /\ step \in OnCurrent /\ call.host = "libera"
      /\ call.pc \in {"drainOne", "done"} /\ Wants(Current.host) /\ Current.host = "libera" /\ lbActive /\ dynamic
      /\ Current.targets \cap GroupFor("libera").targets \subseteq Running
      /\ Running \subseteq Current.targets \cup GroupFor("libera").targets
  BY DEF FleetInv, CallFits, CurrentFits, OnCurrent
<1>2. /\ UNCHANGED fleetVars /\ LbCallStep /\ call'.host = "libera" /\ UNCHANGED edVars
      /\ \A g \in HostTypes \ {"libera"} : Undisturbed(g)
  BY <1>1, HostStepAlone
<1>3. UNCHANGED <<fleet, published, wanted, nextHosts, rest, dynamic, step, linkState, idnTargets, crashes>>
  BY <1>2 DEF fleetVars
<1>4. call \in Calls
  BY <1>1 DEF HostsInv, Typed, CallOK, Calls
<1>5. LbServersStopped \/ \E t \in Targets : LbServerStops(t)
  BY <1>1, <1>2 DEF LbCallStep, LbStartAdds, LbStarted, LbJoin, LbTake, Serving
<1>6. UNCHANGED <<lbActive, servers>> /\ call'.pc \in {"drainOne", "done"}
  BY <1>1, <1>4, <1>5 DEF LbServersStopped, LbServerStops, lbVars, Return, Calls
<1>7. Current' = Current /\ Running' = Running
  BY <1>3, <1>6 DEF Current, Running
<1>8. step' \in OnCurrent
  BY <1>1, <1>3
<1>9. UpdateFits'
  BY <1>1, <1>2, <1>3, <1>8, InHandStays
<1>10. CallFits'
  BY <1>2, <1>3, <1>6 DEF CallFits
<1>11. CurrentFits'
  BY <1>1, <1>3, <1>6, <1>7, <1>8, SameWanted DEF CurrentFits
<1>12. HostsInv' /\ FleetTyped'
  BY <1>1, <1>3, HostStepKeeps DEF FleetTyped
<1> QED
  BY <1>8, <1>9, <1>10, <1>11, <1>12, WithCurrent

LEMMA HostStepKeepsFleet == ASSUME FleetInv, HostStep PROVE FleetInv'
<1>1. HostsInv /\ step \in Updating \cup TakingDown \cup {"idle"}
  BY DEF FleetInv, FleetTyped
<1>2. call # NoCall
  BY <1>1, HostStepAlone DEF NoCall
<1>3. step \in {"dropped", "restopped", "relaunched", "launched", "destroying", "stopping", "changing"}
  BY <1>1, <1>2 DEF FleetInv, CallFits, Updating, OnCurrent, TakingDown
<1> QED
  BY <1>3, CurrentAtWork, NewHostAtWork, TakingDownAtWork, TargetAtWork

(* The advertiser and other programs, or nothing at all.                    *)
LEMMA FleetUndisturbed ==
  ASSUME FleetInv, HostsInv', UNCHANGED <<call, fleetVars, lbActive, servers, edActive, devices, aliases>>
  PROVE  FleetInv'
<1>1. UNCHANGED <<call, fleet, published, wanted, nextHosts, rest, dynamic, step, linkState, idnTargets, crashes,
                  lbActive, servers, edActive, devices, aliases>>
  BY DEF fleetVars
<1>2. Current' = Current /\ Launching' = Launching /\ Missing' = Missing
  BY <1>1 DEF Current, Launching, Missing, GroupFor
<1>3. \A h \in HostTypes : Undisturbed(h)
  BY <1>1 DEF Undisturbed
<1>4. Running' = Running /\ Listening' = Listening
  BY <1>1 DEF Running, Listening
<1>5. \A h \in HostTypes : Down(h) => Down(h)'
  BY <1>3, UndisturbedKeeps
<1>6. \A r \in Records : Intact(r) => Intact(r)'
  BY <1>3, UndisturbedKeeps, RecordTyped
<1>7. /\ \A s \in Seq(Records) : Elements(s) \subseteq Records
      /\ fleet \in Seq(Records) /\ nextHosts \in Seq(Records) /\ rest \in Seq(Records)
  BY Members DEF FleetInv, FleetTyped
<1>8. CallFits'
  <2>1. ASSUME step \in {"dropped", "restopped", "destroying", "stopping"}
        PROVE  rest # <<>> /\ StopCall(Current.host)'
    <3>1. rest # <<>> /\ StopCall(Current.host)
      BY <2>1 DEF FleetInv, CallFits
    <3>2. Current.host \in HostTypes
      BY <3>1, CurrentTyped DEF FleetInv
    <3> QED
      BY <1>1, <1>2, <1>5, <3>1, <3>2 DEF StopCall
  <2>2. ASSUME step \in {"launched", "relaunched"} PROVE StartCall(Launching.host, Launching.targets)'
    <3>1. StartCall(Launching.host, Launching.targets)
      BY <2>2 DEF FleetInv, CallFits
    <3> QED
      BY <1>1, <1>2, <1>4, <3>1 DEF StartCall, LbStartCall, EdStartCall
  <2> QED
    BY <1>1, <2>1, <2>2 DEF FleetInv, CallFits
<1>9. UpdateFits'
  <2>1. \A r \in Elements(nextHosts) : Dealt(r) => Dealt(r)'
    BY <1>1, <1>6, <1>7, SameWanted DEF Dealt
  <2> QED
    BY <1>1, <1>2, <1>5, <1>6, <1>7, <2>1 DEF FleetInv, UpdateFits
<1>10. CurrentFits'
  <2>1. step = "relaunch" => Down(Current.host)'
    <3>1. step = "relaunch" => Current.host \in HostTypes
      BY LaunchingTyped
    <3> QED
      BY <1>2, <1>5, <3>1 DEF FleetInv, CurrentFits
  <2> QED
    BY <1>1, <1>2, <1>4, <2>1, SameWanted DEF FleetInv, CurrentFits
<1>11. TakenDown'
  BY <1>1, <1>5 DEF FleetInv, TakenDown
<1>12. AtRest'
  BY <1>1, <1>5, <1>6, <1>7 DEF FleetInv, AtRest
<1>13. FleetTyped'
  BY <1>1 DEF FleetInv, FleetTyped
<1> QED
  BY <1>8, <1>9, <1>10, <1>11, <1>12, <1>13 DEF FleetInv

LEMMA FleetStep == FleetInv /\ [Next]_vars => FleetInv'
<1> SUFFICES ASSUME FleetInv, [Next]_vars PROVE FleetInv'
  OBVIOUS
<1>1. HostsInv
  BY DEF FleetInv
<1>2. CASE Environment
  <2>1. HostsInv'
    BY <1>1, <1>2, EnvironmentKeeps
  <2>2. UNCHANGED <<call, fleetVars, lbActive, servers, edActive, devices, aliases>>
    BY <1>2 DEF Environment, Advertiser, AdvOpens, AdvCopies, AdvSends, LbEnvironment, ForeignPort, EdForeign,
       edVars, lbVars
  <2> QED
    BY <2>1, <2>2, FleetUndisturbed
<1>3. CASE UNCHANGED vars
  <2>1. HostsInv'
    BY <1>1, <1>3, HostsQuiet DEF vars
  <2>2. UNCHANGED <<call, fleetVars, lbActive, servers, edActive, devices, aliases>>
    BY <1>3 DEF vars, edVars, lbVars
  <2> QED
    BY <2>1, <2>2, FleetUndisturbed
<1>4. CASE Update
  BY <1>4, DropHostKeeps, DroppedKeeps, KeepHostKeeps, ChangeHostKeeps, TargetChangeKeepsFleet, ChangingKeeps,
     ChangedKeeps, RestartHostKeeps, RestoppedKeeps, LaunchHostKeeps, LaunchedKeeps, LaunchFailsKeeps,
     StopNextKeeps, StoppedNextKeeps, RestingKeeps, PublishKeeps
  DEF Update
<1> QED
  BY <1>2, <1>3, <1>4, RequestKeeps, StopAllKeeps, HostStepKeepsFleet, CrashKeepsFleet DEF Next

LEMMA FleetInitially == Init => FleetInv
<1> SUFFICES ASSUME Init PROVE FleetInv
  OBVIOUS
<1>1. /\ call = NoCall /\ fleet = <<>> /\ published = {} /\ nextHosts = <<>> /\ rest = <<>> /\ dynamic = TRUE
      /\ step = "idle" /\ linkState = "Stopped" /\ idnTargets = {} /\ crashes = 0
      /\ lbActive = FALSE /\ servers = Nowhere /\ edActive = FALSE /\ devices = NoDevices /\ aliases = <<>>
  BY DEF Init, CallInit, FleetInit, LbInit, EdInit
<1>2. HostsInv
  BY HostsInitially DEF Init
<1>3. FleetTyped
  BY <1>1, NoHosts DEF FleetTyped
<1>4. \A h \in HostTypes : Down(h)
  BY <1>1 DEF Down
<1>5. AtRest
  <2>1. UNION {r.targets : r \in {}} = {}
    OBVIOUS
  <2> QED
    BY <1>1, <1>4, <2>1, NoHosts DEF AtRest
<1>6. CallFits /\ UpdateFits /\ CurrentFits /\ TakenDown
  BY <1>1, PlacesApart DEF CallFits, UpdateFits, CurrentFits, TakenDown
<1> QED
  BY <1>2, <1>3, <1>5, <1>6 DEF FleetInv

LEMMA FleetInvHolds == Spec => []FleetInv
BY FleetInitially, FleetStep, PTL DEF Spec
------------------------------------------------------------------------------
(* What the runtime and its hosts promise *)

LEMMA MatchesHosts == FleetInv => FleetMatchesHosts
<1> SUFFICES ASSUME FleetInv, step = "idle"
             PROVE  /\ \A h \in HostTypes : Served(h) = FleetTargets(h)
                    /\ \A g, h \in HostTypes : g # h => Served(g) \cap Served(h) = {}
                    /\ published = UNION {Served(h) : h \in HostTypes}
                    /\ linkState = "Running" <=> published # {}
  BY DEF FleetMatchesHosts
<1>1. /\ fleet \in Seq(Records) /\ \A r \in Elements(fleet) : Intact(r)
      /\ \A q, r \in Elements(fleet) : q.host # r.host => q.targets \cap r.targets = {}
      /\ \A h \in HostTypes \ HostsIn(fleet) : Down(h)
      /\ published = UNION {r.targets : r \in Elements(fleet)}
      /\ (linkState = "Running" <=> published # {})
  BY DEF FleetInv, AtRest, FleetTyped
<1>2. ASSUME NEW r \in Elements(fleet) PROVE Served(r.host) = r.targets /\ r.host \in HostTypes
  BY <1>1, Members, RecordTyped DEF Intact
<1>3. ASSUME NEW h \in HostTypes, Served(h) # {} PROVE \E r \in Elements(fleet) : r.host = h /\ r.targets = Served(h)
  <2>1. h \in HostsIn(fleet)
    BY <1>1, <1>3, DownServesNothing
  <2> QED
    BY <1>1, <1>2, <2>1, Members
<1>4. ASSUME NEW h \in HostTypes PROVE Served(h) = FleetTargets(h)
  <2>1. ASSUME NEW t \in Served(h) PROVE t \in FleetTargets(h)
    <3>1. PICK r \in Elements(fleet) : r.host = h /\ r.targets = Served(h)
      BY <1>3, <2>1
    <3>2. PICK i \in DOMAIN fleet : r = fleet[i]
      BY <3>1 DEF Elements
    <3> QED
      BY <2>1, <3>1, <3>2, Zenon DEF FleetTargets
  <2>2. ASSUME NEW t \in FleetTargets(h) PROVE t \in Served(h)
    <3>1. PICK i \in DOMAIN fleet : fleet[i].host = h /\ t \in fleet[i].targets
      BY <2>2 DEF FleetTargets
    <3> QED
      BY <1>1, <1>2, <3>1, Members
  <2> QED
    BY <2>1, <2>2
<1>5. ASSUME NEW g \in HostTypes, NEW h \in HostTypes, g # h PROVE Served(g) \cap Served(h) = {}
  BY <1>1, <1>3, <1>5
<1>6. published = UNION {Served(h) : h \in HostTypes}
  <2>1. ASSUME NEW t \in published PROVE \E h \in HostTypes : t \in Served(h)
    <3>1. PICK r \in Elements(fleet) : t \in r.targets
      BY <1>1, <2>1
    <3> QED
      BY <1>2, <3>1
  <2>2. ASSUME NEW h \in HostTypes, NEW t \in Served(h) PROVE t \in published
    <3>1. PICK r \in Elements(fleet) : r.targets = Served(h)
      BY <1>3, <2>2
    <3> QED
      BY <1>1, <2>2, <3>1
  <2> QED
    BY <2>1, <2>2, Zenon
<1> QED
  BY <1>1, <1>4, <1>5, <1>6

LEMMA FleetTypes == FleetInv => FleetTypeOK
<1> SUFFICES ASSUME FleetInv PROVE FleetTypeOK
  OBVIOUS
<1>1. CallOK /\ LbTypeOK /\ EdTypeOK
  BY EdTypesTogether DEF FleetInv, HostsInv, Typed, EdInv
<1>2. ASSUME NEW f \in {fleet, nextHosts, rest}, NEW i \in DOMAIN f
      PROVE  f[i].host \in HostTypes /\ f[i].targets \subseteq Targets
  <2>1. f \in Seq(Records)
    BY DEF FleetInv, FleetTyped
  <2>2. f[i] \in Records
    BY <2>1, Members
  <2> QED
    BY <2>2, RecordTyped
<1> QED
  BY <1>1, <1>2 DEF FleetInv, FleetTyped, FleetTypeOK

LEMMA HoldsNoAlias == FleetInv => StoppedHoldsNoAlias
<1> SUFFICES ASSUME FleetInv, step = "idle", ~edActive PROVE aliases = <<>> /\ devices = NoDevices
  BY DEF StoppedHoldsNoAlias
<1>1. ASSUME NEW r \in Elements(fleet) PROVE r.host # "etherdream"
  BY <1>1 DEF FleetInv, AtRest, Intact
<1>2. "etherdream" \in HostTypes \ HostsIn(fleet)
  BY <1>1 DEF HostsIn, HostTypes
<1>3. Down("etherdream")
  BY <1>2 DEF FleetInv, AtRest
<1> QED
  BY <1>3 DEF Down

(* Whatever mix of kept, changed, restarted, new and failed hosts start()   *)
(* and stop() went through, and wherever the process died: between two      *)
(* calls each host serves exactly the targets the runtime lists for it, no  *)
(* target is served twice, the published targets are the served ones, and a *)
(* host that is gone left no port, no thread and no alias behind.           *)
THEOREM FleetIsConsistent == Spec => []FleetConsistent
<1>1. FleetInv => FleetConsistent
  BY FleetTypes, MatchesHosts, HoldsNoAlias DEF FleetInv, HostsInv, LbInv, FleetConsistent
<1> QED
  BY <1>1, FleetInvHolds, PTL

(* No two servers of the Libera host hold the same port when the runtime    *)
(* drives it: addServer() picks a port that neither a running nor a         *)
(* stopping server has.                                                     *)
THEOREM FleetPortsDistinct == Spec => []PortsDistinct
<1>1. FleetInv => PortsDistinct
  BY DEF FleetInv, HostsInv, LbInv
<1> QED
  BY <1>1, FleetInvHolds, PTL

(* Every address the Ether Dream host added while the runtime drives it is  *)
(* known, inside its subnet, and not removed under a device: allocate(),    *)
(* failed starts, stop() and crashes included.                              *)
THEOREM FleetAddressesAccounted == Spec => []AddressesAccounted
<1>1. FleetInv => AddressesAccounted
  BY DEF FleetInv, HostsInv, EdInv
<1> QED
  BY <1>1, FleetInvHolds, PTL

(* What snapshot() says of a target: the host that has it, and the endpoint *)
(* that host has for it.                                                    *)
LEMMA ShownAsServed ==
  ASSUME FleetInv, step = "idle", NEW t \in published
  PROVE  LET a == ActiveHostForTarget(t)
         IN /\ a \in Elements(fleet) /\ t \in a.targets
            /\ EndpointForTarget(a.endpoints, t) \in EndpointsOf(a.host)
            /\ EndpointForTarget(a.endpoints, t)[1] = t
<1>1. /\ fleet \in Seq(Records) /\ \A r \in Elements(fleet) : Intact(r)
      /\ published = UNION {r.targets : r \in Elements(fleet)}
  BY DEF FleetInv, AtRest, FleetTyped
<1> DEFINE having == {i \in DOMAIN fleet : t \in fleet[i].targets}
<1>2. having # {}
  <2>1. PICK r \in Elements(fleet) : t \in r.targets
    BY <1>1
  <2>2. PICK i \in DOMAIN fleet : r = fleet[i]
    BY <2>1 DEF Elements
  <2> QED
    BY <2>1, <2>2
<1>3. having \in SUBSET Nat
  BY <1>1
<1>4. ActiveHostForTarget(t) = fleet[Smallest(having)]
  BY <1>2 DEF ActiveHostForTarget
<1> HIDE DEF having
<1>5. Smallest(having) \in having
  BY <1>2, <1>3, SmallestOf
<1>6. PICK i \in DOMAIN fleet : i = Smallest(having) /\ t \in fleet[i].targets
  BY <1>5 DEF having
<1> DEFINE a == ActiveHostForTarget(t)
<1>7. a = fleet[i] /\ a \in Elements(fleet) /\ t \in a.targets
  BY <1>1, <1>4, <1>6, Members
<1> HIDE DEF a
<1>8. a.endpoints = EndpointsOf(a.host) /\ t \in Served(a.host)
  BY <1>1, <1>7 DEF Intact
<1>9. \E e \in a.endpoints : e[1] = t
  BY <1>8 DEF Served
<1> DEFINE of == {e \in a.endpoints : e[1] = t}
<1>10. of # {}
  BY <1>9
<1>11. EndpointForTarget(a.endpoints, t) = CHOOSE e \in of : TRUE
  BY <1>10 DEF EndpointForTarget
<1>12. (CHOOSE e \in of : TRUE) \in of
  BY <1>10
<1>13. EndpointForTarget(a.endpoints, t) \in of
  BY <1>11, <1>12
<1> QED
  BY <1>7, <1>8, <1>13 DEF a

LEMMA SnapshotCurrent == FleetInv => EndpointsCurrent
<1> SUFFICES ASSUME FleetInv, step \in {"idle", "stopAll", "stopping"}
             PROVE  /\ \A s \in Snapshot : s.host \in HostTypes /\ s.endpoint \in EndpointsOf(s.host)
                    /\ step = "idle" => {s.endpoint : s \in Snapshot} = UNION {EndpointsOf(h) : h \in HostTypes}
  BY DEF EndpointsCurrent
<1> DEFINE shown(t) == [host |-> ActiveHostForTarget(t).host,
                        endpoint |-> EndpointForTarget(ActiveHostForTarget(t).endpoints, t)]
<1>1. Snapshot = {shown(t) : t \in published}
  BY DEF Snapshot
<1>2. CASE step # "idle"
  <2>1. published = {}
    BY <1>2 DEF FleetInv, TakenDown
  <2>2. Snapshot = {}
    BY <1>1, <2>1
  <2> QED
    BY <1>2, <2>2
<1>3. CASE step = "idle"
  <2>1. /\ fleet \in Seq(Records) /\ \A r \in Elements(fleet) : Intact(r)
        /\ \A q, r \in Elements(fleet) : q.host # r.host => q.targets \cap r.targets = {}
        /\ published = UNION {r.targets : r \in Elements(fleet)}
        /\ \A h \in HostTypes \ HostsIn(fleet) : Down(h)
    BY <1>3 DEF FleetInv, AtRest, FleetTyped
  <2>2. ASSUME NEW t \in published
        PROVE  /\ shown(t).host \in HostTypes /\ shown(t).endpoint \in EndpointsOf(shown(t).host)
               /\ shown(t).endpoint[1] = t
               /\ \E a \in Elements(fleet) : a.host = shown(t).host /\ t \in a.targets
    <3>1. /\ ActiveHostForTarget(t) \in Elements(fleet) /\ t \in ActiveHostForTarget(t).targets
          /\ shown(t).endpoint \in EndpointsOf(ActiveHostForTarget(t).host) /\ shown(t).endpoint[1] = t
      BY <1>3, ShownAsServed
    <3>2. ActiveHostForTarget(t).host \in HostTypes
      BY <2>1, <3>1, Members, RecordTyped
    <3> QED
      BY <3>1, <3>2
  <2>3. ASSUME NEW h \in HostTypes, NEW e \in EndpointsOf(h) PROVE \E t \in published : shown(t).endpoint = e
    <3>1. h \in HostsIn(fleet)
      BY <2>1, DownServesNothing
    <3>2. PICK r \in Elements(fleet) : r.host = h
      BY <2>1, <3>1, Members
    <3>3. e[1] \in Served(h)
      BY DEF Served
    <3>4. PICK t \in published : t = e[1] /\ t \in r.targets
      BY <2>1, <3>2, <3>3 DEF Intact
    <3>5. shown(t).host = h
      BY <2>1, <2>2, <3>2, <3>4
    <3>6. shown(t).endpoint \in EndpointsOf(h) /\ shown(t).endpoint[1] = e[1]
      BY <2>2, <3>4, <3>5
    <3> QED
      BY <3>6, OneEndpoint
  <2> HIDE DEF shown
  <2>4. \A s \in Snapshot : s.host \in HostTypes /\ s.endpoint \in EndpointsOf(s.host)
    BY <1>1, <2>2
  <2>5. ASSUME NEW e \in {s.endpoint : s \in Snapshot} PROVE e \in UNION {EndpointsOf(h) : h \in HostTypes}
    BY <2>4, <2>5
  <2>6. ASSUME NEW e \in UNION {EndpointsOf(h) : h \in HostTypes} PROVE e \in {s.endpoint : s \in Snapshot}
    <3>1. PICK h \in HostTypes : e \in EndpointsOf(h)
      BY <2>6
    <3> QED
      BY <1>1, <2>3, <3>1
  <2> QED
    BY <2>4, <2>5, <2>6
<1> QED
  BY <1>2, <1>3

(* snapshot() shows every target that a host serves, once, with its host    *)
(* and the endpoint that host has for it now, after any sequence of updates.*)
THEOREM EndpointsAreCurrent == Spec => []EndpointsCurrent
  BY SnapshotCurrent, FleetInvHolds, PTL
------------------------------------------------------------------------------
(* Which steps take a running server away *)

LEMMA UpdateLeavesServers ==
  ASSUME Update, ~RemoveSurplus, ~AddLacking PROVE UNCHANGED servers
<1>1. ASSUME NEW h, StopHost(h) PROVE UNCHANGED servers
  BY <1>1 DEF StopHost, LbStop, lbVars
<1>2. ASSUME NEW h, NEW S, StartHost(h, S) PROVE UNCHANGED servers
  BY <1>2 DEF StartHost, LbStart, lbVars
<1>3. ASSUME Quiet PROVE UNCHANGED servers
  BY <1>3 DEF Quiet, lbVars
<1>4. ASSUME NEW p, Resume(p) PROVE UNCHANGED servers
  BY <1>4 DEF Resume, lbVars
<1>5. CASE DropHost \/ RestartHost \/ StopNext
  BY <1>1, <1>5 DEF DropHost, RestartHost, StopNext
<1>6. CASE LaunchHost
  BY <1>2, <1>6 DEF LaunchHost
<1>7. CASE KeepHost \/ ChangeHost \/ Changed \/ UpdateFailed \/ Publish \/ AllStopped
  BY <1>3, <1>7 DEF KeepHost, ChangeHost, Changed, UpdateFailed, Publish, AllStopped
<1>8. CASE Dropped \/ Changing \/ Restopped \/ Launched \/ LaunchFails \/ StoppedNext
  BY <1>4, <1>8 DEF Dropped, Changing, Restopped, Launched, LaunchFails, StoppedNext
<1> QED
  BY <1>5, <1>6, <1>7, <1>8 DEF Update

LEMMA ServerStays ==
  ASSUME FleetInv, Next, NEW t \in Targets, servers[t] # NoPort, servers'[t] # servers[t], StaysOn("libera", t)
  PROVE  ~dynamic \/ ~call.ok \/ step = "destroying" \/ crashes' # crashes
<1>1. HostsInv /\ FleetTyped /\ LbTypeOK /\ t \in Running /\ Wants("libera") /\ t \in GroupFor("libera").targets
  BY DEF FleetInv, HostsInv, Typed, Running, StaysOn
<1>2. CASE Crash
  BY <1>1, <1>2 DEF Crash, FleetTyped
<1>3. CASE Update
  <2>1. CASE RemoveSurplus
    <3>1. /\ step = "change" /\ ToRemove # {} /\ LbRemoveTarget(Smallest(ToRemove))
      BY <2>1 DEF RemoveSurplus
    <3>2. Current.host = "libera" /\ lbActive
      BY <3>1 DEF FleetInv, CurrentFits
    <3>3. ToRemove = (Current.targets \ GroupFor("libera").targets) \cap Running
      BY <3>2, ServedBy DEF ToRemove, Surplus
    <3>4. Smallest(ToRemove) \in ToRemove
      BY <3>1, <3>3, TargetsAssumption, SmallestOf DEF Running
    <3>5. PICK u \in Running : u = Smallest(ToRemove) /\ u # t
      BY <1>1, <3>3, <3>4
    <3>6. servers'[t] = servers[t]
      BY <1>1, <3>1, <3>2, <3>5, RemoveBegins
    <3> QED
      BY <3>6
  <2>2. CASE AddLacking
    <3>1. /\ step = "change" /\ ToAdd # {} /\ LbAddTarget(Smallest(ToAdd))
      BY <2>2 DEF AddLacking
    <3>2. Current.host = "libera" /\ WantedOK(wanted)
      BY <3>1 DEF FleetInv, CurrentFits, UpdateFits, Updating, OnCurrent
    <3>3. ToAdd \subseteq Targets
      BY <1>1, <3>2, GroupSound DEF ToAdd, Lacking
    <3>4. Smallest(ToAdd) \in Targets
      BY <3>1, <3>3, TargetsAssumption, SmallestOf
    <3> QED
      BY <1>1, <3>1, <3>4, AddBegins
  <2> QED
    BY <1>3, <2>1, <2>2, UpdateLeavesServers
<1>4. CASE HostStep
  <2>1. LbCallStep /\ call.host = "libera"
    BY <1>1, <1>4, HostStepAlone DEF lbVars
  <2>2. CASE LbStartAdds
    <3>1. call.todo # <<>> /\ call.todo \in Seq(Targets)
      BY <1>1, <2>2 DEF LbStartAdds, HostsInv, Typed, CallOK
    <3>2. PICK u \in Targets : u = Head(call.todo)
      BY <3>1, Shorter
    <3>3. servers' = servers \/ (servers[u] = NoPort /\ servers' = [servers EXCEPT ![u] = NextPort])
      BY <2>2, <3>2 DEF LbStartAdds, AddServer
    <3> QED
      BY <1>1, <3>3 DEF LbTypeOK
  <2>3. CASE LbTake
    <3>1. call.pc = "take"
      BY <2>3 DEF LbTake, Serving
    <3>2. step \in {"dropped", "restopped", "relaunched", "launched", "destroying", "stopping", "changing"}
      BY <3>1 DEF FleetInv, FleetTyped, CallFits, Updating, OnCurrent, TakingDown, NoCall
    <3>3. CASE step \in {"dropped", "restopped"}
      <4>1. Current.host = "libera"
        BY <2>1, <3>3 DEF FleetInv, CallFits, StopCall
      <4> QED
        BY <1>1, <3>3, <4>1 DEF FleetInv, CurrentFits, OnCurrent
    <3>4. CASE step = "stopping"
      <4>1. wanted = <<>>
        BY <3>4 DEF FleetInv, TakenDown
      <4>2. DOMAIN <<>> = {}
        OBVIOUS
      <4> QED
        BY <1>1, <4>1, <4>2, Zenon DEF Wants
    <3>5. CASE step \in {"launched", "relaunched"}
      BY <2>1, <3>1, <3>5 DEF FleetInv, CallFits, StartCall, LbStartCall
    <3>6. CASE step = "changing"
      BY <3>1, <3>6 DEF FleetInv, CallFits
    <3> QED
      BY <3>2, <3>3, <3>4, <3>5, <3>6
  <2>4. CASE LbStarted \/ LbServersStopped \/ LbJoin \/ \E u \in Targets : LbServerStops(u)
    BY <2>4 DEF LbStarted, LbServersStopped, LbJoin, LbServerStops, lbVars
  <2> QED
    BY <2>1, <2>2, <2>3, <2>4 DEF LbCallStep
<1>5. CASE Environment
  BY <1>5 DEF Environment, Advertiser, AdvOpens, AdvCopies, AdvSends, LbEnvironment, ForeignPort, lbVars
<1>6. CASE StopAll \/ \E route \in Routes : Request(route)
  BY <1>6 DEF StopAll, Request, Quiet, lbVars
<1> QED
  BY <1>2, <1>3, <1>4, <1>5, <1>6 DEF Next

(* An update interrupts no target that stays on the Libera host: it loses   *)
(* its server, or the server its port, only after the host refused a change *)
(* or a start, in the stop that follows, or when the process dies.          *)
THEOREM TargetsStay == Spec => UnaffectedTargetsStay
<1>1. FleetInv /\ [Next]_vars =>
        [\A t \in Targets :
           servers[t] # NoPort /\ servers'[t] # servers[t] /\ StaysOn("libera", t) =>
             ~dynamic \/ ~call.ok \/ step = "destroying" \/ crashes' # crashes]_vars
  BY ServerStays
<1> QED
  BY <1>1, FleetInvHolds, PTL DEF Spec, UnaffectedTargetsStay
=============================================================================
