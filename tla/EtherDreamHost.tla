--------------------------- MODULE EtherDreamHost ---------------------------
(***************************************************************************)
(* EtherDreamVirtualControllerHost: one virtual device per target, each on  *)
(* an IPv4 address of its own, and the IpAliasManager that adds addresses   *)
(* to a network interface when the machine has too few and removes them     *)
(* again.  What a device does once it listens is the subject of             *)
(* EtherDreamDevice.  The alias commands are those of Linux.                *)
(*                                                                          *)
(* An address is a number of Width bits; 127.0.0.i is Loopback(i).          *)
(***************************************************************************)
EXTENDS VirtualControllerHost

CONSTANTS
  Width,              \* bits of an address
  EdConfigs,          \* option texts the host may be configured with
  InterfaceLists,     \* what interfaceAddresses() may find
  ForeignAddresses,   \* addresses where another program may take the TCP port
  MaxLost             \* aliases that cannot be removed

Loopback(i) == 2^Width + i
IsLoopback(a) == a > 2^Width
NetworkAddresses == 0..(2^Width - 1)
Addresses == NetworkAddresses \cup {Loopback(i) : i \in 1..Cardinality(Targets)}
NoAddress == -1

(* size: how many addresses the netmask spans; default: the interface of    *)
(* the default route.  A netmask is a prefix, so the subnets of its size    *)
(* fill the range of addresses.                                             *)
ASSUME NetworkAssumption ==
  /\ Width \in Nat /\ 2^Width \in Nat /\ ForeignAddresses \subseteq Addresses /\ MaxLost \in Nat
  /\ EdConfigs \subseteq [addresses : Seq(Int), mode : STRING, interface : Nat,
                          base : NetworkAddresses \cup {Absent, Malformed},
                          manage : STRING, discovery : STRING]
  /\ InterfaceLists \subseteq
       Seq([name : Nat \ {0}, addr : Addresses, size : Nat \ {0}, bcast : Addresses,
            loopback : BOOLEAN, default : BOOLEAN])
  /\ \A list \in InterfaceLists : \A i \in DOMAIN list : ~list[i].loopback =>
       /\ list[i].addr \in NetworkAddresses /\ list[i].bcast \in NetworkAddresses
       /\ \A a \in NetworkAddresses : (a \div list[i].size) * list[i].size + list[i].size <= 2^Width

VARIABLES
  edConfig,    \* impl_->options
  interfaces,  \* the machine's interfaces as they were set up
  assigned,    \* addresses the machine has
  aliases,     \* addedAliases_
  left,        \* addresses that were added and are not known of any more
  alloc,       \* allocate(): addresses found so far, next candidate and its limit
  devices,     \* impl_->devices: where each target's device listens, or NoAddress
  edActive,    \* impl_->active
  taken        \* addresses where another program holds the TCP port

edVars == <<edConfig, interfaces, assigned, aliases, left, alloc, devices, edActive, taken>>
machine == <<edConfig, interfaces, taken>>

NoDevices == [t \in Targets |-> NoAddress]
NoAlloc == [got |-> <<>>, next |-> 0, floor |-> 0]
Elements(s) == {s[i] : i \in DOMAIN s}
DeviceEndpoint(t) == <<t, devices[t]>>
EdEndpoints == {DeviceEndpoint(t) : t \in {u \in Targets : devices[u] # NoAddress}}
Original == {i.addr : i \in Elements(interfaces)}

(* makeHostOptions(): a boolean is "on", "off" or reads as its default, and *)
(* an absent mode is "auto"; every mode but two means the local network.    *)
ParseBool(text, fallback) == text = "on" \/ (text # "off" /\ fallback)
OptionBool(text, fallback) == IF text = "" THEN fallback ELSE ParseBool(text, fallback)
OptionString(text, fallback) == IF text = "" THEN fallback ELSE text
MakeDeviceOptions(c) ==
  [c EXCEPT !.mode = OptionString(@, "auto"),
            !.manage = OptionBool(@, TRUE), !.discovery = OptionBool(@, TRUE)]
DeviceOptions == {MakeDeviceOptions(c) : c \in EdConfigs}
OnLan == edConfig.mode \notin {"loopback", "explicit"}

EdInit ==
  /\ edConfig \in DeviceOptions /\ interfaces \in InterfaceLists
  /\ assigned = Original /\ aliases = <<>> /\ left = {}
  /\ alloc = NoAlloc /\ devices = NoDevices /\ edActive = FALSE /\ taken = {}

(* On Linux the whole of 127.0.0.0/8 is local.                              *)
CanBindAddress(a) ==
  /\ a \in assigned \/ IsLoopback(a)
  /\ a \notin taken /\ \A t \in Targets : devices[t] # a
------------------------------------------------------------------------------
(* start(): choosing addresses *)

EdStart(ts) ==
  /\ call.pc = "idle"
  /\ IF edActive \/ ts = <<>> THEN Answer("etherdream", FALSE) ELSE Enter("etherdream", "cleanup", ts)
  /\ UNCHANGED edVars

Count == Len(call.todo)

(* The interfaces allocateLan() considers, and the one it uses.             *)
Candidates == {i \in DOMAIN interfaces :
                 /\ ~interfaces[i].loopback
                 /\ edConfig.interface = 0 \/ interfaces[i].name = edConfig.interface}
Preferred == LET default == {i \in Candidates : interfaces[i].default}
             IN IF default = {} THEN Candidates ELSE default
Interface == interfaces[CHOOSE i \in Preferred : \A j \in Preferred : i <= j]

NetworkOf(a) == (a \div Interface.size) * Interface.size
Network == NetworkOf(IF edConfig.base = Absent THEN Interface.addr ELSE edConfig.base)
Broadcast == IF edConfig.base = Absent /\ Interface.bcast # 0 THEN Interface.bcast
             ELSE Network + Interface.size - 1

Explicit(n) == SubSeq(edConfig.addresses, 1, n)

(* allocate() up to its first ensureAlias(): it fails, or has the addresses *)
(* already, or knows where to look for them.                                *)
Refuses ==
  IF edConfig.addresses # <<>>
    THEN Len(edConfig.addresses) < Count \/ \E i \in 1..Count : edConfig.addresses[i] \notin Addresses
    ELSE \/ edConfig.mode = "explicit"
         \/ /\ OnLan /\ (Count > 1 \/ edConfig.base # Absent)
            /\ IF Candidates = {} THEN Count > 1
               ELSE edConfig.base = Malformed \/ Broadcast <= (Network + 1) % 2^Width

Ready ==
  \/ edConfig.addresses # <<>>
  \/ OnLan /\ Count = 1 /\ (Candidates = {} \/ edConfig.base = Absent)

ReadyAddresses ==
  IF edConfig.addresses # <<>> THEN Explicit(Count)
  ELSE IF Candidates = {} THEN <<Loopback(1)>> ELSE <<Interface.addr>>

(* Mistake: the walk begins with the broadcast address.                     *)
FirstCandidateTooHigh == IF edConfig.mode = "loopback" THEN Loopback(1) ELSE Broadcast

FirstCandidate == IF edConfig.mode = "loopback" THEN Loopback(1) ELSE Broadcast - 1

EdAllocate ==
  /\ Serving("etherdream", "allocate")
  /\ \/ Refuses /\ Return(FALSE) /\ UNCHANGED alloc
     \/ /\ ~Refuses /\ Ready /\ Move("device")
        /\ alloc' = [NoAlloc EXCEPT !.got = ReadyAddresses]
     \/ /\ ~Refuses /\ ~Ready /\ Move("ensure")
        /\ alloc' = [got |-> <<>>, next |-> FirstCandidate,
                     floor |-> IF edConfig.mode = "loopback" THEN 0 ELSE Network]
  /\ UNCHANGED <<machine, assigned, aliases, left, devices, edActive>>
------------------------------------------------------------------------------
(* start(): making sure of each address *)

Following(a) == IF IsLoopback(a) THEN a + 1 ELSE a - 1

(* The candidate is in use as an address of this machine, or below the      *)
(* subnet.                                                                  *)
EdSkips ==
  /\ Serving("etherdream", "ensure") /\ ~IsLoopback(alloc.next)
  /\ \/ alloc.next <= alloc.floor /\ Return(FALSE) /\ UNCHANGED alloc
     \/ /\ alloc.next > alloc.floor /\ alloc.next \in assigned
        /\ alloc' = [alloc EXCEPT !.next = Following(@)] /\ UNCHANGED call
  /\ UNCHANGED <<machine, assigned, aliases, left, devices, edActive>>

Considering ==
  /\ Serving("etherdream", "ensure")
  /\ IsLoopback(alloc.next) \/ (alloc.next > alloc.floor /\ alloc.next \notin assigned)

Take ==
  /\ alloc' = [alloc EXCEPT !.got = Append(@, alloc.next), !.next = Following(@)]
  /\ Move(IF Len(alloc.got) + 1 = Count THEN "device" ELSE "ensure")

EdEnsureBinds ==
  /\ Considering /\ CanBindAddress(alloc.next) /\ Take
  /\ UNCHANGED <<machine, assigned, aliases, left, devices, edActive>>

(* Aliases are not managed, or "ip addr add" fails: the address exists, or  *)
(* the program lacks the privilege.                                         *)
EdEnsureFails ==
  /\ Considering /\ ~CanBindAddress(alloc.next)
  /\ Return(FALSE) /\ UNCHANGED edVars

(* Mistake: an alias that cannot be bound stays.                            *)
EdEnsureAddsKept ==
  /\ Considering /\ ~CanBindAddress(alloc.next) /\ edConfig.manage /\ alloc.next \notin assigned
  /\ assigned' = assigned \cup {alloc.next}
  /\ IF alloc.next \in taken THEN Return(FALSE) /\ UNCHANGED <<alloc, aliases>>
     ELSE Take /\ aliases' = Append(aliases, alloc.next)
  /\ UNCHANGED <<machine, left, devices, edActive>>

(* removeAlias() does not look at the result of its command: an address     *)
(* that was not removed is forgotten all the same.                          *)
RemoveAlias(a, before) ==
  \/ assigned' = before \ {a} /\ UNCHANGED left
  \/ Cardinality(left) < MaxLost /\ assigned' = before \cup {a} /\ left' = left \cup {a}

(* An alias that cannot be bound is removed again at once.                  *)
EdEnsureAdds ==
  /\ Considering /\ ~CanBindAddress(alloc.next) /\ edConfig.manage /\ alloc.next \notin assigned
  /\ IF alloc.next \in taken
       THEN Return(FALSE) /\ RemoveAlias(alloc.next, assigned) /\ UNCHANGED <<alloc, aliases>>
       ELSE /\ Take /\ UNCHANGED left
            /\ assigned' = assigned \cup {alloc.next} /\ aliases' = Append(aliases, alloc.next)
  /\ UNCHANGED <<machine, devices, edActive>>
------------------------------------------------------------------------------
(* start(): the devices; stop() *)

(* A device starts when it can bind its TCP address, and its UDP socket     *)
(* when it announces itself.                                                *)
EdDevice ==
  /\ Serving("etherdream", "device") /\ call.todo # <<>>
  /\ \/ /\ CanBindAddress(Head(alloc.got))
        /\ devices' = [devices EXCEPT ![Head(call.todo)] = Head(alloc.got)]
        /\ alloc' = [alloc EXCEPT !.got = Tail(@)]
        /\ call' = [call EXCEPT !.todo = Tail(@)]
     \/ /\ ~CanBindAddress(Head(alloc.got)) \/ edConfig.discovery
        /\ call' = [call EXCEPT !.pc = "stopDevices", !.todo = <<>>, !.ok = FALSE]
        /\ UNCHANGED <<alloc, devices>>
  /\ UNCHANGED <<machine, assigned, aliases, left, edActive>>

EdStarted ==
  /\ Serving("etherdream", "device") /\ call.todo = <<>>
  /\ edActive' = TRUE /\ Return(TRUE)
  /\ UNCHANGED <<machine, assigned, aliases, left, alloc, devices>>

(* Mistake: the addresses go before the devices that listen on them.        *)
EdStopAddressesFirst ==
  /\ call.pc = "idle" /\ Enter("etherdream", "cleanup", <<>>) /\ UNCHANGED edVars

EdStop ==
  /\ call.pc = "idle" /\ Enter("etherdream", "stopDevices", <<>>) /\ UNCHANGED edVars

(* Mistake: stop() leaves the addresses to the destructor.                  *)
EdStopDevicesOnly ==
  /\ Serving("etherdream", "stopDevices") /\ Return(call.ok) /\ devices' = NoDevices /\ edActive' = FALSE
  /\ UNCHANGED <<machine, assigned, aliases, left, alloc>>

EdStopDevices ==
  /\ Serving("etherdream", "stopDevices") /\ Move("cleanup") /\ devices' = NoDevices
  /\ UNCHANGED <<machine, assigned, aliases, left, alloc, edActive>>

(* cleanup(): the last alias added goes first.                              *)
EdCleanup ==
  /\ Serving("etherdream", "cleanup") /\ aliases # <<>>
  /\ RemoveAlias(aliases[Len(aliases)], assigned)
  /\ aliases' = SubSeq(aliases, 1, Len(aliases) - 1)
  /\ UNCHANGED <<call, machine, alloc, devices, edActive>>

(* allocate() cleans up before it looks for addresses, stop() at its end.   *)
EdCleaned ==
  /\ Serving("etherdream", "cleanup") /\ aliases = <<>>
  /\ \/ call.todo # <<>> /\ Move("allocate") /\ UNCHANGED edActive
     \/ call.todo = <<>> /\ Return(call.ok) /\ edActive' = FALSE
  /\ alloc' = NoAlloc
  /\ UNCHANGED <<machine, assigned, aliases, left, devices>>

EdCallStep ==
  \/ EdAllocate \/ EdSkips \/ EdEnsureBinds \/ EdEnsureFails \/ EdEnsureAdds
  \/ EdDevice \/ EdStarted \/ EdStopDevices \/ EdCleanup \/ EdCleaned

(* Another program takes or frees the TCP port on an address.               *)
EdForeign(a) ==
  /\ \A t \in Targets : devices[t] # a
  /\ taken' = IF a \in taken THEN taken \ {a} ELSE taken \cup {a}
  /\ UNCHANGED <<call, edConfig, interfaces, assigned, aliases, left, alloc, devices, edActive>>

(* The process dies: the machine keeps the addresses that were added.       *)
EdCrash ==
  /\ left' = left \cup Elements(aliases) /\ aliases' = <<>>
  /\ alloc' = NoAlloc /\ devices' = NoDevices /\ edActive' = FALSE
  /\ UNCHANGED <<machine, assigned>>
------------------------------------------------------------------------------
(* The host under any sequence of calls. *)

EdCalls ==
  \/ \E ts \in Seq(Targets) : EdStart(ts)
  \/ EdStop
  \/ Returned("etherdream") /\ call' = NoCall /\ UNCHANGED edVars
  \/ EdCrash /\ call' = NoCall

EdNext == EdCalls \/ EdCallStep \/ \E a \in ForeignAddresses : EdForeign(a)
EdSpec == CallInit /\ EdInit /\ [][EdNext]_<<call, edVars>>

EdTypeOK ==
  /\ edConfig \in DeviceOptions /\ interfaces \in InterfaceLists
  /\ assigned \subseteq Addresses /\ left \subseteq Addresses /\ aliases \in Seq(Addresses)
  /\ alloc.got \in Seq(Addresses) /\ alloc.next \in Int /\ alloc.floor \in Int
  /\ devices \in [Targets -> Addresses \cup {NoAddress}]
  /\ edActive \in BOOLEAN /\ taken \subseteq ForeignAddresses

(* The machine's addresses are its own and the ones the alias manager added *)
(* and still knows of, or lost in a crash or a failed removal: no path      *)
(* through allocate(), a failed start() or stop() forgets an alias or       *)
(* removes an address it did not add.                                       *)
AliasesAccounted ==
  /\ assigned = Original \cup left \cup Elements(aliases)
  /\ Elements(aliases) \cap (Original \cup left) = {}
  /\ \A i, j \in DOMAIN aliases : aliases[i] = aliases[j] => i = j

(* Every device listens on an address the machine still has, and no two     *)
(* devices on the same one: a device's stop() comes before the removal of   *)
(* its alias.                                                               *)
DevicesKeepAddresses ==
  \A t \in Targets :
    devices[t] # NoAddress =>
      /\ devices[t] \in assigned \/ IsLoopback(devices[t])
      /\ \A u \in Targets : devices[u] = devices[t] => u = t

(* An alias is a host address of the subnet: neither the network nor the    *)
(* broadcast address of the interface, with the unsigned wrap of network+1. *)
AliasesInsideSubnet ==
  \A i \in DOMAIN aliases : IsLoopback(aliases[i]) \/ (Network < aliases[i] /\ aliases[i] < Broadcast)

(* Every address of the machine is accounted for: who added it, that it is  *)
(* a host address of its subnet, and that no device is left on one that is  *)
(* gone, through failed starts, failed removals and crashes.                *)
AddressesAccounted == AliasesAccounted /\ AliasesInsideSubnet /\ DevicesKeepAddresses
=============================================================================
