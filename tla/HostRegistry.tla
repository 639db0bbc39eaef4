---------------------------- MODULE HostRegistry ----------------------------
(***************************************************************************)
(* The registry of virtual controller hosts.  Every file that implements a  *)
(* host has a static VirtualControllerHostRegistrar; the order in which the *)
(* static objects of different files are constructed is unspecified.        *)
(***************************************************************************)
EXTENDS Integers, Sequences, FiniteSets

CONSTANT Registrations   \* what the linked files register

(* Every host has an id of its own, and one that can be created is flagged. *)
ASSUME RegistrationsAssumption ==
  /\ Registrations \subseteq [id : STRING, factory : BOOLEAN, defaultSelection : BOOLEAN]
  /\ \A q, r \in Registrations : q.id = r.id => q = r
  /\ \E r \in Registrations : r.id # "" /\ r.factory /\ r.defaultSelection

Registration(id, factory, default) == [id |-> id, factory |-> factory, defaultSelection |-> default]

(* The three registrations of the repository: only their ids and the flag   *)
(* of the IDN host tell them apart here; the options they describe are left *)
(* out.  The app loads idn and libera; etherdream is in the same library    *)
(* and is registered only where it is linked, as in the tests.              *)
IdnRegistration == Registration("idn", TRUE, TRUE)
EtherDreamRegistration == Registration("etherdream", TRUE, FALSE)
LiberaRegistration == Registration("libera", TRUE, FALSE)

VARIABLES
  unregistered,   \* registrars that have not been constructed yet
  orderedInfos    \* RegistryState::orderedInfos

registryVars == <<unregistered, orderedInfos>>

RegistryInit == unregistered = Registrations /\ orderedInfos = <<>>

HostIds == {orderedInfos[i].id : i \in DOMAIN orderedInfos}
FindHost(id) == id \in HostIds

Accepts(r) == r.id # "" /\ r.factory /\ ~FindHost(r.id)

RegisterHost(r) ==
  /\ r \in unregistered /\ unregistered' = unregistered \ {r}
  /\ orderedInfos' = IF Accepts(r) THEN Append(orderedInfos, r) ELSE orderedInfos

NoHost == "none"

(* Mistake: the first host that was registered.                             *)
DefaultHostFirst == IF orderedInfos = <<>> THEN NoHost ELSE orderedInfos[1].id

DefaultHost ==
  LET flagged == {i \in DOMAIN orderedInfos : orderedInfos[i].defaultSelection}
      among == IF flagged = {} THEN DOMAIN orderedInfos ELSE flagged
  IN IF among = {} THEN NoHost
     ELSE orderedInfos[CHOOSE i \in among : \A j \in among : i <= j].id
=============================================================================
