--------------------------- MODULE MCSingleParts ---------------------------
(* The Ether Dream device and the parts around the link, one at a time: a   *)
(* behaviour belongs to one of them, and the others stay as they were.      *)
EXTENDS CommandLine, RuntimeLogger, GuiSettings, AvbSettings, EtherDreamDevice

VARIABLE part

Word(text) == [text |-> text, number |-> NotANumber, key |-> "", value |-> ""]
Number(n) == [text |-> "number", number |-> n, key |-> "", value |-> ""]
Pair(k, v) == [text |-> "pair", number |-> NotANumber, key |-> k, value |-> v]

(* Options with their values, in families whose members interfere; -1 is    *)
(* read as the largest number.                                              *)
Latencies == {<<Word(o), Number(n)>> : o \in {"--latency-ms", "--max-latency-ms"}, n \in {0, 4, 9, -1}}
TypeChanges ==
  {<<Word(o), Word(t)>> : o \in {"--disable-controller-type", "--enable-controller-type"}, t \in {"IDN", "AVB"}}
Others ==
  {<<Word("--help")>>, <<Word("--no-auto-latency")>>, <<Word("--unknown"), Number(1)>>, <<Word("--latency-ms")>>,
   <<Word("--latency-ms"), Word("IDN")>>, <<Word("--latency-ms"), Number(U64)>>,
   <<Word("--virtual-controller"), Word("libera")>>, <<Word("--virtual-controller"), Word("other")>>,
   <<Word("--virtual-controller"), Word("--help")>>,
   <<Word("--virtual-controller-opt"), Word("IDN")>>, <<Word("--virtual-controller-opt"), Pair("k", "1")>>,
   <<Word("--virtual-controller-opt"), Pair("k", "2")>>,
   <<Word("--max-queue-points"), Number(0)>>, <<Word("--max-queue-points"), Number(9)>>,
   <<Word("--slice-us"), Number(9)>>, <<Word("--slice-us"), Number(U32)>>}
Waits == {<<Word("--discovery-timeout-ms"), Number(n)>> : n \in {0, 2, -1}} \cup {<<Word("--max-dacs"), Number(1)>>}
MCArgvs ==
  {<<>>} \cup Waits \cup UNION {F \cup {a \o b : a, b \in F} : F \in {Latencies, TypeChanges, Others}}

(* The two hosts the app loads, the one the tests link as well, and a       *)
(* registration that is refused.                                            *)
MCRegistrations ==
  {IdnRegistration, EtherDreamRegistration, LiberaRegistration, Registration("other", FALSE, TRUE)}
MCHostSets == {{"idn", "libera"}, {"idn"}}

around == <<logVars, settingsVars, avbVars>>

PartsInit ==
  /\ part \in {"device", "cli", "log", "settings", "avb"}
  /\ Init /\ CliInit /\ LogInit /\ SettingsInit /\ AvbInit
  /\ part = "settings" \/ available = {"idn"}
  /\ part = "avb" \/ (connected = {} /\ file.valid)

(* A device that was stopped stays so.                                      *)
DeviceIsDown == phase = "down" /\ UNCHANGED vars

PartsNext ==
  /\ UNCHANGED part
  /\ \/ part = "device" /\ (Next \/ DeviceIsDown) /\ UNCHANGED <<cliVars, around>>
     \/ part = "cli" /\ CliNext /\ UNCHANGED <<vars, around>>
     \/ part = "log" /\ LogNext /\ UNCHANGED <<vars, cliVars, settingsVars, avbVars>>
     \/ part = "settings" /\ SettingsNext /\ UNCHANGED <<vars, cliVars, logVars, avbVars>>
     \/ part = "avb" /\ AvbNext /\ UNCHANGED <<vars, cliVars, logVars, settingsVars>>

partsVars == <<part, vars, cliVars, around>>

(* The playback timer of the device keeps firing and the thread of the      *)
(* command-line program keeps running.                                      *)
PartsSpec ==
  /\ PartsInit /\ [][PartsNext]_partsVars
  /\ WF_partsVars(part = "device" /\ Tick /\ UNCHANGED <<part, cliVars, around>>)
  /\ WF_partsVars(part = "cli" /\ CliStep /\ UNCHANGED <<part, vars, around>>)
=============================================================================
