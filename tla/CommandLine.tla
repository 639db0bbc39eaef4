----------------------------- MODULE CommandLine -----------------------------
(***************************************************************************)
(* The command-line program: parseOptions() one argument at a time, main(), *)
(* and the wait for controllers in discoverControllers().                   *)
(*                                                                          *)
(* Numbers keep the order of the code's limits and not their size:          *)
(* 50, 1000, 1500, 5000, 10000, 15000, 30000 and 300000 are 1 to 8, and 32  *)
(* and 64 bits are 4 and 8.  Time passes in polls of the discovery loop.    *)
(***************************************************************************)
EXTENDS HostRegistry

CONSTANTS
  Argvs,          \* command lines
  Controllers,    \* controllers discovery may see
  Virtual,        \* those that are network endpoints and not hardware
  SettleWindow    \* polls without a change that end discovery

(* An argument as the parsers read it: its text, its number or NotANumber,  *)
(* and its key and value, or the key "" when it is not key=value.           *)
ASSUME CommandLineAssumption ==
  /\ Argvs \subseteq Seq([text : STRING, number : Int, key : STRING, value : STRING])
  /\ Virtual \subseteq Controllers /\ SettleWindow \in Nat \ {0}

VARIABLES
  argv, arg,      \* the command line and the index of the next argument
  options,        \* LinkOptions
  cli,            \* where main() is
  exitCode,       \* its result once it has returned
  gStopRequested,
  visible,        \* the controllers the library sees
  discovered,     \* discoverControllers()'s result so far
  settledFor,     \* polls since discoveredKeys changed
  elapsed,        \* polls since discovery started
  linked          \* the controllers that got a target

discoveryVars == <<visible, discovered, settledFor, elapsed>>
cliVars == <<registryVars, argv, arg, options, cli, exitCode, gStopRequested, discoveryVars, linked>>

U32 == 16
U64 == 256
NotANumber == -U64

(* std::stoull takes a sign: a negative number wraps around.                *)
ParseUnsigned(number) ==
  IF number \in (1 - U64)..(U64 - 1) THEN [ok |-> TRUE, raw |-> number % U64] ELSE [ok |-> FALSE, raw |-> 0]

LinkOptions ==
  [discoveryTimeoutMs |-> 4, maxDacs |-> 0, sliceDurationUs |-> 6, maxQueuedPoints |-> 8,
   latencyMs |-> 1, maxLatencyMs |-> 3, autoLatency |-> TRUE, hostId |-> "",
   hostOptions |-> {}, disabledControllerTypes |-> {"IDN"}]

CliInit ==
  /\ RegistryInit
  /\ argv = <<>> /\ arg = 1 /\ options = LinkOptions /\ cli = "static" /\ exitCode = -1
  /\ gStopRequested = FALSE /\ visible = {} /\ discovered = {} /\ settledFor = 0 /\ elapsed = 0
  /\ linked = {}

Register ==
  /\ cli = "static" /\ \E r \in unregistered : RegisterHost(r)
  /\ UNCHANGED <<argv, arg, options, cli, exitCode, gStopRequested, discoveryVars, linked>>

Launch ==
  /\ cli = "static" /\ unregistered = {} /\ argv' \in Argvs /\ cli' = "parse"
  /\ UNCHANGED <<registryVars, arg, options, exitCode, gStopRequested, discoveryVars, linked>>

Exit(code) == cli' = "exited" /\ exitCode' = code
------------------------------------------------------------------------------
(* parseOptions() *)

Parsing == cli = "parse" /\ arg <= Len(argv)
Option == argv[arg].text
Value == argv[arg + 1]

unparsed == <<registryVars, argv, gStopRequested, discoveryVars, linked>>

ParseHelp ==
  /\ Parsing /\ Option = "--help" /\ Exit(0)
  /\ UNCHANGED <<unparsed, arg, options>>

ParseNoAutoLatency ==
  /\ Parsing /\ Option = "--no-auto-latency"
  /\ options' = [options EXCEPT !.autoLatency = FALSE] /\ arg' = arg + 1
  /\ UNCHANGED <<unparsed, cli, exitCode>>

Flags == {"--help", "--no-auto-latency"}
TextOptions == {"--virtual-controller", "--disable-controller-type", "--enable-controller-type"}
Clipped(lowest, n, highest) == IF n < lowest THEN lowest ELSE IF n > highest THEN highest ELSE n

(* What each numeric option makes of a number.                              *)
NumericOption(o, raw) ==
  CASE o = "--discovery-timeout-ms" -> [options EXCEPT !.discoveryTimeoutMs = Clipped(0, raw, U32 - 1)]
    [] o = "--max-dacs" -> [options EXCEPT !.maxDacs = raw]
    [] o = "--slice-us" -> [options EXCEPT !.sliceDurationUs = Clipped(2, raw, U64) % U32]
    [] o = "--max-queue-points" -> [options EXCEPT !.maxQueuedPoints = Clipped(2, raw, U64)]
    [] o = "--latency-ms" -> [options EXCEPT !.latencyMs = Clipped(0, raw, 5)]
    [] o = "--max-latency-ms" -> [options EXCEPT !.maxLatencyMs = Clipped(0, raw, 7)]

NumericOptions ==
  {"--discovery-timeout-ms", "--max-dacs", "--slice-us", "--max-queue-points", "--latency-ms", "--max-latency-ms"}

(* A missing value, a value that is not key=value or not a number, and an   *)
(* unknown option, in the order in which they are noticed.                  *)
Rejected ==
  /\ Option \notin Flags
  /\ ~(/\ arg < Len(argv)
       /\ ~(Option = "--virtual-controller-opt" /\ Value.key = "")
       /\ (Option \notin TextOptions \cup {"--virtual-controller-opt"} =>
             ParseUnsigned(Value.number).ok /\ Option \in NumericOptions))

ParseFails ==
  /\ Parsing /\ Rejected /\ Exit(1)
  /\ UNCHANGED <<unparsed, arg, options>>

ParseOption ==
  /\ Parsing /\ Option \notin Flags /\ ~Rejected
  /\ options' =
       CASE Option = "--virtual-controller" -> [options EXCEPT !.hostId = Value.text]
         [] Option = "--disable-controller-type" -> [options EXCEPT !.disabledControllerTypes = @ \cup {Value.text}]
         [] Option = "--enable-controller-type" -> [options EXCEPT !.disabledControllerTypes = @ \ {Value.text}]
         [] Option = "--virtual-controller-opt" ->
              [options EXCEPT !.hostOptions = {o \in @ : o[1] # Value.key} \cup {<<Value.key, Value.value>>}]
         [] OTHER -> NumericOption(Option, ParseUnsigned(Value.number).raw)
  /\ arg' = arg + 2 /\ UNCHANGED <<unparsed, cli, exitCode>>

FinishedOptions ==
  [options EXCEPT !.maxLatencyMs = IF @ < options.latencyMs THEN options.latencyMs ELSE @]

(* From here on a signal sets the flag.                                     *)
ParseEnds ==
  /\ cli = "parse" /\ arg > Len(argv) /\ options' = FinishedOptions
  /\ IF options.hostId # "" /\ ~FindHost(options.hostId) THEN Exit(1)
     ELSE cli' = "discover" /\ UNCHANGED exitCode
  /\ UNCHANGED <<unparsed, arg>>
------------------------------------------------------------------------------
(* main() and start() *)

Host == IF options.hostId # "" THEN options.hostId ELSE DefaultHost

Signal ==
  /\ cli \notin {"static", "exited"}
  /\ IF cli = "parse" THEN Exit(130) /\ UNCHANGED gStopRequested
     ELSE ~gStopRequested /\ gStopRequested' = TRUE /\ UNCHANGED <<cli, exitCode>>
  /\ UNCHANGED <<registryVars, argv, arg, options, discoveryVars, linked>>

FoundNow(current) == IF current = {} THEN discovered ELSE current

(* Mistake: discovery only ends when it has settled.                        *)
TimedOutNever(polls) == FALSE

TimedOut(polls) == options.discoveryTimeoutMs > 0 /\ polls >= options.discoveryTimeoutMs

(* One round of the loop, with the sleep that ends it.  It looks at the     *)
(* runtime's stop flag, which a signal does not set.                        *)
Poll ==
  LET now == FoundNow(visible)
      settled == IF now # discovered THEN 0 ELSE settledFor
  IN /\ cli = "discover" /\ discovered' = now
     /\ IF (now # {} /\ settled >= SettleWindow) \/ TimedOut(elapsed)
          THEN cli' = "connect" /\ UNCHANGED <<settledFor, elapsed>>
          ELSE /\ settledFor' = Clipped(0, settled + 1, SettleWindow)
               /\ elapsed' = Clipped(0, elapsed + 1, options.discoveryTimeoutMs) /\ UNCHANGED cli
     /\ UNCHANGED <<registryVars, argv, arg, options, exitCode, gStopRequested, visible, linked>>

Change ==
  /\ cli = "discover" /\ visible' \in SUBSET Controllers
  /\ UNCHANGED <<registryVars, argv, arg, options, cli, exitCode, gStopRequested, discovered, settledFor, elapsed, linked>>

ShouldLinkController(c) == c \notin Virtual

(* The controllers that connect get a target, up to --max-dacs of them; no  *)
(* target, or a host that does not start, ends the program.                 *)
Connect(chosen) ==
  /\ cli = "connect"
  /\ chosen \subseteq {c \in discovered : ShouldLinkController(c)}
  /\ options.maxDacs > 0 => Cardinality(chosen) <= options.maxDacs
  /\ \/ chosen # {} /\ cli' = "running" /\ linked' = chosen /\ UNCHANGED exitCode
     \/ Exit(1) /\ UNCHANGED linked
  /\ UNCHANGED <<registryVars, argv, arg, options, gStopRequested, discoveryVars>>

(* The loop of main() sees the flag: stop() and return.                     *)
Stop ==
  /\ cli = "running" /\ gStopRequested /\ Exit(0) /\ linked' = {}
  /\ UNCHANGED <<registryVars, argv, arg, options, gStopRequested, discoveryVars>>

(* The program has ended.                                                   *)
Done == cli = "exited" /\ UNCHANGED cliVars

CliStep ==
  \/ ParseHelp \/ ParseNoAutoLatency \/ ParseFails \/ ParseOption \/ ParseEnds
  \/ Poll \/ (\E chosen \in SUBSET Controllers : Connect(chosen)) \/ Stop
CliNext ==
  \/ Register \/ Launch \/ CliStep
  \/ Signal \/ Change \/ Done
CliSpec == CliInit /\ [][CliNext]_cliVars
------------------------------------------------------------------------------
(* The positions of argv that are options, and the last one named o.        *)
IsOption(args) ==
  LET is[i \in Nat] == i = 1 \/ (i > 1 /\ (is[i - 1] => args[i - 1].text \in Flags)) IN is
Positions(names) == {i \in DOMAIN argv : IsOption(argv)[i] /\ argv[i].text \in names}
Last(S) == CHOOSE i \in S : \A j \in S : j <= i
LastNumber(o, default) ==
  LET S == Positions({o}) IN IF S = {} THEN default ELSE argv[Last(S) + 1].number % U64
Mentions(t) == {i \in Positions({"--disable-controller-type", "--enable-controller-type"}) : argv[i + 1].text = t}

(* Whatever the order of the arguments, the last one of each option counts, *)
(* the limits are those of the usage text's defaults and parseOptions()'s   *)
(* clamps, the latency never exceeds its maximum, and with no host named it *)
(* is the one flagged as default, in whichever order the static registrars  *)
(* ran.                                                                     *)
OptionsMatchReference ==
  cli = "discover" /\ elapsed = 0 =>
    /\ options.latencyMs = Clipped(0, LastNumber("--latency-ms", 1), 5)
    /\ options.maxLatencyMs = Clipped(options.latencyMs, LastNumber("--max-latency-ms", 3), 7)
    /\ options.maxQueuedPoints = Clipped(2, LastNumber("--max-queue-points", 8), U64)
    /\ options.autoLatency <=> Positions({"--no-auto-latency"}) = {}
    /\ \A t \in {"IDN"} \cup {argv[i].text : i \in DOMAIN argv} :
         t \in options.disabledControllerTypes <=>
           IF Mentions(t) = {} THEN t = "IDN" ELSE argv[Last(Mentions(t))].text = "--disable-controller-type"
    /\ \A o, p \in options.hostOptions : o[1] = p[1] => o = p
    /\ Host \in HostIds
    /\ Positions({"--virtual-controller"}) = {} =>
         \A r \in Registrations : r.id = Host => r.defaultSelection

(* An interrupted program ends, also when the interrupt comes while it      *)
(* waits for controllers: unless it was told to wait for ever, since the    *)
(* loop does not look at the flag that the signal sets.                     *)
InterruptEnds == (gStopRequested /\ options.discoveryTimeoutMs > 0) ~> cli = "exited"
=============================================================================
