-------------------------- MODULE EtherDreamDevice --------------------------
(***************************************************************************)
(* One emulated Ether Dream DAC (class VirtualEtherDreamDevice of           *)
(* EtherDreamVirtualControllerHost.cpp): the command protocol of its single *)
(* TCP session, the playback timer that drains the point buffer into the    *)
(* target sink, and stop(), called from another thread.                     *)
(*                                                                          *)
(* Command, accept and timer handlers all run on one io thread, so each is  *)
(* one action; a command with arguments is two, because the timer or a      *)
(* disconnect may come before the argument bytes.  Every command but 'v'    *)
(* ends with a reply that carries the status of the device.                 *)
(*                                                                          *)
(* A point is reduced to its rate-change bit.  The history variable gen     *)
(* counts accepted 'p' commands; points and queued rates carry the gen they *)
(* were sent under.                                                         *)
(***************************************************************************)
EXTENDS Integers, Sequences, FiniteSets

CONSTANTS
  Capacity,       \* options_.bufferCapacity
  MaxRate,        \* options_.maxPointRate
  DefaultRate,    \* min(30000, maxPointRate)
  MaxRateQueue,   \* maxPointRateQueue_
  WireRates,      \* rates a client may put in a command
  WireCounts,     \* point counts a client may put in a 'd' header
  MaxDue,         \* bound on the points due at one tick
  MaxPrepares     \* bound on accepted 'p' commands in a behaviour

ASSUME DeviceAssumption ==
  /\ Capacity \in Nat \ {0}
  /\ MaxRate \in Nat \ {0} /\ DefaultRate \in 1..MaxRate
  /\ MaxRateQueue \in Nat
  /\ WireRates \subseteq Nat /\ WireCounts \subseteq Nat
  /\ MaxDue \in Nat /\ MaxPrepares \in Nat

VARIABLES
  phase,        \* running_ and the progress of stop(): "up", "stopping", "down"
  session,      \* sessionSocket_: "none", "open" or "closed" (by stop())
  reading,      \* the read the session waits for
  dataCount,    \* point count of the 'd' whose payload is awaited
  lightEngine,  \* lightEngineState_ (lightEngineFlags_ is set with it)
  playback,     \* playbackState_
  flags,        \* playbackFlags_
  rate,         \* pointRate_
  buffer,       \* pointBuffer_
  rateQueue,    \* pointRateQueue_
  clock,        \* playbackClockValid_: "unset" or "running"
  reported,     \* buffer fullness in the last reply to the client
  sink,         \* "holding" if the target got points since its last reset, else "empty"
  gen           \* history: accepted 'p' commands

engineVars == <<lightEngine, playback, flags, rate, buffer, rateQueue, clock>>
readVars == <<session, reading, dataCount>>
vars == <<phase, readVars, engineVars, reported, sink, gen>>

Init ==
  /\ phase = "up" /\ session = "none" /\ reading = "none" /\ dataCount = 0
  /\ lightEngine = "ready" /\ playback = "idle" /\ flags = {}
  /\ rate = DefaultRate /\ buffer = <<>> /\ rateQueue = <<>> /\ clock = "unset"
  /\ reported = 0 /\ sink = "empty" /\ gen = 0

(* Mistake: the upper limit of a commanded rate is not tested.              *)
ValidRateUnbounded(r) == r > 0

ValidRate(r) == r > 0 /\ r <= MaxRate

(* Mistake: stopping keeps the buffered points.                             *)
StopPlaybackKeepsBuffer ==
  /\ playback' = "idle"
  /\ rateQueue' = <<>> /\ clock' = "unset" /\ UNCHANGED buffer

StopPlaybackLocked ==
  /\ playback' = "idle"
  /\ buffer' = <<>> /\ rateQueue' = <<>> /\ clock' = "unset"

ResetState ==
  /\ StopPlaybackLocked
  /\ lightEngine' = "ready" /\ flags' = {} /\ rate' = DefaultRate

ResetSink == sink' = "empty"

(* Mistake: the status is taken before the command has its effect.          *)
SendResponseEarly == reported' = Len(buffer)

(* The reply ends a command: its status is taken after the effect.  Handler *)
(* and timer share a thread, so nothing comes between the two.              *)
SendResponse == reported' = Len(buffer')
------------------------------------------------------------------------------
(* Sessions: a second connection is closed while one is open.               *)

HandleAccepted ==
  /\ phase = "up" /\ session = "none"
  /\ session' = "open" /\ reading' = "cmd" /\ dataCount' = 0
  /\ ResetState /\ SendResponse
  /\ UNCHANGED <<phase, sink, gen>>

(* Mistake: a lost connection leaves the points it queued with the target.  *)
ClearSessionKeepsSink ==
  /\ phase # "down" /\ session # "none"
  /\ StopPlaybackLocked /\ flags' = flags \ {"shutter"}
  /\ session' = "none" /\ reading' = "none" /\ dataCount' = 0
  /\ UNCHANGED <<phase, lightEngine, rate, reported, sink, gen>>

(* Any read of the session fails: the peer is gone, or stop() closed it.    *)
ClearSession ==
  /\ phase # "down" /\ session # "none"
  /\ StopPlaybackLocked /\ flags' = flags \ {"shutter"}
  /\ ResetSink
  /\ session' = "none" /\ reading' = "none" /\ dataCount' = 0
  /\ UNCHANGED <<phase, lightEngine, rate, reported, gen>>

Awaiting(r) == phase = "up" /\ session = "open" /\ reading = r
Read(from, to) == Awaiting(from) /\ reading' = to /\ UNCHANGED <<session, phase>>
------------------------------------------------------------------------------
(* Commands *)

(* The first byte of a command that has arguments.                          *)
HandleCommand ==
  /\ \E next \in {"begin", "update", "rate", "header"} : Read("cmd", next)
  /\ UNCHANGED <<dataCount, engineVars, reported, sink, gen>>

(* '?' at any time, and the refusals of 'p' and 's', which change nothing.   *)
AnswerOnly ==
  /\ Read("cmd", "cmd")
  /\ UNCHANGED <<dataCount, engineVars, sink, gen>>
  /\ SendResponse

(* Mistake: the rate queue of the run before survives an underflow.         *)
PrepareKeepsRates ==
  /\ Read("cmd", "cmd")
  /\ lightEngine = "ready" /\ playback = "idle" /\ gen < MaxPrepares
  /\ playback' = "prepared"
  /\ buffer' = <<>> /\ clock' = "unset"
  /\ flags' = {}
  /\ gen' = gen + 1
  /\ ResetSink /\ SendResponse
  /\ UNCHANGED <<dataCount, lightEngine, rate, rateQueue>>

HandlePrepare ==
  /\ Read("cmd", "cmd")
  /\ lightEngine = "ready" /\ playback = "idle" /\ gen < MaxPrepares
  /\ playback' = "prepared"
  /\ buffer' = <<>> /\ rateQueue' = <<>> /\ clock' = "unset"
  /\ flags' = {}
  /\ gen' = gen + 1
  /\ ResetSink /\ SendResponse
  /\ UNCHANGED <<dataCount, lightEngine, rate>>

(* 'b' needs a prepared device, 'u' takes any: both need buffered points.   *)
ReadBegin(command) ==
  \E r \in WireRates :
    /\ Read(command, "cmd")
    /\ IF /\ ValidRate(r) /\ lightEngine = "ready"
          /\ command = "update" \/ playback = "prepared"
          /\ buffer # <<>>
         THEN /\ rate' = r /\ playback' = "playing"
              /\ flags' = flags \union {"shutter"} /\ clock' = "unset"
         ELSE UNCHANGED <<rate, playback, flags, clock>>
    /\ UNCHANGED <<dataCount, lightEngine, buffer, rateQueue, sink, gen>>
    /\ SendResponse

(* Mistake: the limit is tested after the push.                             *)
RateChangeOffByOne ==
  \E r \in WireRates :
    /\ Read("rate", "cmd")
    /\ rateQueue' = IF playback # "idle" /\ ValidRate(r) /\ Len(rateQueue) <= MaxRateQueue
                      THEN Append(rateQueue, [rate |-> r, gen |-> gen])
                      ELSE rateQueue
    /\ UNCHANGED <<dataCount, lightEngine, playback, flags, rate, buffer, clock,
                   sink, gen>>
    /\ SendResponse

ReadRateChange ==
  \E r \in WireRates :
    /\ Read("rate", "cmd")
    /\ rateQueue' = IF playback # "idle" /\ ValidRate(r) /\ Len(rateQueue) < MaxRateQueue
                      THEN Append(rateQueue, [rate |-> r, gen |-> gen])
                      ELSE rateQueue
    /\ UNCHANGED <<dataCount, lightEngine, playback, flags, rate, buffer, clock,
                   sink, gen>>
    /\ SendResponse

(* An empty payload is handled at once and adds nothing.                    *)
ReadDataHeader ==
  \E n \in WireCounts :
    /\ Read("header", IF n = 0 THEN "cmd" ELSE "data")
    /\ dataCount' = n
    /\ UNCHANGED <<engineVars, sink, gen>>
    /\ IF n = 0 THEN SendResponse ELSE UNCHANGED reported

(* Mistake: data is taken in the idle state too.                            *)
DataAcceptedWhenIdle(n) == lightEngine = "ready" /\ Len(buffer) + n <= Capacity

DataAccepted(n) ==
  /\ playback # "idle" /\ lightEngine = "ready"
  /\ Len(buffer) + n <= Capacity

ReadDataPayload ==
  \E change \in [1..dataCount -> BOOLEAN] :
    /\ Read("data", "cmd")
    /\ dataCount' = 0
    /\ buffer' = IF DataAccepted(dataCount)
                   THEN buffer \o [i \in 1..dataCount |-> [change |-> change[i], gen |-> gen]]
                   ELSE buffer
    /\ UNCHANGED <<lightEngine, playback, flags, rate, rateQueue, clock, sink, gen>>
    /\ SendResponse

HandleStop ==
  /\ Read("cmd", "cmd")
  /\ playback \in {"prepared", "playing"}
  /\ StopPlaybackLocked /\ flags' = flags \ {"shutter"}
  /\ ResetSink /\ SendResponse
  /\ UNCHANGED <<dataCount, lightEngine, rate, gen>>

HandleClear ==
  /\ Read("cmd", "cmd")
  /\ lightEngine' = "ready"
  /\ flags' = flags \ {"underflow", "estop"}
  /\ IF playback = "idle"
       THEN buffer' = <<>> /\ rateQueue' = <<>> /\ clock' = "unset" /\ ResetSink
       ELSE UNCHANGED <<buffer, rateQueue, clock, sink>>
  /\ UNCHANGED <<dataCount, playback, rate, gen>>
  /\ SendResponse

(* Mistake: the emergency stop stops the device but not the target.         *)
EmergencyStopKeepsSink ==
  /\ Read("cmd", "cmd")
  /\ lightEngine' = "estop"
  /\ StopPlaybackLocked
  /\ flags' = (flags \union {"estop"}) \ {"shutter"} /\ SendResponse
  /\ UNCHANGED <<dataCount, rate, sink, gen>>

(* 0x00, 0xff and every unknown command byte.                               *)
HandleEmergencyStop ==
  /\ Read("cmd", "cmd")
  /\ lightEngine' = "estop"
  /\ StopPlaybackLocked
  /\ flags' = (flags \union {"estop"}) \ {"shutter"}
  /\ ResetSink /\ SendResponse
  /\ UNCHANGED <<dataCount, rate, gen>>
------------------------------------------------------------------------------
(* playbackTick: the first tick after a start or a rate change only sets    *)
(* the clock.  How many points are due depends on elapsed time.             *)

RateChangesIn(n) ==
  LET marked == Cardinality({i \in 1..n : buffer[i].change})
  IN IF marked <= Len(rateQueue) THEN marked ELSE Len(rateQueue)

TickStart ==
  /\ phase = "up" /\ playback = "playing" /\ clock = "unset"
  /\ clock' = "running"
  /\ UNCHANGED <<phase, readVars, lightEngine, playback, flags, rate, buffer, rateQueue,
                 reported, sink, gen>>

(* Mistake: an underflow leaves the shutter flag set.                       *)
FlagsAfterLeavingShutter(starved) ==
  IF starved THEN flags \union {"underflow"} ELSE flags

FlagsAfter(starved) ==
  IF starved THEN (flags \ {"shutter"}) \union {"underflow"} ELSE flags

(* Mistake: an underflow is recorded but playback goes on.                  *)
PlaybackAfterNeverEnds(starved) == "playing"

PlaybackAfter(starved) == IF starved THEN "idle" ELSE "playing"

PlaybackTick ==
  \E due \in 1..MaxDue :
    LET n == IF due <= Len(buffer) THEN due ELSE Len(buffer)
        changes == RateChangesIn(n)
        starved == n < due
    IN /\ phase = "up" /\ playback = "playing" /\ clock = "running"
       /\ buffer' = SubSeq(buffer, n + 1, Len(buffer))
       /\ rateQueue' = SubSeq(rateQueue, changes + 1, Len(rateQueue))
       /\ rate' = IF changes > 0 THEN rateQueue[changes].rate ELSE rate
       /\ clock' = IF changes = 0 /\ ~starved THEN "running" ELSE "unset"
       /\ playback' = PlaybackAfter(starved)
       /\ flags' = FlagsAfter(starved)
       /\ sink' = IF n > 0 THEN "holding" ELSE sink
       /\ UNCHANGED <<phase, readVars, lightEngine, reported, gen>>
------------------------------------------------------------------------------
(* stop(): running_ is cleared and the sockets closed; the io thread may or *)
(* may not see its read fail before io_.stop() and the join.                *)

StopBegin ==
  /\ phase = "up" /\ phase' = "stopping"
  /\ session' = IF session = "open" THEN "closed" ELSE session
  /\ UNCHANGED <<reading, dataCount, engineVars, reported, sink, gen>>

StopJoin ==
  /\ phase = "stopping" /\ phase' = "down"
  /\ reading' = "none" /\ dataCount' = 0
  /\ ResetState
  /\ UNCHANGED <<session, reported, sink, gen>>

Command ==
  \/ HandleCommand \/ AnswerOnly \/ HandlePrepare \/ ReadBegin("begin") \/ ReadBegin("update")
  \/ ReadRateChange \/ ReadDataHeader \/ ReadDataPayload
  \/ HandleStop \/ HandleClear \/ HandleEmergencyStop

Tick == TickStart \/ PlaybackTick

Next == HandleAccepted \/ ClearSession \/ Command \/ Tick \/ StopBegin \/ StopJoin

Spec == Init /\ [][Next]_vars

(* The playback timer is re-armed by its own handler, so it keeps firing.   *)
FairSpec == Spec /\ WF_vars(Tick)
------------------------------------------------------------------------------
Points == [change : BOOLEAN, gen : Nat]
QueuedRates == [rate : 1..MaxRate, gen : Nat]

ScalarsOK ==
  /\ phase \in {"up", "stopping", "down"}
  /\ session \in {"none", "open", "closed"}
  /\ reading \in {"none", "cmd", "begin", "update", "rate", "header", "data"}
  /\ dataCount \in Nat
  /\ lightEngine \in {"ready", "estop"}
  /\ playback \in {"idle", "prepared", "playing"}
  /\ flags \in SUBSET {"shutter", "underflow", "estop"}
  /\ rate \in 1..MaxRate
  /\ clock \in {"unset", "running"} /\ sink \in {"empty", "holding"}
  /\ gen \in Nat

QueuesOK == buffer \in Seq(Points) /\ rateQueue \in Seq(QueuedRates)

(* Every variable holds a value of its type; rates are ones the device may  *)
(* run at, whatever rate a client asked for.                                *)
TypeOK == ScalarsOK /\ QueuesOK /\ reported \in Nat

(* The buffer never exceeds the capacity the device advertises, and the     *)
(* rate queue never exceeds its limit.                                      *)
WithinLimits == Len(buffer) <= Capacity /\ Len(rateQueue) <= MaxRateQueue

(* The status flags a client sees agree with the state machine: the shutter *)
(* is open exactly while playing and the emergency-stop flag is set exactly *)
(* while the light engine is stopped.                                       *)
FlagsMatchState ==
  /\ ("shutter" \in flags) <=> (playback = "playing")
  /\ ("estop" \in flags) <=> (lightEngine = "estop")

(* An emergency stop is final until it is cleared: nothing plays, nothing   *)
(* is buffered and the target holds none of the points sent before it.      *)
EstopIsSafe ==
  lightEngine = "estop" =>
    /\ playback = "idle" /\ buffer = <<>> /\ rateQueue = <<>>
    /\ sink = "empty"

(* An idle device has no points buffered, whichever way it became idle.     *)
IdleHoldsNothing == playback = "idle" => buffer = <<>>

(* The device as a whole: typed, within the capacities it advertises, with  *)
(* flags that agree with its state machine, and empty when idle, under      *)
(* every order of commands and timer ticks.                                 *)
DeviceConsistent == TypeOK /\ WithinLimits /\ FlagsMatchState /\ IdleHoldsNothing

(* What a run plays was sent for that run: no point and no rate change that *)
(* was queued before the last accepted prepare is left, although an         *)
(* underflow does not clear the rate queue.                                 *)
NothingStale ==
  playback # "idle" =>
    /\ \A i \in 1..Len(buffer) : buffer[i].gen = gen
    /\ \A i \in 1..Len(rateQueue) : rateQueue[i].gen = gen

(* While the device is up, a target that holds points of this device while  *)
(* it is not playing got them in a run that ended by underflow, in the      *)
(* session that is still open: stop, emergency stop and disconnect reset it.*)
TargetResetWhenStopped ==
  phase = "up" /\ sink = "holding" /\ playback # "playing" =>
    session = "open" /\ playback = "idle" /\ "underflow" \in flags

(* An idle device never starts playing without a prepare: the 'u' command,  *)
(* which does not test the playback state, cannot revive a stopped device.  *)
PlayNeedsPrepare == [][playback = "idle" => playback' # "playing"]_vars

(* A client that falls silent with its connection open does not leave the   *)
(* shutter open: the buffer runs dry and playback ends.                     *)
SilentClientStopsPlaying ==
  (<>[][~Command]_vars) => <>[](playback # "playing" \/ phase # "up")

(* The room a client computes from its last reply is there: between replies *)
(* the buffer only drains, so points sent within capacity minus the         *)
(* reported fullness are never refused as 'F', buffer full.                 *)
ReportedRoomIsReal == session = "open" => Len(buffer) <= reported

(* What the session and the phase say about each other; with the            *)
(* invariants above it makes an inductive invariant.                        *)
SessionShape ==
  phase = "up" => session # "closed" /\ (session = "none" => playback = "idle")

DeviceInv ==
  /\ WithinLimits /\ FlagsMatchState /\ EstopIsSafe /\ IdleHoldsNothing
  /\ NothingStale /\ TargetResetWhenStopped /\ SessionShape

(* docs/virtual-controller-hosts.md: "Call reset() when your protocol       *)
(* session closes or changes ownership": once the device is down its target *)
(* holds none of the session's points.                                      *)
SessionCloseResetsSink == phase = "down" => sink = "empty"
=============================================================================
