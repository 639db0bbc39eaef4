----------------------------- MODULE TargetQueue -----------------------------
(***************************************************************************)
(* The target sink of libera-link (class LiberaTarget of LinkRuntime.cpp):  *)
(* the bounded queue of laser points between the protocol threads, which    *)
(* submit points, and the controller's callback thread, which drains them.  *)
(*                                                                          *)
(* queueMutex_ protects the queue only.  The mode flags buffering_ and      *)
(* frameReplacementMode_, the point rate and the latency are atomics that   *)
(* are written outside it, so every submission, every reset and every fill  *)
(* is split at the places where another thread can run in between.          *)
(*                                                                          *)
(* Units.  MinPoints stands for the constant 1000 of the code, one latency  *)
(* unit for 50 ms and a rate is in points per latency unit, so that         *)
(* rate * latency is the number of points the latency is worth.             *)
(***************************************************************************)
EXTENDS Integers, Sequences, FiniteSets

CONSTANTS
  Submitters,       \* threads that call the sink
  Slices,           \* what a submission may hold: sequences of lit flags
  Rates,            \* commanded rates, 0 when the client commands none
  MinRate,          \* lower clamp of a commanded rate (1000 pps)
  MaxRate,          \* maxPointRateValue_
  StartRate,        \* initial currentPointRate_
  HwRate,           \* what an AVB controller runs at whatever it is told
  Avb,              \* is this an AVB target?
  MinPoints,        \* the constant 1000 of the buffer arithmetic
  MaxQueuedPoints,  \* maxQueuedPoints_
  StartLatency,     \* latencyMs_ at construction
  MaxLatency,       \* maxLatencyMs_
  LatencyStep,      \* the 10 ms minimum step of auto-latency
  UnderrunFloor,    \* the 100 points minimum threshold of auto-latency
  AutoLatency,      \* autoLatency_
  IdleLimit,        \* ticks without input after which the source is idle
  SampleWindow,     \* ticks the underrun accumulator survives without a sample
  Cooldown,         \* ticks between two latency increases
  Requests,         \* fill requests the controller may make
  MaxDownstream,    \* bound on the controller's own buffer
  MaxReceived,      \* bound on the points submitted in a behaviour
  AccumulatorCap    \* saturation of the underrun accumulator

ASSUME SubmissionAssumption ==
  /\ Slices \subseteq (Seq(BOOLEAN) \ {<<>>})
  /\ MaxReceived \in Nat
  /\ "fill" \notin Submitters /\ "free" \notin Submitters

ASSUME RateAssumption ==
  /\ MinRate \in Nat \ {0} /\ MaxRate \in Nat /\ MinRate <= MaxRate
  /\ Rates \subseteq Nat
  /\ StartRate \in Nat /\ HwRate \in Nat
  /\ Avb \in BOOLEAN

ASSUME BufferAssumption ==
  /\ MinPoints \in Nat \ {0}
  /\ MaxQueuedPoints \in Nat /\ MinPoints <= MaxQueuedPoints
  /\ MaxDownstream \in Nat
  /\ \A r \in Requests : r.min \in Nat /\ r.max \in Nat \ {0} /\ r.min <= r.max
                         /\ r.short \in BOOLEAN

ASSUME LatencyAssumption ==
  /\ StartLatency \in Nat /\ MaxLatency \in Nat /\ StartLatency <= MaxLatency
  /\ LatencyStep \in Nat /\ UnderrunFloor \in Nat
  /\ AutoLatency \in BOOLEAN
  /\ IdleLimit \in Nat /\ SampleWindow \in Nat /\ Cooldown \in Nat
  /\ AccumulatorCap \in Nat

VARIABLES
  pending,        \* pendingPoints_
  frameMode,      \* frameReplacementMode_
  buffering,      \* buffering_
  hasSeenInput,   \* hasSeenInput_
  rate,           \* currentPointRate_
  latency,        \* latencyMs_
  accumulator,    \* latencyUnderrunAccumulator_
  observed,       \* lastObservedDownstreamBufferedPoints_
  received,       \* receivedPoints_
  emitted,        \* emittedPoints_
  dropped,        \* droppedPoints_
  sinceInput,     \* age of lastInputAt_, saturating
  sinceSample,    \* age of lastLatencyUnderrunSample_, saturating
  sinceIncrease,  \* age of lastLatencyIncrease_, saturating
  mutex,          \* holder of queueMutex_, or "free"
  pc, op,         \* each submitter's position and local variables
  fpc, fill,      \* the callback's position and local variables
  \* history, read by properties only
  admitted,       \* points ever placed in the queue; numbers them in order
  superseded,     \* highest number handed out, dropped, cleared or replaced
  lastFill,       \* what the last completed fill handed out
  lastKind        \* kind of the last submission to take the lock

flagVars == <<frameMode, buffering>>
rateVars == <<rate, latency, accumulator>>
clockVars == <<sinceInput, sinceSample, sinceIncrease>>
countVars == <<received, emitted, dropped>>
queueVars == <<pending, hasSeenInput, admitted, superseded, lastKind>>
fillVars == <<fpc, fill, lastFill>>
vars == <<queueVars, flagVars, rateVars, clockVars, countVars, observed,
          mutex, pc, op, fillVars>>

Larger(a, b) == IF a >= b THEN a ELSE b
Smaller(a, b) == IF a <= b THEN a ELSE b
Clamp(x, lo, hi) == IF x < lo THEN lo ELSE IF x > hi THEN hi ELSE x

NoOp == [flags |-> <<>>, limit |-> 0, down |-> 0, command |-> 0,
         result |-> [accepted |-> FALSE, submitted |-> 0, dropped |-> 0, acceptedPoints |-> 0]]
NoFill == [min |-> 0, max |-> 0, short |-> FALSE, down |-> 0,
           frame |-> FALSE, target |-> 0]
NoneYet == [len |-> 0, real |-> 0, min |-> 0, short |-> FALSE, held |-> FALSE]
------------------------------------------------------------------------------
(* Buffer arithmetic.                                                       *)

(* Mistake: the target is not capped below the queue bound.                 *)
TargetUncapped(r, l) == Larger(r * l, MinPoints)

TargetBufferedPointsAt(r, l) ==
  Clamp(r * l, MinPoints, Larger(MinPoints, MaxQueuedPoints - 1))

(* Mistake: the live limit is not clamped to the queue bound.               *)
LiveLimitUnclamped(r, l, multiplier, windowUnits) ==
  Larger(TargetBufferedPointsAt(r, l) * multiplier, r * windowUnits)

LivePointLimitAt(r, l, multiplier, windowUnits) ==
  LET target == TargetBufferedPointsAt(r, l)
      minimum == IF r > 0 THEN r * windowUnits ELSE 3 * MinPoints
      window == IF target > MaxQueuedPoints \div multiplier
                  THEN MaxQueuedPoints ELSE target * multiplier
  IN Clamp(Larger(window, minimum), MinPoints, MaxQueuedPoints)

LiveContinuousPointLimitAt(r, l) == LivePointLimitAt(r, l, 2, 2)
LiveReplacementPointLimitAt(r, l) == LivePointLimitAt(r, l, 1, 1)

(* Where a drop of at least want points ends: the first lit point behind    *)
(* two or more blank ones, else exactly want points.                        *)
FrameStarts(q, want) ==
  {i \in Larger(want, 1)..(Len(q) - 1) :
     q[i + 1].lit /\ ~q[i].lit /\ i >= 2 /\ ~q[i - 1].lit}

(* Mistake: the whole queue is dropped when it holds no frame start.        *)
BoundaryDropAll(q, want) ==
  LET starts == FrameStarts(q, want)
  IN IF starts = {} THEN Len(q)
     ELSE CHOOSE i \in starts : \A j \in starts : i <= j

BoundaryDrop(q, want) ==
  LET starts == FrameStarts(q, want)
  IN IF starts = {} THEN want
     ELSE CHOOSE i \in starts : \A j \in starts : i <= j

DropFront(q, k) == SubSeq(q, k + 1, Len(q))

(* The points a submission adds behind q: numbered on from admitted.        *)
Numbered(flags) ==
  [i \in 1..Len(flags) |-> [n |-> admitted + i, lit |-> flags[i]]]

(* Mistake: more points may be dropped than were submitted.                 *)
ResultUnderflow(accepted, submitted, drops) ==
  [accepted |-> accepted, submitted |-> submitted, dropped |-> drops,
   acceptedPoints |-> IF accepted THEN submitted - drops ELSE 0]

(* Mistake: the points a submission pushed out are not subtracted.          *)
ResultIgnoresDrops(accepted, submitted, drops) ==
  [accepted |-> accepted, submitted |-> submitted, dropped |-> drops,
   acceptedPoints |-> IF accepted THEN submitted ELSE 0]

MakeSubmissionResult(accepted, submitted, drops) ==
  [accepted |-> accepted, submitted |-> submitted, dropped |-> drops,
   acceptedPoints |-> IF accepted THEN submitted - Smaller(submitted, drops) ELSE 0]
------------------------------------------------------------------------------
Init ==
  /\ pending = <<>> /\ hasSeenInput = FALSE /\ admitted = 0 /\ superseded = 0
  /\ lastKind = "none"
  /\ frameMode = FALSE /\ buffering = TRUE
  /\ rate = IF Avb THEN Larger(HwRate, MinRate) ELSE Larger(StartRate, MinRate)
  /\ latency = StartLatency /\ accumulator = 0
  /\ observed = 0
  /\ received = 0 /\ emitted = 0 /\ dropped = 0
  /\ sinceInput = IdleLimit
  /\ sinceSample = SampleWindow + 1 /\ sinceIncrease = Cooldown
  /\ mutex = "free"
  /\ pc = [s \in Submitters |-> "idle"] /\ op = [s \in Submitters |-> NoOp]
  /\ fpc = "idle" /\ fill = NoFill
  /\ lastFill = NoneYet

Goto(s, from, to) == pc[s] = from /\ pc' = [pc EXCEPT ![s] = to]

(* maybeUpdatePointRate: a command of 0 is ignored, and an AVB controller   *)
(* keeps the rate of its audio interface.                                   *)
MaybeUpdatePointRate(command) ==
  rate' = IF command = 0 THEN rate
          ELSE LET proposed == Clamp(command, MinRate, MaxRate)
               IN IF proposed = rate THEN rate
                  ELSE IF Avb THEN HwRate ELSE proposed

(* downstreamBufferSnapshot(true): the controller's own level, external.    *)
DownstreamBufferSnapshot == observed' \in 0..MaxDownstream
------------------------------------------------------------------------------
(* submitContinuous *)

(* Mistake: slices are counted where points should be.                      *)
CountsSlices(s) ==
  \E flags \in Slices, command \in Rates :
    /\ received + Len(flags) <= MaxReceived
    /\ Goto(s, "idle", "contLimit")
    /\ frameMode' = FALSE
    /\ received' = received + 1
    /\ op' = [op EXCEPT ![s] = [NoOp EXCEPT !.flags = flags, !.command = command]]
    /\ UNCHANGED <<queueVars, buffering, rateVars, clockVars, emitted, dropped,
                   observed, mutex, fillVars>>

SubmitContinuousBegin(s) ==
  \E flags \in Slices, command \in Rates :
    /\ received + Len(flags) <= MaxReceived
    /\ Goto(s, "idle", "contLimit")
    /\ frameMode' = FALSE
    /\ received' = received + Len(flags)
    /\ op' = [op EXCEPT ![s] = [NoOp EXCEPT !.flags = flags, !.command = command]]
    /\ UNCHANGED <<queueVars, buffering, rateVars, clockVars, emitted, dropped,
                   observed, mutex, fillVars>>

SubmitContinuousLimit(s) ==
  /\ Goto(s, "contLimit", "contLock")
  /\ MaybeUpdatePointRate(op[s].command)
  /\ DownstreamBufferSnapshot
  /\ op' = [op EXCEPT ![s].limit = LiveContinuousPointLimitAt(rate', latency)]
  /\ UNCHANGED <<queueVars, flagVars, latency, accumulator, clockVars, countVars,
                 mutex, fillVars>>

SubmitContinuousLock(s) ==
  LET queue == pending \o Numbered(op[s].flags)
      excess == Len(queue) - op[s].limit
      drops == IF excess > 0 THEN BoundaryDrop(queue, excess) ELSE 0
      n == Len(op[s].flags)
  IN /\ mutex = "free"
     /\ Goto(s, "contLock", "return")
     /\ hasSeenInput' = TRUE /\ sinceInput' = 0
     /\ pending' = DropFront(queue, drops)
     /\ dropped' = dropped + drops
     /\ admitted' = admitted + n /\ lastKind' = "continuous"
     /\ superseded' = IF drops > 0 THEN queue[drops].n ELSE superseded
     /\ op' = [op EXCEPT ![s].result = MakeSubmissionResult(TRUE, n, drops)]
     /\ UNCHANGED <<flagVars, rateVars, sinceSample, sinceIncrease, received, emitted,
                    observed, mutex, fillVars>>
------------------------------------------------------------------------------
(* replaceFrame *)

(* The frame is cut to the live limit before anything else happens.         *)
ReplaceFrameBegin(s) ==
  \E flags \in Slices, command \in Rates :
    /\ received + Len(flags) <= MaxReceived
    /\ Goto(s, "idle", "replMode")
    /\ op' = [op EXCEPT ![s] = [NoOp EXCEPT !.flags = flags, !.command = command,
                !.limit = LiveReplacementPointLimitAt(rate, latency)]]
    /\ UNCHANGED <<queueVars, flagVars, rateVars, clockVars, countVars,
                   observed, mutex, fillVars>>

ReplaceFrameMode(s) ==
  /\ received + Len(op[s].flags) <= MaxReceived
  /\ Goto(s, "replMode", "replLock")
  /\ frameMode' = TRUE /\ buffering' = FALSE
  /\ received' = received + Len(op[s].flags)
  /\ DownstreamBufferSnapshot
  /\ op' = [op EXCEPT ![s].down = observed']
  /\ UNCHANGED <<queueVars, rateVars, clockVars, emitted, dropped, mutex, fillVars>>

ReplaceFrameLock(s) ==
  LET n == Len(op[s].flags)
      cut == Smaller(n, op[s].limit)
      frame == Numbered(SubSeq(op[s].flags, 1, cut))
      drops == Smaller(cut, Larger(0, cut + op[s].down - MaxQueuedPoints))
  IN /\ mutex = "free"
     /\ Goto(s, "replLock", "replRate")
     /\ hasSeenInput' = TRUE /\ sinceInput' = 0
     /\ pending' = DropFront(frame, drops)
     /\ dropped' = dropped + drops
     /\ admitted' = admitted + cut /\ lastKind' = "replace"
     /\ superseded' = admitted + drops
     /\ op' = [op EXCEPT ![s].result = MakeSubmissionResult(TRUE, n, drops)]
     /\ UNCHANGED <<flagVars, rateVars, sinceSample, sinceIncrease, received, emitted,
                    observed, mutex, fillVars>>

ReplaceFrameRate(s) ==
  /\ Goto(s, "replRate", "return")
  /\ MaybeUpdatePointRate(op[s].command)
  /\ UNCHANGED <<queueVars, flagVars, latency, accumulator, clockVars, countVars,
                 observed, mutex, op, fillVars>>
------------------------------------------------------------------------------
(* submitFrame hands the points to the controller's frame queue.            *)

SubmitFrameBegin(s) ==
  \E flags \in Slices, command \in Rates :
    /\ received + Len(flags) <= MaxReceived
    /\ Goto(s, "idle", "frameLock")
    /\ frameMode' = FALSE /\ buffering' = FALSE
    /\ received' = received + Len(flags)
    /\ MaybeUpdatePointRate(command)
    /\ op' = [op EXCEPT ![s] = [NoOp EXCEPT !.flags = flags]]
    /\ UNCHANGED <<queueVars, latency, accumulator, clockVars, emitted, dropped,
                   observed, mutex, fillVars>>

SubmitFrameLock(s) ==
  /\ mutex = "free"
  /\ Goto(s, "frameLock", "frameSend")
  /\ pending' = <<>> /\ superseded' = admitted /\ lastKind' = "frame"
  /\ hasSeenInput' = TRUE /\ sinceInput' = 0
  /\ UNCHANGED <<flagVars, rateVars, sinceSample, sinceIncrease, countVars, admitted,
                 observed, mutex, op, fillVars>>

SubmitFrameSend(s) ==
  \E accepted \in BOOLEAN :
    LET n == Len(op[s].flags)
        drops == IF accepted THEN 0 ELSE n
    IN /\ Goto(s, "frameSend", "return")
       /\ dropped' = dropped + drops
       /\ op' = [op EXCEPT ![s].result = MakeSubmissionResult(accepted, n, drops)]
       /\ UNCHANGED <<queueVars, flagVars, rateVars, clockVars, received, emitted,
                      observed, mutex, fillVars>>

(* makeSubmissionResult ends by taking a status snapshot.                   *)
Return(s) ==
  /\ Goto(s, "return", "idle")
  /\ DownstreamBufferSnapshot
  /\ op' = [op EXCEPT ![s] = NoOp]
  /\ UNCHANGED <<queueVars, flagVars, rateVars, clockVars, countVars, mutex, fillVars>>
------------------------------------------------------------------------------
(* reset: the queue under the lock, the flags and the controller after it.  *)

(* Mistake: reset forgets the queued points.                                *)
ResetKeepsQueue(s) ==
  /\ mutex = "free"
  /\ Goto(s, "idle", "resetFlags")
  /\ superseded' = admitted /\ lastKind' = "none"
  /\ hasSeenInput' = FALSE /\ sinceInput' = IdleLimit
  /\ UNCHANGED <<pending, flagVars, rateVars, sinceSample, sinceIncrease, countVars,
                 admitted, observed, mutex, op, fillVars>>

ResetLock(s) ==
  /\ mutex = "free"
  /\ Goto(s, "idle", "resetFlags")
  /\ pending' = <<>> /\ superseded' = admitted /\ lastKind' = "none"
  /\ hasSeenInput' = FALSE /\ sinceInput' = IdleLimit
  /\ UNCHANGED <<flagVars, rateVars, sinceSample, sinceIncrease, countVars, admitted,
                 observed, mutex, op, fillVars>>

ResetFlags(s) ==
  /\ Goto(s, "resetFlags", "idle")
  /\ buffering' = TRUE /\ frameMode' = FALSE
  /\ observed' = 0 /\ lastKind' = "none"
  /\ UNCHANGED <<pending, hasSeenInput, admitted, superseded, rateVars, clockVars, countVars, mutex, op, fillVars>>
------------------------------------------------------------------------------
(* fillFromQueue *)

FillRequest ==
  \E r \in Requests :
    /\ fpc = "idle" /\ fpc' = "lock"
    /\ fill' = [NoFill EXCEPT !.min = r.min, !.max = r.max, !.short = r.short,
                              !.down = observed]
    /\ lastFill' = NoneYet
    /\ UNCHANGED <<queueVars, flagVars, rateVars, clockVars, countVars, observed,
                   mutex, pc, op>>

FillLock ==
  /\ fpc = "lock" /\ fpc' = "check"
  /\ mutex = "free" /\ mutex' = "fill"
  /\ fill' = [fill EXCEPT !.target = TargetBufferedPointsAt(rate, latency),
                          !.frame = frameMode]
  /\ UNCHANGED <<queueVars, flagVars, rateVars, clockVars, countVars, observed,
                 pc, op, lastFill>>

SourceIdle == ~hasSeenInput \/ (pending = <<>> /\ sinceInput >= IdleLimit)
AllowShortRead == fill.short /\ ~SourceIdle
MustHold ==
  /\ ~fill.frame /\ ~AllowShortRead /\ buffering
  /\ Len(pending) + fill.down < fill.target

(* Still pre-buffering: nothing but blanks is handed out.                   *)
FillHold ==
  /\ fpc = "check" /\ fpc' = "idle" /\ MustHold
  /\ mutex' = "free" /\ fill' = NoFill
  /\ lastFill' = [len |-> fill.min, real |-> 0, min |-> fill.min, short |-> FALSE, held |-> TRUE]
  /\ UNCHANGED <<queueVars, flagVars, rateVars, clockVars, countVars, observed, pc, op>>

FillProceed ==
  /\ fpc = "check" /\ fpc' = "drain" /\ ~MustHold
  /\ fill' = [fill EXCEPT !.short = AllowShortRead]
  /\ UNCHANGED <<queueVars, flagVars, rateVars, clockVars, countVars, observed,
                 mutex, pc, op, lastFill>>

(* maybeIncreaseLatencyOnUnderrun *)
NextAccumulator(missing) ==
  Smaller(AccumulatorCap,
          missing + IF sinceSample > SampleWindow THEN 0 ELSE accumulator)

MaybeIncreaseLatencyOnUnderrun(missing) ==
  LET sum == NextAccumulator(missing)
      threshold == Larger(fill.min \div 2, Larger(UnderrunFloor, fill.target \div 3))
  IN IF ~AutoLatency
       THEN UNCHANGED <<latency, accumulator, sinceSample, sinceIncrease>>
     ELSE /\ sinceSample' = 0
          /\ IF sinceIncrease < Cooldown \/ sum < threshold
               THEN accumulator' = sum /\ UNCHANGED <<latency, sinceIncrease>>
             ELSE /\ accumulator' = 0
                  /\ IF latency >= MaxLatency
                       THEN UNCHANGED <<latency, sinceIncrease>>
                     ELSE /\ latency' = Smaller(MaxLatency,
                                          latency + Larger(LatencyStep, latency \div 10))
                          /\ sinceIncrease' = 0

(* Mistakes: frames are not padded; a short read does not re-arm.           *)
UnderrunSkipsFrames(missing) == missing > 0 /\ ~fill.short /\ ~fill.frame
RearmSkipsShortReads(missing) == missing > 0 /\ ~fill.frame /\ ~fill.short

Underrun(missing) == missing > 0 /\ ~fill.short
RearmBuffering(missing) == missing > 0 /\ ~fill.frame

FillDrain ==
  LET n == Smaller(fill.max, Len(pending))
      missing == fill.min - n
  IN /\ fpc = "drain" /\ fpc' = "idle"
     /\ mutex' = "free" /\ fill' = NoFill
     /\ pending' = DropFront(pending, n)
     /\ superseded' = IF n > 0 THEN pending[n].n ELSE superseded
     /\ emitted' = emitted + n
     /\ buffering' = RearmBuffering(missing)
     /\ IF Underrun(missing) /\ ~fill.frame
          THEN MaybeIncreaseLatencyOnUnderrun(missing)
          ELSE UNCHANGED <<latency, accumulator, sinceSample, sinceIncrease>>
     /\ lastFill' = [len |-> IF Underrun(missing) THEN fill.min ELSE n, real |-> n,
                     min |-> fill.min, short |-> fill.short, held |-> FALSE]
     /\ UNCHANGED <<hasSeenInput, admitted, lastKind, frameMode, rate, sinceInput, received,
                    dropped, observed, pc, op>>
------------------------------------------------------------------------------
(* The monitor and the GUI read statistics, which refreshes the snapshot.   *)
GetStatsSnapshot ==
  /\ DownstreamBufferSnapshot
  /\ UNCHANGED <<queueVars, flagVars, rateVars, clockVars, countVars, mutex, pc, op, fillVars>>

(* Time passes; ages saturate where the code can no longer tell them apart. *)
Tick ==
  /\ sinceInput' = Smaller(IdleLimit, sinceInput + 1)
  /\ sinceSample' = Smaller(SampleWindow + 1, sinceSample + 1)
  /\ sinceIncrease' = Smaller(Cooldown, sinceIncrease + 1)
  /\ UNCHANGED <<queueVars, flagVars, rateVars, countVars, observed, mutex, pc, op, fillVars>>

SubmitContinuous(s) ==
  SubmitContinuousBegin(s) \/ SubmitContinuousLimit(s) \/ SubmitContinuousLock(s)
ReplaceFrame(s) ==
  ReplaceFrameBegin(s) \/ ReplaceFrameMode(s) \/ ReplaceFrameLock(s) \/ ReplaceFrameRate(s)
SubmitFrame(s) == SubmitFrameBegin(s) \/ SubmitFrameLock(s) \/ SubmitFrameSend(s)
Reset(s) == ResetLock(s) \/ ResetFlags(s)
FillFromQueue == FillRequest \/ FillLock \/ FillHold \/ FillProceed \/ FillDrain

Next ==
  \/ \E s \in Submitters : SubmitContinuous(s) \/ ReplaceFrame(s) \/ SubmitFrame(s)
                           \/ Return(s) \/ Reset(s)
  \/ FillFromQueue
  \/ GetStatsSnapshot
  \/ Tick

Spec == Init /\ [][Next]_vars

(* The controller keeps asking for points and a fill never blocks once it   *)
(* has the lock; nothing is assumed of the clients.                         *)
FairSpec == Spec /\ WF_vars(FillRequest \/ FillHold \/ FillProceed \/ FillDrain)
                 /\ SF_vars(FillLock)
------------------------------------------------------------------------------
Points == [n : Nat, lit : BOOLEAN]
Results == [accepted : BOOLEAN, submitted : Nat, dropped : Nat, acceptedPoints : Nat]
Operations == [flags : Seq(BOOLEAN), limit : 0..MaxQueuedPoints, down : Nat,
               command : Nat, result : Results]
Fills == [min : Nat, max : Nat, short : BOOLEAN, down : Nat, frame : BOOLEAN, target : Nat]

(* Every variable holds a value of the type its C++ member has.             *)
TypeOK ==
  /\ pending \in Seq(Points)
  /\ frameMode \in BOOLEAN /\ buffering \in BOOLEAN /\ hasSeenInput \in BOOLEAN
  /\ rate \in Nat /\ latency \in StartLatency..MaxLatency /\ accumulator \in Nat
  /\ observed \in Nat
  /\ received \in Nat /\ emitted \in Nat /\ dropped \in Nat
  /\ sinceInput \in 0..IdleLimit /\ sinceSample \in 0..(SampleWindow + 1)
  /\ sinceIncrease \in 0..Cooldown
  /\ mutex \in {"free", "fill"}
  /\ pc \in [Submitters -> {"idle", "contLimit", "contLock", "replMode", "replLock",
                            "replRate", "frameLock", "frameSend", "return", "resetFlags"}]
  /\ op \in [Submitters -> Operations]
  /\ fpc \in {"idle", "lock", "check", "drain"}
  /\ fill \in Fills
  /\ admitted \in Nat /\ superseded \in Nat
  /\ lastFill \in [len : Nat, real : Nat, min : Nat, short : BOOLEAN, held : BOOLEAN]
  /\ lastKind \in {"none", "continuous", "replace", "frame"}

(* Whatever the clients send and however the callback interleaves, the      *)
(* local queue never exceeds maxQueuedPoints_: the limit a continuous       *)
(* submission drops against, computed before the lock, and the cut of a     *)
(* replacement frame are enough.                                            *)
QueueBounded == Len(pending) <= MaxQueuedPoints

(* The queue is always exactly the newest points admitted, in order and     *)
(* without a gap: no point that was handed out, dropped, replaced or        *)
(* cleared by a reset is ever in the queue again, and none overtakes one    *)
(* admitted before it.                                                      *)
QueueIsNewestSuffix ==
  /\ admitted = superseded + Len(pending)
  /\ \A i \in 1..Len(pending) : pending[i].n = superseded + i

(* The telemetry never claims more points than clients sent: points handed  *)
(* out, points counted as dropped and points still queued are different     *)
(* received points, also when a drop evicts older points than the ones just *)
(* submitted.                                                               *)
CountersConsistent == emitted + dropped + Len(pending) <= received

(* A submission reports no more points as accepted than it left in the      *)
(* queue, although a drop at a frame boundary may evict its own points and  *)
(* older ones.  The one exception is the tail that replaceFrame() cuts off  *)
(* a frame longer than the live limit: it is never counted as dropped.      *)
CutOff(s) == IF pc[s] = "replLock" THEN Larger(0, Len(op[s].flags) - op[s].limit) ELSE 0
AcceptedPointsAreQueued ==
  [][\A s \in Submitters :
       pc[s] \in {"contLock", "replLock"} /\ pc'[s] # pc[s] =>
         op'[s].result.acceptedPoints <= Len(pending') + CutOff(s)]_vars

(* A fill hands out at least what the controller asked for, padded with     *)
(* blanks, except when the controller allowed a short read and the source   *)
(* is not idle; while it is pre-buffering it hands out blanks only.         *)
FillMeetsRequest ==
  /\ lastFill.len >= lastFill.min \/ lastFill.short
  /\ lastFill.held => lastFill.real = 0

(* The sink as a whole: its variables keep their types, the telemetry adds  *)
(* up and every fill is served, in whatever order submissions, resets and   *)
(* fills run.                                                               *)
SinkConsistent == TypeOK /\ CountersConsistent /\ FillMeetsRequest

(* The pre-buffering hold can always be left: the number of points it waits *)
(* for fits below the limit that continuous submissions are dropped         *)
(* against, for the rate and the latency reached at any time.               *)
HoldCanEnd ==
  /\ TargetBufferedPointsAt(rate, latency) <= LiveContinuousPointLimitAt(rate, latency)
  /\ fill.target <= MaxQueuedPoints

(* A starved continuous stream is pre-buffered again: with the queue empty  *)
(* outside frame mode, buffering_ is set again unless points or a frame     *)
(* arrive first, although reset() and submitFrame() write the flag without  *)
(* the lock while a fill is deciding.                                       *)
StarvationRearms ==
  (pending = <<>> /\ ~frameMode) ~> (buffering \/ pending # <<>> \/ frameMode)

(* Submissions, resets and fills are atomic although each of them is many   *)
(* steps: a call takes effect in its critical section, with the limit it    *)
(* computed before, and whatever the other threads have done in between the *)
(* queue is what some order of complete calls leaves.                       *)
Called(s) ==
  CASE pc[s] \in {"contLimit", "contLock"} -> [kind |-> "continuous", points |-> op[s].flags]
    [] pc[s] \in {"replMode", "replLock"} -> [kind |-> "replace", points |-> op[s].flags]
    [] pc[s] = "frameLock" -> [kind |-> "frame", points |-> op[s].flags]
    [] pc[s] = "idle" -> [kind |-> "none", points |-> <<>>]
    [] OTHER -> [kind |-> "served", points |-> <<>>]
Calls == [s \in Submitters |-> Called(s)]
Atomic == INSTANCE AtomicSink WITH
            Callers <- Submitters, Payloads <- Slices, Floor <- MinPoints, Capacity <- MaxQueuedPoints,
            queue <- pending, handed <- emitted, called <- Calls
ImplementsAtomicSink == Atomic!Spec

(* docs/virtual-controller-hosts.md: "Submissions to the same target are    *)
(* serialized internally by the target sink".  If they were, the mode the   *)
(* fill sees between submissions would be the mode of the last one queued.  *)
SubmissionsSerialized ==
  (\A s \in Submitters : pc[s] = "idle") /\ lastKind # "none"
    => frameMode = (lastKind = "replace")

(* docs/virtual-controller-hosts.md: "Use submitFrame() when the protocol   *)
(* sends complete frames that should be appended or scheduled without       *)
(* clearing pending target data".  If they were, the critical section of    *)
(* submitFrame would leave the queue as it found it.                        *)
FramesKeepPending ==
  [][\A s \in Submitters : pc[s] = "frameLock" /\ pc'[s] # pc[s] => pending' = pending]_vars
=============================================================================
