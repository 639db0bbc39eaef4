-------------------------- MODULE TargetQueueProofs --------------------------
(* Proofs about TargetQueue, for every number of submitting threads, every  *)
(* slice, request and limit: the queue bound, the order of its points, the  *)
(* types, the telemetry, the answers to fills and to submissions, and that  *)
(* the sink implements AtomicSink.                                          *)
EXTENDS TargetQueue, SequenceTheorems, FiniteSetTheorems, WellFoundedInduction, TLAPS
------------------------------------------------------------------------------
(* Buffer arithmetic *)

(* Clamping to a non-empty interval lands in it.                            *)
LEMMA ClampRange ==
  ASSUME NEW x \in Int, NEW lo \in Int, NEW hi \in Int, lo <= hi
  PROVE  Clamp(x, lo, hi) \in lo..hi
BY DEF Clamp

(* The points pre-buffering waits for: at least one and never more than the *)
(* queue may hold.                                                          *)
LEMMA TargetRange ==
  ASSUME NEW r \in Nat, NEW l \in Nat
  PROVE  TargetBufferedPointsAt(r, l) \in MinPoints..MaxQueuedPoints
<1> DEFINE worth == r * l
           cap == Larger(MinPoints, MaxQueuedPoints - 1)
<1>1. worth \in Int
  OBVIOUS
<1>2. cap \in MinPoints..MaxQueuedPoints
  BY BufferAssumption DEF Larger
<1>3. TargetBufferedPointsAt(r, l) = Clamp(worth, MinPoints, cap)
  BY DEF TargetBufferedPointsAt
<1> HIDE DEF worth, cap
<1> QED
  BY <1>1, <1>2, <1>3, BufferAssumption DEF Clamp

(* The live limit of continuous submissions is within the queue bound and   *)
(* leaves room for the points pre-buffering waits for.                      *)
LEMMA ContinuousLimitRange ==
  ASSUME NEW r \in Nat, NEW l \in Nat
  PROVE  /\ LiveContinuousPointLimitAt(r, l) \in MinPoints..MaxQueuedPoints
         /\ TargetBufferedPointsAt(r, l) <= LiveContinuousPointLimitAt(r, l)
<1> DEFINE t == TargetBufferedPointsAt(r, l)
           m == IF r > 0 THEN r * 2 ELSE 3 * MinPoints
           w == IF t > MaxQueuedPoints \div 2 THEN MaxQueuedPoints ELSE t * 2
<1>1. t \in MinPoints..MaxQueuedPoints
  BY TargetRange
<1>2. m \in Int
  BY BufferAssumption
<1> HIDE DEF t, m
<1>3. w \in t..MaxQueuedPoints
  BY <1>1, BufferAssumption
<1> HIDE DEF w
<1>4. LiveContinuousPointLimitAt(r, l) = Clamp(Larger(w, m), MinPoints, MaxQueuedPoints)
  BY DEF LiveContinuousPointLimitAt, LivePointLimitAt, t, m, w
<1> QED
  BY <1>1, <1>2, <1>3, <1>4, BufferAssumption DEF Clamp, Larger, t

(* The cut of a replacement frame is within the queue bound.                *)
LEMMA ReplacementLimitRange ==
  ASSUME NEW r \in Nat, NEW l \in Nat
  PROVE  LiveReplacementPointLimitAt(r, l) \in MinPoints..MaxQueuedPoints
<1> DEFINE t == TargetBufferedPointsAt(r, l)
           m == IF r > 0 THEN r * 1 ELSE 3 * MinPoints
           w == IF t > MaxQueuedPoints \div 1 THEN MaxQueuedPoints ELSE t * 1
<1>1. t \in MinPoints..MaxQueuedPoints
  BY TargetRange
<1>2. m \in Int
  BY BufferAssumption
<1> HIDE DEF t, m
<1>3. w \in Int
  BY <1>1, BufferAssumption
<1> HIDE DEF w
<1>4. LiveReplacementPointLimitAt(r, l) = Clamp(Larger(w, m), MinPoints, MaxQueuedPoints)
  BY DEF LiveReplacementPointLimitAt, LivePointLimitAt, t, m, w
<1> QED
  BY <1>1, <1>2, <1>3, <1>4, BufferAssumption DEF Clamp, Larger
------------------------------------------------------------------------------
(* Sequences of numbered points *)

(* q holds the points numbered lo + 1 to hi, in order.                      *)
Holds(q, lo, hi) ==
  /\ q \in Seq(Points)
  /\ hi = lo + Len(q)
  /\ \A i \in 1..Len(q) : q[i].n = lo + i

(* Taking d points off the front keeps the order and the newest point.      *)
LEMMA DropFrontHolds ==
  ASSUME NEW q, NEW lo \in Nat, NEW hi \in Nat, Holds(q, lo, hi), NEW d \in 0..Len(q)
  PROVE  /\ Holds(DropFront(q, d), lo + d, hi)
         /\ Len(DropFront(q, d)) = Len(q) - d
         /\ d > 0 => q[d].n = lo + d
<1> DEFINE r == DropFront(q, d)
<1>1. q \in Seq(Points) /\ Len(q) \in Nat
  BY DEF Holds
<1>2. \A i \in (d + 1)..Len(q) : q[i] \in Points
  BY <1>1, ElementOfSeq
<1>3. /\ r \in Seq(Points)
      /\ Len(r) = Len(q) - d
      /\ \A i \in 1..(Len(q) - d) : r[i] = q[d + i]
  BY <1>1, <1>2, SubSeqProperties DEF DropFront
<1> HIDE DEF r
<1>4. ASSUME NEW i \in 1..Len(r) PROVE r[i].n = (lo + d) + i
  <2>1. d + i \in 1..Len(q) /\ r[i] = q[d + i]
    BY <1>1, <1>3
  <2>2. q[d + i].n = lo + (d + i)
    BY <2>1 DEF Holds
  <2> QED
    BY <2>1, <2>2
<1> QED
  BY <1>1, <1>3, <1>4 DEF Holds, r

(* Putting newer points behind keeps the order.                             *)
LEMMA ConcatHolds ==
  ASSUME NEW q, NEW r, NEW lo \in Nat, NEW mid \in Nat, NEW hi \in Nat,
         Holds(q, lo, mid), Holds(r, mid, hi)
  PROVE  Holds(q \o r, lo, hi) /\ Len(q \o r) = Len(q) + Len(r)
<1>1. q \in Seq(Points) /\ r \in Seq(Points) /\ Len(q) \in Nat /\ Len(r) \in Nat
  BY DEF Holds
<1>2. /\ q \o r \in Seq(Points)
      /\ Len(q \o r) = Len(q) + Len(r)
      /\ \A i \in 1..Len(q) + Len(r) :
           (q \o r)[i] = IF i <= Len(q) THEN q[i] ELSE r[i - Len(q)]
  BY <1>1, ConcatProperties
<1>3. \A i \in 1..Len(q) + Len(r) : (q \o r)[i].n = lo + i
  BY <1>1, <1>2 DEF Holds
<1> QED
  BY <1>1, <1>2, <1>3 DEF Holds

(* The points a submission adds are numbered on from admitted.              *)
LEMMA NumberedHolds ==
  ASSUME NEW flags \in Seq(BOOLEAN), admitted \in Nat
  PROVE  /\ Holds(Numbered(flags), admitted, admitted + Len(flags))
         /\ Len(Numbered(flags)) = Len(flags)
<1>1. Len(flags) \in Nat /\ \A i \in 1..Len(flags) : flags[i] \in BOOLEAN
  BY ElementOfSeq
<1>2. \A i \in 1..Len(flags) : [n |-> admitted + i, lit |-> flags[i]] \in Points
  BY <1>1 DEF Points
<1>3. /\ Numbered(flags) \in Seq(Points)
      /\ Len(Numbered(flags)) = Len(flags)
      /\ \A i \in 1..Len(flags) : Numbered(flags)[i].n = admitted + i
  BY <1>1, <1>2 DEF Numbered
<1> QED
  BY <1>1, <1>3 DEF Holds

(* A non-empty set of naturals has a least element.                         *)
LEMMA LeastNatural ==
  ASSUME NEW S \in SUBSET Nat, S # {}
  PROVE  \E x \in S : \A y \in S : x <= y
<1>1. PICK x \in S : \A y \in S : ~(<<y, x>> \in OpToRel(<, Nat))
  BY NatLessThanWellFounded, WFMin
<1>2. ASSUME NEW y \in S PROVE x <= y
  <2>1. x \in Nat /\ y \in Nat
    OBVIOUS
  <2>2. y < x => <<y, x>> \in OpToRel(<, Nat)
    BY <2>1, Zenon DEF OpToRel
  <2>3. ~(y < x)
    BY <1>1, <2>2, Zenon
  <2> QED
    BY <2>1, <2>3
<1> QED
  BY <1>2

(* A drop that looks for a frame start drops at least what it must, and     *)
(* never the whole queue unless it must.                                    *)
LEMMA BoundaryDropRange ==
  ASSUME NEW q \in Seq(Points), NEW want \in 1..Len(q)
  PROVE  BoundaryDrop(q, want) \in want..Len(q)
<1> DEFINE starts == FrameStarts(q, want)
<1>1. starts \subseteq want..(Len(q) - 1)
  BY DEF FrameStarts, Larger
<1>2. starts \in SUBSET Nat
  BY <1>1
<1> HIDE DEF starts
<1>3. CASE starts = {}
  BY <1>3 DEF BoundaryDrop, starts
<1>4. CASE starts # {}
  <2>1. \E i \in starts : \A j \in starts : i <= j
    BY <1>2, <1>4, LeastNatural
  <2>2. BoundaryDrop(q, want) \in starts
    BY <1>4, <2>1 DEF BoundaryDrop, starts
  <2>3. BoundaryDrop(q, want) \in want..(Len(q) - 1)
    BY <1>1, <2>2
  <2> QED
    BY <2>3
<1> QED
  BY <1>3, <1>4
------------------------------------------------------------------------------
(* The inductive invariant *)

(* The rate, the latency and the downstream level are numbers.              *)
RatesOK == rate \in Nat /\ latency \in Nat /\ observed \in Nat

(* What the threads carry across the unlocked stretches: a limit computed   *)
(* before the lock is still within the queue bound when it is used.         *)
LocalsOK ==
  /\ op \in [Submitters -> Operations]
  /\ DOMAIN fill = {"min", "max", "short", "down", "frame", "target"}
  /\ fill.max \in Nat /\ fill.min \in Nat /\ fill.target \in 0..MaxQueuedPoints

QueueOK ==
  /\ admitted \in Nat /\ superseded \in Nat
  /\ Holds(pending, superseded, admitted)
  /\ Len(pending) <= MaxQueuedPoints

QueueInv == RatesOK /\ LocalsOK /\ QueueOK

(* The result of a submission never counts below zero.                      *)
LEMMA ResultType ==
  ASSUME NEW a \in BOOLEAN, NEW n \in Nat, NEW d \in Nat
  PROVE  MakeSubmissionResult(a, n, d) \in Results
<1>1. n - Smaller(n, d) \in Nat
  BY DEF Smaller
<1>2. (IF a THEN n - Smaller(n, d) ELSE 0) \in Nat
  BY <1>1
<1> QED
  BY <1>2, Zenon DEF MakeSubmissionResult, Results

(* A frame is cut to a prefix, and loses at most all of it.                 *)
LEMMA CutRange ==
  ASSUME NEW n \in Nat, NEW limit \in Nat
  PROVE  Smaller(n, limit) \in 0..n /\ Smaller(n, limit) <= limit
BY DEF Smaller

LEMMA CutDropRange ==
  ASSUME NEW c \in Nat, NEW x \in Int
  PROVE  Smaller(c, Larger(0, x)) \in 0..c
BY DEF Smaller, Larger

(* A rate command leaves a rate.                                            *)
LEMMA RateStep ==
  ASSUME NEW c \in Nat, rate \in Nat, MaybeUpdatePointRate(c)
  PROVE  rate' \in Nat
BY RateAssumption DEF MaybeUpdatePointRate, Clamp

(* The rate and the latency stay numbers in every step.                     *)
LEMMA RatesStep == RatesOK /\ LocalsOK /\ [Next]_vars => RatesOK'
<1> SUFFICES ASSUME RatesOK, LocalsOK, [Next]_vars PROVE RatesOK'
  OBVIOUS
<1> USE DEF RatesOK
<1>a. \A s \in Submitters : op[s].command \in Nat
  BY DEF LocalsOK, Operations
<1>1. ASSUME NEW s \in Submitters, SubmitContinuous(s) PROVE RatesOK'
  <2>1. CASE SubmitContinuousBegin(s)
    BY <2>1 DEF SubmitContinuousBegin, rateVars
  <2>2. CASE SubmitContinuousLimit(s)
    BY <2>2, <1>a, RateStep, BufferAssumption DEF SubmitContinuousLimit, DownstreamBufferSnapshot
  <2>3. CASE SubmitContinuousLock(s)
    BY <2>3 DEF SubmitContinuousLock, rateVars
  <2> QED
    BY <1>1, <2>1, <2>2, <2>3 DEF SubmitContinuous
<1>2. ASSUME NEW s \in Submitters, ReplaceFrame(s) PROVE RatesOK'
  <2>1. CASE ReplaceFrameBegin(s)
    BY <2>1 DEF ReplaceFrameBegin, rateVars
  <2>2. CASE ReplaceFrameMode(s)
    BY <2>2, BufferAssumption DEF ReplaceFrameMode, rateVars, DownstreamBufferSnapshot
  <2>3. CASE ReplaceFrameLock(s)
    BY <2>3 DEF ReplaceFrameLock, rateVars
  <2>4. CASE ReplaceFrameRate(s)
    BY <2>4, <1>a, RateStep DEF ReplaceFrameRate
  <2> QED
    BY <1>2, <2>1, <2>2, <2>3, <2>4 DEF ReplaceFrame
<1>3. ASSUME NEW s \in Submitters, SubmitFrame(s) PROVE RatesOK'
  <2>1. CASE SubmitFrameBegin(s)
    BY <2>1, RateStep, RateAssumption DEF SubmitFrameBegin
  <2>2. CASE SubmitFrameLock(s) \/ SubmitFrameSend(s)
    BY <2>2 DEF SubmitFrameLock, SubmitFrameSend, rateVars
  <2> QED
    BY <1>3, <2>1, <2>2 DEF SubmitFrame
<1>4. ASSUME NEW s \in Submitters, Return(s) \/ Reset(s) PROVE RatesOK'
  BY <1>4, BufferAssumption DEF Return, Reset, ResetLock, ResetFlags, rateVars, DownstreamBufferSnapshot
<1>5. CASE FillRequest \/ FillLock \/ FillHold \/ FillProceed
  BY <1>5 DEF FillRequest, FillLock, FillHold, FillProceed, rateVars
<1>6. CASE FillDrain
  <2>1. rate' = rate /\ observed' = observed
    BY <1>6 DEF FillDrain
  <2>2. latency' \in Nat
    <3>1. CASE latency' = latency
      BY <3>1
    <3>2. CASE latency' = Smaller(MaxLatency, latency + Larger(LatencyStep, latency \div 10))
      BY <3>2, LatencyAssumption DEF Smaller, Larger
    <3> QED
      BY <1>6, <3>1, <3>2 DEF FillDrain, MaybeIncreaseLatencyOnUnderrun
  <2> QED
    BY <2>1, <2>2
<1>7. CASE GetStatsSnapshot \/ Tick \/ UNCHANGED vars
  BY <1>7, BufferAssumption DEF GetStatsSnapshot, Tick, rateVars, vars, DownstreamBufferSnapshot
<1> QED
  BY <1>1, <1>2, <1>3, <1>4, <1>5, <1>6, <1>7 DEF Next, FillFromQueue

(* Writing one thread's locals keeps everybody's locals typed.              *)
LEMMA OpUpdate ==
  ASSUME NEW s \in Submitters, NEW v \in Operations, op \in [Submitters -> Operations]
  PROVE  [op EXCEPT ![s] = v] \in [Submitters -> Operations]
OBVIOUS

LEMMA NoOpType == NoOp \in Operations
<1>1. <<>> \in Seq(BOOLEAN)
  OBVIOUS
<1>2. 0 \in 0..MaxQueuedPoints
  BY BufferAssumption
<1>3. NoOp.result \in Results
  BY DEF NoOp, Results
<1> QED
  BY <1>1, <1>2, <1>3 DEF NoOp, Operations

(* What a continuous submission does under the lock: the queue with the new *)
(* points behind it, and how many points it takes off the front.            *)
Extended(s) == pending \o Numbered(op[s].flags)
Excess(s) == Len(Extended(s)) - op[s].limit
Drops(s) == IF Excess(s) > 0 THEN BoundaryDrop(Extended(s), Excess(s)) ELSE 0

(* It drops at least the excess and no more than there is.                  *)
LEMMA ContinuousDrops ==
  ASSUME LocalsOK, QueueOK, NEW s \in Submitters
  PROVE  /\ Holds(Extended(s), superseded, admitted + Len(op[s].flags))
         /\ Drops(s) \in 0..Len(Extended(s))
         /\ Drops(s) >= Excess(s)
         /\ op[s].limit \in 0..MaxQueuedPoints
         /\ Len(op[s].flags) \in Nat
<1>1. op[s].flags \in Seq(BOOLEAN) /\ op[s].limit \in 0..MaxQueuedPoints
  BY DEF LocalsOK, Operations
<1>2. Len(op[s].flags) \in Nat
  BY <1>1
<1>3. Holds(Numbered(op[s].flags), admitted, admitted + Len(op[s].flags))
  BY <1>1, NumberedHolds DEF QueueOK
<1>4. admitted + Len(op[s].flags) \in Nat /\ superseded \in Nat /\ admitted \in Nat
  BY <1>2 DEF QueueOK
<1>5. Holds(Extended(s), superseded, admitted + Len(op[s].flags))
  BY <1>3, <1>4, ConcatHolds DEF QueueOK, Extended
<1>6. Extended(s) \in Seq(Points) /\ Len(Extended(s)) \in Nat
  BY <1>5 DEF Holds
<1>7. CASE Excess(s) > 0
  <2>1. Excess(s) \in 1..Len(Extended(s))
    BY <1>1, <1>6, <1>7 DEF Excess
  <2>2. Drops(s) \in Excess(s)..Len(Extended(s))
    BY <1>6, <1>7, <2>1, BoundaryDropRange DEF Drops
  <2> QED
    BY <1>1, <1>2, <1>5, <2>1, <2>2
<1>8. CASE ~(Excess(s) > 0)
  <2>1. Excess(s) \in Int
    BY <1>1, <1>6 DEF Excess
  <2> QED
    BY <1>1, <1>2, <1>5, <1>6, <1>8, <2>1 DEF Drops
<1> QED
  BY <1>7, <1>8

(* What a thread carries stays typed, and its limit within the bound.       *)
LEMMA LocalsStep == QueueInv /\ [Next]_vars => LocalsOK'
<1> SUFFICES ASSUME RatesOK, LocalsOK, QueueOK, [Next]_vars PROVE LocalsOK'
  BY DEF QueueInv
<1>o. op \in [Submitters -> Operations] /\ \A s \in Submitters : op[s] \in Operations
  BY DEF LocalsOK
<1>n. \A s \in Submitters : Len(op[s].flags) \in Nat
  BY <1>o DEF Operations
<1>0. ASSUME NEW s \in Submitters, SubmitFrameBegin(s) PROVE LocalsOK'
  <2>1. PICK flags \in Slices : op' = [op EXCEPT ![s] = [NoOp EXCEPT !.flags = flags]]
    BY <1>0 DEF SubmitFrameBegin
  <2>2. flags \in Seq(BOOLEAN)
    BY SubmissionAssumption
  <2>3. [NoOp EXCEPT !.flags = flags] \in Operations
    BY <2>2, NoOpType DEF Operations
  <2>4. UNCHANGED fill
    BY <1>0 DEF SubmitFrameBegin, fillVars
  <2> QED
    BY <1>o, <2>1, <2>3, <2>4, OpUpdate DEF LocalsOK
<1>1. ASSUME NEW s \in Submitters, SubmitContinuousBegin(s) PROVE LocalsOK'
  <2>1. PICK flags \in Slices, command \in Rates :
          op' = [op EXCEPT ![s] = [NoOp EXCEPT !.flags = flags, !.command = command]]
    BY <1>1 DEF SubmitContinuousBegin
  <2>2. flags \in Seq(BOOLEAN) /\ command \in Nat
    BY SubmissionAssumption, RateAssumption
  <2>3. [NoOp EXCEPT !.flags = flags, !.command = command] \in Operations
    BY <2>2, NoOpType DEF Operations
  <2>4. UNCHANGED fill
    BY <1>1 DEF SubmitContinuousBegin, fillVars
  <2> QED
    BY <1>o, <2>1, <2>3, <2>4, OpUpdate DEF LocalsOK
<1>2. ASSUME NEW s \in Submitters, SubmitContinuousLimit(s) PROVE LocalsOK'
  <2>1. rate' \in Nat /\ latency \in Nat
    BY <1>2, RatesStep DEF RatesOK
  <2>2. LiveContinuousPointLimitAt(rate', latency) \in 0..MaxQueuedPoints
    <3>1. LiveContinuousPointLimitAt(rate', latency) \in MinPoints..MaxQueuedPoints
      BY <2>1, ContinuousLimitRange
    <3> QED
      BY <3>1, BufferAssumption
  <2>3. [op[s] EXCEPT !.limit = LiveContinuousPointLimitAt(rate', latency)] \in Operations
    BY <1>o, <2>2 DEF Operations
  <2>4. op' = [op EXCEPT ![s] = [op[s] EXCEPT !.limit = LiveContinuousPointLimitAt(rate', latency)]]
        /\ UNCHANGED fill
    BY <1>2 DEF SubmitContinuousLimit, fillVars
  <2> QED
    BY <1>o, <2>3, <2>4, OpUpdate DEF LocalsOK
<1>3. ASSUME NEW s \in Submitters, ReplaceFrameBegin(s) PROVE LocalsOK'
  <2>1. PICK flags \in Slices, command \in Rates :
          op' = [op EXCEPT ![s] = [NoOp EXCEPT !.flags = flags, !.command = command,
                   !.limit = LiveReplacementPointLimitAt(rate, latency)]]
    BY <1>3 DEF ReplaceFrameBegin
  <2>2. flags \in Seq(BOOLEAN) /\ command \in Nat
    BY SubmissionAssumption, RateAssumption
  <2>3. LiveReplacementPointLimitAt(rate, latency) \in 0..MaxQueuedPoints
    BY ReplacementLimitRange, BufferAssumption DEF RatesOK
  <2>4. [NoOp EXCEPT !.flags = flags, !.command = command,
           !.limit = LiveReplacementPointLimitAt(rate, latency)] \in Operations
    BY <2>2, <2>3, NoOpType DEF Operations
  <2>5. UNCHANGED fill
    BY <1>3 DEF ReplaceFrameBegin, fillVars
  <2> QED
    BY <1>o, <2>1, <2>4, <2>5, OpUpdate DEF LocalsOK
<1>4. ASSUME NEW s \in Submitters, ReplaceFrameMode(s) PROVE LocalsOK'
  <2>1. [op[s] EXCEPT !.down = observed'] \in Operations
    <3>1. observed' \in Nat
      BY <1>4, BufferAssumption DEF ReplaceFrameMode, DownstreamBufferSnapshot
    <3> QED
      BY <1>o, <3>1 DEF Operations
  <2>2. op' = [op EXCEPT ![s] = [op[s] EXCEPT !.down = observed']] /\ UNCHANGED fill
    BY <1>4 DEF ReplaceFrameMode, fillVars
  <2> QED
    BY <1>o, <2>1, <2>2, OpUpdate DEF LocalsOK
<1>r. ASSUME NEW s \in Submitters, NEW r \in Results
      PROVE  [op EXCEPT ![s].result = r] \in [Submitters -> Operations]
  <2>1. [op[s] EXCEPT !.result = r] \in Operations
    BY <1>o DEF Operations
  <2>2. [op EXCEPT ![s].result = r] = [op EXCEPT ![s] = [op[s] EXCEPT !.result = r]]
    BY <1>o
  <2> QED
    BY <1>o, <2>1, <2>2, OpUpdate
<1>5. ASSUME NEW s \in Submitters, SubmitContinuousLock(s) PROVE LocalsOK'
  <2> DEFINE r == MakeSubmissionResult(TRUE, Len(op[s].flags), Drops(s))
  <2>1. Drops(s) \in Nat
    BY ContinuousDrops DEF Holds
  <2>2. r \in Results
    BY <1>n, <2>1, ResultType
  <2>3. op' = [op EXCEPT ![s].result = r] /\ UNCHANGED fill
    BY <1>5 DEF SubmitContinuousLock, Extended, Excess, Drops, fillVars
  <2> QED
    BY <1>r, <2>2, <2>3 DEF LocalsOK
<1>5a. ASSUME NEW s \in Submitters, ReplaceFrameLock(s) PROVE LocalsOK'
  <2>1. PICK n \in Nat, limit \in Nat, down \in Nat :
          n = Len(op[s].flags) /\ limit = op[s].limit /\ down = op[s].down
    BY <1>o, <1>n, BufferAssumption DEF Operations
  <2> DEFINE cut == Smaller(n, limit)
             drops == Smaller(cut, Larger(0, cut + down - MaxQueuedPoints))
  <2>2. drops \in Nat
    <3>1. cut \in Nat
      BY CutRange
    <3> HIDE DEF cut
    <3>2. cut + down - MaxQueuedPoints \in Int
      BY <3>1, BufferAssumption
    <3>3. drops \in 0..cut
      BY <3>1, <3>2, CutDropRange
    <3> QED
      BY <3>1, <3>3
  <2>3. MakeSubmissionResult(TRUE, n, drops) \in Results
    BY <2>1, <2>2, ResultType
  <2>4. op' = [op EXCEPT ![s].result = MakeSubmissionResult(TRUE, n, drops)] /\ UNCHANGED fill
    BY <1>5a, <2>1 DEF ReplaceFrameLock, fillVars
  <2> QED
    BY <1>r, <2>2, <2>3, <2>4 DEF LocalsOK
<1>5b. ASSUME NEW s \in Submitters, SubmitFrameSend(s) PROVE LocalsOK'
  <2>1. PICK accepted \in BOOLEAN :
          op' = [op EXCEPT ![s].result = MakeSubmissionResult(accepted, Len(op[s].flags),
                                           IF accepted THEN 0 ELSE Len(op[s].flags))]
    BY <1>5b DEF SubmitFrameSend
  <2>2. (IF accepted THEN 0 ELSE Len(op[s].flags)) \in Nat
    BY <1>n
  <2>3. MakeSubmissionResult(accepted, Len(op[s].flags),
                             IF accepted THEN 0 ELSE Len(op[s].flags)) \in Results
    BY <1>n, <2>2, ResultType, Zenon
  <2>4. UNCHANGED fill
    BY <1>5b DEF SubmitFrameSend, fillVars
  <2> QED
    BY <1>r, <2>1, <2>2, <2>3, <2>4 DEF LocalsOK
<1>6. ASSUME NEW s \in Submitters, Return(s) PROVE LocalsOK'
  <2>1. op' = [op EXCEPT ![s] = NoOp] /\ UNCHANGED fill
    BY <1>6 DEF Return, fillVars
  <2> QED
    BY <1>o, <2>1, NoOpType, OpUpdate DEF LocalsOK
<1>7. ASSUME NEW s \in Submitters,
             ReplaceFrameRate(s) \/ SubmitFrameLock(s) \/ Reset(s)
      PROVE  LocalsOK'
  <2>1. UNCHANGED <<op, fill>>
    BY <1>7 DEF ReplaceFrameRate, SubmitFrameLock, Reset, ResetLock, ResetFlags, fillVars
  <2> QED
    BY <2>1 DEF LocalsOK
<1>8. CASE FillFromQueue
  <2>1. op' = op
    BY <1>8 DEF FillFromQueue, FillRequest, FillLock, FillHold, FillProceed, FillDrain
  <2>2. CASE FillRequest
    <3>1. PICK r \in Requests :
            fill' = [NoFill EXCEPT !.min = r.min, !.max = r.max, !.short = r.short, !.down = observed]
      BY <2>2 DEF FillRequest
    <3>2. /\ fill'.max = r.max /\ fill'.min = r.min /\ fill'.target = 0
          /\ DOMAIN fill' = {"min", "max", "short", "down", "frame", "target"}
      BY <3>1 DEF NoFill
    <3>3. r.min \in Nat /\ r.max \in Nat /\ 0 \in 0..MaxQueuedPoints
      BY BufferAssumption
    <3> QED
      BY <2>1, <3>2, <3>3 DEF LocalsOK
  <2>3. CASE FillLock
    <3>1. TargetBufferedPointsAt(rate, latency) \in 0..MaxQueuedPoints
      <4>1. TargetBufferedPointsAt(rate, latency) \in MinPoints..MaxQueuedPoints
        BY TargetRange DEF RatesOK
      <4> QED
        BY <4>1, BufferAssumption
    <3>2. /\ fill'.max = fill.max /\ fill'.min = fill.min
          /\ fill'.target = TargetBufferedPointsAt(rate, latency)
          /\ DOMAIN fill' = DOMAIN fill
      BY <2>3 DEF FillLock, LocalsOK
    <3> QED
      BY <2>1, <3>1, <3>2 DEF LocalsOK
  <2>4. CASE FillProceed
    <3>1. /\ fill'.max = fill.max /\ fill'.min = fill.min /\ fill'.target = fill.target
          /\ DOMAIN fill' = DOMAIN fill
      BY <2>4 DEF FillProceed, LocalsOK
    <3> QED
      BY <2>1, <3>1 DEF LocalsOK
  <2>5. CASE FillHold \/ FillDrain
    <3>1. fill' = NoFill
      BY <2>5 DEF FillHold, FillDrain
    <3>2. /\ NoFill.max = 0 /\ NoFill.min = 0 /\ NoFill.target = 0
          /\ DOMAIN NoFill = {"min", "max", "short", "down", "frame", "target"}
      BY DEF NoFill
    <3> QED
      BY <2>1, <3>1, <3>2, BufferAssumption DEF LocalsOK
  <2> QED
    BY <1>8, <2>2, <2>3, <2>4, <2>5 DEF FillFromQueue
<1>9. CASE GetStatsSnapshot \/ Tick \/ UNCHANGED vars
  <2>1. UNCHANGED <<op, fill>>
    BY <1>9 DEF GetStatsSnapshot, Tick, vars, fillVars
  <2> QED
    BY <2>1 DEF LocalsOK
<1> QED
  BY <1>0, <1>1, <1>2, <1>3, <1>4, <1>5, <1>5a, <1>5b, <1>6, <1>7, <1>8, <1>9
  DEF Next, SubmitContinuous, ReplaceFrame, SubmitFrame

(* The queue stays bounded and in order in every step.                      *)
LEMMA QueueStep == QueueInv /\ [Next]_vars => QueueOK'
<1> SUFFICES ASSUME RatesOK, LocalsOK, QueueOK, [Next]_vars PROVE QueueOK'
  BY DEF QueueInv
<1>q. /\ Holds(pending, superseded, admitted) /\ Len(pending) \in Nat
      /\ superseded \in Nat /\ admitted \in Nat /\ Len(pending) <= MaxQueuedPoints
      /\ MaxQueuedPoints \in Nat
  BY BufferAssumption DEF QueueOK, Holds
<1>d. ASSUME NEW q, NEW lo \in Nat, NEW hi \in Nat, Holds(q, lo, hi), NEW d \in 0..Len(q),
             Len(q) - d <= MaxQueuedPoints,
             pending' = DropFront(q, d), superseded' = lo + d, admitted' = hi
      PROVE  QueueOK'
  <2>1. /\ Holds(DropFront(q, d), lo + d, hi) /\ Len(DropFront(q, d)) = Len(q) - d
    BY <1>d, DropFrontHolds
  <2>2. Holds(pending, superseded, admitted)'
    BY <1>d, <2>1 DEF Holds
  <2> QED
    BY <1>d, <2>1, <2>2 DEF QueueOK
<1>c. ASSUME pending' = <<>>, superseded' = admitted, admitted' = admitted PROVE QueueOK'
  BY <1>c, <1>q DEF QueueOK, Holds
<1>1. ASSUME NEW s \in Submitters, SubmitContinuousLock(s) PROVE QueueOK'
  <2>1. /\ Holds(Extended(s), superseded, admitted + Len(op[s].flags))
        /\ Drops(s) \in 0..Len(Extended(s)) /\ Drops(s) >= Excess(s)
        /\ op[s].limit \in 0..MaxQueuedPoints /\ Len(op[s].flags) \in Nat
    BY ContinuousDrops
  <2>2. Len(Extended(s)) \in Nat
    BY <2>1 DEF Holds
  <2>3. Len(Extended(s)) - Drops(s) <= MaxQueuedPoints
    BY <1>q, <2>1, <2>2 DEF Excess
  <2>4. /\ pending' = DropFront(Extended(s), Drops(s))
        /\ admitted' = admitted + Len(op[s].flags)
        /\ superseded' = IF Drops(s) > 0 THEN Extended(s)[Drops(s)].n ELSE superseded
    BY <1>1 DEF SubmitContinuousLock, Extended, Excess, Drops
  <2>7. admitted + Len(op[s].flags) \in Nat
    BY <1>q, <2>1
  <2>5. Drops(s) > 0 => Extended(s)[Drops(s)].n = superseded + Drops(s)
    BY <1>q, <2>1, <2>7, DropFrontHolds, ZenonT(40)
  <2>6. superseded' = superseded + Drops(s)
    BY <1>q, <2>1, <2>2, <2>4, <2>5
  <2> QED
    BY <1>d, <1>q, <2>1, <2>3, <2>4, <2>6, <2>7
<1>2. ASSUME NEW s \in Submitters, ReplaceFrameLock(s) PROVE QueueOK'
  <2>1. PICK n \in Nat, limit \in 0..MaxQueuedPoints, down \in Nat, flags \in Seq(BOOLEAN) :
          flags = op[s].flags /\ n = Len(flags) /\ limit = op[s].limit /\ down = op[s].down
    BY DEF LocalsOK, Operations
  <2> DEFINE cut == Smaller(n, limit)
             frame == Numbered(SubSeq(flags, 1, cut))
             drops == Smaller(cut, Larger(0, cut + down - MaxQueuedPoints))
  <2>2. cut \in 0..n /\ cut \in Nat /\ cut <= MaxQueuedPoints
    <3>1. limit \in Nat /\ limit <= MaxQueuedPoints
      BY <1>q
    <3>2. cut \in 0..n /\ cut <= limit
      BY <3>1, CutRange
    <3> QED
      BY <1>q, <3>1, <3>2
  <2>3. SubSeq(flags, 1, cut) \in Seq(BOOLEAN) /\ Len(SubSeq(flags, 1, cut)) = cut
    <3> HIDE DEF cut
    <3>1. \A i \in 1..cut : flags[i] \in BOOLEAN
      BY <2>1, <2>2, ElementOfSeq
    <3> QED
      BY <2>2, <3>1, SubSeqProperties
  <2>4. Holds(frame, admitted, admitted + cut) /\ Len(frame) = cut
    BY <1>q, <2>3, NumberedHolds
  <2>5. drops \in 0..cut /\ cut - drops <= MaxQueuedPoints
    <3> HIDE DEF cut
    <3>1. cut + down - MaxQueuedPoints \in Int
      BY <1>q, <2>2
    <3>2. drops \in 0..cut
      BY <2>2, <3>1, CutDropRange
    <3> QED
      BY <1>q, <2>2, <3>2
  <2>6. pending' = DropFront(frame, drops) /\ superseded' = admitted + drops
        /\ admitted' = admitted + cut
    BY <1>2, <2>1 DEF ReplaceFrameLock
  <2>7. admitted + cut \in Nat
    BY <1>q, <2>2
  <2> HIDE DEF frame, drops, cut
  <2> QED
    BY <1>d, <1>q, <2>4, <2>5, <2>6, <2>7
<1>3. ASSUME NEW s \in Submitters, SubmitFrameLock(s) \/ ResetLock(s) PROVE QueueOK'
  BY <1>3, <1>c DEF SubmitFrameLock, ResetLock
<1>4. CASE FillDrain
  <2> DEFINE n == Smaller(fill.max, Len(pending))
  <2>1. n \in 0..Len(pending)
    BY <1>q DEF Smaller, LocalsOK
  <2>2. /\ pending' = DropFront(pending, n) /\ admitted' = admitted
        /\ superseded' = IF n > 0 THEN pending[n].n ELSE superseded
    BY <1>4 DEF FillDrain
  <2> HIDE DEF n
  <2>3. n > 0 => pending[n].n = superseded + n
    BY <1>q, <2>1, DropFrontHolds
  <2>4. superseded' = superseded + n /\ Len(pending) - n <= MaxQueuedPoints
    BY <1>q, <2>1, <2>2, <2>3
  <2> QED
    BY <1>d, <1>q, <2>1, <2>2, <2>4
<1>u. ASSUME UNCHANGED <<pending, superseded, admitted>> PROVE QueueOK'
  BY <1>u DEF QueueOK, Holds
<1>5. ASSUME NEW s \in Submitters,
             \/ SubmitContinuousBegin(s) \/ SubmitContinuousLimit(s)
             \/ ReplaceFrameBegin(s) \/ ReplaceFrameMode(s) \/ ReplaceFrameRate(s)
             \/ SubmitFrameBegin(s) \/ SubmitFrameSend(s) \/ Return(s) \/ ResetFlags(s)
      PROVE  QueueOK'
  BY <1>5, <1>u DEF SubmitContinuousBegin, SubmitContinuousLimit, ReplaceFrameBegin,
     ReplaceFrameMode, ReplaceFrameRate, SubmitFrameBegin, SubmitFrameSend, Return,
     ResetFlags, queueVars
<1>6. CASE FillRequest \/ FillLock \/ FillHold \/ FillProceed
           \/ GetStatsSnapshot \/ Tick \/ UNCHANGED vars
  BY <1>6, <1>u DEF FillRequest, FillLock, FillHold, FillProceed, GetStatsSnapshot, Tick,
     vars, queueVars
<1> QED
  BY <1>1, <1>2, <1>3, <1>4, <1>5, <1>6
  DEF Next, SubmitContinuous, ReplaceFrame, SubmitFrame, Reset, FillFromQueue

(* The invariant of the sink, for any number of threads, slices and limits. *)
THEOREM SinkInvariant == Spec => []QueueInv
<1>1. Init => QueueInv
  <2> SUFFICES ASSUME Init PROVE QueueInv
    OBVIOUS
  <2>1. RatesOK
    BY RateAssumption, LatencyAssumption DEF Init, RatesOK, Larger
  <2>2. op \in [Submitters -> Operations]
    BY NoOpType DEF Init
  <2>3. /\ NoFill.max = 0 /\ NoFill.min = 0 /\ NoFill.target = 0
        /\ DOMAIN NoFill = {"min", "max", "short", "down", "frame", "target"}
    BY DEF NoFill
  <2>4. LocalsOK
    BY <2>2, <2>3, BufferAssumption DEF Init, LocalsOK
  <2>5. QueueOK
    BY BufferAssumption DEF Init, QueueOK, Holds
  <2> QED
    BY <2>1, <2>4, <2>5 DEF QueueInv
<1>2. QueueInv /\ [Next]_vars => QueueInv'
  BY RatesStep, LocalsStep, QueueStep DEF QueueInv
<1> QED
  BY <1>1, <1>2, PTL DEF Spec

(* The local queue never exceeds maxQueuedPoints_.                          *)
THEOREM QueueNeverExceedsBound == Spec => []QueueBounded
<1>1. QueueInv => QueueBounded
  BY DEF QueueInv, QueueOK, QueueBounded
<1> QED
  BY <1>1, SinkInvariant, PTL

(* The queue always holds exactly the newest points, in order: nothing that *)
(* was handed out, dropped, replaced or cleared comes back.                 *)
THEOREM QueueKeepsOrder == Spec => []QueueIsNewestSuffix
<1>1. QueueInv => QueueIsNewestSuffix
  BY DEF QueueInv, QueueOK, Holds, QueueIsNewestSuffix
<1> QED
  BY <1>1, SinkInvariant, PTL

(* Pre-buffering never waits for more points than submissions may queue.    *)
THEOREM HoldsCanEnd == Spec => []HoldCanEnd
<1>1. QueueInv => HoldCanEnd
  <2> SUFFICES ASSUME QueueInv PROVE HoldCanEnd
    OBVIOUS
  <2>1. TargetBufferedPointsAt(rate, latency) <= LiveContinuousPointLimitAt(rate, latency)
    BY ContinuousLimitRange DEF QueueInv, RatesOK
  <2>2. fill.target <= MaxQueuedPoints
    BY BufferAssumption DEF QueueInv, LocalsOK
  <2> QED
    BY <2>1, <2>2 DEF HoldCanEnd
<1> QED
  BY <1>1, SinkInvariant, PTL
------------------------------------------------------------------------------
(* The telemetry *)

(* Where a submitting thread may be.                                        *)
Positions == {"idle", "contLimit", "contLock", "replMode", "replLock",
              "replRate", "frameLock", "frameSend", "return", "resetFlags"}

(* The points a submission has counted as received and has not yet queued,  *)
(* handed on or dropped.  Their number is a sum over the threads; as a set  *)
(* of pairs its size can be followed from step to step.                     *)
Counted == {"contLimit", "contLock", "replLock", "frameLock", "frameSend"}
InFlight == {x \in Submitters \X (Nat \ {0}) : pc[x[1]] \in Counted /\ x[2] <= Len(op[x[1]].flags)}
Block(s, n) == {s} \X (1..n)

(* Every received point is in at most one place.                            *)
PointsAccounted ==
  /\ IsFiniteSet(InFlight)
  /\ emitted + dropped + Len(pending) + Cardinality(InFlight) <= received

LEMMA BlockSize ==
  ASSUME NEW s, NEW n \in Nat
  PROVE  IsFiniteSet(Block(s, n)) /\ Cardinality(Block(s, n)) = n
<1>1. IsFiniteSet({s}) /\ Cardinality({s}) = 1
  BY FS_Singleton
<1>2. IsFiniteSet(1..n) /\ Cardinality(1..n) = n
  BY FS_Interval
<1>3. IsFiniteSet(Block(s, n)) /\ Cardinality(Block(s, n)) = Cardinality({s}) * Cardinality(1..n)
  BY <1>1, <1>2, FS_Product, Zenon DEF Block
<1> QED
  BY <1>1, <1>2, <1>3

LEMMA AddBlock ==
  ASSUME NEW S, IsFiniteSet(S), NEW s, NEW n \in Nat, S \cap Block(s, n) = {}
  PROVE  IsFiniteSet(S \cup Block(s, n)) /\ Cardinality(S \cup Block(s, n)) = Cardinality(S) + n
<1>1. Cardinality(S) \in Nat
  BY FS_CardinalityType
<1>2. Cardinality(S \cap Block(s, n)) = 0
  BY FS_EmptySet
<1> QED
  BY <1>1, <1>2, BlockSize, FS_Union

LEMMA RemoveBlock ==
  ASSUME NEW S, IsFiniteSet(S), NEW s, NEW n \in Nat, Block(s, n) \subseteq S
  PROVE  IsFiniteSet(S \ Block(s, n)) /\ Cardinality(S \ Block(s, n)) = Cardinality(S) - n
<1>1. S \cap Block(s, n) = Block(s, n)
  OBVIOUS
<1>2. IsFiniteSet(S \ Block(s, n))
      /\ Cardinality(S \ Block(s, n)) = Cardinality(S) - Cardinality(S \cap Block(s, n))
  BY FS_Difference
<1>3. Cardinality(Block(s, n)) = n
  BY BlockSize
<1> QED
  BY <1>1, <1>2, <1>3

(* One thread counts its points, or is done with them; the others keep      *)
(* theirs.                                                                  *)
LEMMA Enters ==
  ASSUME NEW s \in Submitters, NEW n \in Nat, NEW to \in Counted, PointsAccounted,
         pc \in [Submitters -> Positions], op \in [Submitters -> Operations],
         pc[s] \notin Counted, pc' = [pc EXCEPT ![s] = to],
         Len(op'[s].flags) = n, \A t \in Submitters \ {s} : op'[t] = op[t]
  PROVE  IsFiniteSet(InFlight') /\ Cardinality(InFlight') = Cardinality(InFlight) + n
<1>1. \A x \in Submitters \X (Nat \ {0}) :
        x \in InFlight' <=> (x \in InFlight \/ (x[1] = s /\ x[2] <= n))
  BY DEF InFlight
<1>2. \A x : x \in Block(s, n) <=> (x \in Submitters \X (Nat \ {0}) /\ x[1] = s /\ x[2] <= n)
  BY DEF Block
<1>3. InFlight' = InFlight \cup Block(s, n)
  BY <1>1, <1>2 DEF InFlight
<1>4. InFlight \cap Block(s, n) = {}
  BY <1>2 DEF InFlight
<1> QED
  BY <1>3, <1>4, AddBlock DEF PointsAccounted

LEMMA Leaves ==
  ASSUME NEW s \in Submitters, NEW n \in Nat, NEW to, PointsAccounted,
         pc \in [Submitters -> Positions], op \in [Submitters -> Operations],
         pc[s] \in Counted, to \notin Counted, pc' = [pc EXCEPT ![s] = to],
         Len(op[s].flags) = n, \A t \in Submitters \ {s} : op'[t] = op[t]
  PROVE  IsFiniteSet(InFlight') /\ Cardinality(InFlight') = Cardinality(InFlight) - n
<1>1. \A x \in Submitters \X (Nat \ {0}) :
        x \in InFlight' <=> (x \in InFlight /\ ~(x[1] = s /\ x[2] <= n))
  BY DEF InFlight
<1>2. \A x : x \in Block(s, n) <=> (x \in Submitters \X (Nat \ {0}) /\ x[1] = s /\ x[2] <= n)
  BY DEF Block
<1>3. InFlight' = InFlight \ Block(s, n)
  BY <1>1, <1>2 DEF InFlight
<1>4. Block(s, n) \subseteq InFlight
  BY <1>2 DEF InFlight
<1> QED
  BY <1>3, <1>4, RemoveBlock DEF PointsAccounted

LEMMA Stays ==
  ASSUME NEW s \in Submitters, NEW to, pc \in [Submitters -> Positions],
         pc' = [pc EXCEPT ![s] = to], pc[s] \in Counted <=> to \in Counted,
         pc[s] \in Counted => op'[s].flags = op[s].flags,
         \A t \in Submitters \ {s} : op'[t] = op[t]
  PROVE  InFlight' = InFlight
<1>1. \A x \in Submitters \X (Nat \ {0}) : x \in InFlight' <=> x \in InFlight
  BY DEF InFlight
<1> QED
  BY <1>1 DEF InFlight

(* What the two submissions that queue points do under the lock.            *)
LEMMA ContinuousEffect ==
  ASSUME QueueInv, NEW s \in Submitters, SubmitContinuousLock(s)
  PROVE  /\ Len(op[s].flags) \in Nat /\ Len(pending) \in Nat
         /\ Drops(s) \in 0..(Len(pending) + Len(op[s].flags))
         /\ Len(pending') = Len(pending) + Len(op[s].flags) - Drops(s)
         /\ dropped' = dropped + Drops(s)
         /\ op' = [op EXCEPT ![s].result = MakeSubmissionResult(TRUE, Len(op[s].flags), Drops(s))]
<1> DEFINE n == Len(op[s].flags)
           q == Extended(s)
           d == Drops(s)
           kept == Len(pending)
<1>1. Holds(q, superseded, admitted + n) /\ d \in 0..Len(q) /\ n \in Nat
  BY ContinuousDrops DEF QueueInv
<1>2. admitted = superseded + kept /\ kept \in Nat /\ superseded \in Nat /\ admitted \in Nat
  BY DEF QueueInv, QueueOK, Holds
<1>4. /\ pending' = DropFront(q, d) /\ dropped' = dropped + d
      /\ op' = [op EXCEPT ![s].result = MakeSubmissionResult(TRUE, n, d)]
  BY DEF SubmitContinuousLock, Extended, Excess, Drops
<1> HIDE DEF n, q, d, kept
<1>3. Len(q) \in Nat /\ admitted + n = superseded + Len(q) /\ admitted + n \in Nat
  BY <1>1, <1>2 DEF Holds
<1>5. Len(DropFront(q, d)) = Len(q) - d
  BY <1>1, <1>2, <1>3, DropFrontHolds
<1>6. n \in Nat /\ kept \in Nat /\ d \in 0..(kept + n) /\ Len(pending') = kept + n - d
  BY <1>1, <1>2, <1>3, <1>4, <1>5
<1> QED
  BY <1>4, <1>6 DEF n, d, kept

LEMMA ReplaceEffect ==
  ASSUME QueueInv, NEW s \in Submitters, ReplaceFrameLock(s)
  PROVE  /\ Len(op[s].flags) \in Nat /\ op[s].limit \in Nat
         /\ \E drops \in 0..Smaller(Len(op[s].flags), op[s].limit) :
              /\ Len(pending') = Smaller(Len(op[s].flags), op[s].limit) - drops
              /\ dropped' = dropped + drops
              /\ op' = [op EXCEPT ![s].result = MakeSubmissionResult(TRUE, Len(op[s].flags), drops)]
<1>1. PICK n \in Nat, limit \in Nat, down \in Nat, flags \in Seq(BOOLEAN) :
        flags = op[s].flags /\ n = Len(flags) /\ limit = op[s].limit /\ down = op[s].down
  <2>1. op[s] \in Operations
    BY DEF QueueInv, LocalsOK
  <2>2. op[s].flags \in Seq(BOOLEAN) /\ op[s].limit \in Nat /\ op[s].down \in Nat
    BY <2>1, BufferAssumption DEF Operations
  <2> QED
    BY <2>2
<1> DEFINE cut == Smaller(n, limit)
           frame == Numbered(SubSeq(flags, 1, cut))
           drops == Smaller(cut, Larger(0, cut + down - MaxQueuedPoints))
<1>2. cut \in 0..n /\ cut \in Nat
  BY CutRange DEF Smaller
<1>3. drops \in 0..cut
  <2> HIDE DEF cut
  <2>1. cut + down - MaxQueuedPoints \in Int
    BY <1>2, BufferAssumption
  <2> QED
    BY <1>2, <2>1, CutDropRange
<1>4. SubSeq(flags, 1, cut) \in Seq(BOOLEAN) /\ Len(SubSeq(flags, 1, cut)) = cut
  <2> HIDE DEF cut
  <2>1. \A i \in 1..cut : flags[i] \in BOOLEAN
    BY <1>1, <1>2, ElementOfSeq
  <2> QED
    BY <1>2, <2>1, SubSeqProperties
<1>5. admitted \in Nat
  BY DEF QueueInv, QueueOK
<1>6. Holds(frame, admitted, admitted + cut) /\ Len(frame) = cut
  BY <1>4, <1>5, NumberedHolds
<1>7. /\ pending' = DropFront(frame, drops) /\ dropped' = dropped + drops
      /\ op' = [op EXCEPT ![s].result = MakeSubmissionResult(TRUE, n, drops)]
  BY <1>1 DEF ReplaceFrameLock
<1> HIDE DEF frame, drops
<1>8. Len(pending') = cut - drops
  <2> HIDE DEF cut
  <2>1. admitted + cut \in Nat
    BY <1>2, <1>5
  <2> QED
    BY <1>3, <1>5, <1>6, <1>7, <2>1, DropFrontHolds
<1> QED
  BY <1>1, <1>3, <1>7, <1>8

------------------------------------------------------------------------------
(* The types *)

(* TypeOK in parts: what the invariant above does not say of types.         *)
Served == [len : Nat, real : Nat, min : Nat, short : BOOLEAN, held : BOOLEAN]

FlagsTyped ==
  /\ frameMode \in BOOLEAN /\ buffering \in BOOLEAN /\ hasSeenInput \in BOOLEAN
  /\ mutex \in {"free", "fill"} /\ fpc \in {"idle", "lock", "check", "drain"}
  /\ lastKind \in {"none", "continuous", "replace", "frame"}
ClocksTyped ==
  /\ latency \in StartLatency..MaxLatency /\ accumulator \in Nat
  /\ sinceInput \in 0..IdleLimit /\ sinceSample \in 0..(SampleWindow + 1)
  /\ sinceIncrease \in 0..Cooldown
CountsTyped == received \in Nat /\ emitted \in Nat /\ dropped \in Nat
PositionsTyped == pc \in [Submitters -> Positions]
FillTyped == fill \in Fills /\ lastFill \in Served

LEMMA TypesTogether ==
  TypeOK <=> /\ FlagsTyped /\ ClocksTyped /\ CountsTyped /\ PositionsTyped /\ FillTyped
             /\ pending \in Seq(Points) /\ rate \in Nat /\ observed \in Nat
             /\ op \in [Submitters -> Operations] /\ admitted \in Nat /\ superseded \in Nat
BY Zenon DEF TypeOK, FlagsTyped, ClocksTyped, CountsTyped, PositionsTyped, FillTyped, Positions, Served

LEMMA FlagsStep == FlagsTyped /\ [Next]_vars => FlagsTyped'
<1> SUFFICES ASSUME FlagsTyped, [Next]_vars PROVE FlagsTyped'
  OBVIOUS
<1> USE DEF FlagsTyped
<1>1. ASSUME NEW s \in Submitters, SubmitContinuous(s) \/ ReplaceFrame(s) PROVE FlagsTyped'
  BY <1>1, ZenonT(40) DEF SubmitContinuous, SubmitContinuousBegin, SubmitContinuousLimit, SubmitContinuousLock,
     ReplaceFrame, ReplaceFrameBegin, ReplaceFrameMode, ReplaceFrameLock, ReplaceFrameRate,
     queueVars, flagVars, fillVars
<1>2. ASSUME NEW s \in Submitters, SubmitFrame(s) \/ Return(s) \/ Reset(s) PROVE FlagsTyped'
  BY <1>2, ZenonT(40) DEF SubmitFrame, SubmitFrameBegin, SubmitFrameLock, SubmitFrameSend, Return,
     Reset, ResetLock, ResetFlags, queueVars, flagVars, fillVars
<1>3. CASE FillRequest \/ FillLock \/ FillHold \/ FillProceed
  BY <1>3 DEF FillRequest, FillLock, FillHold, FillProceed, queueVars, flagVars, fillVars
<1>4. CASE FillDrain
  <2>1. buffering' \in BOOLEAN
    BY <1>4, Zenon DEF FillDrain, RearmBuffering
  <2> QED
    BY <1>4, <2>1 DEF FillDrain
<1>5. CASE GetStatsSnapshot \/ Tick \/ UNCHANGED vars
  BY <1>5 DEF GetStatsSnapshot, Tick, vars, queueVars, flagVars, fillVars
<1> QED
  BY <1>1, <1>2, <1>3, <1>4, <1>5 DEF Next, FillFromQueue

LEMMA ClocksStep == LocalsOK /\ QueueOK /\ ClocksTyped /\ [Next]_vars => ClocksTyped'
<1> SUFFICES ASSUME LocalsOK, QueueOK, ClocksTyped, [Next]_vars PROVE ClocksTyped'
  OBVIOUS
<1> USE LatencyAssumption DEF ClocksTyped
<1>1. ASSUME NEW s \in Submitters, SubmitContinuous(s) \/ ReplaceFrame(s) PROVE ClocksTyped'
  <2>1. /\ UNCHANGED <<latency, accumulator, sinceSample, sinceIncrease>>
        /\ sinceInput' = sinceInput \/ sinceInput' = 0
    BY <1>1, ZenonT(40) DEF SubmitContinuous, SubmitContinuousBegin, SubmitContinuousLimit, SubmitContinuousLock,
       ReplaceFrame, ReplaceFrameBegin, ReplaceFrameMode, ReplaceFrameLock, ReplaceFrameRate,
       rateVars, clockVars
  <2> QED
    BY <2>1
<1>2. ASSUME NEW s \in Submitters, SubmitFrame(s) \/ Return(s) \/ Reset(s) PROVE ClocksTyped'
  BY <1>2 DEF SubmitFrame, SubmitFrameBegin, SubmitFrameLock, SubmitFrameSend, Return,
     Reset, ResetLock, ResetFlags, rateVars, clockVars
<1>3. CASE FillRequest \/ FillLock \/ FillHold \/ FillProceed
  BY <1>3 DEF FillRequest, FillLock, FillHold, FillProceed, rateVars, clockVars
<1>4. CASE FillDrain
  <2>1. fill.min \in Nat /\ fill.max \in Nat /\ Len(pending) \in Nat
    BY DEF LocalsOK, QueueOK, Holds
  <2> DEFINE missing == fill.min - Smaller(fill.max, Len(pending))
  <2>2. missing \in Int /\ sinceInput' = sinceInput
    BY <1>4, <2>1 DEF FillDrain, Smaller
  <2>3. CASE UNCHANGED <<latency, accumulator, sinceSample, sinceIncrease>>
    BY <2>2, <2>3
  <2>4. CASE Underrun(missing) /\ MaybeIncreaseLatencyOnUnderrun(missing)
    <3>1. missing > 0
      BY <2>4 DEF Underrun
    <3> HIDE DEF missing
    <3>2. NextAccumulator(missing) \in Nat
      BY <2>2, <3>1 DEF NextAccumulator, Smaller
    <3>3. Smaller(MaxLatency, latency + Larger(LatencyStep, latency \div 10)) \in StartLatency..MaxLatency
      BY DEF Smaller, Larger
    <3>4. accumulator' \in {accumulator, 0, NextAccumulator(missing)}
      BY <2>4 DEF MaybeIncreaseLatencyOnUnderrun
    <3>5. latency' \in {latency, Smaller(MaxLatency, latency + Larger(LatencyStep, latency \div 10))}
      BY <2>4 DEF MaybeIncreaseLatencyOnUnderrun
    <3>6. sinceSample' \in {sinceSample, 0} /\ sinceIncrease' \in {sinceIncrease, 0}
      BY <2>4 DEF MaybeIncreaseLatencyOnUnderrun
    <3> QED
      BY <2>2, <3>2, <3>3, <3>4, <3>5, <3>6
  <2> QED
    BY <1>4, <2>3, <2>4, Zenon DEF FillDrain
<1>5. CASE GetStatsSnapshot \/ UNCHANGED vars
  BY <1>5 DEF GetStatsSnapshot, vars, rateVars, clockVars
<1>6. CASE Tick
  BY <1>6 DEF Tick, rateVars, Smaller
<1> QED
  BY <1>1, <1>2, <1>3, <1>4, <1>5, <1>6 DEF Next, FillFromQueue

(* A thread moves on its own: one entry of pc changes, or none.             *)
LEMMA OneMoves ==
  ASSUME [Next]_vars
  PROVE  \/ pc' = pc
         \/ \E s \in Submitters, to \in Positions : pc' = [pc EXCEPT ![s] = to]
<1> USE DEF Positions, Goto
<1>1. ASSUME NEW s \in Submitters, SubmitContinuous(s) \/ ReplaceFrame(s)
      PROVE  \E to \in Positions : pc' = [pc EXCEPT ![s] = to]
  BY <1>1 DEF SubmitContinuous, SubmitContinuousBegin, SubmitContinuousLimit, SubmitContinuousLock,
     ReplaceFrame, ReplaceFrameBegin, ReplaceFrameMode, ReplaceFrameLock, ReplaceFrameRate
<1>2. ASSUME NEW s \in Submitters, SubmitFrame(s) \/ Return(s) \/ Reset(s)
      PROVE  \E to \in Positions : pc' = [pc EXCEPT ![s] = to]
  BY <1>2 DEF SubmitFrame, SubmitFrameBegin, SubmitFrameLock, SubmitFrameSend, Return, Reset, ResetLock, ResetFlags
<1>3. CASE FillFromQueue \/ GetStatsSnapshot \/ Tick \/ UNCHANGED vars
  BY <1>3 DEF FillFromQueue, FillRequest, FillLock, FillHold, FillProceed, FillDrain, GetStatsSnapshot, Tick, vars
<1> QED
  BY <1>1, <1>2, <1>3 DEF Next

LEMMA PositionsStep == PositionsTyped /\ [Next]_vars => PositionsTyped'
BY OneMoves DEF PositionsTyped

(* The locals of a fill keep their types, and a completed fill hands out    *)
(* what was asked for.                                                      *)
LEMMA FillsTyped ==
  /\ NoFill \in Fills /\ NoneYet \in Served
  /\ NoneYet.len >= NoneYet.min /\ ~NoneYet.held
BY DEF NoFill, Fills, NoneYet, Served

LEMMA FillStep ==
  QueueInv /\ FlagsTyped /\ FillTyped /\ FillMeetsRequest /\ [Next]_vars => FillTyped' /\ FillMeetsRequest'
<1> SUFFICES ASSUME QueueInv, FlagsTyped, FillTyped, FillMeetsRequest, [Next]_vars
             PROVE  FillTyped' /\ FillMeetsRequest'
  OBVIOUS
<1>f. /\ fill \in Fills /\ lastFill \in Served /\ fill.min \in Nat /\ fill.max \in Nat
      /\ fill.short \in BOOLEAN /\ Len(pending) \in Nat
  BY DEF FillTyped, Fills, QueueInv, QueueOK, Holds
<1>1. CASE FillRequest
  <2>1. PICK r \in Requests :
          fill' = [NoFill EXCEPT !.min = r.min, !.max = r.max, !.short = r.short, !.down = observed]
    BY <1>1 DEF FillRequest
  <2>2. r.min \in Nat /\ r.max \in Nat /\ r.short \in BOOLEAN /\ observed \in Nat
    BY BufferAssumption DEF QueueInv, RatesOK
  <2>3. fill' \in Fills
    BY <2>1, <2>2 DEF NoFill, Fills
  <2>4. lastFill' = NoneYet
    BY <1>1 DEF FillRequest
  <2> QED
    BY <2>3, <2>4, FillsTyped DEF FillTyped, FillMeetsRequest
<1>2. CASE FillLock
  <2>1. TargetBufferedPointsAt(rate, latency) \in Nat
    <3>1. TargetBufferedPointsAt(rate, latency) \in MinPoints..MaxQueuedPoints
      BY TargetRange DEF QueueInv, RatesOK
    <3> QED
      BY <3>1, BufferAssumption
  <2>2. fill' = [fill EXCEPT !.target = TargetBufferedPointsAt(rate, latency), !.frame = frameMode]
        /\ lastFill' = lastFill
    BY <1>2 DEF FillLock
  <2>3. fill' \in Fills
    BY <1>f, <2>1, <2>2 DEF Fills, FlagsTyped
  <2> QED
    BY <1>f, <2>2, <2>3 DEF FillTyped, FillMeetsRequest
<1>3. CASE FillHold
  <2>1. lastFill' = [len |-> fill.min, real |-> 0, min |-> fill.min, short |-> FALSE, held |-> TRUE]
        /\ fill' = NoFill
    BY <1>3 DEF FillHold
  <2>2. lastFill' \in Served /\ FillMeetsRequest'
    BY <1>f, <2>1 DEF Served, FillMeetsRequest
  <2> QED
    BY <2>1, <2>2, FillsTyped DEF FillTyped
<1>4. CASE FillProceed
  <2>1. fill' = [fill EXCEPT !.short = AllowShortRead] /\ lastFill' = lastFill
    BY <1>4 DEF FillProceed
  <2>2. AllowShortRead \in BOOLEAN
    BY Zenon DEF AllowShortRead
  <2>3. fill' \in Fills
    BY <1>f, <2>1, <2>2 DEF Fills
  <2> QED
    BY <1>f, <2>1, <2>3 DEF FillTyped, FillMeetsRequest
<1>5. CASE FillDrain
  <2> DEFINE n == Smaller(fill.max, Len(pending))
             len == IF Underrun(fill.min - n) THEN fill.min ELSE n
  <2>1. /\ fill' = NoFill
        /\ lastFill' = [len |-> len, real |-> n, min |-> fill.min, short |-> fill.short, held |-> FALSE]
    BY <1>5 DEF FillDrain
  <2>2. n \in Nat /\ len \in Nat /\ (len >= fill.min \/ fill.short)
    BY <1>f DEF Smaller, Underrun
  <2> HIDE DEF n, len
  <2>3. lastFill' \in Served /\ FillMeetsRequest'
    BY <1>f, <2>1, <2>2 DEF Served, FillMeetsRequest
  <2> QED
    BY <2>1, <2>3, FillsTyped DEF FillTyped
<1>u. ASSUME UNCHANGED <<fill, lastFill>> PROVE FillTyped' /\ FillMeetsRequest'
  BY <1>u DEF FillTyped, FillMeetsRequest
<1>6. ASSUME NEW s \in Submitters, SubmitContinuous(s) \/ ReplaceFrame(s) PROVE UNCHANGED <<fill, lastFill>>
  BY <1>6 DEF SubmitContinuous, SubmitContinuousBegin, SubmitContinuousLimit, SubmitContinuousLock,
     ReplaceFrame, ReplaceFrameBegin, ReplaceFrameMode, ReplaceFrameLock, ReplaceFrameRate, fillVars
<1>7. ASSUME NEW s \in Submitters, SubmitFrame(s) \/ Return(s) \/ Reset(s) PROVE UNCHANGED <<fill, lastFill>>
  BY <1>7 DEF SubmitFrame, SubmitFrameBegin, SubmitFrameLock, SubmitFrameSend, Return, Reset, ResetLock,
     ResetFlags, fillVars
<1>8. CASE GetStatsSnapshot \/ Tick \/ UNCHANGED vars
  BY <1>8, <1>u DEF GetStatsSnapshot, Tick, vars, fillVars
<1> QED
  BY <1>1, <1>2, <1>3, <1>4, <1>5, <1>u, <1>6, <1>7, <1>8 DEF Next, FillFromQueue
------------------------------------------------------------------------------
(* Every step keeps the points accounted for *)

CountInv == CountsTyped /\ PositionsTyped /\ PointsAccounted

LEMMA AccountedStep == QueueInv /\ CountInv /\ [Next]_vars => CountsTyped' /\ PointsAccounted'
<1> SUFFICES ASSUME QueueInv, CountsTyped, PositionsTyped, PointsAccounted, [Next]_vars
             PROVE  CountsTyped' /\ PointsAccounted'
  BY DEF CountInv
<1> DEFINE carried == Cardinality(InFlight)
           kept == Len(pending)
<1>t. /\ pc \in [Submitters -> Positions] /\ op \in [Submitters -> Operations]
      /\ \A s \in Submitters : Len(op[s].flags) \in Nat
  <2>1. op \in [Submitters -> Operations] /\ \A s \in Submitters : op[s].flags \in Seq(BOOLEAN)
    BY DEF QueueInv, LocalsOK, Operations
  <2>2. pc \in [Submitters -> Positions]
    BY DEF PositionsTyped
  <2>3. \A s \in Submitters : Len(op[s].flags) \in Nat
    BY <2>1, LenProperties
  <2> QED
    BY <2>1, <2>2, <2>3
<1>k. /\ received \in Nat /\ emitted \in Nat /\ dropped \in Nat /\ kept \in Nat /\ carried \in Nat
      /\ emitted + dropped + kept + carried <= received
  <2>1. carried \in Nat
    BY FS_CardinalityType DEF PointsAccounted
  <2>2. kept \in Nat
    BY DEF QueueInv, QueueOK, Holds
  <2> QED
    BY <2>1, <2>2 DEF CountsTyped, PointsAccounted
<1>e. ASSUME NEW s \in Submitters, NEW n \in Nat, NEW to \in Counted, pc[s] \notin Counted,
             pc' = [pc EXCEPT ![s] = to], Len(op'[s].flags) = n, \A t \in Submitters \ {s} : op'[t] = op[t],
             received' = received + n, UNCHANGED <<emitted, dropped, pending>>
      PROVE  CountsTyped' /\ PointsAccounted'
  <2>1. IsFiniteSet(InFlight') /\ Cardinality(InFlight') = carried + n
    BY <1>e, <1>t, Enters
  <2> QED
    BY <1>e, <1>k, <2>1 DEF CountsTyped, PointsAccounted
<1>l. ASSUME NEW s \in Submitters, NEW to, pc[s] \in Counted, to \notin Counted,
             pc' = [pc EXCEPT ![s] = to], \A t \in Submitters \ {s} : op'[t] = op[t],
             NEW d \in Nat, dropped' = dropped + d, UNCHANGED <<received, emitted>>,
             NEW m \in Nat, Len(pending') = m, d + m <= kept + Len(op[s].flags)
      PROVE  CountsTyped' /\ PointsAccounted'
  <2> DEFINE n == Len(op[s].flags)
  <2>1. IsFiniteSet(InFlight') /\ Cardinality(InFlight') = carried - n /\ n \in Nat /\ d + m <= kept + n
    BY <1>l, <1>t, Leaves
  <2> HIDE DEF n, kept, carried
  <2>2. emitted + (dropped + d) + m + (carried - n) <= received /\ dropped + d \in Nat
    BY <1>k, <2>1
  <2> QED
    BY <1>l, <1>k, <2>1, <2>2 DEF CountsTyped, PointsAccounted
<1>s. ASSUME NEW s \in Submitters, NEW to, pc' = [pc EXCEPT ![s] = to], pc[s] \in Counted <=> to \in Counted,
             pc[s] \in Counted => op'[s].flags = op[s].flags, \A t \in Submitters \ {s} : op'[t] = op[t],
             UNCHANGED <<received, emitted, dropped>>, pending' = pending \/ pending' = <<>>
      PROVE  CountsTyped' /\ PointsAccounted'
  <2>1. InFlight' = InFlight
    BY <1>s, <1>t, Stays
  <2>2. Len(pending') \in Nat /\ Len(pending') <= kept
    BY <1>s, <1>k
  <2> QED
    BY <1>s, <1>k, <2>1, <2>2 DEF CountsTyped, PointsAccounted
<1> USE DEF Goto
<1>1. ASSUME NEW s \in Submitters,
             \/ SubmitContinuousBegin(s) \/ SubmitFrameBegin(s)
      PROVE  CountsTyped' /\ PointsAccounted'
  <2>1. PICK flags \in Slices, command \in Rates :
          /\ received' = received + Len(flags)
          /\ op' = [op EXCEPT ![s] = [NoOp EXCEPT !.flags = flags, !.command = command]]
             \/ op' = [op EXCEPT ![s] = [NoOp EXCEPT !.flags = flags]]
    BY <1>1 DEF SubmitContinuousBegin, SubmitFrameBegin
  <2>2. Len(flags) \in Nat
    BY SubmissionAssumption
  <2>3. op'[s].flags = flags /\ \A t \in Submitters \ {s} : op'[t] = op[t]
    BY <1>t, <2>1 DEF NoOp
  <2>4. PICK to \in {"contLimit", "frameLock"} : pc[s] = "idle" /\ pc' = [pc EXCEPT ![s] = to]
    BY <1>1 DEF SubmitContinuousBegin, SubmitFrameBegin
  <2>5. UNCHANGED <<emitted, dropped, pending>>
    BY <1>1 DEF SubmitContinuousBegin, SubmitFrameBegin, queueVars
  <2>6. to \in Counted /\ pc[s] \notin Counted
    BY <2>4 DEF Counted
  <2> QED
    BY <1>e, <2>1, <2>2, <2>3, <2>4, <2>5, <2>6
<1>2. ASSUME NEW s \in Submitters, ReplaceFrameMode(s) PROVE CountsTyped' /\ PointsAccounted'
  <2>1. /\ received' = received + Len(op[s].flags) /\ op' = [op EXCEPT ![s].down = observed']
        /\ pc[s] = "replMode" /\ pc' = [pc EXCEPT ![s] = "replLock"]
        /\ UNCHANGED <<emitted, dropped, pending>>
    BY <1>2 DEF ReplaceFrameMode, queueVars
  <2>2. op'[s].flags = op[s].flags /\ \A t \in Submitters \ {s} : op'[t] = op[t]
    BY <1>t, <2>1 DEF Operations
  <2>3. "replLock" \in Counted /\ pc[s] \notin Counted
    BY <2>1 DEF Counted
  <2> QED
    BY <1>e, <1>t, <2>1, <2>2, <2>3
<1>3. ASSUME NEW s \in Submitters, SubmitContinuousLock(s) PROVE CountsTyped' /\ PointsAccounted'
  <2>1. /\ pc[s] = "contLock" /\ pc' = [pc EXCEPT ![s] = "return"]
        /\ UNCHANGED <<received, emitted>>
    BY <1>3 DEF SubmitContinuousLock
  <2> DEFINE n == Len(op[s].flags)
             d == Drops(s)
  <2>2. /\ n \in Nat /\ d \in 0..(kept + n)
        /\ Len(pending') = kept + n - d /\ dropped' = dropped + d
        /\ op' = [op EXCEPT ![s].result = MakeSubmissionResult(TRUE, n, d)]
    BY <1>3, ContinuousEffect
  <2>3. \A t \in Submitters \ {s} : op'[t] = op[t]
    BY <1>t, <2>2
  <2>4. pc[s] \in Counted /\ "return" \notin Counted
    BY <2>1 DEF Counted
  <2>5. kept + n - d \in Nat /\ d \in Nat /\ d + (kept + n - d) <= kept + n
    <3> HIDE DEF n, d, kept
    <3> QED
      BY <1>k, <2>2
  <2> QED
    BY <1>l, <2>1, <2>2, <2>3, <2>4, <2>5
<1>4. ASSUME NEW s \in Submitters, ReplaceFrameLock(s) PROVE CountsTyped' /\ PointsAccounted'
  <2>1. /\ pc[s] = "replLock" /\ pc' = [pc EXCEPT ![s] = "replRate"]
        /\ UNCHANGED <<received, emitted>>
    BY <1>4 DEF ReplaceFrameLock
  <2> DEFINE n == Len(op[s].flags)
             limit == op[s].limit
             cut == Smaller(n, limit)
  <2>2. n \in Nat /\ limit \in Nat
    BY <1>4, ReplaceEffect
  <2>3. PICK d \in 0..cut :
          /\ Len(pending') = cut - d /\ dropped' = dropped + d
          /\ op' = [op EXCEPT ![s].result = MakeSubmissionResult(TRUE, n, d)]
    BY <1>4, ReplaceEffect
  <2>4. \A t \in Submitters \ {s} : op'[t] = op[t]
    BY <1>t, <2>3
  <2>5. pc[s] \in Counted /\ "replRate" \notin Counted
    BY <2>1 DEF Counted
  <2>6. cut - d \in Nat /\ d \in Nat /\ d + (cut - d) <= kept + n
    <3> HIDE DEF n, limit, kept
    <3>1. cut \in 0..n
      BY <2>2, CutRange
    <3> QED
      BY <1>k, <2>2, <3>1
  <2> QED
    BY <1>l, <2>1, <2>3, <2>4, <2>5, <2>6
<1>5. ASSUME NEW s \in Submitters, SubmitFrameSend(s) PROVE CountsTyped' /\ PointsAccounted'
  <2> DEFINE n == Len(op[s].flags)
  <2>1. PICK d \in {0, n} :
          /\ dropped' = dropped + d /\ \E r : op' = [op EXCEPT ![s].result = r]
          /\ pc[s] = "frameSend" /\ pc' = [pc EXCEPT ![s] = "return"]
          /\ UNCHANGED <<received, emitted, pending>>
    BY <1>5 DEF SubmitFrameSend, queueVars
  <2>2. \A t \in Submitters \ {s} : op'[t] = op[t]
    BY <1>t, <2>1
  <2>3. pc[s] \in Counted /\ "return" \notin Counted
    BY <2>1 DEF Counted
  <2>4. Len(pending') = kept /\ d \in Nat /\ d + kept <= kept + n
    BY <1>t, <1>k, <2>1
  <2> QED
    BY <1>k, <1>l, <2>1, <2>2, <2>3, <2>4
<1>6. CASE FillDrain
  <2> DEFINE n == Smaller(fill.max, Len(pending))
  <2>1. /\ pending' = DropFront(pending, n) /\ emitted' = emitted + n
        /\ UNCHANGED <<received, dropped, pc, op>>
    BY <1>6 DEF FillDrain
  <2>2. n \in 0..kept
    BY <1>k DEF Smaller, QueueInv, LocalsOK
  <2>3. Len(pending') = kept - n
    <3> HIDE DEF n
    <3> QED
      BY <2>1, <2>2, DropFrontHolds DEF QueueInv, QueueOK
  <2>4. InFlight' = InFlight
    BY <2>1 DEF InFlight
  <2> HIDE DEF n
  <2> QED
    BY <1>k, <2>1, <2>2, <2>3, <2>4 DEF CountsTyped, PointsAccounted
<1>7. ASSUME NEW s \in Submitters, SubmitContinuousLimit(s) \/ ReplaceFrameBegin(s) \/ ReplaceFrameRate(s)
      PROVE  CountsTyped' /\ PointsAccounted'
  <2>1. CASE SubmitContinuousLimit(s)
    <3>1. /\ pc' = [pc EXCEPT ![s] = "contLock"] /\ pc[s] = "contLimit"
          /\ op' = [op EXCEPT ![s].limit = LiveContinuousPointLimitAt(rate', latency)]
          /\ UNCHANGED <<received, emitted, dropped, pending>>
      BY <2>1 DEF SubmitContinuousLimit, queueVars, countVars
    <3>2. op'[s].flags = op[s].flags /\ \A t \in Submitters \ {s} : op'[t] = op[t]
      BY <1>t, <3>1 DEF Operations
    <3> QED
      BY <1>s, <3>1, <3>2 DEF Counted
  <2>2. CASE ReplaceFrameBegin(s)
    <3>1. /\ pc' = [pc EXCEPT ![s] = "replMode"] /\ pc[s] = "idle"
          /\ \E v : op' = [op EXCEPT ![s] = v]
          /\ UNCHANGED <<received, emitted, dropped, pending>>
      BY <2>2 DEF ReplaceFrameBegin, queueVars, countVars
    <3>2. \A t \in Submitters \ {s} : op'[t] = op[t]
      BY <1>t, <3>1
    <3> QED
      BY <1>s, <3>1, <3>2 DEF Counted
  <2>3. CASE ReplaceFrameRate(s)
    <3>1. /\ pc' = [pc EXCEPT ![s] = "return"] /\ pc[s] = "replRate" /\ op' = op
          /\ UNCHANGED <<received, emitted, dropped, pending>>
      BY <2>3 DEF ReplaceFrameRate, queueVars, countVars
    <3> QED
      BY <1>s, <3>1 DEF Counted
  <2> QED
    BY <1>7, <2>1, <2>2, <2>3
<1>8. ASSUME NEW s \in Submitters, SubmitFrameLock(s) \/ Reset(s) PROVE CountsTyped' /\ PointsAccounted'
  <2>1. /\ op' = op /\ UNCHANGED <<received, emitted, dropped>> /\ (pending' = pending \/ pending' = <<>>)
        /\ \/ pc' = [pc EXCEPT ![s] = "frameSend"] /\ pc[s] = "frameLock"
           \/ pc' = [pc EXCEPT ![s] = "resetFlags"] /\ pc[s] = "idle"
           \/ pc' = [pc EXCEPT ![s] = "idle"] /\ pc[s] = "resetFlags"
    BY <1>8 DEF SubmitFrameLock, Reset, ResetLock, ResetFlags, countVars
  <2> QED
    BY <1>s, <2>1 DEF Counted
<1>9. ASSUME NEW s \in Submitters, Return(s) PROVE CountsTyped' /\ PointsAccounted'
  <2>1. /\ pc' = [pc EXCEPT ![s] = "idle"] /\ pc[s] = "return" /\ op' = [op EXCEPT ![s] = NoOp]
        /\ UNCHANGED <<received, emitted, dropped, pending>>
    BY <1>9 DEF Return, queueVars, countVars
  <2>2. \A t \in Submitters \ {s} : op'[t] = op[t]
    BY <1>t, <2>1
  <2> QED
    BY <1>s, <2>1, <2>2 DEF Counted
<1>10. CASE FillRequest \/ FillLock \/ FillHold \/ FillProceed \/ GetStatsSnapshot \/ Tick \/ UNCHANGED vars
  <2>1. UNCHANGED <<pc, op, received, emitted, dropped, pending>>
    BY <1>10 DEF FillRequest, FillLock, FillHold, FillProceed, GetStatsSnapshot, Tick, vars, queueVars, countVars
  <2> QED
    BY <2>1 DEF InFlight, CountsTyped, PointsAccounted
<1> QED
  BY <1>1, <1>2, <1>3, <1>4, <1>5, <1>6, <1>7, <1>8, <1>9, <1>10
  DEF Next, SubmitContinuous, ReplaceFrame, SubmitFrame, FillFromQueue

(* The invariant of the sink with its types and its telemetry.              *)
SinkInv == QueueInv /\ TypeOK /\ PointsAccounted /\ FillMeetsRequest

(* It holds in every state: no interleaving of submissions, resets, fills   *)
(* and changes of rate or latency counts a point twice.                     *)
THEOREM SinkAccounted == Spec => []SinkInv
<1>1. Init => TypeOK /\ PointsAccounted /\ FillMeetsRequest
  <2> SUFFICES ASSUME Init PROVE TypeOK /\ PointsAccounted /\ FillMeetsRequest
    OBVIOUS
  <2>1. FlagsTyped /\ CountsTyped
    BY DEF Init, FlagsTyped, CountsTyped
  <2>2. ClocksTyped
    BY LatencyAssumption DEF Init, ClocksTyped
  <2>3. PositionsTyped
    BY DEF Init, PositionsTyped, Positions
  <2>4. FillTyped /\ FillMeetsRequest
    BY FillsTyped DEF Init, FillTyped, FillMeetsRequest
  <2>5. /\ pending \in Seq(Points) /\ rate \in Nat /\ observed \in Nat /\ admitted \in Nat /\ superseded \in Nat
        /\ op \in [Submitters -> Operations]
    BY RateAssumption, NoOpType DEF Init, Larger
  <2>6. InFlight = {}
    <3>1. \A x : x \notin InFlight
      BY DEF Init, InFlight, Counted
    <3> QED
      BY <3>1
  <2>7. PointsAccounted
    BY <2>6, FS_EmptySet DEF Init, PointsAccounted
  <2> QED
    BY <2>1, <2>2, <2>3, <2>4, <2>5, <2>7, TypesTogether
<1>2. QueueInv /\ QueueInv' /\ TypeOK /\ PointsAccounted /\ FillMeetsRequest /\ [Next]_vars
        => TypeOK' /\ PointsAccounted' /\ FillMeetsRequest'
  <2> SUFFICES ASSUME QueueInv, QueueInv', TypeOK, PointsAccounted, FillMeetsRequest, [Next]_vars
               PROVE  TypeOK' /\ PointsAccounted' /\ FillMeetsRequest'
    OBVIOUS
  <2>1. FlagsTyped /\ ClocksTyped /\ CountsTyped /\ PositionsTyped /\ FillTyped
    BY TypesTogether
  <2>2. FlagsTyped' /\ ClocksTyped' /\ PositionsTyped'
    BY <2>1, FlagsStep, ClocksStep, PositionsStep DEF QueueInv
  <2>3. FillTyped' /\ FillMeetsRequest'
    BY <2>1, FillStep
  <2>4. CountsTyped' /\ PointsAccounted'
    BY <2>1, AccountedStep DEF CountInv
  <2>5. /\ pending' \in Seq(Points) /\ rate' \in Nat /\ observed' \in Nat /\ admitted' \in Nat /\ superseded' \in Nat
        /\ op' \in [Submitters -> Operations]
    BY DEF QueueInv, RatesOK, LocalsOK, QueueOK, Holds
  <2>6. TypeOK'
    BY <2>2, <2>3, <2>4, <2>5, Zenon
    DEF TypeOK, FlagsTyped, ClocksTyped, CountsTyped, PositionsTyped, FillTyped, Positions, Served
  <2> QED
    BY <2>3, <2>4, <2>6
<1> QED
  BY <1>1, <1>2, SinkInvariant, PTL DEF Spec, SinkInv

(* Points handed out, dropped and still queued are different points that    *)
(* were received, every fill is served and every variable keeps its type.   *)
THEOREM SinkIsConsistent == Spec => []SinkConsistent
<1>1. SinkInv => SinkConsistent
  <2> SUFFICES ASSUME SinkInv PROVE SinkConsistent
    OBVIOUS
  <2>1. Cardinality(InFlight) \in Nat
    BY FS_CardinalityType DEF SinkInv, PointsAccounted
  <2>2. Len(pending) \in Nat
    BY DEF SinkInv, QueueInv, QueueOK, Holds
  <2>3. emitted \in Nat /\ dropped \in Nat /\ received \in Nat
    BY DEF SinkInv, TypeOK
  <2>4. emitted + dropped + Len(pending) + Cardinality(InFlight) <= received
    BY DEF SinkInv, PointsAccounted
  <2>5. CountersConsistent
    BY <2>1, <2>2, <2>3, <2>4 DEF CountersConsistent
  <2> QED
    BY <2>5 DEF SinkInv, SinkConsistent
<1> QED
  BY <1>1, SinkAccounted, PTL

(* A submission reports no more points as accepted than it queued, but for  *)
(* the tail cut off a frame: however the drop at a frame boundary falls.    *)
THEOREM AcceptedAreQueued == Spec => AcceptedPointsAreQueued
<1> DEFINE Fine(s) == (pc[s] \in {"contLock", "replLock"} /\ pc'[s] # pc[s]) =>
                        op'[s].result.acceptedPoints <= Len(pending') + CutOff(s)
<1>1. ASSUME SinkInv, [Next]_vars, NEW s \in Submitters PROVE Fine(s)
  <2> SUFFICES ASSUME pc[s] \in {"contLock", "replLock"}, pc'[s] # pc[s]
               PROVE  op'[s].result.acceptedPoints <= Len(pending') + CutOff(s)
    OBVIOUS
  <2>q. QueueInv /\ pc \in [Submitters -> Positions]
    BY <1>1, TypesTogether DEF SinkInv, PositionsTyped
  <2>1. SubmitContinuousLock(s) \/ ReplaceFrameLock(s)
    <3>m. ASSUME NEW t \in Submitters, NEW from, NEW to, Goto(t, from, to), from \notin {"contLock", "replLock"}
          PROVE  FALSE
      BY <2>q, <3>m DEF Goto
    <3>1. ASSUME NEW t \in Submitters, SubmitContinuous(t) \/ ReplaceFrame(t)
          PROVE  t = s /\ (SubmitContinuousLock(t) \/ ReplaceFrameLock(t))
      <4>1. SubmitContinuousLock(t) \/ ReplaceFrameLock(t)
        BY <3>1, <3>m DEF SubmitContinuous, ReplaceFrame, SubmitContinuousBegin, SubmitContinuousLimit,
           ReplaceFrameBegin, ReplaceFrameMode, ReplaceFrameRate
      <4>2. \E to : pc' = [pc EXCEPT ![t] = to]
        BY <4>1 DEF SubmitContinuousLock, ReplaceFrameLock, Goto
      <4> QED
        BY <2>q, <4>1, <4>2
    <3>2. ASSUME NEW t \in Submitters, SubmitFrame(t) \/ Return(t) \/ Reset(t) PROVE FALSE
      BY <3>2, <3>m DEF SubmitFrame, Reset, SubmitFrameBegin, SubmitFrameLock, SubmitFrameSend, Return,
         ResetLock, ResetFlags
    <3>3. ~(FillFromQueue \/ GetStatsSnapshot \/ Tick \/ UNCHANGED vars)
      BY DEF FillFromQueue, FillRequest, FillLock, FillHold, FillProceed, FillDrain, GetStatsSnapshot, Tick, vars
    <3> QED
      BY <1>1, <3>1, <3>2, <3>3 DEF Next
  <2>o. op \in [Submitters -> Operations] /\ op[s] \in Operations
    BY <2>q DEF QueueInv, LocalsOK
  <2> DEFINE accepted == op'[s].result.acceptedPoints
             after == Len(pending')
  <2>r. ASSUME NEW n \in Nat, NEW d \in Nat, op' = [op EXCEPT ![s].result = MakeSubmissionResult(TRUE, n, d)]
        PROVE  accepted = n - Smaller(n, d)
    BY <2>r, <2>o, Zenon DEF MakeSubmissionResult, Operations
  <2>2. CASE SubmitContinuousLock(s)
    <3>1. CutOff(s) = 0
      BY <2>2 DEF SubmitContinuousLock, Goto, CutOff
    <3> QED
      <4> DEFINE n == Len(op[s].flags)
                 d == Drops(s)
                 kept == Len(pending)
      <4>1. /\ n \in Nat /\ kept \in Nat /\ d \in 0..(kept + n) /\ after = kept + n - d
            /\ op' = [op EXCEPT ![s].result = MakeSubmissionResult(TRUE, n, d)]
        BY <2>q, <2>2, ContinuousEffect
      <4>2. accepted = n - Smaller(n, d)
        <5>1. d \in Nat
          BY <4>1
        <5> QED
          BY <2>r, <4>1, <5>1
      <4> HIDE DEF n, d, kept, accepted, after
      <4>3. accepted <= after + 0
        BY <4>1, <4>2 DEF Smaller
      <4> QED
        BY <3>1, <4>3 DEF accepted, after
  <2>3. CASE ReplaceFrameLock(s)
    <3>1. CutOff(s) = Larger(0, Len(op[s].flags) - op[s].limit)
      BY <2>3 DEF ReplaceFrameLock, Goto, CutOff
    <3> QED
      <4> DEFINE n == Len(op[s].flags)
                 limit == op[s].limit
      <4>1. n \in Nat /\ limit \in Nat
        BY <2>q, <2>3, ReplaceEffect
      <4>2. PICK d \in 0..Smaller(n, limit) :
              /\ after = Smaller(n, limit) - d
              /\ op' = [op EXCEPT ![s].result = MakeSubmissionResult(TRUE, n, d)]
        BY <2>q, <2>3, ReplaceEffect
      <4>3. d \in Nat
        BY <4>1 DEF Smaller
      <4>4. accepted = n - Smaller(n, d)
        BY <2>r, <4>1, <4>2, <4>3
      <4> HIDE DEF n, limit, accepted, after
      <4>5. accepted <= after + Larger(0, n - limit)
        BY <4>1, <4>2, <4>3, <4>4 DEF Smaller, Larger
      <4> QED
        BY <3>1, <4>5 DEF n, limit, accepted, after
  <2> QED
    BY <2>1, <2>2, <2>3
<1>2. SinkInv /\ [Next]_vars => [\A s \in Submitters : Fine(s)]_vars
  BY <1>1
<1> QED
  BY <1>2, SinkAccounted, PTL DEF Spec, AcceptedPointsAreQueued
------------------------------------------------------------------------------
(* The refinement of AtomicSink *)

(* What a call carries until its critical section: one of the slices that   *)
(* clients send, and a limit that leaves room for at least MinPoints.       *)
CallOK(s) ==
  /\ pc[s] \in {"contLimit", "contLock", "replMode", "replLock", "frameLock"} => op[s].flags \in Slices
  /\ pc[s] \in {"contLock", "replMode", "replLock"} => op[s].limit \in MinPoints..MaxQueuedPoints
CallsOK == \A s \in Submitters : CallOK(s)

(* A step of one thread is a matter of what that thread carries.            *)
LEMMA OneCallMoves ==
  ASSUME NEW s \in Submitters, NEW to, NEW v, CallsOK,
         pc \in [Submitters -> Positions], op \in [Submitters -> Operations],
         pc' = [pc EXCEPT ![s] = to], op' = [op EXCEPT ![s] = v],
         to \in {"contLimit", "contLock", "replMode", "replLock", "frameLock"} => v.flags \in Slices,
         to \in {"contLock", "replMode", "replLock"} => v.limit \in MinPoints..MaxQueuedPoints
  PROVE  CallsOK'
<1>1. pc'[s] = to /\ op'[s] = v
  OBVIOUS
<1>2. \A t \in Submitters \ {s} : pc'[t] = pc[t] /\ op'[t] = op[t]
  OBVIOUS
<1>3. CallOK(s)'
  BY <1>1 DEF CallOK
<1>4. \A t \in Submitters \ {s} : CallOK(t)'
  BY <1>2 DEF CallOK, CallsOK
<1> QED
  BY <1>3, <1>4 DEF CallsOK

(* Every limit that a thread computes before it takes the lock leaves room, *)
(* at whatever rate and latency it was computed.                            *)
LEMMA CallsStep == SinkInv /\ SinkInv' /\ CallsOK /\ [Next]_vars => CallsOK'
<1> SUFFICES ASSUME SinkInv, SinkInv', CallsOK, [Next]_vars PROVE CallsOK'
  OBVIOUS
<1>t. /\ pc \in [Submitters -> Positions] /\ op \in [Submitters -> Operations]
      /\ rate \in Nat /\ rate' \in Nat /\ latency \in Nat
  BY TypesTogether DEF SinkInv, PositionsTyped, QueueInv, LocalsOK, RatesOK
<1>s. ASSUME NEW s \in Submitters, op' = op \/ \E r : op' = [op EXCEPT ![s].result = r],
             NEW to \in {"return", "replRate", "frameSend", "resetFlags", "idle"}, pc' = [pc EXCEPT ![s] = to]
      PROVE  CallsOK'
  <2>1. \E v : op' = [op EXCEPT ![s] = v]
    BY <1>s, <1>t
  <2> QED
    BY <1>s, <1>t, <2>1, OneCallMoves
<1>1. ASSUME NEW s \in Submitters, SubmitContinuous(s) PROVE CallsOK'
  <2>1. CASE SubmitContinuousBegin(s)
    <3>1. PICK flags \in Slices, command \in Rates :
            /\ pc' = [pc EXCEPT ![s] = "contLimit"]
            /\ op' = [op EXCEPT ![s] = [NoOp EXCEPT !.flags = flags, !.command = command]]
      BY <2>1 DEF SubmitContinuousBegin, Goto
    <3>2. [NoOp EXCEPT !.flags = flags, !.command = command].flags = flags
      BY DEF NoOp
    <3> QED
      BY <1>t, <3>1, <3>2, OneCallMoves
  <2>2. CASE SubmitContinuousLimit(s)
    <3> DEFINE v == [op[s] EXCEPT !.limit = LiveContinuousPointLimitAt(rate', latency)]
    <3>1. /\ pc[s] = "contLimit" /\ pc' = [pc EXCEPT ![s] = "contLock"]
          /\ op' = [op EXCEPT ![s] = v]
      BY <2>2 DEF SubmitContinuousLimit, Goto
    <3>2. op[s] \in Operations
      BY <1>t
    <3>3. v.flags = op[s].flags /\ v.limit = LiveContinuousPointLimitAt(rate', latency)
      BY <3>2 DEF Operations
    <3>4. v.flags \in Slices /\ v.limit \in MinPoints..MaxQueuedPoints
      BY <1>t, <3>1, <3>3, ContinuousLimitRange DEF CallsOK, CallOK
    <3> HIDE DEF v
    <3> QED
      BY <1>t, <3>1, <3>4, OneCallMoves
  <2>3. CASE SubmitContinuousLock(s)
    BY <1>s, <2>3 DEF SubmitContinuousLock, Goto
  <2> QED
    BY <1>1, <2>1, <2>2, <2>3 DEF SubmitContinuous
<1>2. ASSUME NEW s \in Submitters, ReplaceFrame(s) PROVE CallsOK'
  <2>1. CASE ReplaceFrameBegin(s)
    <3> DEFINE limit == LiveReplacementPointLimitAt(rate, latency)
    <3>1. PICK flags \in Slices, command \in Rates :
            /\ pc' = [pc EXCEPT ![s] = "replMode"]
            /\ op' = [op EXCEPT ![s] = [NoOp EXCEPT !.flags = flags, !.command = command, !.limit = limit]]
      BY <2>1 DEF ReplaceFrameBegin, Goto
    <3>2. limit \in MinPoints..MaxQueuedPoints
      BY <1>t, ReplacementLimitRange
    <3> HIDE DEF limit
    <3> DEFINE v == [NoOp EXCEPT !.flags = flags, !.command = command, !.limit = limit]
    <3>3. v.flags = flags /\ v.limit = limit
      BY DEF NoOp
    <3> HIDE DEF v
    <3> QED
      BY <1>t, <3>1, <3>2, <3>3, OneCallMoves DEF v
  <2>2. CASE ReplaceFrameMode(s)
    <3> DEFINE v == [op[s] EXCEPT !.down = observed']
    <3>1. pc[s] = "replMode" /\ pc' = [pc EXCEPT ![s] = "replLock"] /\ op' = [op EXCEPT ![s] = v]
      BY <2>2 DEF ReplaceFrameMode, Goto
    <3>2. op[s] \in Operations
      BY <1>t
    <3>3. v.flags = op[s].flags /\ v.limit = op[s].limit
      BY <3>2 DEF Operations
    <3>4. v.flags \in Slices /\ v.limit \in MinPoints..MaxQueuedPoints
      BY <3>1, <3>3 DEF CallsOK, CallOK
    <3> HIDE DEF v
    <3> QED
      BY <1>t, <3>1, <3>4, OneCallMoves
  <2>3. CASE ReplaceFrameLock(s)
    BY <1>s, <2>3 DEF ReplaceFrameLock, Goto
  <2>4. CASE ReplaceFrameRate(s)
    BY <1>s, <2>4 DEF ReplaceFrameRate, Goto
  <2> QED
    BY <1>2, <2>1, <2>2, <2>3, <2>4 DEF ReplaceFrame
<1>3. ASSUME NEW s \in Submitters, SubmitFrame(s) PROVE CallsOK'
  <2>1. CASE SubmitFrameBegin(s)
    <3>1. PICK flags \in Slices :
            /\ pc' = [pc EXCEPT ![s] = "frameLock"]
            /\ op' = [op EXCEPT ![s] = [NoOp EXCEPT !.flags = flags]]
      BY <2>1 DEF SubmitFrameBegin, Goto
    <3>2. [NoOp EXCEPT !.flags = flags].flags = flags
      BY DEF NoOp
    <3> QED
      BY <1>t, <3>1, <3>2, OneCallMoves
  <2>2. CASE SubmitFrameLock(s)
    BY <1>s, <2>2 DEF SubmitFrameLock, Goto
  <2>3. CASE SubmitFrameSend(s)
    BY <1>s, <2>3 DEF SubmitFrameSend, Goto
  <2> QED
    BY <1>3, <2>1, <2>2, <2>3 DEF SubmitFrame
<1>4. ASSUME NEW s \in Submitters, Return(s) PROVE CallsOK'
  BY <1>4, <1>t, OneCallMoves DEF Return, Goto
<1>5. ASSUME NEW s \in Submitters, Reset(s) PROVE CallsOK'
  BY <1>5, <1>s DEF Reset, ResetLock, ResetFlags, Goto
<1>6. CASE FillFromQueue \/ GetStatsSnapshot \/ Tick \/ UNCHANGED vars
  <2>1. UNCHANGED <<pc, op>>
    BY <1>6 DEF FillFromQueue, FillRequest, FillLock, FillHold, FillProceed, FillDrain,
       GetStatsSnapshot, Tick, vars
  <2> QED
    BY <2>1 DEF CallsOK, CallOK
<1> QED
  BY <1>1, <1>2, <1>3, <1>4, <1>5, <1>6 DEF Next

(* No thread drops against a limit that leaves no room.                     *)
THEOREM CallsLeaveRoom == Spec => []CallsOK
<1>1. Init => CallsOK
  BY DEF Init, CallsOK, CallOK
<1> QED
  BY <1>1, CallsStep, SinkAccounted, PTL DEF Spec

(* What a thread asks for, by its position.                                 *)
LEMMA CallKinds ==
  ASSUME NEW s \in Submitters
  PROVE  /\ pc[s] \in {"contLimit", "contLock"} => Calls[s] = [kind |-> "continuous", points |-> op[s].flags]
         /\ pc[s] \in {"replMode", "replLock"} => Calls[s] = [kind |-> "replace", points |-> op[s].flags]
         /\ pc[s] = "frameLock" => Calls[s] = [kind |-> "frame", points |-> op[s].flags]
         /\ pc[s] = "idle" => Calls[s] = Atomic!Away
         /\ pc[s] \in {"replRate", "frameSend", "return", "resetFlags"} => Calls[s] = Atomic!Served
BY DEF Calls, Called, Atomic!Away, Atomic!Served

(* A step of one thread changes what that thread asks for.                  *)
LEMMA OneCallTurns ==
  ASSUME NEW s \in Submitters, NEW to, NEW v,
         pc \in [Submitters -> Positions], op \in [Submitters -> Operations],
         pc' = [pc EXCEPT ![s] = to], op' = [op EXCEPT ![s] = v]
  PROVE  /\ Calls' = [Calls EXCEPT ![s] = Calls'[s]]
         /\ Calls'[s] = Called(s)' /\ pc'[s] = to /\ op'[s] = v
         /\ to = "idle" => Calls'[s] = Atomic!Away
         /\ to \in {"replRate", "frameSend", "return", "resetFlags"} => Calls'[s] = Atomic!Served
<1>1. pc'[s] = to /\ op'[s] = v
  OBVIOUS
<1>2. ASSUME NEW t \in Submitters, t # s PROVE Called(t)' = Called(t)
  <2>1. pc'[t] = pc[t] /\ op'[t] = op[t]
    BY <1>2
  <2> QED
    BY <2>1 DEF Called
<1>3. Calls' = [t \in Submitters |-> Called(t)'] /\ Calls = [t \in Submitters |-> Called(t)]
  BY DEF Calls
<1>4. Calls' = [Calls EXCEPT ![s] = Calls'[s]]
  BY <1>2, <1>3
<1>5. Calls'[s] = Called(s)'
  BY <1>3
<1>6. /\ to = "idle" => Called(s)' = [kind |-> "none", points |-> <<>>]
      /\ to \in {"replRate", "frameSend", "return", "resetFlags"}
           => Called(s)' = [kind |-> "served", points |-> <<>>]
  BY <1>1 DEF Called
<1> QED
  BY <1>1, <1>4, <1>5, <1>6 DEF Atomic!Away, Atomic!Served

(* When a call keeps its points and its kind, nobody asks for anything new. *)
LEMMA CallsStand ==
  ASSUME NEW s \in Submitters, Calls' = [Calls EXCEPT ![s] = Calls'[s]], Calls'[s] = Calls[s]
  PROVE  Calls' = Calls
BY DEF Calls

(* A drop that looks for a frame start leaves a point if it may.            *)
LEMMA BoundaryDropLeaves ==
  ASSUME NEW q \in Seq(Points), NEW want \in 1..(Len(q) - 1)
  PROVE  BoundaryDrop(q, want) \in want..(Len(q) - 1)
<1> DEFINE starts == FrameStarts(q, want)
<1>1. starts \subseteq want..(Len(q) - 1)
  BY DEF FrameStarts, Larger
<1>2. starts \in SUBSET Nat
  BY <1>1
<1> HIDE DEF starts
<1>3. CASE starts = {}
  BY <1>3 DEF BoundaryDrop, starts
<1>4. CASE starts # {}
  <2>1. \E i \in starts : \A j \in starts : i <= j
    BY <1>2, <1>4, LeastNatural
  <2>2. BoundaryDrop(q, want) \in starts
    BY <1>4, <2>1 DEF BoundaryDrop, starts
  <2> QED
    BY <1>1, <2>2
<1> QED
  BY <1>3, <1>4

(* The slices that clients send hold points.                                *)
LEMMA SlicesHold ==
  ASSUME NEW flags \in Slices
  PROVE  flags \in Seq(BOOLEAN) /\ Len(flags) \in Nat \ {0}
<1>1. flags \in Seq(BOOLEAN) /\ flags # <<>>
  BY SubmissionAssumption
<1> QED
  BY <1>1, EmptySeq

(* The critical section of submitContinuous.                                *)
LEMMA ContinuousIsAtomic ==
  ASSUME SinkInv, SinkInv', CallsOK, NEW s \in Submitters, SubmitContinuousLock(s)
  PROVE  Atomic!Continue(s)
<1> DEFINE q == Extended(s)
           d == Drops(s)
           n == Len(op[s].flags)
<1>1. /\ pc[s] = "contLock" /\ pc' = [pc EXCEPT ![s] = "return"]
      /\ pending' = DropFront(q, d) /\ admitted' = admitted + n /\ emitted' = emitted
      /\ op' = [op EXCEPT ![s] = [op[s] EXCEPT !.result = MakeSubmissionResult(TRUE, n, d)]]
  BY DEF SubmitContinuousLock, Goto, Extended, Excess, Drops
<1>t. pc \in [Submitters -> Positions] /\ op \in [Submitters -> Operations]
  BY TypesTogether DEF SinkInv, PositionsTyped, QueueInv, LocalsOK
<1>2. Calls[s] = [kind |-> "continuous", points |-> op[s].flags]
  BY <1>1, CallKinds
<1>3. Calls' = [Calls EXCEPT ![s] = Calls'[s]] /\ Calls'[s] = Atomic!Served
  BY <1>t, <1>1, OneCallTurns
<1>4. op[s].flags \in Slices /\ op[s].limit \in MinPoints..MaxQueuedPoints
  BY <1>1 DEF CallsOK, CallOK
<1>5. n \in Nat \ {0}
  BY <1>4, SlicesHold
<1>6. Holds(q, superseded, admitted + n) /\ d \in 0..Len(q)
  BY ContinuousDrops DEF SinkInv, QueueInv
<1>7. admitted = superseded + Len(pending) /\ Len(pending) \in Nat /\ superseded \in Nat /\ admitted \in Nat
  BY DEF SinkInv, QueueInv, QueueOK, Holds
<1>8. q \in Seq(Points) /\ Len(q) \in Nat \ {0}
  <2> HIDE DEF q, n
  <2> QED
    BY <1>5, <1>6, <1>7 DEF Holds
<1>9. d \in 0..(Len(q) - 1) /\ (Len(q) <= MinPoints => d = 0)
  <2>1. CASE Excess(s) > 0
    <3>1. Excess(s) \in 1..(Len(q) - 1) /\ Len(q) > MinPoints
      <4> HIDE DEF q
      <4>1. Excess(s) = Len(q) - op[s].limit
        BY DEF Excess, q
      <4> QED
        BY <1>4, <1>8, <2>1, <4>1, BufferAssumption
    <3>2. d \in Excess(s)..(Len(q) - 1)
      BY <1>8, <2>1, <3>1, BoundaryDropLeaves DEF Drops
    <3> HIDE DEF q, d
    <3> QED
      BY <1>8, <3>1, <3>2, BufferAssumption
  <2>2. CASE ~(Excess(s) > 0)
    <3>1. d = 0
      BY <2>2 DEF Drops
    <3> HIDE DEF q, d
    <3> QED
      BY <1>8, <3>1
  <2> QED
    BY <2>1, <2>2
<1>10. Len(pending') <= MaxQueuedPoints
  BY DEF SinkInv, QueueInv, QueueOK
<1>11. q = pending \o Atomic!New(op[s].flags) /\ pending' = Atomic!Without(q, d)
  BY <1>1 DEF Extended, Numbered, Atomic!New, Atomic!Without, DropFront
<1>12. Atomic!Serve(s, "continuous")
  BY <1>1, <1>2, <1>3 DEF Atomic!Serve, Atomic!Turns
<1>13. Calls[s].points = op[s].flags
  BY <1>2
<1> HIDE DEF q, d, n
<1> QED
  BY <1>1, <1>9, <1>10, <1>11, <1>12, <1>13 DEF Atomic!Continue, n

(* The critical section of replaceFrame.                                    *)
LEMMA ReplaceIsAtomic ==
  ASSUME SinkInv, SinkInv', CallsOK, NEW s \in Submitters, ReplaceFrameLock(s)
  PROVE  Atomic!Replace(s)
<1> DEFINE flags == op[s].flags
           n == Len(flags)
           limit == op[s].limit
           cut == Smaller(n, limit)
           d == Smaller(cut, Larger(0, cut + op[s].down - MaxQueuedPoints))
<1>1. /\ pc[s] = "replLock" /\ pc' = [pc EXCEPT ![s] = "replRate"]
      /\ pending' = DropFront(Numbered(SubSeq(flags, 1, cut)), d)
      /\ admitted' = admitted + cut /\ emitted' = emitted
      /\ op' = [op EXCEPT ![s] = [op[s] EXCEPT !.result = MakeSubmissionResult(TRUE, n, d)]]
  BY DEF ReplaceFrameLock, Goto
<1>t. pc \in [Submitters -> Positions] /\ op \in [Submitters -> Operations] /\ op[s].down \in Nat
  BY TypesTogether DEF SinkInv, PositionsTyped, QueueInv, LocalsOK, Operations
<1>2. Calls[s] = [kind |-> "replace", points |-> flags]
  BY <1>1, CallKinds
<1>3. Calls' = [Calls EXCEPT ![s] = Calls'[s]] /\ Calls'[s] = Atomic!Served
  BY <1>t, <1>1, OneCallTurns
<1>4. flags \in Slices /\ limit \in MinPoints..MaxQueuedPoints
  BY <1>1 DEF CallsOK, CallOK
<1>5. n \in Nat \ {0}
  BY <1>4, SlicesHold
<1>6. cut \in 1..n
  <2> HIDE DEF n, limit
  <2> QED
    BY <1>4, <1>5, BufferAssumption DEF Smaller
<1>7. d \in 0..cut
  <2> HIDE DEF cut, n
  <2>1. cut \in Nat /\ cut + op[s].down - MaxQueuedPoints \in Int
    BY <1>t, <1>5, <1>6, BufferAssumption
  <2> QED
    BY <2>1, CutDropRange
<1>8. Len(pending') <= MaxQueuedPoints
  BY DEF SinkInv, QueueInv, QueueOK
<1> HIDE DEF cut, d
<1>9. pending' = Atomic!Without(Atomic!New(SubSeq(flags, 1, cut)), d)
  BY <1>1 DEF Numbered, Atomic!New, Atomic!Without, DropFront
<1>10. Atomic!Serve(s, "replace")
  BY <1>1, <1>2, <1>3 DEF Atomic!Serve, Atomic!Turns
<1>11. Calls[s].points = flags
  BY <1>2
<1> HIDE DEF flags
<1> QED
  BY <1>1, <1>6, <1>7, <1>8, <1>9, <1>10, <1>11 DEF Atomic!Replace

(* Each call begins and ends in a step of its own thread; what it does in   *)
(* between, outside its critical section, the other threads cannot tell.    *)
LEMMA ThreadIsAtomic ==
  ASSUME SinkInv, SinkInv', CallsOK, CallsOK', NEW s \in Submitters,
         SubmitContinuous(s) \/ ReplaceFrame(s) \/ SubmitFrame(s) \/ Return(s) \/ Reset(s)
  PROVE  Atomic!Next \/ UNCHANGED Atomic!vars
<1>t. /\ pc \in [Submitters -> Positions] /\ op \in [Submitters -> Operations]
      /\ op' \in [Submitters -> Operations] /\ op[s] \in Operations
  BY TypesTogether DEF SinkInv, PositionsTyped, QueueInv, LocalsOK
<1>b. ASSUME NEW kind \in Atomic!Kinds, NEW flags \in Slices, pc[s] = "idle",
             Calls' = [Calls EXCEPT ![s] = Calls'[s]], Calls'[s] = [kind |-> kind, points |-> flags],
             UNCHANGED <<pending, admitted, emitted>>
      PROVE  Atomic!Call(s)
  <2>1. Calls[s] = Atomic!Away
    BY <1>b, CallKinds
  <2>2. Calls'[s] \in [kind : Atomic!Kinds, points : Slices]
    BY <1>b
  <2> QED
    BY <1>b, <2>1, <2>2 DEF Atomic!Call, Atomic!Turns
<1>s. ASSUME Calls' = [Calls EXCEPT ![s] = Calls'[s]], Calls'[s] = Calls[s],
             UNCHANGED <<pending, admitted, emitted>>
      PROVE  UNCHANGED Atomic!vars
  BY <1>s, CallsStand DEF Atomic!vars
<1>1. CASE SubmitContinuousBegin(s)
  <2>1. PICK flags \in Slices, command \in Rates :
          /\ pc[s] = "idle" /\ pc' = [pc EXCEPT ![s] = "contLimit"]
          /\ op' = [op EXCEPT ![s] = [NoOp EXCEPT !.flags = flags, !.command = command]]
          /\ UNCHANGED <<pending, admitted, emitted>>
    BY <1>1 DEF SubmitContinuousBegin, Goto, queueVars
  <2> DEFINE v == [NoOp EXCEPT !.flags = flags, !.command = command]
  <2>2. v.flags = flags /\ op' = [op EXCEPT ![s] = v]
    BY <2>1 DEF NoOp
  <2> HIDE DEF v
  <2>3. Calls' = [Calls EXCEPT ![s] = Calls'[s]] /\ Calls'[s] = [kind |-> "continuous", points |-> flags]
    <3>1. /\ Calls' = [Calls EXCEPT ![s] = Calls'[s]]
          /\ Calls'[s] = Called(s)' /\ pc'[s] = "contLimit" /\ op'[s] = v
      BY <1>t, <2>1, <2>2, OneCallTurns
    <3>2. Called(s)' = [kind |-> "continuous", points |-> v.flags]
      BY <3>1 DEF Called
    <3> QED
      BY <2>2, <3>1, <3>2
  <2>4. Atomic!Call(s)
    BY <1>b, <2>1, <2>3 DEF Atomic!Kinds
  <2> QED
    BY <2>4 DEF Atomic!Next
<1>2. CASE ReplaceFrameBegin(s)
  <2> DEFINE limit == LiveReplacementPointLimitAt(rate, latency)
  <2>1. PICK flags \in Slices, command \in Rates :
          /\ pc[s] = "idle" /\ pc' = [pc EXCEPT ![s] = "replMode"]
          /\ op' = [op EXCEPT ![s] = [NoOp EXCEPT !.flags = flags, !.command = command, !.limit = limit]]
          /\ UNCHANGED <<pending, admitted, emitted>>
    BY <1>2 DEF ReplaceFrameBegin, Goto, queueVars, countVars
  <2> HIDE DEF limit
  <2> DEFINE v == [NoOp EXCEPT !.flags = flags, !.command = command, !.limit = limit]
  <2>2. v.flags = flags /\ op' = [op EXCEPT ![s] = v]
    BY <2>1 DEF NoOp
  <2> HIDE DEF v
  <2>3. Calls' = [Calls EXCEPT ![s] = Calls'[s]] /\ Calls'[s] = [kind |-> "replace", points |-> flags]
    <3>1. /\ Calls' = [Calls EXCEPT ![s] = Calls'[s]]
          /\ Calls'[s] = Called(s)' /\ pc'[s] = "replMode" /\ op'[s] = v
      BY <1>t, <2>1, <2>2, OneCallTurns
    <3>2. Called(s)' = [kind |-> "replace", points |-> v.flags]
      BY <3>1 DEF Called
    <3> QED
      BY <2>2, <3>1, <3>2
  <2>4. Atomic!Call(s)
    BY <1>b, <2>1, <2>3 DEF Atomic!Kinds
  <2> QED
    BY <2>4 DEF Atomic!Next
<1>3. CASE SubmitFrameBegin(s)
  <2>1. PICK flags \in Slices :
          /\ pc[s] = "idle" /\ pc' = [pc EXCEPT ![s] = "frameLock"]
          /\ op' = [op EXCEPT ![s] = [NoOp EXCEPT !.flags = flags]]
          /\ UNCHANGED <<pending, admitted, emitted>>
    BY <1>3 DEF SubmitFrameBegin, Goto, queueVars
  <2> DEFINE v == [NoOp EXCEPT !.flags = flags]
  <2>2. v.flags = flags /\ op' = [op EXCEPT ![s] = v]
    BY <2>1 DEF NoOp
  <2> HIDE DEF v
  <2>3. Calls' = [Calls EXCEPT ![s] = Calls'[s]] /\ Calls'[s] = [kind |-> "frame", points |-> flags]
    <3>1. /\ Calls' = [Calls EXCEPT ![s] = Calls'[s]]
          /\ Calls'[s] = Called(s)' /\ pc'[s] = "frameLock" /\ op'[s] = v
      BY <1>t, <2>1, <2>2, OneCallTurns
    <3>2. Called(s)' = [kind |-> "frame", points |-> v.flags]
      BY <3>1 DEF Called
    <3> QED
      BY <2>2, <3>1, <3>2
  <2>4. Atomic!Call(s)
    BY <1>b, <2>1, <2>3 DEF Atomic!Kinds
  <2> QED
    BY <2>4 DEF Atomic!Next
<1>4. CASE SubmitContinuousLimit(s)
  <2> DEFINE v == [op[s] EXCEPT !.limit = LiveContinuousPointLimitAt(rate', latency)]
  <2>1. /\ pc[s] = "contLimit" /\ pc' = [pc EXCEPT ![s] = "contLock"] /\ op' = [op EXCEPT ![s] = v]
        /\ UNCHANGED <<pending, admitted, emitted>>
    BY <1>4 DEF SubmitContinuousLimit, Goto, queueVars, countVars
  <2>2. v.flags = op[s].flags
    BY <1>t DEF Operations
  <2> HIDE DEF v
  <2>3. Calls' = [Calls EXCEPT ![s] = Calls'[s]] /\ Calls'[s] = Calls[s]
    <3>1. /\ Calls' = [Calls EXCEPT ![s] = Calls'[s]]
          /\ Calls'[s] = Called(s)' /\ pc'[s] = "contLock" /\ op'[s] = v
      BY <1>t, <2>1, OneCallTurns
    <3>2. Called(s)' = [kind |-> "continuous", points |-> v.flags]
      BY <3>1 DEF Called
    <3>3. Calls[s] = [kind |-> "continuous", points |-> op[s].flags]
      BY <2>1, CallKinds
    <3> QED
      BY <2>2, <3>1, <3>2, <3>3
  <2> QED
    BY <1>s, <2>1, <2>3
<1>5. CASE ReplaceFrameMode(s)
  <2> DEFINE v == [op[s] EXCEPT !.down = observed']
  <2>1. /\ pc[s] = "replMode" /\ pc' = [pc EXCEPT ![s] = "replLock"] /\ op' = [op EXCEPT ![s] = v]
        /\ UNCHANGED <<pending, admitted, emitted>>
    BY <1>5 DEF ReplaceFrameMode, Goto, queueVars
  <2>2. v.flags = op[s].flags
    BY <1>t DEF Operations
  <2> HIDE DEF v
  <2>3. Calls' = [Calls EXCEPT ![s] = Calls'[s]] /\ Calls'[s] = Calls[s]
    <3>1. /\ Calls' = [Calls EXCEPT ![s] = Calls'[s]]
          /\ Calls'[s] = Called(s)' /\ pc'[s] = "replLock" /\ op'[s] = v
      BY <1>t, <2>1, OneCallTurns
    <3>2. Called(s)' = [kind |-> "replace", points |-> v.flags]
      BY <3>1 DEF Called
    <3>3. Calls[s] = [kind |-> "replace", points |-> op[s].flags]
      BY <2>1, CallKinds
    <3> QED
      BY <2>2, <3>1, <3>2, <3>3
  <2> QED
    BY <1>s, <2>1, <2>3
<1>6. CASE ReplaceFrameRate(s) \/ SubmitFrameSend(s)
  <2>1. PICK v :
          /\ pc[s] \in {"replRate", "frameSend"} /\ pc' = [pc EXCEPT ![s] = "return"]
          /\ op' = [op EXCEPT ![s] = v] /\ UNCHANGED <<pending, admitted, emitted>>
    BY <1>6, <1>t DEF ReplaceFrameRate, SubmitFrameSend, Goto, queueVars, countVars
  <2>2. Calls' = [Calls EXCEPT ![s] = Calls'[s]] /\ Calls'[s] = Calls[s]
    BY <1>t, <2>1, OneCallTurns, CallKinds
  <2> QED
    BY <1>s, <2>1, <2>2
<1>7. CASE SubmitFrameLock(s)
  <2>1. /\ pc[s] = "frameLock" /\ pc' = [pc EXCEPT ![s] = "frameSend"] /\ op' = [op EXCEPT ![s] = op[s]]
        /\ pending' = <<>> /\ UNCHANGED <<admitted, emitted>>
    BY <1>7, <1>t DEF SubmitFrameLock, Goto, countVars
  <2>2. /\ Calls' = [Calls EXCEPT ![s] = Calls'[s]] /\ Calls'[s] = Atomic!Served
        /\ Calls[s].kind = "frame"
    <3>1. Calls' = [Calls EXCEPT ![s] = Calls'[s]] /\ Calls'[s] = Atomic!Served
      BY <1>t, <2>1, OneCallTurns
    <3>2. Calls[s] = [kind |-> "frame", points |-> op[s].flags]
      BY <2>1, CallKinds
    <3> QED
      BY <3>1, <3>2
  <2>3. Atomic!Bypass(s)
    BY <2>1, <2>2 DEF Atomic!Bypass, Atomic!Serve, Atomic!Turns
  <2> QED
    BY <2>3 DEF Atomic!Next
<1>8. CASE ResetLock(s)
  <2>1. /\ pc[s] = "idle" /\ pc' = [pc EXCEPT ![s] = "resetFlags"] /\ op' = [op EXCEPT ![s] = op[s]]
        /\ pending' = <<>> /\ UNCHANGED <<admitted, emitted>>
    BY <1>8, <1>t DEF ResetLock, Goto, countVars
  <2>2. /\ Calls' = [Calls EXCEPT ![s] = Calls'[s]] /\ Calls'[s] = Atomic!Served
        /\ Calls[s] = Atomic!Away
    BY <1>t, <2>1, OneCallTurns, CallKinds
  <2>3. Atomic!Reset(s)
    BY <2>1, <2>2 DEF Atomic!Reset, Atomic!Turns
  <2> QED
    BY <2>3 DEF Atomic!Next
<1>9. CASE Return(s) \/ ResetFlags(s)
  <2>1. PICK v :
          /\ pc[s] \in {"return", "resetFlags"} /\ pc' = [pc EXCEPT ![s] = "idle"]
          /\ op' = [op EXCEPT ![s] = v] /\ UNCHANGED <<pending, admitted, emitted>>
    BY <1>9, <1>t DEF Return, ResetFlags, Goto, queueVars, countVars
  <2>2. /\ Calls' = [Calls EXCEPT ![s] = Calls'[s]] /\ Calls'[s] = Atomic!Away
        /\ Calls[s] = Atomic!Served
    BY <1>t, <2>1, OneCallTurns, CallKinds
  <2>3. Atomic!Return(s)
    BY <2>1, <2>2 DEF Atomic!Return, Atomic!Turns
  <2> QED
    BY <2>3 DEF Atomic!Next
<1>10. CASE SubmitContinuousLock(s)
  BY <1>10, ContinuousIsAtomic DEF Atomic!Next
<1>11. CASE ReplaceFrameLock(s)
  BY <1>11, ReplaceIsAtomic DEF Atomic!Next
<1> QED
  BY <1>1, <1>2, <1>3, <1>4, <1>5, <1>6, <1>7, <1>8, <1>9, <1>10, <1>11
  DEF SubmitContinuous, ReplaceFrame, SubmitFrame, Reset

(* A fill takes the points it hands out in one step, or none.               *)
LEMMA FillIsAtomic ==
  ASSUME SinkInv, FillFromQueue
  PROVE  Atomic!Next \/ UNCHANGED Atomic!vars
<1>1. CASE FillRequest \/ FillLock \/ FillHold \/ FillProceed
  <2>1. UNCHANGED <<pc, op, pending, admitted, emitted>>
    BY <1>1 DEF FillRequest, FillLock, FillHold, FillProceed, queueVars, countVars
  <2> QED
    BY <2>1 DEF Atomic!vars, Calls, Called
<1>2. CASE FillDrain
  <2> DEFINE n == Smaller(fill.max, Len(pending))
  <2>1. /\ pending' = DropFront(pending, n) /\ emitted' = emitted + n
        /\ UNCHANGED <<admitted, pc, op>>
    BY <1>2 DEF FillDrain
  <2>2. fill.max \in Nat /\ Len(pending) \in Nat /\ emitted \in Nat /\ pending \in Seq(Points)
    BY DEF SinkInv, QueueInv, QueueOK, LocalsOK, Holds, TypeOK
  <2>3. n \in 0..Len(pending)
    BY <2>2 DEF Smaller
  <2>4. Calls' = Calls
    BY <2>1 DEF Calls, Called
  <2> HIDE DEF n
  <2>5. CASE n = 0
    <3>1. pending' = pending
      BY <2>1, <2>2, <2>5, SubSeqFull DEF DropFront
    <3>2. emitted' = emitted
      BY <2>1, <2>2, <2>5
    <3> QED
      BY <2>1, <2>4, <3>1, <3>2 DEF Atomic!vars
  <2>6. CASE n # 0
    <3>1. n \in 1..Len(pending)
      BY <2>2, <2>3, <2>6
    <3>2. pending' = Atomic!Without(pending, n)
      BY <2>1 DEF Atomic!Without, DropFront
    <3> QED
      BY <2>1, <2>4, <3>1, <3>2 DEF Atomic!Next, Atomic!Take
  <2> QED
    BY <2>5, <2>6
<1> QED
  BY <1>1, <1>2 DEF FillFromQueue

(* However the threads interleave, every submission, every reset and every  *)
(* fill takes effect at one moment between its call and its return, and the *)
(* newest points always fit: the sink implements AtomicSink although only   *)
(* its queue is behind the lock.                                            *)
THEOREM SinkIsAtomic == Spec => ImplementsAtomicSink
<1>1. Init => Atomic!Init
  <2> SUFFICES ASSUME Init PROVE Atomic!Init
    OBVIOUS
  <2>1. \A s \in Submitters : Called(s) = Atomic!Away
    BY DEF Init, Called, Atomic!Away
  <2> QED
    BY <2>1 DEF Init, Atomic!Init, Calls
<1>2. SinkInv /\ SinkInv' /\ CallsOK /\ CallsOK' /\ [Next]_vars => [Atomic!Next]_Atomic!vars
  <2> SUFFICES ASSUME SinkInv, SinkInv', CallsOK, CallsOK', [Next]_vars
               PROVE  Atomic!Next \/ UNCHANGED Atomic!vars
    OBVIOUS
  <2>1. CASE \E s \in Submitters : SubmitContinuous(s) \/ ReplaceFrame(s) \/ SubmitFrame(s)
                                    \/ Return(s) \/ Reset(s)
    BY <2>1, ThreadIsAtomic
  <2>2. CASE FillFromQueue
    BY <2>2, FillIsAtomic
  <2>3. CASE GetStatsSnapshot \/ Tick \/ UNCHANGED vars
    <3>1. UNCHANGED <<pc, op, pending, admitted, emitted>>
      BY <2>3 DEF GetStatsSnapshot, Tick, vars, queueVars, countVars
    <3> QED
      BY <3>1 DEF Atomic!vars, Calls, Called
  <2> QED
    BY <2>1, <2>2, <2>3 DEF Next
<1> QED
  BY <1>1, <1>2, SinkAccounted, CallsLeaveRoom, PTL DEF Spec, ImplementsAtomicSink, Atomic!Spec
=============================================================================
