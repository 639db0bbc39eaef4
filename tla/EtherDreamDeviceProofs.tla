------------------------ MODULE EtherDreamDeviceProofs ------------------------
(* Proofs about EtherDreamDevice, for every capacity, rate limit, queue     *)
(* limit and set of client inputs.                                          *)
EXTENDS EtherDreamDevice, FiniteSetTheorems, SequenceTheorems, TLAPS

(* The number of rate changes a tick consumes is within the rate queue.     *)
LEMMA RateChangesBounded ==
  ASSUME QueuesOK, NEW n \in 0..Len(buffer)
  PROVE  RateChangesIn(n) \in 0..Len(rateQueue)
<1> DEFINE marked == {i \in 1..n : buffer[i].change}
<1>1. IsFiniteSet(1..n)
  BY FS_Interval DEF QueuesOK
<1>2. marked \in SUBSET (1..n)
  OBVIOUS
<1> HIDE DEF marked
<1>3. Cardinality(marked) \in Nat
  BY <1>1, <1>2, FS_Subset, FS_CardinalityType
<1>4. Len(rateQueue) \in Nat
  BY DEF QueuesOK
<1> QED
  BY <1>3, <1>4 DEF RateChangesIn, marked

(* What one tick of the playback timer does to the two queues: it takes n   *)
(* points and c queued rates off their fronts.                              *)
LEMMA TickTakesFronts ==
  ASSUME QueuesOK, MaxDue \in Nat, PlaybackTick
  PROVE  \E n \in 0..Len(buffer), c \in 0..Len(rateQueue) :
           /\ buffer' = SubSeq(buffer, n + 1, Len(buffer))
           /\ rateQueue' = SubSeq(rateQueue, c + 1, Len(rateQueue))
           /\ rate' = IF c > 0 THEN rateQueue[c].rate ELSE rate
           /\ \/ /\ playback' = "playing" /\ flags' = flags
              \/ /\ playback' = "idle" /\ n = Len(buffer)
                 /\ flags' = (flags \ {"shutter"}) \union {"underflow"}
<1>1. PICK due \in 1..MaxDue : PlaybackTick!(due)
  BY DEF PlaybackTick
<1> DEFINE n == IF due <= Len(buffer) THEN due ELSE Len(buffer)
           c == RateChangesIn(n)
<1>2. n \in 0..Len(buffer)
  BY DEF QueuesOK
<1>3. c \in 0..Len(rateQueue)
  BY <1>2, RateChangesBounded
<1>4. n < due => n = Len(buffer)
  BY DEF QueuesOK
<1> HIDE DEF n, c
<1>5. /\ buffer' = SubSeq(buffer, n + 1, Len(buffer))
      /\ rateQueue' = SubSeq(rateQueue, c + 1, Len(rateQueue))
      /\ rate' = IF c > 0 THEN rateQueue[c].rate ELSE rate
      /\ playback' = IF n < due THEN "idle" ELSE "playing"
      /\ flags' = IF n < due THEN (flags \ {"shutter"}) \union {"underflow"} ELSE flags
  BY <1>1 DEF n, c, PlaybackAfter, FlagsAfter
<1> QED
  BY <1>2, <1>3, <1>4, <1>5

(* Every step keeps the types of the scalar variables.                      *)
LEMMA ScalarsStep == TypeOK /\ [Next]_vars => ScalarsOK'
<1> SUFFICES ASSUME ScalarsOK, QueuesOK, [Next]_vars PROVE ScalarsOK'
  BY DEF TypeOK
<1> USE DeviceAssumption DEF ScalarsOK
<1>1. CASE HandleAccepted
  BY <1>1 DEF HandleAccepted, ResetState, StopPlaybackLocked
<1>2. CASE ClearSession
  BY <1>2 DEF ClearSession, ResetSink, StopPlaybackLocked
<1>3. CASE HandleCommand \/ AnswerOnly
  BY <1>3 DEF HandleCommand, AnswerOnly, Read, Awaiting, engineVars
<1>4. CASE HandlePrepare
  BY <1>4 DEF HandlePrepare, Read, Awaiting, ResetSink
<1>5. ASSUME NEW c \in {"begin", "update"}, ReadBegin(c) PROVE ScalarsOK'
  <2>1. PICK r \in WireRates : ReadBegin(c)!(r)
    BY <1>5 DEF ReadBegin
  <2>2. CASE ValidRate(r) /\ rate' = r /\ playback' = "playing"
             /\ flags' = flags \union {"shutter"} /\ clock' = "unset"
    BY <2>1, <2>2 DEF ValidRate, Read, Awaiting
  <2>3. CASE UNCHANGED <<rate, playback, flags, clock>>
    BY <2>1, <2>3 DEF Read, Awaiting
  <2> QED
    BY <2>1, <2>2, <2>3
<1>6. CASE ReadRateChange
  BY <1>6 DEF ReadRateChange, Read, Awaiting
<1>7. CASE ReadDataHeader
  BY <1>7 DEF ReadDataHeader, Read, Awaiting, engineVars
<1>8. CASE ReadDataPayload
  BY <1>8 DEF ReadDataPayload, Read, Awaiting
<1>9. CASE HandleStop
  BY <1>9 DEF HandleStop, Read, Awaiting, ResetSink, StopPlaybackLocked
<1>10. CASE HandleClear
  BY <1>10 DEF HandleClear, Read, Awaiting, ResetSink
<1>11. CASE HandleEmergencyStop
  BY <1>11 DEF HandleEmergencyStop, Read, Awaiting, ResetSink, StopPlaybackLocked
<1>12. CASE TickStart
  BY <1>12 DEF TickStart, readVars
<1>13. CASE PlaybackTick
  <2>1. PICK n \in 0..Len(buffer), c \in 0..Len(rateQueue) :
          /\ rate' = IF c > 0 THEN rateQueue[c].rate ELSE rate
          /\ playback' \in {"playing", "idle"}
          /\ flags' \in {flags, (flags \ {"shutter"}) \union {"underflow"}}
    BY <1>13, TickTakesFronts
  <2>2. c > 0 => rateQueue[c] \in QueuedRates
    BY ElementOfSeq DEF QueuesOK
  <2>4. rate' \in 1..MaxRate
    BY <2>1, <2>2 DEF QueuedRates
  <2>3. UNCHANGED <<phase, readVars, lightEngine, gen>>
        /\ clock' \in {"unset", "running"} /\ sink' \in {"empty", "holding"}
    BY <1>13 DEF PlaybackTick
  <2> QED
    BY <2>1, <2>3, <2>4 DEF readVars
<1>14. CASE StopBegin
  BY <1>14 DEF StopBegin, engineVars
<1>15. CASE StopJoin
  BY <1>15 DEF StopJoin, ResetState, StopPlaybackLocked
<1>16. CASE UNCHANGED vars
  BY <1>16 DEF vars, readVars, engineVars
<1> QED
  BY <1>1, <1>2, <1>3, <1>4, <1>5, <1>6, <1>7, <1>8, <1>9, <1>10, <1>11, <1>12,
     <1>13, <1>14, <1>15, <1>16 DEF Next, Command, Tick

(* Every step keeps the types of the point buffer and of the rate queue.    *)
LEMMA QueuesStep == TypeOK /\ [Next]_vars => QueuesOK'
<1> SUFFICES ASSUME ScalarsOK, QueuesOK, [Next]_vars PROVE QueuesOK'
  BY DEF TypeOK
<1> USE DeviceAssumption DEF QueuesOK
<1>1. CASE HandleAccepted \/ ClearSession \/ HandleStop \/ HandleEmergencyStop \/ StopJoin
  <2>1. buffer' = <<>> /\ rateQueue' = <<>>
    BY <1>1 DEF HandleAccepted, ClearSession, HandleStop, HandleEmergencyStop, StopJoin,
                ResetState, StopPlaybackLocked
  <2> QED
    BY <2>1, EmptySeq
<1>2. CASE HandlePrepare \/ HandleClear
  <2>1. (buffer' = <<>> /\ rateQueue' = <<>>) \/ UNCHANGED <<buffer, rateQueue>>
    BY <1>2 DEF HandlePrepare, HandleClear
  <2> QED
    BY <2>1, EmptySeq
<1>3. CASE ReadRateChange
  <2>1. PICK r \in WireRates : ReadRateChange!(r)
    BY <1>3 DEF ReadRateChange
  <2>2. ValidRate(r) => [rate |-> r, gen |-> gen] \in QueuedRates
    BY DEF ValidRate, QueuedRates, ScalarsOK
  <2> QED
    BY <2>1, <2>2, AppendProperties
<1>4. CASE ReadDataPayload
  <2>1. PICK change \in [1..dataCount -> BOOLEAN] :
          buffer' = IF DataAccepted(dataCount)
                      THEN buffer \o [i \in 1..dataCount |->
                                        [change |-> change[i], gen |-> gen]]
                      ELSE buffer
    BY <1>4 DEF ReadDataPayload
  <2>2. [i \in 1..dataCount |-> [change |-> change[i], gen |-> gen]] \in Seq(Points)
    BY DEF ScalarsOK, Points
  <2>3. buffer' \in Seq(Points)
    BY <2>1, <2>2, ConcatProperties
  <2> QED
    BY <1>4, <2>3 DEF ReadDataPayload
<1>5. CASE PlaybackTick
  <2>1. PICK n \in 0..Len(buffer), c \in 0..Len(rateQueue) :
          /\ buffer' = SubSeq(buffer, n + 1, Len(buffer))
          /\ rateQueue' = SubSeq(rateQueue, c + 1, Len(rateQueue))
    BY <1>5, TickTakesFronts
  <2> QED
    BY <2>1, SubSeqProperties
<1>6. ASSUME NEW c \in {"begin", "update"}, ReadBegin(c) PROVE QueuesOK'
  BY <1>6 DEF ReadBegin
<1>7. CASE HandleCommand \/ AnswerOnly \/ ReadDataHeader \/ StopBegin \/ TickStart
           \/ UNCHANGED vars
  BY <1>7 DEF HandleCommand, AnswerOnly, ReadDataHeader, StopBegin, TickStart, engineVars, vars
<1> QED
  BY <1>1, <1>2, <1>3, <1>4, <1>5, <1>6, <1>7 DEF Next, Command, Tick

(* A step either keeps the last reply or sends one: the fullness it reports *)
(* is that of the buffer the step leaves.                                   *)
LEMMA ReplyStep ==
  ASSUME [Next]_vars
  PROVE  reported' = reported \/ reported' = Len(buffer')
<1>1. CASE HandleAccepted \/ HandlePrepare \/ ReadDataPayload \/ HandleStop \/ HandleClear
           \/ HandleEmergencyStop \/ ReadRateChange \/ AnswerOnly \/ ReadDataHeader
  BY <1>1 DEF HandleAccepted, HandlePrepare, ReadDataPayload, HandleStop, HandleClear,
              HandleEmergencyStop, ReadRateChange, AnswerOnly, ReadDataHeader, SendResponse
<1>2. ASSUME NEW c \in {"begin", "update"}, ReadBegin(c) PROVE reported' = Len(buffer')
  BY <1>2 DEF ReadBegin, SendResponse
<1>3. CASE ClearSession \/ HandleCommand \/ Tick \/ StopBegin \/ StopJoin \/ UNCHANGED vars
  BY <1>3 DEF ClearSession, HandleCommand, Tick, TickStart, PlaybackTick, StopBegin, StopJoin, vars
<1> QED
  BY <1>1, <1>2, <1>3 DEF Next, Command

(* The device's variables keep their types: in particular the output rate   *)
(* is always one the device may run at.                                     *)
THEOREM TypeCorrect == Spec => []TypeOK
<1>1. Init => ScalarsOK
  BY DeviceAssumption DEF Init, ScalarsOK
<1>2. Init => QueuesOK /\ reported \in Nat
  BY DEF Init, QueuesOK
<1>3. TypeOK /\ [Next]_vars => TypeOK'
  <2> SUFFICES ASSUME TypeOK, [Next]_vars PROVE TypeOK'
    OBVIOUS
  <2>1. Len(buffer') \in Nat
    BY QueuesStep DEF QueuesOK
  <2> QED
    BY <2>1, ScalarsStep, QueuesStep, ReplyStep DEF TypeOK
<1> QED
  BY <1>1, <1>2, <1>3, PTL DEF Spec, TypeOK

(* The state machine part of the inductive invariant: flags, emergency stop *)
(* and target, which do not depend on what the queues hold beyond emptiness.*)
LEMMA ControlStep ==
  ASSUME TypeOK, DeviceInv, [Next]_vars
  PROVE  /\ FlagsMatchState' /\ EstopIsSafe' /\ IdleHoldsNothing'
         /\ TargetResetWhenStopped' /\ SessionShape'
<1> USE DEF TypeOK, ScalarsOK, DeviceInv, FlagsMatchState, EstopIsSafe, IdleHoldsNothing,
            TargetResetWhenStopped, SessionShape
<1>1. CASE HandleAccepted
  BY <1>1 DEF HandleAccepted, ResetState, StopPlaybackLocked
<1>2. CASE ClearSession
  BY <1>2 DEF ClearSession, ResetSink, StopPlaybackLocked
<1>3. CASE HandleCommand \/ AnswerOnly
  BY <1>3 DEF HandleCommand, AnswerOnly, Read, Awaiting, engineVars
<1>4. CASE HandlePrepare
  BY <1>4 DEF HandlePrepare, Read, Awaiting, ResetSink
<1>5. ASSUME NEW c \in {"begin", "update"}, ReadBegin(c)
      PROVE  /\ FlagsMatchState' /\ EstopIsSafe' /\ IdleHoldsNothing'
             /\ TargetResetWhenStopped' /\ SessionShape'
  BY <1>5 DEF ReadBegin, Read, Awaiting
<1>6. CASE ReadRateChange
  BY <1>6 DEF ReadRateChange, Read, Awaiting
<1>7. CASE ReadDataHeader
  BY <1>7 DEF ReadDataHeader, Read, Awaiting, engineVars
<1>8. CASE ReadDataPayload
  BY <1>8 DEF ReadDataPayload, DataAccepted, Read, Awaiting
<1>9. CASE HandleStop
  BY <1>9 DEF HandleStop, Read, Awaiting, ResetSink, StopPlaybackLocked
<1>10. CASE HandleClear
  BY <1>10 DEF HandleClear, Read, Awaiting, ResetSink
<1>11. CASE HandleEmergencyStop
  BY <1>11 DEF HandleEmergencyStop, Read, Awaiting, ResetSink, StopPlaybackLocked
<1>12. CASE TickStart
  BY <1>12 DEF TickStart, readVars
<1>13. CASE PlaybackTick
  <2>1. PICK n \in 0..Len(buffer), c \in 0..Len(rateQueue) :
          /\ buffer' = SubSeq(buffer, n + 1, Len(buffer))
          /\ \/ /\ playback' = "playing" /\ flags' = flags
             \/ /\ playback' = "idle" /\ n = Len(buffer)
                /\ flags' = (flags \ {"shutter"}) \union {"underflow"}
    BY <1>13, TickTakesFronts, DeviceAssumption
  <2>2. playback' = "idle" => buffer' = <<>>
    BY <2>1, SubSeqEmpty DEF QueuesOK
  <2>3. /\ UNCHANGED <<phase, session, lightEngine>>
        /\ phase = "up" /\ playback = "playing"
    BY <1>13 DEF PlaybackTick, readVars
  <2> QED
    BY <2>1, <2>2, <2>3
<1>14. CASE StopBegin
  BY <1>14 DEF StopBegin, engineVars
<1>15. CASE StopJoin
  BY <1>15 DEF StopJoin, ResetState, StopPlaybackLocked
<1>16. CASE UNCHANGED vars
  BY <1>16 DEF vars, readVars, engineVars
<1> QED
  BY <1>1, <1>2, <1>3, <1>4, <1>5, <1>6, <1>7, <1>8, <1>9, <1>10, <1>11, <1>12,
     <1>13, <1>14, <1>15, <1>16 DEF Next, Command, Tick

(* The queue part: limits, and everything queued belongs to this run.       *)
LEMMA QueueContentsStep ==
  ASSUME TypeOK, DeviceInv, [Next]_vars
  PROVE  WithinLimits' /\ NothingStale'
<1> USE DeviceAssumption DEF TypeOK, DeviceInv, WithinLimits, NothingStale
<1>1. CASE HandleAccepted \/ ClearSession \/ HandlePrepare \/ HandleStop
           \/ HandleEmergencyStop \/ StopJoin
  <2>1. buffer' = <<>> /\ rateQueue' = <<>>
    BY <1>1 DEF HandleAccepted, ClearSession, HandlePrepare, HandleStop,
                HandleEmergencyStop, StopJoin, ResetState, StopPlaybackLocked
  <2> QED
    BY <2>1
<1>2. CASE HandleClear
  <2>1. \/ buffer' = <<>> /\ rateQueue' = <<>>
        \/ UNCHANGED <<buffer, rateQueue, playback, gen>>
    BY <1>2 DEF HandleClear
  <2> QED
    BY <2>1
<1>3. CASE ReadRateChange
  <2>1. PICK r \in WireRates : ReadRateChange!(r)
    BY <1>3 DEF ReadRateChange
  <2>2. [rate |-> r, gen |-> gen].gen = gen
    OBVIOUS
  <2>3. CASE UNCHANGED rateQueue
    BY <2>1, <2>3
  <2>4. CASE rateQueue' = Append(rateQueue, [rate |-> r, gen |-> gen])
             /\ Len(rateQueue) < MaxRateQueue
    BY <2>1, <2>2, <2>4, AppendProperties DEF QueuesOK
  <2> QED
    BY <2>1, <2>3, <2>4
<1>4. CASE ReadDataPayload
  <2>1. PICK change \in [1..dataCount -> BOOLEAN] :
          /\ UNCHANGED <<rateQueue, playback, gen>>
          /\ buffer' = IF DataAccepted(dataCount)
                         THEN buffer \o [i \in 1..dataCount |->
                                           [change |-> change[i], gen |-> gen]]
                         ELSE buffer
    BY <1>4 DEF ReadDataPayload
  <2> DEFINE new == [i \in 1..dataCount |-> [change |-> change[i], gen |-> gen]]
  <2>2. new \in Seq(Points) /\ Len(new) = dataCount
    BY DEF ScalarsOK, Points
  <2>3. \A i \in 1..dataCount : new[i].gen = gen
    OBVIOUS
  <2> HIDE DEF new
  <2>4. CASE buffer' = buffer
    BY <2>1, <2>4
  <2>5. CASE buffer' = buffer \o new /\ DataAccepted(dataCount)
    <3>5. dataCount \in Nat /\ Len(buffer) \in Nat /\ buffer \in Seq(Points)
      BY DEF QueuesOK, ScalarsOK
    <3>6. Len(buffer') = Len(buffer) + dataCount
      BY <2>2, <2>5, <3>5, ConcatProperties
    <3>1. Len(buffer') = Len(buffer) + dataCount /\ dataCount \in Nat /\ Len(buffer) \in Nat
      BY <3>5, <3>6
    <3>2. \A i \in 1..Len(buffer') : buffer'[i] =
            IF i <= Len(buffer) THEN buffer[i] ELSE new[i - Len(buffer)]
      BY <2>2, <2>5, <3>1, ConcatProperties DEF QueuesOK
    <3>3. playback # "idle" /\ Len(buffer) + dataCount <= Capacity
      BY <2>5 DEF DataAccepted
    <3>4. \A i \in 1..Len(buffer') : buffer'[i].gen = gen
      BY <2>3, <3>1, <3>2, <3>3
    <3> QED
      BY <2>1, <3>1, <3>3, <3>4
  <2> QED
    BY <2>1, <2>4, <2>5 DEF new
<1>5. CASE PlaybackTick
  <2>1. PICK n \in 0..Len(buffer), c \in 0..Len(rateQueue) :
          /\ buffer' = SubSeq(buffer, n + 1, Len(buffer))
          /\ rateQueue' = SubSeq(rateQueue, c + 1, Len(rateQueue))
    BY <1>5, TickTakesFronts
  <2>2. gen' = gen /\ playback = "playing"
    BY <1>5 DEF PlaybackTick
  <2>3. /\ Len(buffer') = Len(buffer) - n
        /\ \A i \in 1..Len(buffer') : buffer'[i] = buffer[n + i]
    BY <2>1 DEF QueuesOK
  <2>4. /\ Len(rateQueue') = Len(rateQueue) - c
        /\ \A i \in 1..Len(rateQueue') : rateQueue'[i] = rateQueue[c + i]
    BY <2>1 DEF QueuesOK
  <2>5. Len(buffer) \in Nat /\ Len(rateQueue) \in Nat
    BY DEF QueuesOK
  <2>6. WithinLimits'
    BY <2>3, <2>4, <2>5
  <2>7. \A i \in 1..Len(buffer') : n + i \in 1..Len(buffer)
    BY <2>3, <2>5
  <2>8. \A i \in 1..Len(rateQueue') : c + i \in 1..Len(rateQueue)
    BY <2>4, <2>5
  <2>9. \A i \in 1..Len(buffer') : buffer'[i].gen = gen'
    BY <2>2, <2>3, <2>7
  <2>10. \A i \in 1..Len(rateQueue') : rateQueue'[i].gen = gen'
    BY <2>2, <2>4, <2>8
  <2> QED
    BY <2>6, <2>9, <2>10
<1>6. ASSUME NEW c \in {"begin", "update"}, ReadBegin(c)
      PROVE  WithinLimits' /\ NothingStale'
  <2>1. UNCHANGED <<buffer, rateQueue, gen>>
        /\ (playback' = playback \/ buffer # <<>>)
    BY <1>6 DEF ReadBegin
  <2> QED
    BY <2>1 DEF IdleHoldsNothing
<1>7. CASE HandleCommand \/ AnswerOnly \/ ReadDataHeader \/ StopBegin \/ TickStart
           \/ UNCHANGED vars
  BY <1>7 DEF HandleCommand, AnswerOnly, ReadDataHeader, StopBegin, TickStart, engineVars, vars
<1> QED
  BY <1>1, <1>2, <1>3, <1>4, <1>5, <1>6, <1>7 DEF Next, Command, Tick

(* The invariant of the device: limits, flags, emergency stop, no stale     *)
(* point or rate, and a target that is reset when playback is stopped.      *)
THEOREM DeviceInvariant == Spec => []DeviceInv
<1>1. Init => DeviceInv
  BY DeviceAssumption DEF Init, DeviceInv, WithinLimits, FlagsMatchState, EstopIsSafe,
     IdleHoldsNothing, NothingStale, TargetResetWhenStopped, SessionShape
<1>2. TypeOK /\ DeviceInv /\ [Next]_vars => DeviceInv'
  BY ControlStep, QueueContentsStep DEF DeviceInv
<1> QED
  BY <1>1, <1>2, TypeCorrect, PTL DEF Spec

(* Between replies the buffer only drains.                                  *)
LEMMA RoomStep ==
  ASSUME TypeOK, ReportedRoomIsReal, [Next]_vars
  PROVE  ReportedRoomIsReal'
<1> USE DEF ReportedRoomIsReal
<1>1. Len(buffer) \in Nat /\ Len(buffer') \in Nat /\ reported \in Nat
  BY QueuesStep DEF TypeOK, QueuesOK
<1>2. CASE reported' = Len(buffer')
  BY <1>1, <1>2
<1>3. CASE ClearSession \/ StopBegin \/ StopJoin
  <2>1. session' # "open" \/ (UNCHANGED <<session, buffer, reported>>) \/ Len(buffer') = 0
    BY <1>3 DEF ClearSession, StopBegin, StopJoin, ResetState, StopPlaybackLocked, engineVars
  <2>2. UNCHANGED reported
    BY <1>3 DEF ClearSession, StopBegin, StopJoin
  <2> QED
    BY <1>1, <2>1, <2>2
<1>4. CASE HandleCommand \/ ReadDataHeader \/ TickStart \/ UNCHANGED vars
  <2>1. UNCHANGED <<session, buffer>>
    BY <1>4 DEF HandleCommand, ReadDataHeader, TickStart, Read, engineVars, readVars, vars
  <2>2. reported' = reported \/ reported' = Len(buffer')
    BY ReplyStep
  <2> QED
    BY <1>1, <2>1, <2>2
<1>5. CASE PlaybackTick
  <2>1. PICK n \in 0..Len(buffer) : buffer' = SubSeq(buffer, n + 1, Len(buffer))
    BY <1>5, TickTakesFronts, DeviceAssumption DEF TypeOK
  <2>2. Len(buffer') <= Len(buffer)
    BY <2>1, <1>1 DEF TypeOK, QueuesOK
  <2>3. UNCHANGED <<session, reported>>
    BY <1>5 DEF PlaybackTick, readVars
  <2> QED
    BY <1>1, <2>2, <2>3
<1>6. CASE HandleAccepted \/ AnswerOnly \/ HandlePrepare \/ ReadRateChange \/ ReadDataPayload
           \/ HandleStop \/ HandleClear \/ HandleEmergencyStop
  <2>1. reported' = Len(buffer')
    BY <1>6 DEF HandleAccepted, AnswerOnly, HandlePrepare, ReadRateChange, ReadDataPayload,
                HandleStop, HandleClear, HandleEmergencyStop, SendResponse
  <2> QED
    BY <1>2, <2>1
<1>7. ASSUME NEW c \in {"begin", "update"}, ReadBegin(c) PROVE ReportedRoomIsReal'
  <2>1. reported' = Len(buffer')
    BY <1>7 DEF ReadBegin, SendResponse
  <2> QED
    BY <1>2, <2>1
<1> QED
  BY <1>3, <1>4, <1>5, <1>6, <1>7 DEF Next, Command, Tick

(* A client that keeps to the room of its last reply is never refused for   *)
(* lack of it, whatever the timer did since the reply.                      *)
THEOREM RoomIsReal == Spec => []ReportedRoomIsReal
<1>1. Init => ReportedRoomIsReal
  BY DEF Init, ReportedRoomIsReal
<1>2. TypeOK /\ ReportedRoomIsReal /\ [Next]_vars => ReportedRoomIsReal'
  BY RoomStep
<1> QED
  BY <1>1, <1>2, TypeCorrect, PTL DEF Spec

(* The device is consistent in every state, for any capacities and any      *)
(* rates on the wire: the flags a client sees, the limits it was told and   *)
(* what an idle device holds are parts of the inductive invariant.          *)
THEOREM DeviceIsConsistent == Spec => []DeviceConsistent
<1>1. TypeOK /\ DeviceInv => DeviceConsistent
  BY DEF DeviceInv, DeviceConsistent
<1> QED
  BY <1>1, TypeCorrect, DeviceInvariant, PTL

(* After an emergency stop nothing plays, nothing is buffered and the       *)
(* target holds no point, in every reachable state.                         *)
THEOREM EstopSafe == Spec => []EstopIsSafe
<1>1. DeviceInv => EstopIsSafe
  BY DEF DeviceInv
<1> QED
  BY <1>1, DeviceInvariant, PTL

(* A run only ever plays points and rates sent after its own prepare.       *)
THEOREM RunsAreFresh == Spec => []NothingStale
<1>1. DeviceInv => NothingStale
  BY DEF DeviceInv
<1> QED
  BY <1>1, DeviceInvariant, PTL

(* Stop, emergency stop and disconnect leave no points with the target.     *)
THEOREM StoppedTargetsAreReset == Spec => []TargetResetWhenStopped
<1>1. DeviceInv => TargetResetWhenStopped
  BY DEF DeviceInv
<1> QED
  BY <1>1, DeviceInvariant, PTL

(* No command makes an idle device play: 'u' finds its buffer empty.        *)
THEOREM PlayNeedsPrepareHolds == Spec => PlayNeedsPrepare
<1>1. DeviceInv /\ [Next]_vars => [playback = "idle" => playback' # "playing"]_vars
  <2> SUFFICES ASSUME DeviceInv, Next, playback = "idle" PROVE playback' # "playing"
    OBVIOUS
  <2>1. buffer = <<>>
    BY DEF DeviceInv, IdleHoldsNothing
  <2>2. ASSUME NEW c \in {"begin", "update"}, ReadBegin(c) PROVE playback' # "playing"
    BY <2>1, <2>2 DEF ReadBegin
  <2>3. CASE Tick
    BY <2>3 DEF Tick, TickStart, PlaybackTick
  <2>4. CASE HandleAccepted \/ ClearSession \/ StopBegin \/ StopJoin
    BY <2>4 DEF HandleAccepted, ClearSession, StopBegin, StopJoin, ResetState,
                StopPlaybackLocked, engineVars
  <2>5. CASE HandleCommand \/ AnswerOnly \/ HandlePrepare \/ ReadRateChange \/ ReadDataHeader
             \/ ReadDataPayload \/ HandleStop \/ HandleClear \/ HandleEmergencyStop
    BY <2>5 DEF HandleCommand, AnswerOnly, HandlePrepare, ReadRateChange, ReadDataHeader,
                ReadDataPayload, HandleStop, HandleClear, HandleEmergencyStop,
                StopPlaybackLocked, engineVars
  <2> QED
    BY <2>2, <2>3, <2>4, <2>5 DEF Next, Command
<1> QED
  BY <1>1, DeviceInvariant, PTL DEF Spec, PlayNeedsPrepare
=============================================================================
