---------------------- MODULE LiberaTargetServerProofs ----------------------
(* Proofs about LiberaTargetServer, for any number of clients, any limits   *)
(* and timeouts: one worker at a time has the sink, the server uses the     *)
(* sink as ExclusiveSink promises, sockets and worker threads are accounted *)
(* for, and the frame that a session assembles is of its mode.              *)
EXTENDS LiberaTargetServer, FiniteSetTheorems, TLAPS

(* The stages of a session in which the sink has been reset for it.         *)
Clean == {"accept", "ready", "stream", "resetOut"}

(* What the sink may hold at each stage.                                    *)
ContentOK ==
  /\ (\A c \in Clients : pc[c] \notin Owning) => content \subseteq {Leftover}
  /\ \A c \in Clients :
       /\ pc[c] \in Clean => content \subseteq {c}
       /\ pc[c] = "release" => content = {}

SessionInv ==
  /\ pc \in [Clients -> Positions] /\ owned \in BOOLEAN
  /\ cur \in Clients \cup {Nobody} /\ (apc = "spawn" => cur \in Clients /\ pc[cur] = "accepted")
  /\ ExclusiveOwnership
  /\ ContentOK
------------------------------------------------------------------------------
(* The steps of the server, told apart by what they do to the session       *)

(* Nobody changes sides, and the sink is left alone.                        *)
Quiet ==
  /\ UNCHANGED <<owned, content>>
  /\ pc' \in [Clients -> Positions]
  /\ \A c \in Clients : \/ pc'[c] = pc[c]
                        \/ pc[c] \in Clean /\ pc'[c] \in Clean
                        \/ pc[c] \notin Owning /\ pc'[c] \notin Owning

Acquires(c) == TryAcquireSession(c)
Clears(c) == ResetForSession(c) \/ ResetAfterSession(c)
Submits(c) == pc[c] = "stream" /\ content' = content \cup {c} /\ UNCHANGED <<pc, owned>>
Releases(c) == ReleaseSession(c)

(* The accept thread's current socket stays its own.                        *)
LEMMA CurStep ==
  ASSUME SessionInv, [Next]_vars
  PROVE  cur' \in Clients \cup {Nobody}
         /\ (apc' = "spawn" => cur' \in Clients /\ pc'[cur'] = "accepted")
<1> USE DEF SessionInv, Positions, Live, Owning
<1>1. ASSUME NEW c \in Clients, Worker(c) PROVE UNCHANGED <<cur, apc>> /\ \A d \in Clients :
        pc[d] = "accepted" => pc'[d] = "accepted"
  BY <1>1 DEF Worker, WorkerAlone, HandleRecord, ReadTimesOut, ReadFails, ReadProgress,
     ReadHello, ReadReady, TryAcquireSession, RejectBusy, ResetForSession, WriteAccept,
     ResetAfterSession, ReleaseSession, RemoveActiveSocket, MarkFinished, Reading,
     HandleStreamConfig, HandleFrameMarker, HandlePoints, AppendFramePoints,
     SubmitContinuousPoints, Streaming, Goto, workerFrame, recordFrame
<1>2. ASSUME NEW c \in Clients, Connect(c) \/ GoSilent(c)
      PROVE UNCHANGED <<cur, apc>> /\ \A d \in Clients : pc[d] = "accepted" => pc'[d] = "accepted"
  BY <1>2 DEF Connect, GoSilent, acceptVars, connVars
<1>3. CASE AcceptLoop
  BY <1>3 DEF AcceptLoop, AcceptTop, AcceptNothing, SetupFails, SpawnWorker, AcceptConnection, Reap
<1>4. CASE Stop \/ Tick \/ UNCHANGED vars
  BY <1>4 DEF Stop, StopBegin, JoinAccept, JoinWorkers, Tick, vars, acceptVars, connVars
<1> QED
  BY <1>1, <1>2, <1>3, <1>4 DEF Next

(* Every step is of one of the five kinds.                                  *)
LEMMA StepKinds ==
  ASSUME SessionInv, [Next]_vars
  PROVE  \/ Quiet
         \/ \E c \in Clients : Acquires(c) \/ Clears(c) \/ Submits(c) \/ Releases(c)
<1>p. pc \in [Clients -> Positions]
  BY DEF SessionInv
<1>1. ASSUME NEW c \in Clients,
             \/ ReadTimesOut(c) \/ ReadFails(c) \/ ReadHello(c) \/ RejectBusy(c)
             \/ WriteAccept(c) \/ ReadReady(c) \/ RemoveActiveSocket(c) \/ MarkFinished(c)
      PROVE  Quiet
  <2>1. UNCHANGED <<owned, content>>
    BY <1>1 DEF ReadTimesOut, ReadFails, ReadHello, RejectBusy, WriteAccept, ReadReady,
       RemoveActiveSocket, MarkFinished
  <2>2. CASE ReadTimesOut(c) \/ ReadFails(c)
    <3>1. pc[c] \in Reading /\ pc' = [pc EXCEPT ![c] = GiveUp(c)]
      BY <2>2 DEF ReadTimesOut, ReadFails
    <3> QED
      BY <1>p, <2>1, <3>1 DEF Quiet, Reading, GiveUp, Clean, Owning, Positions, Live
  <2>3. CASE ReadHello(c) \/ RejectBusy(c) \/ ReadReady(c) \/ RemoveActiveSocket(c) \/ MarkFinished(c)
    <3>1. \/ Goto(c, "hello", "acquire") \/ Goto(c, "acquire", "closing")
          \/ Goto(c, "ready", "stream") \/ Goto(c, "closing", "finishing")
          \/ Goto(c, "finishing", "finished")
      BY <2>3 DEF ReadHello, RejectBusy, ReadReady, RemoveActiveSocket, MarkFinished
    <3> QED
      BY <1>p, <2>1, <3>1 DEF Quiet, Goto, Clean, Owning, Positions, Live
  <2>4. CASE WriteAccept(c)
    <3>1. Goto(c, "accept", "ready") \/ Goto(c, "accept", "resetOut")
      BY <2>4 DEF WriteAccept
    <3> QED
      BY <1>p, <2>1, <3>1 DEF Quiet, Goto, Clean, Owning, Positions, Live
  <2> QED
    BY <1>1, <2>2, <2>3, <2>4
<1>u. ASSUME UNCHANGED <<pc, owned, content>> PROVE Quiet
  BY <1>p, <1>u DEF Quiet
<1>2. ASSUME NEW c \in Clients, ReadProgress(c) \/ HandleStreamConfig(c) PROVE Quiet
  BY <1>2, <1>u DEF ReadProgress, HandleStreamConfig, recordFrame
<1>e. ASSUME NEW c \in Clients, pc[c] = "stream", pc' = [pc EXCEPT ![c] = "resetOut"],
             UNCHANGED <<owned, content>>
      PROVE  Quiet
  BY <1>e, <1>p DEF Quiet, Positions, Live, Owning, Clean
<1>3. ASSUME NEW c \in Clients, HandleFrameMarker(c) PROVE Quiet
  <2>1. pc[c] = "stream" /\ UNCHANGED <<owned, content>>
        /\ (pc' = pc \/ pc' = [pc EXCEPT ![c] = "resetOut"])
    BY <1>3 DEF HandleFrameMarker, Streaming, recordFrame
  <2> QED
    BY <2>1, <1>u, <1>e
<1>4. ASSUME NEW c \in Clients, HandlePoints(c) PROVE Quiet \/ Submits(c)
  <2>1. PICK k \in PointCounts : Streaming(c)
          /\ (AppendFramePoints(c, k) \/ SubmitContinuousPoints(c, k)) /\ UNCHANGED owned
    BY <1>4 DEF HandlePoints, recordFrame
  <2>2. pc[c] = "stream"
    BY <2>1 DEF Streaming
  <2>3. \/ pc' = [pc EXCEPT ![c] = "resetOut"] /\ content' = content
        \/ pc' = pc /\ content' = content
        \/ pc' = pc /\ content' = content \cup {c}
    BY <2>1 DEF AppendFramePoints, SubmitContinuousPoints
  <2> QED
    BY <2>1, <2>2, <2>3, <1>u, <1>e DEF Submits
<1>5. ASSUME NEW c \in Clients, Connect(c) \/ GoSilent(c) PROVE Quiet
  BY <1>5, <1>p, <1>u DEF Connect, GoSilent, connVars, Quiet, Positions, Live, Owning
<1>6. CASE AcceptLoop
  <2>1. CASE AcceptTop
    BY <2>1, <1>p, <1>u DEF AcceptTop, Reap, Quiet, Positions, Live, Owning
  <2>2. CASE AcceptNothing
    BY <2>2, <1>u DEF AcceptNothing, connVars
  <2>3. CASE SetupFails \/ SpawnWorker
    BY <2>3, <1>p DEF SetupFails, SpawnWorker, Quiet, SessionInv, Positions, Live, Owning
  <2>4. ASSUME NEW c \in Clients, AcceptConnection(c) PROVE Quiet
    BY <2>4, <1>p DEF AcceptConnection, Quiet, Positions, Live, Owning
  <2> QED
    BY <1>6, <2>1, <2>2, <2>3, <2>4 DEF AcceptLoop
<1>7. CASE Stop
  <2>1. CASE StopBegin \/ JoinAccept
    BY <2>1, <1>u DEF StopBegin, JoinAccept, connVars
  <2>2. CASE JoinWorkers
    BY <2>2, <1>p DEF JoinWorkers, Quiet, Positions, Live, Owning
  <2> QED
    BY <1>7, <2>1, <2>2 DEF Stop
<1>8. CASE Tick \/ UNCHANGED vars
  BY <1>8, <1>u DEF Tick, vars, connVars
<1> QED
  BY <1>1, <1>2, <1>3, <1>4, <1>5, <1>6, <1>7, <1>8
  DEF Next, Worker, WorkerAlone, HandleRecord, Acquires, Clears, Releases

(* Each kind of step keeps the invariant.                                   *)
LEMMA SessionStep == SessionInv /\ [Next]_vars => SessionInv'
<1> SUFFICES ASSUME SessionInv, [Next]_vars PROVE SessionInv'
  OBVIOUS
<1>a. cur' \in Clients \cup {Nobody} /\ (apc' = "spawn" => cur' \in Clients /\ pc'[cur'] = "accepted")
  BY CurStep
<1>p. /\ pc \in [Clients -> Positions] /\ owned \in BOOLEAN
      /\ ExclusiveOwnership /\ ContentOK
  BY DEF SessionInv
<1> DEFINE Rest == /\ pc' \in [Clients -> Positions] /\ owned' \in BOOLEAN
                   /\ ExclusiveOwnership' /\ ContentOK'
<1>1. ASSUME Quiet PROVE Rest
  <2>1. \A c \in Clients : pc'[c] \in Owning <=> pc[c] \in Owning
    BY <1>1, <1>p DEF Quiet, Clean, Owning
  <2>2. ExclusiveOwnership'
    BY <1>1, <1>p, <2>1 DEF Quiet, ExclusiveOwnership
  <2>3. \A c \in Clients : /\ pc'[c] \in Clean => pc[c] \in Clean
                           /\ pc'[c] = "release" => pc[c] = "release"
    BY <1>1, <1>p DEF Quiet, Clean, Owning
  <2>4. ContentOK'
    BY <1>1, <1>p, <2>1, <2>3 DEF Quiet, ContentOK
  <2>5. owned' \in BOOLEAN
    BY <1>1, <1>p, Zenon DEF Quiet
  <2>6. pc' \in [Clients -> Positions]
    BY <1>1 DEF Quiet
  <2> QED
    BY <2>2, <2>4, <2>5, <2>6
<1>2. ASSUME NEW c \in Clients, Acquires(c) PROVE Rest
  <2>1. /\ ~owned /\ owned' = TRUE /\ pc[c] = "acquire" /\ content' = content
        /\ pc' = [pc EXCEPT ![c] = "resetIn"]
    BY <1>2 DEF Acquires, TryAcquireSession, Goto
  <2>2. \A d \in Clients : pc[d] \notin Owning
    BY <1>p, <2>1 DEF ExclusiveOwnership
  <2> QED
    BY <1>p, <2>1, <2>2 DEF ExclusiveOwnership, ContentOK, Owning, Clean, Positions, Live
<1>3. ASSUME NEW c \in Clients, Clears(c) PROVE Rest
  <2>1. /\ owned' = owned /\ pc[c] \in Owning /\ content' = {}
        /\ pc' = [pc EXCEPT ![c] = "accept"] \/ pc' = [pc EXCEPT ![c] = "release"]
    BY <1>3 DEF Clears, ResetForSession, ResetAfterSession, Goto, Owning
  <2> QED
    BY <1>p, <2>1 DEF ExclusiveOwnership, ContentOK, Owning, Clean, Positions, Live
<1>4. ASSUME NEW c \in Clients, Submits(c) PROVE Rest
  <2>1. \A d \in Clients : pc[d] \in Owning => d = c
    BY <1>4, <1>p DEF Submits, ExclusiveOwnership, Owning
  <2>2. content' \subseteq {c}
    BY <1>4, <1>p DEF Submits, ContentOK, Clean
  <2>3. ContentOK'
    BY <1>4, <2>1, <2>2 DEF Submits, ContentOK, Owning, Clean
  <2>4. ExclusiveOwnership'
    BY <1>4, <1>p DEF Submits, ExclusiveOwnership
  <2> QED
    BY <1>4, <1>p, <2>3, <2>4 DEF Submits
<1>5. ASSUME NEW c \in Clients, Releases(c) PROVE Rest
  <2>1. /\ owned' = FALSE /\ pc[c] = "release" /\ content' = content
        /\ pc' = [pc EXCEPT ![c] = "closing"]
    BY <1>5 DEF Releases, ReleaseSession, Goto
  <2>2. content = {} /\ \A d \in Clients : pc[d] \in Owning => d = c
    BY <1>p, <2>1 DEF ContentOK, ExclusiveOwnership, Owning
  <2>3. \A d \in Clients : pc'[d] \notin Owning
    BY <1>p, <2>1, <2>2 DEF Owning
  <2>4. pc' \in [Clients -> Positions]
    BY <1>p, <2>1 DEF Positions, Live
  <2> QED
    BY <1>p, <2>1, <2>2, <2>3, <2>4 DEF ExclusiveOwnership, ContentOK, Owning, Clean
<1> QED
  BY <1>a, <1>1, <1>2, <1>3, <1>4, <1>5, StepKinds DEF SessionInv

(* The invariant of the server's sessions.                                  *)
THEOREM SessionInvariant == Spec => []SessionInv
<1>1. Init => SessionInv
  BY DEF Init, SessionInv, ExclusiveOwnership, ContentOK, Positions, Live, Owning, Clean
<1> QED
  BY <1>1, SessionStep, PTL DEF Spec

(* Two workers never have the session, and it is free when none has it.     *)
THEOREM SessionIsExclusive == Spec => []ExclusiveOwnership
<1>1. SessionInv => ExclusiveOwnership
  BY DEF SessionInv
<1> QED
  BY <1>1, SessionInvariant, PTL
------------------------------------------------------------------------------
(* The refinement *)

LEMMA HolderIs ==
  ASSUME ExclusiveOwnership, NEW c \in Clients, pc[c] \in Owning
  PROVE  Holder = c
<1>1. \A d \in Clients : pc[d] \in Owning => d = c
  BY DEF ExclusiveOwnership
<1> QED
  BY <1>1 DEF Holder

LEMMA HolderIsNobody ==
  ASSUME \A c \in Clients : pc[c] \notin Owning
  PROVE  Holder = Nobody
BY DEF Holder

(* The server implements ExclusiveSink: every step of it is a step of the   *)
(* worker that has the sink, or leaves the sink alone.                      *)
THEOREM ServerImplementsExclusiveSink == Spec => ImplementsExclusiveSink
<1>1. Init => Sink!Init
  BY HolderIsNobody DEF Init, Sink!Init, Owning
<1>2. SessionInv /\ SessionInv' /\ [Next]_vars => [Sink!Next]_Sink!vars
  <2> SUFFICES ASSUME SessionInv, SessionInv', [Next]_vars
               PROVE  Sink!Next \/ UNCHANGED <<Holder, content>>
    BY DEF Sink!vars
  <2>e. /\ ExclusiveOwnership /\ ExclusiveOwnership' /\ ContentOK
        /\ pc \in [Clients -> Positions]
    BY DEF SessionInv
  <2>1. CASE Quiet
    <3>1. \A c \in Clients : pc'[c] \in Owning <=> pc[c] \in Owning
      BY <2>1, <2>e DEF Quiet, Clean, Owning
    <3>2. CASE \E c \in Clients : pc[c] \in Owning
      <4>1. PICK c \in Clients : pc[c] \in Owning
        BY <3>2
      <4>2. Holder = c
        BY <4>1, <2>e, HolderIs
      <4>3. (\A d \in Clients : pc'[d] \in Owning => d = c) /\ pc'[c] \in Owning
        BY <3>1, <4>1, <2>e DEF ExclusiveOwnership
      <4>4. Holder' = c
        BY <4>3 DEF Holder
      <4> QED
        BY <2>1, <4>2, <4>4 DEF Quiet
    <3>3. CASE \A c \in Clients : pc[c] \notin Owning
      BY <2>1, <3>1, <3>3 DEF Holder, Quiet
    <3> QED
      BY <3>2, <3>3
  <2>2. ASSUME NEW c \in Clients, Acquires(c) PROVE Sink!Acquire(c)
    <3>1. /\ ~owned /\ pc[c] = "acquire" /\ content' = content
          /\ pc' = [pc EXCEPT ![c] = "resetIn"]
      BY <2>2 DEF Acquires, TryAcquireSession, Goto
    <3>2. \A d \in Clients : pc[d] \notin Owning
      BY <2>e, <3>1 DEF ExclusiveOwnership
    <3>3. pc'[c] \in Owning /\ \A d \in Clients : pc'[d] \in Owning => d = c
      BY <2>e, <3>1, <3>2 DEF Owning
    <3>4. Holder = Nobody /\ Holder' = c
      BY <3>2, <3>3 DEF Holder
    <3> QED
      BY <3>1, <3>4 DEF Sink!Acquire
  <2>3. ASSUME NEW c \in Clients, Clears(c) PROVE Sink!Clear(c)
    <3>1. /\ pc[c] \in Owning /\ content' = {}
          /\ pc' = [pc EXCEPT ![c] = "accept"] \/ pc' = [pc EXCEPT ![c] = "release"]
      BY <2>3 DEF Clears, ResetForSession, ResetAfterSession, Goto, Owning
    <3>2. Holder = c
      BY <3>1, <2>e, HolderIs
    <3>3. pc'[c] \in Owning /\ \A d \in Clients : pc'[d] \in Owning => d = c
      BY <2>e, <3>1 DEF Owning, ExclusiveOwnership
    <3>4. Holder' = c
      BY <3>3 DEF Holder
    <3> QED
      BY <3>1, <3>2, <3>4 DEF Sink!Clear
  <2>4. ASSUME NEW c \in Clients, Submits(c) PROVE Sink!Submit(c)
    <3>1. pc[c] \in Owning /\ content \subseteq {c} /\ content' = {c}
      BY <2>4, <2>e DEF Submits, ContentOK, Clean, Owning
    <3>2. Holder = c /\ Holder' = Holder
      BY <3>1, <2>4, <2>e, HolderIs DEF Submits, Holder
    <3> QED
      BY <3>1, <3>2 DEF Sink!Submit
  <2>5. ASSUME NEW c \in Clients, Releases(c) PROVE Sink!Release(c)
    <3>1. /\ pc[c] = "release" /\ content' = content
          /\ pc' = [pc EXCEPT ![c] = "closing"]
      BY <2>5 DEF Releases, ReleaseSession, Goto
    <3>2. Holder = c /\ content = {}
      BY <3>1, <2>e, HolderIs DEF Owning, ContentOK
    <3>3. \A d \in Clients : pc'[d] \notin Owning
      BY <2>e, <3>1 DEF Owning, ExclusiveOwnership
    <3>4. Holder' = Nobody
      BY <3>3 DEF Holder
    <3> QED
      BY <3>1, <3>2, <3>4 DEF Sink!Release
  <2> QED
    BY <2>1, <2>2, <2>3, <2>4, <2>5, StepKinds DEF Sink!Next, Quiet
<1> QED
  BY <1>1, <1>2, SessionInvariant, PTL DEF Spec, ImplementsExclusiveSink, Sink!Spec
------------------------------------------------------------------------------
(* Types *)

(* Every rate a client may name is clamped into the advertised range.       *)
LEMMA ClampRateInRange ==
  /\ EffectiveMinPointRate \in Nat /\ EffectiveMaxPointRate \in Nat
  /\ \A r \in Nat : ClampRate(r) \in EffectiveMinPointRate..EffectiveMaxPointRate
BY ServerAssumption DEF ClampRate, EffectiveMinPointRate, EffectiveMaxPointRate, Larger, Smaller

LEMMA RateAfterInRange ==
  ASSUME NEW r \in Rates, NEW before \in EffectiveMinPointRate..EffectiveMaxPointRate
  PROVE  RateAfter(r, before) \in EffectiveMinPointRate..EffectiveMaxPointRate
BY ServerAssumption, ClampRateInRange DEF RateAfter

LEMMA NewSessionTyped == NewSession \in Sessions /\ NewSession.expected = 0
BY ServerAssumption, ClampRateInRange DEF NewSession, Sessions

(* What the records of a client do to the SessionState of its worker.       *)
LEMMA SessionTyped ==
  ASSUME session \in [Clients -> Sessions], NEW c \in Clients, Worker(c)
  PROVE  session' \in [Clients -> Sessions]
<1>1. CASE \/ WorkerAlone(c) /\ ~RejectBusy(c) /\ ~ResetAfterSession(c)
           \/ ReadFails(c) \/ ReadProgress(c) \/ ReadReady(c)
  BY <1>1 DEF WorkerAlone, ReadTimesOut, TryAcquireSession, ResetForSession, WriteAccept,
     ReleaseSession, RemoveActiveSocket, MarkFinished, ReadFails, ReadProgress, ReadReady
<1>2. CASE RejectBusy(c) \/ ResetAfterSession(c)
  BY <1>2, NewSessionTyped DEF RejectBusy, ResetAfterSession
<1>3. CASE ReadHello(c)
  <2>1. PICK mode \in StreamModes, r \in Rates :
          session' = [session EXCEPT ![c] = [NewSession EXCEPT !.mode = AcceptedMode(mode),
                        !.rate = RateAfter(r, ClampRate(DefaultRate))]]
    BY <1>3 DEF ReadHello
  <2>2. RateAfter(r, ClampRate(DefaultRate)) \in EffectiveMinPointRate..EffectiveMaxPointRate
    BY ServerAssumption, ClampRateInRange, RateAfterInRange
  <2>3. AcceptedMode(mode) \in {"raw", "frame"}
    BY DEF AcceptedMode
  <2> QED
    BY <2>1, <2>2, <2>3, NewSessionTyped DEF Sessions
<1>4. CASE HandleStreamConfig(c)
  <2>1. PICK mode \in StreamModes, r \in Rates :
          session' = [session EXCEPT ![c] = [mode |-> AcceptedMode(mode), expected |-> 0, got |-> 0,
                                             rate |-> RateAfter(r, session[c].rate)]]
    BY <1>4 DEF HandleStreamConfig
  <2>2. RateAfter(r, session[c].rate) \in EffectiveMinPointRate..EffectiveMaxPointRate
    BY RateAfterInRange DEF Sessions
  <2>3. AcceptedMode(mode) \in {"raw", "frame"}
    BY DEF AcceptedMode
  <2> QED
    BY <2>1, <2>2, <2>3, ServerAssumption DEF Sessions
<1>5. CASE HandleFrameMarker(c)
  <2>1. PICK n \in 0..(MaxFramePoints + 1), r \in Rates :
          \/ session' = session
          \/ /\ n \in 1..MaxFramePoints
             /\ session' = [session EXCEPT ![c].expected = n, ![c].got = 0,
                              ![c].rate = RateAfter(r, session[c].rate)]
    BY <1>5 DEF HandleFrameMarker
  <2>2. RateAfter(r, session[c].rate) \in EffectiveMinPointRate..EffectiveMaxPointRate
    BY RateAfterInRange DEF Sessions
  <2> QED
    BY <2>1, <2>2, ServerAssumption DEF Sessions
<1>6. CASE HandlePoints(c)
  <2>1. PICK k \in PointCounts :
          \/ session' = session
          \/ session' = [session EXCEPT ![c].expected = 0, ![c].got = 0]
          \/ session' = [session EXCEPT ![c].got = session[c].got + k]
    BY <1>6 DEF HandlePoints, AppendFramePoints, SubmitContinuousPoints
  <2> QED
    BY <2>1, ServerAssumption DEF Sessions
<1> QED
  BY <1>1, <1>2, <1>3, <1>4, <1>5, <1>6 DEF Worker, HandleRecord
(* The accept thread, stop() and the clients leave the sessions alone.      *)
LEMMA OthersKeepSessions ==
  ASSUME \/ AcceptLoop \/ Stop \/ Tick \/ UNCHANGED vars
         \/ \E c \in Clients : Connect(c) \/ GoSilent(c)
  PROVE  session' = session /\ content' = content /\ owned' = owned
BY DEF AcceptLoop, AcceptTop, AcceptNothing, SetupFails, SpawnWorker, AcceptConnection,
   Stop, StopBegin, JoinAccept, JoinWorkers, Tick, Connect, GoSilent, vars, connVars

(* What the workers leave to the other threads.                             *)
LEMMA WorkerKeeps ==
  ASSUME NEW c \in Clients, Worker(c)
  PROVE  UNCHANGED <<running, workers, apc, cur, spc, silent>>
BY DEF Worker, WorkerAlone, HandleRecord, ReadTimesOut, ReadFails, ReadProgress,
   ReadHello, ReadReady, TryAcquireSession, RejectBusy, ResetForSession, WriteAccept,
   ResetAfterSession, ReleaseSession, RemoveActiveSocket, MarkFinished,
   HandleStreamConfig, HandleFrameMarker, HandlePoints, workerFrame, recordFrame

LEMMA IdleTyped ==
  ASSUME idle \in [Clients -> Nat], [Next]_vars
  PROVE  idle' \in [Clients -> Nat]
<1>1. ASSUME NEW c \in Clients, Worker(c)
      PROVE  idle' = idle \/ idle' = [idle EXCEPT ![c] = 0]
  BY <1>1 DEF Worker, WorkerAlone, HandleRecord, ReadTimesOut, ReadFails, ReadProgress,
     ReadHello, ReadReady, TryAcquireSession, RejectBusy, ResetForSession, WriteAccept,
     ResetAfterSession, ReleaseSession, RemoveActiveSocket, MarkFinished, Received,
     HandleStreamConfig, HandleFrameMarker, HandlePoints, Streaming
<1>2. CASE Tick
  BY <1>2, ServerAssumption DEF Tick, Smaller, Deadline
<1>3. CASE \/ AcceptLoop \/ Stop \/ UNCHANGED vars
           \/ \E c \in Clients : Connect(c) \/ GoSilent(c)
  BY <1>3 DEF AcceptLoop, AcceptTop, AcceptNothing, SetupFails, SpawnWorker, AcceptConnection,
     Stop, StopBegin, JoinAccept, JoinWorkers, Connect, GoSilent, vars, connVars
<1> QED
  BY <1>1, <1>2, <1>3 DEF Next

(* Points get into the sink under the name of the client that sent them.    *)
LEMMA ContentTyped ==
  ASSUME content \subseteq Clients \cup {Leftover}, SessionInv, [Next]_vars
  PROVE  content' \subseteq Clients \cup {Leftover}
BY StepKinds DEF Quiet, Acquires, TryAcquireSession, Clears, ResetForSession,
   ResetAfterSession, Submits, Releases, ReleaseSession

LEMMA TypeStep ==
  ASSUME TypeOK, SessionInv, SessionInv', [Next]_vars
  PROVE  TypeOK'
<1>1. pc' \in [Clients -> Positions] /\ owned' \in BOOLEAN /\ cur' \in Clients \cup {Nobody}
  BY DEF SessionInv
<1>2. session' \in [Clients -> Sessions]
  <2>1. session \in [Clients -> Sessions]
    BY DEF TypeOK
  <2> QED
    BY <2>1, SessionTyped, OthersKeepSessions DEF Next
<1>3. idle' \in [Clients -> Nat]
  BY IdleTyped DEF TypeOK
<1>4. content' \subseteq Clients \cup {Leftover}
  BY ContentTyped DEF TypeOK
<1>5. /\ running' \in BOOLEAN /\ spc' \in {"no", "joinAccept", "joinWorkers", "done"}
      /\ apc' \in {"top", "accept", "spawn", "done"}
      /\ workers' \subseteq Clients /\ silent' \subseteq Clients
  <2> USE DEF TypeOK
  <2>1. ASSUME NEW c \in Clients, Worker(c) PROVE <1>5!:
    BY <2>1, WorkerKeeps
  <2>2. ASSUME NEW c \in Clients, Connect(c) \/ GoSilent(c) PROVE <1>5!:
    BY <2>2 DEF Connect, GoSilent, acceptVars
  <2>3. CASE AcceptLoop
    BY <2>3 DEF AcceptLoop, AcceptTop, AcceptNothing, SetupFails, SpawnWorker, AcceptConnection,
       Reap, SessionInv
  <2>4. CASE Stop \/ Tick \/ UNCHANGED vars
    BY <2>4 DEF Stop, StopBegin, JoinAccept, JoinWorkers, Tick, vars, acceptVars
  <2> QED
    BY <2>1, <2>2, <2>3, <2>4 DEF Next
<1>6. active' \subseteq Clients
  <2> USE DEF TypeOK
  <2>1. ASSUME NEW c \in Clients, Worker(c) PROVE active' = active \/ active' = active \ {c}
    BY <2>1 DEF Worker, WorkerAlone, HandleRecord, ReadTimesOut, ReadFails, ReadProgress,
       ReadHello, ReadReady, TryAcquireSession, RejectBusy, ResetForSession, WriteAccept,
       ResetAfterSession, ReleaseSession, RemoveActiveSocket, MarkFinished,
       HandleStreamConfig, HandleFrameMarker, HandlePoints, recordFrame
  <2>2. ASSUME NEW c \in Clients, Connect(c) \/ GoSilent(c) PROVE active' = active
    BY <2>2 DEF Connect, GoSilent, acceptVars
  <2>3. CASE AcceptLoop
    BY <2>3 DEF AcceptLoop, AcceptTop, AcceptNothing, SetupFails, SpawnWorker, AcceptConnection
  <2>4. CASE Stop \/ Tick \/ UNCHANGED vars
    BY <2>4 DEF Stop, StopBegin, JoinAccept, JoinWorkers, Tick, vars, acceptVars
  <2> QED
    BY <2>1, <2>2, <2>3, <2>4 DEF Next
<1> QED
  BY <1>1, <1>2, <1>3, <1>4, <1>5, <1>6 DEF TypeOK

(* The type invariant, with the one of the sessions it needs.               *)
THEOREM ServerTyped == Spec => []TypeOK
<1>1. Init => TypeOK
  <2> SUFFICES ASSUME Init PROVE TypeOK
    OBVIOUS
  <2>1. session \in [Clients -> Sessions]
    BY NewSessionTyped DEF Init
  <2>2. running \in BOOLEAN /\ owned \in BOOLEAN
    BY Zenon DEF Init
  <2>3. pc \in [Clients -> Positions] /\ idle \in [Clients -> Nat]
    BY DEF Init, Positions
  <2> QED
    BY <2>1, <2>2, <2>3 DEF Init, TypeOK
<1>2. TypeOK /\ SessionInv /\ SessionInv' /\ [Next]_vars => TypeOK'
  BY TypeStep
<1> QED
  BY <1>1, <1>2, SessionInvariant, PTL DEF Spec
------------------------------------------------------------------------------
(* Threads and sockets *)

(* The connections that hold one of the socket slots.                       *)
Registered == {c \in Clients : pc[c] \in (Live \ {"finishing"}) \cup {"accepted"}}

(* What the accept thread, the workers and stop() know of each other: only  *)
(* the accept thread's current socket has no worker yet, every worker is in *)
(* the list that stop() joins, and stop() goes on to that list only when    *)
(* nobody can add to it any more.                                           *)
ThreadsOK ==
  /\ \A c \in Clients : pc[c] = "accepted" => apc = "spawn" /\ cur = c
  /\ workers = {c \in Clients : pc[c] \in Live \cup {"finished"}}
  /\ active = Registered
  /\ IsFiniteSet(active) /\ Cardinality(active) <= MaxConcurrentSockets
  /\ spc \in {"joinWorkers", "done"} => apc = "done"
  /\ spc = "done" => \A c \in Clients : pc[c] = "none"

(* A slot that is given back, or taken below the limit, keeps the limit.    *)
LEMMA SlotGivenBack ==
  ASSUME NEW S, NEW c, IsFiniteSet(S), Cardinality(S) <= MaxConcurrentSockets
  PROVE  IsFiniteSet(S \ {c}) /\ Cardinality(S \ {c}) <= MaxConcurrentSockets
<1>1. Cardinality(S) \in Nat
  BY FS_CardinalityType
<1>2. IsFiniteSet(S \ {c})
      /\ Cardinality(S \ {c}) = IF c \in S THEN Cardinality(S) - 1 ELSE Cardinality(S)
  BY FS_RemoveElement
<1> QED
  BY <1>1, <1>2, ServerAssumption

LEMMA SlotTaken ==
  ASSUME NEW S, NEW c, IsFiniteSet(S), ~(Cardinality(S) >= MaxConcurrentSockets)
  PROVE  IsFiniteSet(S \cup {c}) /\ Cardinality(S \cup {c}) <= MaxConcurrentSockets
<1>1. Cardinality(S) \in Nat
  BY FS_CardinalityType
<1>2. IsFiniteSet(S \cup {c})
      /\ Cardinality(S \cup {c}) = IF c \in S THEN Cardinality(S) ELSE Cardinality(S) + 1
  BY FS_AddElement
<1> QED
  BY <1>1, <1>2, ServerAssumption

(* A worker moves its own connection on, and gives its slot back once.      *)
LEMMA WorkerMoves ==
  ASSUME pc \in [Clients -> Positions], NEW c \in Clients, Worker(c)
  PROVE  /\ pc[c] \in Live
         /\ \E p \in Live \cup {"finished"} :
              /\ pc' = [pc EXCEPT ![c] = p]
              /\ \/ pc[c] # "finishing" /\ p \in Live \ {"finishing"} /\ active' = active
                 \/ pc[c] # "finishing" /\ p = "finishing" /\ active' = active \ {c}
                 \/ pc[c] = "finishing" /\ p = "finished" /\ active' = active
<1> USE DEF Live, Owning
<1>1. CASE ReadTimesOut(c) \/ ReadFails(c)
  BY <1>1 DEF ReadTimesOut, ReadFails, Reading, GiveUp
<1>2. CASE ReadProgress(c) \/ HandleStreamConfig(c)
  <2>1. pc[c] \in Reading /\ pc' = [pc EXCEPT ![c] = pc[c]] /\ active' = active
    BY <1>2 DEF ReadProgress, HandleStreamConfig, Streaming, Reading, recordFrame
  <2> QED
    BY <2>1 DEF Reading
<1>3. CASE ReadHello(c) \/ TryAcquireSession(c) \/ RejectBusy(c) \/ ResetForSession(c)
  BY <1>3 DEF ReadHello, TryAcquireSession, RejectBusy, ResetForSession, Goto
<1>4. CASE WriteAccept(c)
  BY <1>4 DEF WriteAccept, Goto
<1>5. CASE ReadReady(c) \/ ResetAfterSession(c) \/ ReleaseSession(c)
  BY <1>5 DEF ReadReady, ResetAfterSession, ReleaseSession, Goto
<1>6. CASE RemoveActiveSocket(c) \/ MarkFinished(c)
  BY <1>6 DEF RemoveActiveSocket, MarkFinished, Goto
<1>7. CASE HandleFrameMarker(c) \/ HandlePoints(c)
  <2>1. /\ pc[c] = "stream" /\ active' = active
        /\ pc' = [pc EXCEPT ![c] = "stream"] \/ pc' = [pc EXCEPT ![c] = "resetOut"]
    BY <1>7 DEF HandleFrameMarker, HandlePoints, AppendFramePoints, SubmitContinuousPoints,
       Streaming, recordFrame
  <2> QED
    BY <2>1
<1> QED
  BY <1>1, <1>2, <1>3, <1>4, <1>5, <1>6, <1>7 DEF Worker, WorkerAlone, HandleRecord

LEMMA ThreadsStep ==
  ASSUME TypeOK, TypeOK', SessionInv, ThreadsOK, [Next]_vars
  PROVE  ThreadsOK'
<1> USE DEF Positions
<1>p. pc \in [Clients -> Positions] /\ pc' \in [Clients -> Positions]
  BY DEF TypeOK
<1>1. ASSUME NEW c \in Clients, Worker(c) PROVE ThreadsOK'
  <2>1. pc[c] \in Live
    BY <1>1, <1>p, WorkerMoves
  <2>2. PICK p \in Live \cup {"finished"} :
          /\ pc' = [pc EXCEPT ![c] = p]
          /\ \/ pc[c] # "finishing" /\ p \in Live \ {"finishing"} /\ active' = active
             \/ pc[c] # "finishing" /\ p = "finishing" /\ active' = active \ {c}
             \/ pc[c] = "finishing" /\ p = "finished" /\ active' = active
    BY <1>1, <1>p, WorkerMoves
  <2>3. UNCHANGED <<workers, apc, cur, spc>>
    BY <1>1, WorkerKeeps
  <2>4. IsFiniteSet(active') /\ Cardinality(active') <= MaxConcurrentSockets
    <3>1. IsFiniteSet(active) /\ Cardinality(active) <= MaxConcurrentSockets
      BY DEF ThreadsOK
    <3> QED
      BY <2>2, <3>1, SlotGivenBack
  <2>5. active' = Registered'
    BY <1>p, <2>1, <2>2 DEF ThreadsOK, Registered, Live, Owning
  <2>6. workers' = {d \in Clients : pc'[d] \in Live \cup {"finished"}}
    BY <1>p, <2>1, <2>2, <2>3 DEF ThreadsOK
  <2>7. \A d \in Clients : pc'[d] = "accepted" => apc' = "spawn" /\ cur' = d
    BY <1>p, <2>2, <2>3 DEF ThreadsOK, Live, Owning
  <2>8. spc' # "done"
    BY <2>1, <2>3 DEF ThreadsOK, Live, Owning
  <2> QED
    BY <2>3, <2>4, <2>5, <2>6, <2>7, <2>8 DEF ThreadsOK
<1>2. ASSUME NEW c \in Clients, Connect(c) PROVE ThreadsOK'
  BY <1>2, <1>p DEF Connect, acceptVars, ThreadsOK, Registered, Live, Owning
<1>3. ASSUME UNCHANGED <<pc, active, workers, apc, cur, spc>> PROVE ThreadsOK'
  BY <1>3 DEF ThreadsOK, Registered
<1>4. ASSUME NEW c \in Clients, GoSilent(c) PROVE ThreadsOK'
  BY <1>4, <1>3 DEF GoSilent, acceptVars, connVars
<1>5. CASE AcceptTop
  <2>1. CASE ~running
    BY <1>5, <2>1 DEF AcceptTop, ThreadsOK, Registered
  <2>2. CASE running
    <3>1. /\ apc = "top" /\ apc' = "accept" /\ UNCHANGED <<active, cur, spc>>
          /\ workers' = workers \ {c \in workers : pc[c] = "finished"}
          /\ pc' = [c \in Clients |-> IF c \in workers /\ pc[c] = "finished" THEN "none" ELSE pc[c]]
      BY <1>5, <2>2 DEF AcceptTop, Reap
    <3>2. spc' \notin {"joinWorkers", "done"}
      BY <3>1 DEF ThreadsOK
    <3> QED
      BY <3>1, <3>2, <1>p DEF ThreadsOK, Registered, Live, Owning
  <2> QED
    BY <2>1, <2>2
<1>6. CASE AcceptNothing
  BY <1>6 DEF AcceptNothing, connVars, ThreadsOK, Registered
<1>7. ASSUME NEW c \in Clients, AcceptConnection(c) PROVE ThreadsOK'
  <2>1. spc \notin {"joinWorkers", "done"} /\ spc' = spc /\ workers' = workers
        /\ apc = "accept" /\ pc[c] = "backlog"
    BY <1>7 DEF AcceptConnection, ThreadsOK
  <2>n. \A d \in Clients : pc[d] # "accepted"
    BY <2>1 DEF ThreadsOK
  <2>2. CASE LimitReached
    <3>1. pc' = [pc EXCEPT ![c] = "none"] /\ active' = active
      BY <1>7, <2>2 DEF AcceptConnection
    <3> QED
      BY <2>1, <2>n, <3>1, <1>p DEF ThreadsOK, Registered, Live, Owning
  <2>3. CASE ~LimitReached
    <3>1. /\ pc' = [pc EXCEPT ![c] = "accepted"] /\ active' = active \cup {c}
          /\ cur' = c /\ apc' = "spawn"
      BY <1>7, <2>3 DEF AcceptConnection
    <3>3. IsFiniteSet(active') /\ Cardinality(active') <= MaxConcurrentSockets
      BY <2>3, <3>1, SlotTaken DEF ThreadsOK, LimitReached
    <3>4. active' = Registered'
      BY <2>1, <3>1, <1>p DEF ThreadsOK, Registered
    <3> QED
      BY <2>1, <2>n, <3>1, <3>3, <3>4, <1>p DEF ThreadsOK, Live, Owning
  <2> QED
    BY <2>2, <2>3
<1>8. CASE SetupFails \/ SpawnWorker
  <2>1. /\ cur \in Clients /\ pc[cur] = "accepted" /\ apc = "spawn" /\ apc' = "top" /\ spc' = spc
        /\ \/ active' = active \ {cur} /\ pc' = [pc EXCEPT ![cur] = "none"] /\ workers' = workers
           \/ active' = active /\ pc' = [pc EXCEPT ![cur] = "hello"] /\ workers' = workers \cup {cur}
    BY <1>8 DEF SetupFails, SpawnWorker, SessionInv
  <2>2. spc' \notin {"joinWorkers", "done"} /\ \A d \in Clients : pc'[d] # "accepted"
    BY <2>1, <1>p DEF ThreadsOK
  <2>3. IsFiniteSet(active') /\ Cardinality(active') <= MaxConcurrentSockets
    <3>1. IsFiniteSet(active) /\ Cardinality(active) <= MaxConcurrentSockets
      BY DEF ThreadsOK
    <3>2. /\ IsFiniteSet(active \ {cur})
          /\ Cardinality(active \ {cur}) <= MaxConcurrentSockets
      BY <3>1, SlotGivenBack
    <3>3. active' = active \/ active' = active \ {cur}
      BY <2>1
    <3> QED
      BY <3>1, <3>2, <3>3, Zenon
  <2>4. active' = Registered'
    BY <2>1, <1>p DEF ThreadsOK, Registered, Live, Owning
  <2>5. workers' = {d \in Clients : pc'[d] \in Live \cup {"finished"}}
    BY <2>1, <1>p DEF ThreadsOK, Live, Owning
  <2> QED
    BY <2>1, <2>2, <2>3, <2>4, <2>5 DEF ThreadsOK
<1>9. CASE StopBegin
  BY <1>9 DEF StopBegin, acceptVars, connVars, ThreadsOK, Registered
<1>10. CASE JoinAccept
  BY <1>10 DEF JoinAccept, acceptVars, connVars, ThreadsOK, Registered
<1>11. CASE JoinWorkers
  <2>1. /\ spc = "joinWorkers" /\ (\A c \in workers : pc[c] = "finished")
        /\ spc' = "done" /\ workers' = {} /\ active' = {} /\ apc' = apc
        /\ pc' = [c \in Clients |-> IF c \in workers \/ pc[c] = "backlog" THEN "none" ELSE pc[c]]
    BY <1>11 DEF JoinWorkers
  <2>2. apc = "done" /\ \A c \in Clients : pc[c] # "accepted"
    BY <2>1 DEF ThreadsOK
  <2>3. \A c \in Clients : pc'[c] = "none"
    BY <2>1, <2>2, <1>p DEF ThreadsOK
  <2>4. active' = Registered' /\ workers' = {d \in Clients : pc'[d] \in Live \cup {"finished"}}
    BY <2>1, <2>3 DEF Registered, Live, Owning
  <2>5. IsFiniteSet(active') /\ Cardinality(active') <= MaxConcurrentSockets
    BY <2>1, FS_EmptySet, ServerAssumption
  <2> QED
    BY <2>1, <2>2, <2>3, <2>4, <2>5 DEF ThreadsOK
<1>12. CASE Tick \/ UNCHANGED vars
  BY <1>12, <1>3 DEF Tick, vars, acceptVars, connVars
<1> QED
  BY <1>1, <1>2, <1>4, <1>5, <1>6, <1>7, <1>8, <1>9, <1>10, <1>11, <1>12
  DEF Next, AcceptLoop, Stop

(* The server is consistent in every state, for any number of clients and   *)
(* any limits: no path leaks a slot or the session, and stop() leaves       *)
(* nothing behind.                                                          *)
THEOREM ServerIsConsistent == Spec => []ServerConsistent
<1>1. Init => ThreadsOK
  BY FS_EmptySet, ServerAssumption DEF Init, ThreadsOK, Registered, Live, Owning
<1>2. TypeOK /\ TypeOK' /\ SessionInv /\ ThreadsOK /\ [Next]_vars => ThreadsOK'
  BY ThreadsStep
<1>3. TypeOK /\ SessionInv /\ ThreadsOK => ServerConsistent
  <2> SUFFICES ASSUME TypeOK, SessionInv, ThreadsOK PROVE ServerConsistent
    OBVIOUS
  <2>1. SocketsMatchConnections
    BY DEF ThreadsOK, Registered, SocketsMatchConnections
  <2>2. StoppedIsQuiet
    BY DEF ThreadsOK, Registered, SessionInv, ExclusiveOwnership, ContentOK, StoppedIsQuiet, Live, Owning
  <2> QED
    BY <2>1, <2>2 DEF ServerConsistent, SessionInv
<1> QED
  BY <1>1, <1>2, <1>3, ServerTyped, SessionInvariant, PTL DEF Spec
------------------------------------------------------------------------------
(* Pending frames *)

(* A session enters the stream without a frame, whichever way it came.      *)
FrameOK(c) ==
  /\ pc[c] \in {"acquire", "resetIn", "accept", "ready"} => session[c].expected = 0
  /\ pc[c] = "stream" /\ session[c].expected > 0 =>
       session[c].mode = "frame" /\ session[c].got < session[c].expected

LEMMA FrameStep ==
  ASSUME TypeOK, TypeOK', [Next]_vars, NEW d \in Clients, FrameOK(d)
  PROVE  FrameOK(d)'
<1>p. /\ pc \in [Clients -> Positions] /\ session \in [Clients -> Sessions]
  BY DEF TypeOK
<1> USE DEF FrameOK
<1>1. ASSUME NEW c \in Clients, Worker(c), c # d PROVE pc'[d] = pc[d] /\ session'[d] = session[d]
  BY <1>1, <1>p DEF Worker, WorkerAlone, HandleRecord, ReadTimesOut, ReadFails, ReadProgress,
     ReadHello, ReadReady, TryAcquireSession, RejectBusy, ResetForSession, WriteAccept,
     ResetAfterSession, ReleaseSession, RemoveActiveSocket, MarkFinished, Goto,
     HandleStreamConfig, HandleFrameMarker, HandlePoints, AppendFramePoints,
     SubmitContinuousPoints
<1>2. CASE Worker(d)
  <2>1. CASE ReadTimesOut(d) \/ ReadFails(d)
    BY <2>1, <1>p DEF ReadTimesOut, ReadFails, GiveUp
  <2>2. CASE ReadProgress(d) \/ TryAcquireSession(d) \/ ResetForSession(d)
             \/ ReleaseSession(d) \/ RemoveActiveSocket(d) \/ MarkFinished(d) \/ ReadReady(d)
    BY <2>2, <1>p DEF ReadProgress, TryAcquireSession, ResetForSession, ReleaseSession,
       RemoveActiveSocket, MarkFinished, ReadReady, Goto
  <2>3. CASE RejectBusy(d) \/ ResetAfterSession(d)
    BY <2>3, <1>p DEF RejectBusy, ResetAfterSession, Goto
  <2>4. CASE WriteAccept(d)
    BY <2>4, <1>p DEF WriteAccept, Goto
  <2>5. CASE ReadHello(d)
    <3>1. /\ pc' = [pc EXCEPT ![d] = "acquire"]
          /\ \E m, r : session' = [session EXCEPT ![d] = [NewSession EXCEPT !.mode = m, !.rate = r]]
      BY <2>5 DEF ReadHello, Goto
    <3>2. session'[d].expected = NewSession.expected
      BY <3>1, <1>p, NewSessionTyped DEF Sessions
    <3> QED
      BY <3>1, <3>2, <1>p, NewSessionTyped
  <2>6. CASE HandleStreamConfig(d)
    BY <2>6, <1>p DEF HandleStreamConfig, Streaming
  <2>7. CASE HandleFrameMarker(d)
    <3>1. PICK n \in 0..(MaxFramePoints + 1), r \in Rates :
            /\ pc[d] = "stream"
            /\ \/ /\ n \in 1..MaxFramePoints /\ session[d].mode = "frame" /\ pc' = pc
                  /\ session' = [session EXCEPT ![d].expected = n, ![d].got = 0,
                                   ![d].rate = RateAfter(r, session[d].rate)]
               \/ pc' = [pc EXCEPT ![d] = "resetOut"]
      BY <2>7 DEF HandleFrameMarker, Streaming
    <3>2. CASE pc' = [pc EXCEPT ![d] = "resetOut"]
      BY <3>2, <1>p
    <3>3. CASE /\ n \in 1..MaxFramePoints /\ session[d].mode = "frame" /\ pc' = pc
               /\ session' = [session EXCEPT ![d].expected = n, ![d].got = 0,
                                ![d].rate = RateAfter(r, session[d].rate)]
      <4>1. session'[d].expected = n /\ session'[d].got = 0 /\ session'[d].mode = "frame"
        BY <3>3, <1>p DEF Sessions
      <4> QED
        BY <3>1, <3>3, <4>1, ServerAssumption
    <3> QED
      BY <3>1, <3>2, <3>3
  <2>8. CASE HandlePoints(d)
    <3>1. PICK k \in PointCounts : Streaming(d) /\ (AppendFramePoints(d, k) \/ SubmitContinuousPoints(d, k))
      BY <2>8 DEF HandlePoints
    <3>2. CASE SubmitContinuousPoints(d, k)
      BY <3>1, <3>2, <1>p DEF SubmitContinuousPoints, Streaming
    <3>3. CASE AppendFramePoints(d, k)
      <4>1. CASE pc' = [pc EXCEPT ![d] = "resetOut"]
        BY <4>1, <1>p
      <4>2. CASE session' = [session EXCEPT ![d].expected = 0, ![d].got = 0] /\ pc' = pc
        <5>1. session'[d].expected = 0
          BY <4>2, <1>p DEF Sessions
        <5> QED
          BY <5>1
      <4>3. CASE /\ session' = [session EXCEPT ![d].got = session[d].got + k] /\ pc' = pc
                 /\ ~(k > FrameRoom(d)) /\ session[d].got + k # session[d].expected
                 /\ session[d].expected > 0
        <5>1. /\ session'[d].got = session[d].got + k
              /\ session'[d].expected = session[d].expected /\ session'[d].mode = session[d].mode
          BY <4>3, <1>p DEF Sessions
        <5>2. session[d].got \in Nat /\ session[d].expected \in Nat /\ k \in Nat
          BY <1>p, ServerAssumption DEF Sessions
        <5>3. pc[d] = "stream"
          BY <3>1 DEF Streaming
        <5> QED
          BY <4>3, <5>1, <5>2, <5>3 DEF FrameRoom
      <4> QED
        BY <3>3, <4>1, <4>2, <4>3 DEF AppendFramePoints
    <3> QED
      BY <3>1, <3>2, <3>3
  <2> QED
    BY <1>2, <2>1, <2>2, <2>3, <2>4, <2>5, <2>6, <2>7, <2>8 DEF Worker, WorkerAlone, HandleRecord
<1>3. CASE \/ AcceptLoop \/ Stop \/ Tick \/ UNCHANGED vars
           \/ \E c \in Clients : Connect(c) \/ GoSilent(c)
  <2>1. session' = session
    BY <1>3, OthersKeepSessions
  <2>2. pc'[d] = pc[d] \/ pc'[d] \in {"none", "backlog", "accepted", "hello"}
    BY <1>3, <1>p DEF AcceptLoop, AcceptTop, Reap, AcceptNothing, SetupFails, SpawnWorker,
       AcceptConnection, Stop, StopBegin, JoinAccept, JoinWorkers, Tick, Connect, GoSilent,
       vars, connVars
  <2> QED
    BY <2>1, <2>2
<1> QED
  BY <1>1, <1>2, <1>3 DEF Next

(* No session ever streams with a frame that is complete or of another      *)
(* mode, whatever records its client sends and in whatever order.           *)
THEOREM PendingFramesAreSane == Spec => []PendingFrameSane
<1> DEFINE FramesOK == \A c \in Clients : FrameOK(c)
<1>1. Init => FramesOK
  BY DEF Init, FrameOK
<1>2. TypeOK /\ TypeOK' /\ FramesOK /\ [Next]_vars => FramesOK'
  BY FrameStep
<1>3. FramesOK => PendingFrameSane
  BY DEF FrameOK, PendingFrameSane
<1> QED
  BY <1>1, <1>2, <1>3, ServerTyped, PTL DEF Spec
=============================================================================
