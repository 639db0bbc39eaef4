------------------------- MODULE LiberaTargetServer -------------------------
(***************************************************************************)
(* One TCP server of the Libera protocol host (class TargetServer of        *)
(* LiberaProtocolVirtualControllerHost.cpp): an accept thread, one worker   *)
(* thread per connection, and the thread that calls stop().  The workers    *)
(* race for the session with a compare-and-swap on sessionOwned_; the       *)
(* winner has the target sink until it releases it.                         *)
(*                                                                          *)
(* Time is counted in ticks of a connection's idle deadline.  Decoding is   *)
(* abstracted to what it decides: a record is complete and of a type, or    *)
(* makes the worker give up.                                                *)
(***************************************************************************)
EXTENDS Integers, FiniteSets

CONSTANTS
  Clients,               \* connections that may be open at the same time
  MayStall,              \* the ones that may fall silent
  Nobody,                \* not a client
  Leftover,              \* an earlier host of the target
  MaxConcurrentSockets,  \* maxConcurrentSockets
  HandshakeTimeout,      \* options_.handshakeTimeoutMs
  SessionTimeout,        \* options_.sessionTimeoutMs
  MaxFramePoints,        \* options_.maxFramePoints
  PointCounts,           \* points a Points record may hold
  Rates,                 \* rates a client may ask for, 0 for none
  MinPointRate,          \* options_.minPointRate
  MaxPointRate,          \* options_.maxPointRate
  TargetMaxRate,         \* targetInfo().maxPointRate, 0 for none
  DefaultRate            \* the 30000 pps of a Hello that names no rate

ASSUME ServerAssumption ==
  /\ MayStall \subseteq Clients
  /\ Nobody \notin Clients /\ Leftover \notin Clients /\ Nobody # Leftover
  /\ MaxConcurrentSockets \in Nat \ {0}
  /\ HandshakeTimeout \in Nat /\ SessionTimeout \in Nat
  /\ MaxFramePoints \in Nat /\ PointCounts \subseteq Nat
  /\ Rates \subseteq Nat /\ DefaultRate \in Nat
  /\ MinPointRate \in Nat /\ MaxPointRate \in Nat /\ TargetMaxRate \in Nat

VARIABLES
  running,    \* running_
  owned,      \* sessionOwned_
  active,     \* activeSockets_
  workers,    \* sessionWorkers_
  apc, cur,   \* the accept thread and the socket it is setting up
  spc,        \* the thread in stop()
  pc,         \* each connection's worker, "none" when there is none
  idle,       \* ticks since the connection's last byte
  session,    \* each worker's SessionState
  silent,     \* clients that will not send another byte
  content     \* whose points the sink holds

connVars == <<pc, idle, session>>
acceptVars == <<active, workers, apc, cur>>
vars == <<running, owned, acceptVars, spc, connVars, silent, content>>

Owning == {"resetIn", "accept", "ready", "stream", "resetOut", "release"}
Reading == {"hello", "ready", "stream"}
Live == Owning \cup {"hello", "acquire", "closing", "finishing"}

Larger(a, b) == IF a >= b THEN a ELSE b
Smaller(a, b) == IF a <= b THEN a ELSE b

EffectiveMaxPointRate ==
  Larger(1, Smaller(IF TargetMaxRate > 0 THEN TargetMaxRate ELSE MaxPointRate, MaxPointRate))
EffectiveMinPointRate == Smaller(MinPointRate, EffectiveMaxPointRate)
ClampRate(r) == Smaller(Larger(r, EffectiveMinPointRate), EffectiveMaxPointRate)

(* Mistake: the rate of a record is taken as it comes.                      *)
RateUnclamped(r, before) == IF r = 0 THEN before ELSE r

(* A record that names no rate leaves the session's rate alone.             *)
RateAfter(r, before) == IF r = 0 THEN before ELSE ClampRate(r)

(* The modes a client may ask for, and the two the server knows.            *)
StreamModes == {"raw", "count", "marked"}
AcceptedMode(requested) == IF requested \in {"count", "marked"} THEN "frame" ELSE "raw"

(* writeBytes(): may fail, and fails once the server stops.                 *)
WriteBytes == IF running THEN BOOLEAN ELSE {FALSE}

NewSession == [mode |-> "raw", expected |-> 0, got |-> 0, rate |-> ClampRate(DefaultRate)]
Deadline(c) == IF pc[c] = "stream" THEN SessionTimeout ELSE HandshakeTimeout

Init ==
  /\ running = TRUE /\ owned = FALSE
  /\ active = {} /\ workers = {} /\ apc = "top" /\ cur = Nobody
  /\ spc = "no"
  /\ pc = [c \in Clients |-> "none"] /\ idle = [c \in Clients |-> 0]
  /\ session = [c \in Clients |-> NewSession]
  /\ silent = {} /\ content \in {{}, {Leftover}}
------------------------------------------------------------------------------
(* The clients *)

Connect(c) ==
  /\ pc[c] = "none" /\ spc # "done"
  /\ pc' = [pc EXCEPT ![c] = "backlog"]
  /\ silent' = silent \ {c}
  /\ UNCHANGED <<running, owned, acceptVars, spc, idle, session, content>>

(* A client hangs, or its machine disappears: nothing more arrives.         *)
GoSilent(c) ==
  /\ c \in MayStall /\ pc[c] # "none" /\ silent' = silent \cup {c}
  /\ UNCHANGED <<running, owned, acceptVars, spc, connVars, content>>

(* Time passes for everyone waiting for a byte.                             *)
Tick ==
  /\ idle' = [c \in Clients |-> IF pc[c] \in Reading THEN Smaller(idle[c] + 1, Deadline(c))
                                ELSE idle[c]]
  /\ UNCHANGED <<running, owned, acceptVars, spc, pc, session, silent, content>>
------------------------------------------------------------------------------
(* acceptLoop *)

(* reapCompletedSessionWorkers joins and erases what has finished.          *)
Reap ==
  LET completed == {c \in workers : pc[c] = "finished"}
  IN /\ workers' = workers \ completed
     /\ pc' = [c \in Clients |-> IF c \in completed THEN "none" ELSE pc[c]]

(* Mistake: the loop does not look at running_.                             *)
AcceptIgnoresStop ==
  /\ apc = "top" /\ apc' = "accept" /\ Reap
  /\ UNCHANGED <<running, owned, active, cur, spc, idle, session, silent, content>>

AcceptTop ==
  /\ apc = "top"
  /\ IF running THEN apc' = "accept" /\ Reap
                ELSE apc' = "done" /\ UNCHANGED <<workers, pc>>
  /\ UNCHANGED <<running, owned, active, cur, spc, idle, session, silent, content>>

(* accept() brings no connection: nobody is waiting, or it fails.           *)
AcceptNothing ==
  /\ apc = "accept" /\ apc' = IF running THEN "top" ELSE "done"
  /\ UNCHANGED <<running, owned, active, workers, cur, spc, connVars, silent, content>>

LimitReached == Cardinality(active) >= MaxConcurrentSockets

AcceptConnection(c) ==
  /\ apc = "accept" /\ pc[c] = "backlog"
  /\ IF LimitReached
       THEN /\ apc' = "top" /\ pc' = [pc EXCEPT ![c] = "none"]
            /\ UNCHANGED <<active, cur>>
       ELSE /\ apc' = "spawn" /\ active' = active \cup {c} /\ cur' = c
            /\ pc' = [pc EXCEPT ![c] = "accepted"]
  /\ UNCHANGED <<running, owned, workers, spc, idle, session, silent, content>>

(* Mistake: a socket that cannot be made non-blocking stays registered.     *)
SetupFailsLeaking ==
  /\ apc = "spawn" /\ apc' = "top" /\ cur' = Nobody
  /\ pc' = [pc EXCEPT ![cur] = "none"]
  /\ UNCHANGED <<running, owned, active, workers, spc, idle, session, silent, content>>

SetupFails ==
  /\ apc = "spawn" /\ apc' = "top" /\ cur' = Nobody
  /\ active' = active \ {cur} /\ pc' = [pc EXCEPT ![cur] = "none"]
  /\ UNCHANGED <<running, owned, workers, spc, idle, session, silent, content>>

SpawnWorker ==
  /\ apc = "spawn" /\ apc' = "top" /\ cur' = Nobody
  /\ workers' = workers \cup {cur} /\ pc' = [pc EXCEPT ![cur] = "hello"]
  /\ UNCHANGED <<running, owned, active, spc, idle, session, silent, content>>

AcceptLoop ==
  AcceptTop \/ AcceptNothing \/ SetupFails \/ SpawnWorker
  \/ \E c \in Clients : AcceptConnection(c)
------------------------------------------------------------------------------
(* runSession *)

workerFrame == <<running, workers, apc, cur, spc, silent>>

Goto(c, from, to) == pc[c] = from /\ pc' = [pc EXCEPT ![c] = to]

(* Where a worker that gives up reading goes: past the sink if it does not  *)
(* have it, through the reset if it does.                                   *)
GiveUp(c) == IF pc[c] = "hello" THEN "closing" ELSE "resetOut"

(* Mistake: the deadline is never looked at while bytes are missing.        *)
NeverTimesOut(c) ==
  /\ pc[c] \in Reading /\ ~running
  /\ pc' = [pc EXCEPT ![c] = GiveUp(c)] /\ idle' = [idle EXCEPT ![c] = 0]
  /\ UNCHANGED <<workerFrame, owned, active, session, content>>

(* readExact gives up at the deadline, or when the server is stopping.      *)
ReadTimesOut(c) ==
  /\ pc[c] \in Reading /\ (idle[c] >= Deadline(c) \/ ~running)
  /\ pc' = [pc EXCEPT ![c] = GiveUp(c)] /\ idle' = [idle EXCEPT ![c] = 0]
  /\ UNCHANGED <<workerFrame, owned, active, session, content>>

(* The connection fails, or brings a record that ends the conversation: not *)
(* decodable, too large, of the wrong type for the handshake, or Close.     *)
ReadFails(c) ==
  /\ pc[c] \in Reading
  /\ pc' = [pc EXCEPT ![c] = GiveUp(c)] /\ idle' = [idle EXCEPT ![c] = 0]
  /\ UNCHANGED <<workerFrame, owned, active, session, content>>

(* Part of a record arrives; every byte moves the deadline.                 *)
ReadProgress(c) ==
  /\ pc[c] \in Reading /\ c \notin silent /\ running
  /\ idle' = [idle EXCEPT ![c] = 0]
  /\ UNCHANGED <<workerFrame, owned, active, pc, session, content>>

(* A complete record arrives while the server is running.                   *)
Received(c) == c \notin silent /\ running /\ idle' = [idle EXCEPT ![c] = 0]

ReadHello(c) ==
  \E mode \in StreamModes, r \in Rates :
    /\ Goto(c, "hello", "acquire") /\ Received(c)
    /\ session' = [session EXCEPT ![c] = [NewSession EXCEPT !.mode = AcceptedMode(mode),
                     !.rate = RateAfter(r, ClampRate(DefaultRate))]]
    /\ UNCHANGED <<workerFrame, owned, active, content>>

(* tryAcquireSession: the compare-and-swap either takes the session ...     *)
TryAcquireSession(c) ==
  /\ ~owned
  /\ Goto(c, "acquire", "resetIn") /\ owned' = TRUE
  /\ UNCHANGED <<workerFrame, active, idle, session, content>>

(* ... or fails, and the client is told that the endpoint is busy.          *)
RejectBusy(c) ==
  /\ owned
  /\ Goto(c, "acquire", "closing")
  /\ session' = [session EXCEPT ![c] = NewSession]
  /\ UNCHANGED <<workerFrame, owned, active, idle, content>>

ResetForSession(c) ==
  /\ Goto(c, "resetIn", "accept") /\ content' = {}
  /\ UNCHANGED <<workerFrame, owned, active, idle, session>>

WriteAccept(c) ==
  \E written \in WriteBytes :
    /\ Goto(c, "accept", IF written THEN "ready" ELSE "resetOut")
    /\ UNCHANGED <<workerFrame, owned, active, idle, session, content>>

ReadReady(c) ==
  /\ Goto(c, "ready", "stream") /\ Received(c)
  /\ UNCHANGED <<workerFrame, owned, active, session, content>>

(* Mistake: a session that ends leaves its points in the sink.              *)
EndSkipsReset(c) ==
  /\ Goto(c, "resetOut", "release")
  /\ UNCHANGED <<workerFrame, owned, active, idle, session, content>>

ResetAfterSession(c) ==
  /\ Goto(c, "resetOut", "release") /\ content' = {}
  /\ session' = [session EXCEPT ![c] = NewSession]
  /\ UNCHANGED <<workerFrame, owned, active, idle>>

(* Mistake: the session is not released.                                    *)
ReleaseForgotten(c) ==
  /\ Goto(c, "release", "closing")
  /\ UNCHANGED <<workerFrame, owned, active, idle, session, content>>

ReleaseSession(c) ==
  /\ Goto(c, "release", "closing") /\ owned' = FALSE
  /\ UNCHANGED <<workerFrame, active, idle, session, content>>

RemoveActiveSocket(c) ==
  /\ Goto(c, "closing", "finishing") /\ active' = active \ {c}
  /\ UNCHANGED <<workerFrame, owned, idle, session, content>>

MarkFinished(c) ==
  /\ Goto(c, "finishing", "finished")
  /\ UNCHANGED <<workerFrame, owned, active, idle, session, content>>
------------------------------------------------------------------------------
(* handleRecord; records that change nothing are part of ReadProgress, and  *)
(* the ones that end the session part of ReadFails.                         *)

Streaming(c) == pc[c] = "stream" /\ Received(c)
recordFrame == <<workerFrame, owned, active>>

(* Mistake: a half-received frame survives a change of the stream mode.     *)
StreamConfigKeepsFrame(c) ==
  \E mode \in StreamModes, r \in Rates :
    /\ Streaming(c)
    /\ session' = [session EXCEPT ![c].mode = AcceptedMode(mode), ![c].rate = RateAfter(r, session[c].rate)]
    /\ UNCHANGED <<recordFrame, pc, content>>

HandleStreamConfig(c) ==
  \E mode \in StreamModes, r \in Rates :
    /\ Streaming(c)
    /\ session' = [session EXCEPT ![c] = [mode |-> AcceptedMode(mode), expected |-> 0, got |-> 0,
                                          rate |-> RateAfter(r, session[c].rate)]]
    /\ UNCHANGED <<recordFrame, pc, content>>

HandleFrameMarker(c) ==
  \E n \in 0..(MaxFramePoints + 1), r \in Rates :
    LET valid == n \in 1..MaxFramePoints
                 /\ session[c].mode = "frame" /\ session[c].expected = 0
    IN /\ Streaming(c)
       /\ IF valid
            THEN /\ session' = [session EXCEPT ![c].expected = n, ![c].got = 0,
                                  ![c].rate = RateAfter(r, session[c].rate)]
                 /\ UNCHANGED pc
            ELSE pc' = [pc EXCEPT ![c] = "resetOut"] /\ UNCHANGED session
       /\ UNCHANGED <<recordFrame, content>>

FrameRoom(c) == session[c].expected - session[c].got

(* Points of a pending frame; the last ones hand it to the sink.            *)
AppendFramePoints(c, k) ==
  LET total == session[c].got + k
  IN /\ session[c].expected > 0
     /\ IF k > FrameRoom(c)
          THEN pc' = [pc EXCEPT ![c] = "resetOut"] /\ UNCHANGED <<session, content>>
        ELSE IF total = session[c].expected
          THEN /\ session' = [session EXCEPT ![c].expected = 0, ![c].got = 0]
               /\ content' = content \cup {c} /\ UNCHANGED pc
        ELSE session' = [session EXCEPT ![c].got = total] /\ UNCHANGED <<pc, content>>

(* Points without a frame: refused in frame mode, streamed in raw mode.     *)
SubmitContinuousPoints(c, k) ==
  /\ session[c].expected = 0
  /\ IF session[c].mode = "frame"
       THEN pc' = [pc EXCEPT ![c] = "resetOut"] /\ UNCHANGED content
       ELSE content' = (IF k = 0 THEN content ELSE content \cup {c}) /\ UNCHANGED pc
  /\ UNCHANGED session

HandlePoints(c) ==
  \E k \in PointCounts :
    /\ Streaming(c)
    /\ AppendFramePoints(c, k) \/ SubmitContinuousPoints(c, k)
    /\ UNCHANGED recordFrame
------------------------------------------------------------------------------
(* stop() *)

StopBegin ==
  /\ spc = "no" /\ spc' = "joinAccept" /\ running' = FALSE
  /\ UNCHANGED <<owned, acceptVars, connVars, silent, content>>

(* Mistake: stop() does not wait for the accept thread.                     *)
JoinAcceptSkipped ==
  /\ spc = "joinAccept" /\ spc' = "joinWorkers"
  /\ UNCHANGED <<running, owned, acceptVars, connVars, silent, content>>

JoinAccept ==
  /\ spc = "joinAccept" /\ apc = "done" /\ spc' = "joinWorkers"
  /\ UNCHANGED <<running, owned, acceptVars, connVars, silent, content>>

(* Joins every worker, then closes what is left of the sockets.             *)
JoinWorkers ==
  /\ spc = "joinWorkers" /\ \A c \in workers : pc[c] = "finished"
  /\ spc' = "done" /\ workers' = {} /\ active' = {}
  /\ pc' = [c \in Clients |-> IF c \in workers \/ pc[c] = "backlog" THEN "none" ELSE pc[c]]
  /\ UNCHANGED <<running, owned, apc, cur, idle, session, silent, content>>

Stop == StopBegin \/ JoinAccept \/ JoinWorkers
------------------------------------------------------------------------------
(* What a worker does without its client.                                   *)
WorkerAlone(c) ==
  \/ ReadTimesOut(c) \/ TryAcquireSession(c) \/ RejectBusy(c) \/ ResetForSession(c)
  \/ WriteAccept(c) \/ ResetAfterSession(c) \/ ReleaseSession(c)
  \/ RemoveActiveSocket(c) \/ MarkFinished(c)

HandleRecord(c) == HandleStreamConfig(c) \/ HandleFrameMarker(c) \/ HandlePoints(c)

Worker(c) ==
  \/ WorkerAlone(c) \/ ReadFails(c) \/ ReadProgress(c) \/ ReadHello(c) \/ ReadReady(c)
  \/ HandleRecord(c)

Next ==
  \/ \E c \in Clients : Connect(c) \/ GoSilent(c) \/ Worker(c)
  \/ AcceptLoop
  \/ Stop
  \/ Tick

Spec == Init /\ [][Next]_vars

(* The threads run and time passes; nothing is assumed of the clients, and  *)
(* nothing forces a stop.                                                   *)
FairSpec ==
  /\ Spec
  /\ \A c \in Clients : WF_vars(WorkerAlone(c))
  /\ WF_vars(Tick) /\ WF_vars(AcceptLoop) /\ WF_vars(JoinAccept \/ JoinWorkers)
------------------------------------------------------------------------------
Sessions == [mode : {"raw", "frame"}, expected : 0..MaxFramePoints, got : Nat,
             rate : EffectiveMinPointRate..EffectiveMaxPointRate]
Positions == Live \cup {"none", "backlog", "accepted", "finished"}

(* Every variable holds a value of its type; a session's rate is one the    *)
(* endpoint advertises.                                                     *)
TypeOK ==
  /\ running \in BOOLEAN /\ owned \in BOOLEAN
  /\ active \subseteq Clients /\ workers \subseteq Clients
  /\ apc \in {"top", "accept", "spawn", "done"} /\ cur \in Clients \cup {Nobody}
  /\ spc \in {"no", "joinAccept", "joinWorkers", "done"}
  /\ pc \in [Clients -> Positions]
  /\ idle \in [Clients -> Nat] /\ session \in [Clients -> Sessions]
  /\ silent \subseteq Clients
  /\ content \subseteq (Clients \cup {Leftover})

(* sessionOwned_ is set exactly while one worker has the sink: two workers  *)
(* never have it, and no path out of runSession leaves the endpoint busy.   *)
ExclusiveOwnership ==
  /\ \A c, d \in Clients : pc[c] \in Owning /\ pc[d] \in Owning => c = d
  /\ owned <=> \E c \in Clients : pc[c] \in Owning

(* Every registered socket belongs to a connection that is still served,    *)
(* every served connection is registered, and there are never more of them  *)
(* than the limit: no path leaks one of the slots.                          *)
SocketsMatchConnections ==
  /\ Cardinality(active) <= MaxConcurrentSockets
  /\ active = {c \in Clients : pc[c] \in (Live \ {"finishing"}) \cup {"accepted"}}

(* A frame is pending only in frame mode and only while points are missing, *)
(* so that no record is swallowed by a frame that is complete or was        *)
(* configured away.                                                         *)
PendingFrameSane ==
  \A c \in Clients : pc[c] = "stream" =>
    (session[c].expected > 0 => session[c].mode = "frame"
                                /\ session[c].got < session[c].expected)

(* When stop() returns no thread of the server is left, the endpoint is     *)
(* free and no session's points are left in the sink, whatever the accept   *)
(* thread and the workers were doing when it was called.                    *)
StoppedIsQuiet ==
  spc = "done" =>
    /\ apc = "done" /\ ~owned /\ workers = {} /\ active = {}
    /\ \A c \in Clients : pc[c] = "none"
    /\ content \subseteq {Leftover}

(* The server as a whole: sessionOwned_ and the socket slots agree with     *)
(* where the workers are, no path out of acceptLoop() or runSession() leaks *)
(* one, and stop() leaves neither a thread nor a point.                     *)
ServerConsistent == TypeOK /\ ExclusiveOwnership /\ SocketsMatchConnections /\ StoppedIsQuiet

(* The sink is used as ExclusiveSink says: the holder is the worker between *)
(* its compare-and-swap and its release.                                    *)
Holder == IF \E c \in Clients : pc[c] \in Owning
            THEN CHOOSE c \in Clients : pc[c] \in Owning ELSE Nobody
Sink == INSTANCE ExclusiveSink WITH Users <- Clients, holder <- Holder
ImplementsExclusiveSink == Sink!Spec

(* A client that stops sending loses its connection: before its Hello by    *)
(* the handshake timeout, in a session by the session timeout.  Neither the *)
(* session nor the socket slot is held for ever.                            *)
SilentClientsAreDropped ==
  \A c \in Clients : (c \in silent /\ pc[c] \in Live) ~> (pc[c] \notin Live \/ c \notin silent)

(* stop() returns, whatever clients do and wherever the threads are.        *)
StopReturns == (spc = "joinAccept") ~> (spc = "done")
=============================================================================
