----------------------------- MODULE IdnSession -----------------------------
(***************************************************************************)
(* One target of the IDN host (IdnVirtualControllerHost.cpp): the server    *)
(* thread opens and closes the channel and queues chunks in the transport   *)
(* adapter, the driver thread of IdnTargetSession turns them into           *)
(* submissions, and the host starts and stops both.                         *)
(*                                                                          *)
(* Chunks are numbered in the order they are queued.  A slice is the set of *)
(* chunks it holds points of.                                               *)
(***************************************************************************)
EXTENDS Naturals, Sequences, FiniteSetsExt

CONSTANTS
  FrameSlices,  \* bound on the slices that a frame is cut into
  MaxChunks,    \* bound on the chunks queued
  MaxStarts     \* bound on the starts of the host

ASSUME IdnAssumption ==
  FrameSlices \in Nat \ {0} /\ MaxChunks \in Nat /\ MaxStarts \in Nat

VARIABLES
  host,       \* where start() and stop() of the host are
  starts,     \* how often it was started
  running,    \* running_ of the session
  server,     \* the server thread: "none", "booting", "serving", "closing", "failed", "ended"
  threadStop, \* the server is asked to stop
  opMode,     \* opMode of the output: "idle", "flushing", "wave", "frame"
  enabled,    \* enabledFlag of the adapter
  queue,      \* chunks between the adapter's caret and head
  count,      \* chunks queued so far
  driver,     \* where the driver thread is in driverLoop
  mode,       \* driverMode: "inactive", "wave", "frame"
  accu,       \* db25Accu: chunks with points that are not in a slice yet
  next,       \* the buffer that getNextBuffer is building
  current,    \* currentBuffer
  left,       \* iterations left of the write loop
  replay,     \* nextFrameReplayAt: "unset", or "wait" or "due"
  content,    \* whose points the sink holds
  sent,       \* the newest chunk submitted so far
  call        \* the last submission and the newest chunk before it

hostVars == <<host, starts, running>>
serverVars == <<server, threadStop, opMode>>
adapterVars == <<enabled, queue>>
driverVars == <<mode, accu, next, current, left, replay>>
sinkVars == <<content, sent, call>>
vars == <<hostVars, serverVars, adapterVars, count, driver, driverVars, sinkVars>>

NoCall == [kind |-> "none", slices |-> <<>>, fresh |-> FALSE, before |-> 0]
Chunks(slices) == UNION {slices[i] : i \in 1..Len(slices)}

Init ==
  /\ host = "down" /\ starts = 0 /\ running = FALSE
  /\ server = "none" /\ threadStop = FALSE /\ opMode = "idle"
  /\ enabled = FALSE /\ queue = <<>> /\ count = 0
  /\ driver = "off" /\ mode = "inactive" /\ accu = {} /\ next = <<>>
  /\ current = <<>> /\ left = 0 /\ replay = "unset"
  /\ content \in {{}, {"leftover"}} /\ sent = 0 /\ call = NoCall
-----------------------------------------------------------------------------
(* The host                                                                  *)

(* start() builds the session anew and marks it running ...                 *)
HostStart ==
  /\ host = "down" /\ starts < MaxStarts
  /\ host' = "reset" /\ starts' = starts + 1 /\ running' = TRUE
  /\ server' = "none" /\ threadStop' = FALSE /\ opMode' = "idle"
  /\ enabled' = FALSE /\ queue' = <<>>
  /\ driver' = "off" /\ mode' = "inactive" /\ accu' = {} /\ next' = <<>>
  /\ current' = <<>> /\ left' = 0 /\ replay' = "unset"
  /\ UNCHANGED <<count, sinkVars>>

(* ... resets the sink, starts the driver and then the server thread.       *)
SessionStart ==
  /\ host = "reset" /\ host' = "starting"
  /\ content' = {} /\ driver' = "top" /\ server' = "booting"
  /\ UNCHANGED <<starts, running, threadStop, opMode, adapterVars, count, driverVars, sent, call>>

(* waitUntilStarted: success, or a failure or timeout that undoes it all.   *)
HostStarted ==
  /\ host = "starting" /\ server \in {"serving", "closing", "ended"} /\ host' = "up"
  /\ UNCHANGED <<starts, running, serverVars, adapterVars, count, driver, driverVars, sinkVars>>

HostStartFails ==
  /\ host = "starting" /\ server \in {"booting", "failed"}
  /\ host' = "stopServer" /\ threadStop' = TRUE
  /\ UNCHANGED <<starts, running, server, opMode, adapterVars, count, driver, driverVars, sinkVars>>

HostStop ==
  /\ host = "up" /\ host' = "stopServer" /\ threadStop' = TRUE
  /\ UNCHANGED <<starts, running, server, opMode, adapterVars, count, driver, driverVars, sinkVars>>

JoinServer ==
  /\ host = "stopServer" /\ server \in {"failed", "ended"}
  /\ host' = "joinDriver" /\ running' = FALSE
  /\ UNCHANGED <<starts, serverVars, adapterVars, count, driver, driverVars, sinkVars>>

(* Mistake: the driver thread is not joined before the sink is reset.       *)
JoinDriverSkipped ==
  /\ host = "joinDriver" /\ host' = "resetAgain"
  /\ UNCHANGED <<starts, running, serverVars, adapterVars, count, driver, driverVars, sinkVars>>

JoinDriver ==
  /\ host = "joinDriver" /\ driver = "gone" /\ host' = "resetAgain"
  /\ UNCHANGED <<starts, running, serverVars, adapterVars, count, driver, driverVars, sinkVars>>

SessionReset ==
  /\ host = "resetAgain" /\ host' = "release" /\ content' = {}
  /\ UNCHANGED <<starts, running, serverVars, adapterVars, count, driver, driverVars, sent, call>>

HostStopped ==
  /\ host = "release" /\ host' = "down"
  /\ UNCHANGED <<starts, running, serverVars, adapterVars, count, driver, driverVars, sinkVars>>
-----------------------------------------------------------------------------
(* The server thread                                                         *)

ServerBoots ==
  /\ server = "booting" /\ server' \in {"serving", "failed"}
  /\ UNCHANGED <<hostVars, threadStop, opMode, adapterVars, count, driver, driverVars, sinkVars>>

Serving == server = "serving"

(* A client opens the channel; an adapter that is flushing is still enabled.*)
Open(m) ==
  /\ Serving /\ opMode \in {"idle", "flushing"} /\ opMode' = m
  /\ enabled' = TRUE
  /\ UNCHANGED <<hostVars, server, threadStop, queue, count, driver, driverVars, sinkVars>>

Put ==
  /\ Serving /\ opMode \in {"wave", "frame"} /\ enabled /\ count < MaxChunks
  /\ count' = count + 1 /\ queue' = Append(queue, [n |-> count + 1, kind |-> opMode])
  /\ UNCHANGED <<hostVars, serverVars, enabled, driver, driverVars, sinkVars>>

(* The adapter stops only when the driver has taken every chunk.            *)
GracefulStop ==
  /\ opMode' = IF queue = <<>> THEN "idle" ELSE "flushing"
  /\ enabled' = (enabled /\ queue # <<>>)
  /\ UNCHANGED <<hostVars, server, threadStop, queue, count, driver, driverVars, sinkVars>>

(* The client closes the channel, or its session times out.                 *)
Close == Serving /\ opMode \in {"wave", "frame"} /\ GracefulStop

(* Mistake: a channel that is flushing is never looked at again.            *)
HousekeepingIdle == FALSE /\ UNCHANGED vars

Housekeeping == Serving /\ opMode = "flushing" /\ GracefulStop

(* Every channel is closed and the adapter disabled ...                     *)
LoopEnds ==
  /\ Serving /\ server' = "closing" /\ enabled' = FALSE
  /\ opMode' = IF queue = <<>> THEN "idle" ELSE "flushing"
  /\ UNCHANGED <<hostVars, threadStop, queue, count, driver, driverVars, sinkVars>>

(* Mistake: the server serves on while a channel is open.                   *)
ServerWaitsForClients == threadStop /\ opMode = "idle" /\ LoopEnds

ServerStops == threadStop /\ LoopEnds

(* The socket fails: the loop ends without being asked, and nobody is told. *)
ServerBreaks == ~threadStop /\ LoopEnds

(* ... and then what it still holds is thrown away, without the lock: the   *)
(* driver, if it is moving the caret, may overwrite the new caret.          *)
ServerEnds ==
  /\ server = "closing" /\ server' = "ended"
  /\ queue' = <<>> \/ (driver = "take" /\ queue' = queue)
  /\ UNCHANGED <<hostVars, threadStop, opMode, enabled, count, driver, driverVars, sinkVars>>
-----------------------------------------------------------------------------
(* The driver thread                                                         *)

DriverTop ==
  /\ driver = "top" /\ driver' = (IF running THEN "take" ELSE "gone") /\ next' = <<>>
  /\ UNCHANGED <<hostVars, serverVars, adapterVars, count, mode, accu, current, left, replay,
                 sinkVars>>

(* Mistake: a slice is committed without points.                            *)
CommitEmpty(points, slices) == Append(slices, points)

CommitChunk(points, slices) == IF points = {} THEN slices ELSE Append(slices, points)

(* Mistakes: a frame is added to the frame before it; a frame leaves the    *)
(* points of a wave behind.                                                 *)
FrameAppends(n) == {[next |-> next \o <<{n}>>, accu |-> {}]}
FrameKeepsAccu(n) == {[next |-> <<{n}>>, accu |-> accu]}

(* A frame replaces what is waiting.  It is cut into slices of equal size,  *)
(* the last commit takes what is left; downsampling may skip every point.   *)
TakeFrame(n) ==
  UNION {{[next |-> CommitChunk(last, [i \in 1..k |-> {n}]), accu |-> {}] : last \in {{}, {n}}} :
           k \in 0..(FrameSlices - 1)}

(* A wave is cut by time: its points may be skipped, wait with the earlier  *)
(* ones, or complete their slice, fill one more and leave some for later.   *)
TakeWave(n, old) ==
  {[next |-> next, accu |-> old \cup points] : points \in {{}, {n}}} \cup
  UNION {{[next |-> CommitChunk(old \cup {n}, next) \o more, accu |-> rest] :
            more \in {<<>>, <<{n}>>}} : rest \in {{}, {n}}}

(* Mistake: a disabled adapter leaves the driver in its mode.               *)
ModeKept == mode

ModeSeen == IF enabled THEN mode ELSE "inactive"
AccuSeen == IF enabled THEN accu ELSE {}

(* getNextBuffer, one turn of its loop: the lock is held for one chunk.     *)
NothingTaken ==
  /\ driver = "take" /\ queue = <<>> /\ driver' = "decide"
  /\ mode' = ModeSeen /\ accu' = AccuSeen
  /\ UNCHANGED <<hostVars, serverVars, adapterVars, count, next, current, left, replay, sinkVars>>

Taken ==
  /\ driver = "take" /\ queue # <<>> /\ queue' = Tail(queue)
  /\ LET n == Head(queue).n
     IN /\ mode' = Head(queue).kind
        /\ \E t \in IF mode' = "frame" THEN TakeFrame(n) ELSE TakeWave(n, AccuSeen) :
             next' = t.next /\ accu' = t.accu
  /\ UNCHANGED <<hostVars, serverVars, enabled, count, driver, current, left, replay, sinkVars>>

(* A chunk without samples is taken and ends the loop.                      *)
TakenEmpty ==
  /\ driver = "take" /\ queue # <<>> /\ queue' = Tail(queue) /\ driver' = "decide"
  /\ mode' = ModeSeen /\ accu' = AccuSeen
  /\ UNCHANGED <<hostVars, serverVars, enabled, count, next, current, left, replay, sinkVars>>

Submitted(kind, slices, fresh) ==
  /\ content' = {"session"}
  /\ sent' = Max(Chunks(slices))
  /\ call' = [kind |-> kind, slices |-> slices, fresh |-> fresh, before |-> sent]

Fresh == next # <<>> /\ mode = "frame"
Latest == IF next # <<>> THEN next ELSE current

(* Mistake: a new frame waits for the replay time of the last one.          *)
ReplayKept == replay

(* A new frame is due at once.                                              *)
ReplayAt == IF Fresh THEN "due" ELSE replay

Nothing ==
  /\ driver = "decide" /\ driver' = "top" /\ current' = Latest /\ replay' = ReplayAt
  /\ Latest = <<>> \/ (mode = "frame" /\ ReplayAt = "wait")
  /\ UNCHANGED <<hostVars, serverVars, adapterVars, count, mode, accu, next, left, sinkVars>>

ReplaceFrame ==
  /\ driver = "decide" /\ driver' = "top" /\ current' = Latest
  /\ Latest # <<>> /\ mode = "frame" /\ ReplayAt # "wait"
  /\ Submitted("frame", Latest, Fresh) /\ replay' = "wait"
  /\ UNCHANGED <<hostVars, serverVars, adapterVars, count, mode, accu, next, left>>

WriteBegin ==
  /\ driver = "decide" /\ driver' = "write" /\ current' = Latest
  /\ Latest # <<>> /\ mode # "frame" /\ left' = Len(Latest)
  /\ UNCHANGED <<hostVars, serverVars, adapterVars, count, mode, accu, next, replay, sinkVars>>

WriteSlice ==
  /\ driver = "write" /\ left > 0 /\ running
  /\ current' = Tail(current) /\ left' = left - 1
  /\ Submitted("slice", <<Head(current)>>, FALSE)
  /\ UNCHANGED <<hostVars, serverVars, adapterVars, count, driver, mode, accu, next, replay>>

WriteEnd ==
  /\ driver = "write" /\ (left = 0 \/ ~running)
  /\ driver' = "top" /\ left' = 0 /\ replay' = "unset"
  /\ UNCHANGED <<hostVars, serverVars, adapterVars, count, mode, accu, next, current, sinkVars>>

(* The duration of the frame has passed.                                    *)
ReplayDue ==
  /\ replay = "wait" /\ replay' = "due"
  /\ UNCHANGED <<hostVars, serverVars, adapterVars, count, driver, mode, accu, next, current, left,
                 sinkVars>>
-----------------------------------------------------------------------------
Host ==
  \/ HostStart \/ SessionStart \/ HostStarted \/ HostStartFails \/ HostStop
  \/ JoinServer \/ JoinDriver \/ SessionReset \/ HostStopped

Client == (\E m \in {"wave", "frame"} : Open(m)) \/ Put \/ Close

ServerThread == ServerBoots \/ Housekeeping \/ ServerStops \/ ServerBreaks \/ ServerEnds

Driver ==
  \/ DriverTop \/ NothingTaken \/ Taken \/ TakenEmpty \/ Nothing \/ ReplaceFrame
  \/ WriteBegin \/ WriteSlice \/ WriteEnd

Next == Host \/ Client \/ ServerThread \/ Driver \/ ReplayDue

Spec == Init /\ [][Next]_vars

(* The threads run, time passes and stop() proceeds; nobody has to start or *)
(* stop the host, and nothing is assumed of clients.                        *)
FairSpec ==
  /\ Spec /\ WF_vars(Driver) /\ WF_vars(ReplayDue)
  /\ WF_vars(ServerBoots \/ ServerStops \/ ServerEnds) /\ WF_vars(Housekeeping)
  /\ WF_vars(SessionStart \/ HostStarted \/ JoinServer \/ JoinDriver \/ SessionReset \/ HostStopped)
-----------------------------------------------------------------------------
Slices == (SUBSET (1..MaxChunks)) \ {{}}

(* Every variable holds a value of its type; in particular no slice without *)
(* points is ever built.                                                    *)
TypeOK ==
  /\ host \in {"down", "reset", "starting", "up", "stopServer", "joinDriver", "resetAgain", "release"}
  /\ starts \in 0..MaxStarts /\ running \in BOOLEAN
  /\ server \in {"none", "booting", "serving", "closing", "failed", "ended"}
  /\ threadStop \in BOOLEAN /\ opMode \in {"idle", "flushing", "wave", "frame"}
  /\ enabled \in BOOLEAN /\ queue \in Seq([n : 1..MaxChunks, kind : {"wave", "frame"}])
  /\ count \in 0..MaxChunks
  /\ driver \in {"off", "top", "take", "decide", "write", "gone"}
  /\ mode \in {"inactive", "wave", "frame"} /\ accu \subseteq 1..MaxChunks
  /\ next \in Seq(Slices) /\ current \in Seq(Slices)
  /\ left \in Nat /\ left <= Len(current)
  /\ replay \in {"unset", "wait", "due"}
  /\ content \subseteq {"leftover", "session"} /\ sent \in 0..MaxChunks
  /\ call \in [kind : {"none", "slice", "frame"}, slices : Seq(Slices), fresh : BOOLEAN,
               before : 0..MaxChunks]

(* replaceFrame is only ever given slices of one frame, and no more than it *)
(* was cut into, also when frames and waves arrive faster than the driver   *)
(* takes them and when the channel is closed in between.                    *)
FramesAreUnmixed ==
  call.kind = "frame" => /\ Len(call.slices) <= FrameSlices
                         /\ \A i \in DOMAIN call.slices : call.slices[i] = {sent}

(* The transport prefetch is cleared for the first submission of a frame    *)
(* and for no replay of it: a new frame is never held back until its fresh  *)
(* flag is forgotten.                                                       *)
FreshFramesAreFlagged ==
  call.kind = "frame" => (call.fresh <=> sent > call.before)

(* Points never overtake each other: a submission holds nothing older than  *)
(* what was submitted before it, through mode changes, replays, closed      *)
(* channels and restarts.                                                   *)
NothingOlder == \A n \in Chunks(call.slices) : n >= call.before

(* The session as a whole: what the driver submits is typed, in the order   *)
(* it was queued in and of one frame at a time.                             *)
SessionConsistent == TypeOK /\ FramesAreUnmixed /\ NothingOlder

(* The host uses the sink as ExclusiveSink says: reset before the driver    *)
(* starts, and again once it is joined.                                     *)
Holder == IF host = "down" THEN "nobody" ELSE "session"
Sink == INSTANCE ExclusiveSink WITH Users <- {"session"}, Nobody <- "nobody",
                                    Leftover <- "leftover", holder <- Holder
ImplementsExclusiveSink == Sink!Spec

(* A frame is replayed only while its channel is open: once the channel     *)
(* stays closed the driver runs out of slices and falls silent.             *)
ClosedChannelGoesQuiet ==
  (<>[]~enabled) => <>[](current = <<>> \/ driver \in {"off", "gone"})

(* A channel closed with chunks in the queue does not flush for ever: the   *)
(* driver takes them and housekeeping then stops the adapter.               *)
FlushEnds == (opMode = "flushing") ~> (opMode # "flushing" \/ server = "ended")

(* stop() returns, and so does a start() that failed, whatever clients and  *)
(* the driver are doing.                                                    *)
StopReturns == (host = "stopServer") ~> (host = "down")
=============================================================================
