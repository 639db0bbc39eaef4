-------------------------- MODULE IdnSessionProofs --------------------------
(* The IDN host has its sink to itself from start() to stop(), finds it     *)
(* empty and leaves it empty; and the points of its driver keep their order *)
(* and the frames stay apart.                                               *)
EXTENDS IdnSession, SequenceTheorems, WellFoundedInduction, TLAPS

(* The driver thread lives only while the host is between the first reset   *)
(* and the second one, and in between the sink holds nothing else.          *)
SinkOwned ==
  /\ host \in {"down", "reset", "starting", "up", "stopServer", "joinDriver", "resetAgain", "release"}
  /\ driver \notin {"off", "gone"} => host \in {"starting", "up", "stopServer", "joinDriver"}
  /\ host \in {"starting", "up", "stopServer", "joinDriver", "resetAgain"} => content \subseteq {"session"}
  /\ host = "release" => content = {}

(* No thread but the host's own changes where the host is; they submit, or  *)
(* leave the sink alone.                                                    *)
LEMMA OtherSteps ==
  ASSUME Client \/ ServerThread \/ Driver \/ ReplayDue
  PROVE  /\ UNCHANGED host
         /\ \/ UNCHANGED content
            \/ driver \in {"decide", "write"} /\ content' = {"session"}
         /\ driver \in {"off", "gone"} => driver' = driver
<1> USE DEF hostVars, serverVars, adapterVars, driverVars, sinkVars
<1>1. CASE Client
  BY <1>1 DEF Client, Open, Put, Close, GracefulStop
<1>2. CASE ServerThread
  BY <1>2 DEF ServerThread, ServerBoots, Housekeeping, GracefulStop, ServerStops, ServerBreaks,
              LoopEnds, ServerEnds
<1>3. CASE DriverTop \/ NothingTaken \/ Taken \/ TakenEmpty \/ Nothing \/ WriteBegin \/ WriteEnd \/ ReplayDue
  BY <1>3 DEF DriverTop, NothingTaken, Taken, TakenEmpty, Nothing, WriteBegin, WriteEnd,
              ReplayDue
<1>4. CASE ReplaceFrame \/ WriteSlice
  BY <1>4 DEF ReplaceFrame, WriteSlice, Submitted
<1> QED
  BY <1>1, <1>2, <1>3, <1>4 DEF Driver

LEMMA OwnedInit == Init => SinkOwned
BY DEF Init, SinkOwned

LEMMA OwnedStep == SinkOwned /\ [Next]_vars => SinkOwned'
<1> SUFFICES ASSUME SinkOwned, [Next]_vars PROVE SinkOwned'
  OBVIOUS
<1> USE DEF SinkOwned, hostVars, serverVars, adapterVars, driverVars, sinkVars
<1>1. CASE HostStart
  BY <1>1 DEF HostStart
<1>2. CASE SessionStart
  BY <1>2 DEF SessionStart
<1>3. CASE HostStarted \/ HostStartFails \/ HostStop \/ JoinServer
  BY <1>3 DEF HostStarted, HostStartFails, HostStop, JoinServer
<1>4. CASE JoinDriver
  BY <1>4 DEF JoinDriver
<1>5. CASE SessionReset \/ HostStopped
  BY <1>5 DEF SessionReset, HostStopped
<1>6. CASE Client \/ ServerThread \/ Driver \/ ReplayDue
  BY <1>6, OtherSteps
<1>7. CASE UNCHANGED vars
  BY <1>7 DEF vars
<1> QED
  BY <1>1, <1>2, <1>3, <1>4, <1>5, <1>6, <1>7 DEF Next, Host

(* The driver submits only while the host has the sink, after the reset of  *)
(* start() and before the one of stop().                                    *)
THEOREM SinkIsOwned == Spec => []SinkOwned
BY OwnedInit, OwnedStep, PTL DEF Spec

(* The IDN host implements ExclusiveSink: start() acquires and clears the   *)
(* sink, the driver submits, stop() joins it, clears and releases.          *)
THEOREM IdnHostImplementsExclusiveSink == Spec => ImplementsExclusiveSink
<1>1. Init => Sink!Init
  BY DEF Init, Sink!Init, Holder
<1>2. SinkOwned /\ [Next]_vars => [Sink!Next]_(Sink!vars)
  <2> SUFFICES ASSUME SinkOwned, [Next]_vars PROVE [Sink!Next]_(Sink!vars)
    OBVIOUS
  <2> USE DEF hostVars, serverVars, adapterVars, driverVars, sinkVars, Holder
  <2>1. CASE HostStart
    BY <2>1 DEF HostStart, Sink!Next, Sink!Acquire
  <2>2. CASE SessionStart
    BY <2>2 DEF SessionStart, Sink!Next, Sink!Clear
  <2>3. CASE HostStarted \/ HostStartFails \/ HostStop \/ JoinServer \/ JoinDriver
    BY <2>3 DEF HostStarted, HostStartFails, HostStop, JoinServer, JoinDriver, Sink!vars
  <2>4. CASE SessionReset
    BY <2>4 DEF SessionReset, Sink!Next, Sink!Clear
  <2>5. CASE HostStopped
    BY <2>5 DEF HostStopped, SinkOwned, Sink!Next, Sink!Release
  <2>6. CASE Client \/ ServerThread \/ Driver \/ ReplayDue
    <3>1. CASE UNCHANGED content
      BY <2>6, <3>1, OtherSteps DEF Sink!vars
    <3>2. CASE driver \in {"decide", "write"} /\ content' = {"session"}
      BY <2>6, <3>2, OtherSteps DEF SinkOwned, Sink!Next, Sink!Submit
    <3> QED
      BY <2>6, <3>1, <3>2, OtherSteps
  <2>7. CASE UNCHANGED vars
    BY <2>7 DEF vars, Sink!vars
  <2> QED
    BY <2>1, <2>2, <2>3, <2>4, <2>5, <2>6, <2>7 DEF Next, Host
<1> QED
  BY <1>1, <1>2, SinkIsOwned, PTL DEF Spec, ImplementsExclusiveSink, Sink!Spec
-----------------------------------------------------------------------------
(* The order of the points: facts about the buffers of the driver           *)

(* Bounds on the chunks of a buffer, the order inside it, and a buffer that *)
(* holds slices of one frame only.                                          *)
Newer(b, m) == \A i \in 1..Len(b) : \A x \in b[i] : m <= x
Older(b, m) == \A i \in 1..Len(b) : \A x \in b[i] : x <= m
Ordered(b) == \A i, j \in 1..Len(b) : i < j => \A x \in b[i], y \in b[j] : x <= y
OneFrame(b, n) == Len(b) <= FrameSlices /\ \A i \in 1..Len(b) : b[i] = {n}

(* A set of chunks that is not empty has a newest one.                      *)
LEMMA NewestChunk ==
  ASSUME NEW S, S \subseteq Nat, S # {}, NEW m \in Nat, \A x \in S : x <= m
  PROVE  Max(S) \in S /\ \A x \in S : x <= Max(S)
<1> DEFINE B == {b \in Nat : \A x \in S : x <= b}
           R == OpToRel(<, Nat)
<1>1. B \subseteq Nat /\ B # {}
  OBVIOUS
<1>2. \E b \in B : \A c \in B : ~(<<c, b>> \in R)
  <2> HIDE DEF B
  <2> QED
    BY <1>1, NatLessThanWellFounded, WFMin
<1>3. PICK b \in B : \A c \in B : ~(c < b)
  BY <1>1, <1>2 DEF OpToRel
<1>4. b \in S
  <2> SUFFICES ASSUME b \notin S PROVE FALSE
    OBVIOUS
  <2>1. PICK x \in S : x <= b
    OBVIOUS
  <2>2. b - 1 \in B /\ b - 1 < b
    BY <2>1
  <2> QED
    BY <2>2, <1>3
<1>5. \E x \in S : \A y \in S : x >= y
  BY <1>4
<1> QED
  BY <1>5 DEF Max

(* Every slice has points, so a buffer that is submitted has a newest one.  *)
LEMMA SubmittedChunks ==
  ASSUME NEW b \in Seq(Slices), b # <<>>
  PROVE  /\ Chunks(b) \subseteq 1..MaxChunks /\ Chunks(b) # {}
         /\ Max(Chunks(b)) \in Chunks(b)
         /\ \A x \in Chunks(b) : x <= Max(Chunks(b))
<1> USE IdnAssumption
<1>1. \A i \in 1..Len(b) : b[i] \subseteq 1..MaxChunks /\ b[i] # {}
  <2>1. \A i \in 1..Len(b) : b[i] \in Slices
    BY ElementOfSeq
  <2> QED
    BY <2>1 DEF Slices
<1>2. Len(b) \in Nat /\ Len(b) # 0
  BY EmptySeq, LenProperties
<1>3. Chunks(b) \subseteq 1..MaxChunks
  BY <1>1 DEF Chunks
<1>4. Chunks(b) # {}
  <2>1. 1 \in 1..Len(b)
    BY <1>2
  <2> QED
    BY <2>1, <1>1 DEF Chunks
<1> HIDE DEF Chunks
<1> QED
  BY <1>3, <1>4, NewestChunk

LEMMA FrameChunks ==
  ASSUME NEW b \in Seq(Slices), b # <<>>, NEW n, OneFrame(b, n)
  PROVE  Max(Chunks(b)) = n /\ n \in 1..MaxChunks /\ Chunks(b) = {n}
<1>1. \A x \in Chunks(b) : x = n
  BY DEF Chunks, OneFrame
<1> QED
  BY <1>1, SubmittedChunks

(* What the write loop leaves is in order, and no older than what it wrote. *)
LEMMA TailOfBuffer ==
  ASSUME NEW b \in Seq(Slices), b # <<>>, Ordered(b)
  PROVE  /\ Head(b) \in Slices /\ Tail(b) \in Seq(Slices) /\ Len(Tail(b)) = Len(b) - 1
         /\ Ordered(Tail(b)) /\ \A x \in Head(b) : Newer(Tail(b), x)
         /\ \A m : Older(b, m) => Older(Tail(b), m) /\ \A x \in Head(b) : x <= m
         /\ \A m : Newer(b, m) => \A x \in Head(b) : m <= x
<1>1. /\ Head(b) \in Slices /\ Tail(b) \in Seq(Slices) /\ Len(Tail(b)) = Len(b) - 1
      /\ Len(b) \in Nat /\ Len(b) # 0 /\ Head(b) = b[1]
      /\ \A i \in 1..Len(Tail(b)) : Tail(b)[i] = b[i + 1]
  BY HeadTailProperties, EmptySeq, LenProperties
<1>2. \A i \in 1..Len(Tail(b)) : i + 1 \in 1..Len(b) /\ 1 < i + 1
  BY <1>1
<1>3. 1 \in 1..Len(b)
  BY <1>1
<1> HIDE DEF Slices
<1>4. Ordered(Tail(b))
  BY <1>1, <1>2 DEF Ordered
<1>5. \A x \in Head(b) : Newer(Tail(b), x)
  BY <1>1, <1>2, <1>3 DEF Ordered, Newer
<1>6. \A m : Older(b, m) => Older(Tail(b), m) /\ \A x \in Head(b) : x <= m
  BY <1>1, <1>2, <1>3 DEF Older
<1>7. \A m : Newer(b, m) => \A x \in Head(b) : m <= x
  BY <1>1, <1>3 DEF Newer
<1> QED
  BY <1>1, <1>4, <1>5, <1>6, <1>7

(* A slice that is committed last has nothing newer before it.              *)
LEMMA CommitKeepsOrder ==
  ASSUME NEW b \in Seq(Slices), NEW e \in Slices, Ordered(b), \A x \in e : Older(b, x)
  PROVE  /\ Append(b, e) \in Seq(Slices) /\ Ordered(Append(b, e))
         /\ \A m : Older(b, m) /\ (\A x \in e : x <= m) => Older(Append(b, e), m)
         /\ \A m : Newer(b, m) /\ (\A x \in e : m <= x) => Newer(Append(b, e), m)
<1>1. /\ Append(b, e) \in Seq(Slices) /\ Len(Append(b, e)) = Len(b) + 1
      /\ \A i \in 1..Len(b) : Append(b, e)[i] = b[i]
      /\ Append(b, e)[Len(b) + 1] = e /\ Len(b) \in Nat
  BY AppendProperties, LenProperties
<1>2. \A i \in 1..(Len(b) + 1) : i \in 1..Len(b) \/ i = Len(b) + 1
  BY <1>1
<1>3. \A i, j \in 1..(Len(b) + 1) : i < j => i \in 1..Len(b)
  BY <1>1
<1> HIDE DEF Slices
<1>4. Ordered(Append(b, e))
  BY <1>1, <1>2, <1>3 DEF Ordered, Older
<1>5. \A m : Older(b, m) /\ (\A x \in e : x <= m) => Older(Append(b, e), m)
  BY <1>1, <1>2 DEF Older
<1>6. \A m : Newer(b, m) /\ (\A x \in e : m <= x) => Newer(Append(b, e), m)
  BY <1>1, <1>2 DEF Newer
<1> QED
  BY <1>1, <1>4, <1>5, <1>6

(* A frame replaces the buffer by no more slices than it may be cut into.   *)
LEMMA TakenFrame ==
  ASSUME NEW n \in 1..MaxChunks, NEW t \in TakeFrame(n)
  PROVE  t.accu = {} /\ t.next \in Seq(Slices) /\ OneFrame(t.next, n)
<1>1. PICK k \in 0..(FrameSlices - 1), last \in {{}, {n}} :
        t = [next |-> CommitChunk(last, [i \in 1..k |-> {n}]), accu |-> {}]
  BY DEF TakeFrame
<1> DEFINE f == [i \in 1..k |-> {n}]
<1>2. k \in Nat /\ k + 1 <= FrameSlices
  BY IdnAssumption
<1>3. {n} \in Slices
  BY DEF Slices
<1>4. f \in Seq(Slices) /\ Len(f) = k /\ \A i \in 1..k : f[i] = {n}
  <2>1. f \in [1..k -> Slices]
    BY <1>3
  <2> QED
    BY <1>2, <2>1, SeqDef, LenProperties
<1> HIDE DEF f
<1>5. CASE last = {}
  <2>1. t.next = f /\ t.accu = {}
    BY <1>1, <1>5 DEF CommitChunk, f
  <2> QED
    BY <1>2, <1>4, <2>1, IdnAssumption DEF OneFrame
<1>6. CASE last = {n}
  <2>1. t.next = Append(f, {n}) /\ t.accu = {}
    BY <1>1, <1>6 DEF CommitChunk, f
  <2>2. /\ Append(f, {n}) \in Seq(Slices) /\ Len(Append(f, {n})) = k + 1
        /\ \A i \in 1..k : Append(f, {n})[i] = {n} /\ Append(f, {n})[k + 1] = {n}
    BY <1>3, <1>4, AppendProperties
  <2>3. Append(f, {n})[k + 1] = {n}
    BY <1>3, <1>4, AppendProperties
  <2>4. \A i \in 1..(k + 1) : i \in 1..k \/ i = k + 1
    BY <1>2
  <2> QED
    BY <1>2, <2>1, <2>2, <2>3, <2>4 DEF OneFrame
<1> QED
  BY <1>5, <1>6

(* A wave extends the buffer by what waited and by what it brings: the      *)
(* order of the points is kept, also with what still waits.                 *)
LEMMA TakenWave ==
  ASSUME NEW n \in 1..MaxChunks, NEW old, old \subseteq 1..MaxChunks, NEW t \in TakeWave(n, old),
         next \in Seq(Slices), Ordered(next), Older(next, n),
         \A a \in old : a <= n /\ Older(next, a)
  PROVE  /\ t.accu \subseteq old \cup {n} /\ t.next \in Seq(Slices) /\ Ordered(t.next)
         /\ Older(t.next, n) /\ \A a \in t.accu : Older(t.next, a)
         /\ \A m : Newer(next, m) /\ m <= n /\ (\A a \in old : m <= a) => Newer(t.next, m)
<1>1. CASE \E points \in {{}, {n}} : t = [next |-> next, accu |-> old \cup points]
  BY <1>1
<1>2. CASE \E more \in {<<>>, <<{n}>>}, rest \in {{}, {n}} :
             t = [next |-> CommitChunk(old \cup {n}, next) \o more, accu |-> rest]
  <2> DEFINE e == old \cup {n}
             b == Append(next, e)
  <2>1. PICK more \in {<<>>, <<{n}>>}, rest \in {{}, {n}} :
          t = [next |-> CommitChunk(e, next) \o more, accu |-> rest]
    BY <1>2
  <2>2. t.next = b \o more /\ t.accu \subseteq {n}
    BY <2>1 DEF CommitChunk
  <2>3. e \in Slices /\ {n} \in Slices /\ n \in Nat /\ \A x \in e : x \in Nat /\ x <= n /\ Older(next, x)
    BY DEF Slices
  <2> HIDE DEF e
  <2>4. /\ b \in Seq(Slices) /\ Ordered(b) /\ Older(b, n)
        /\ \A m : Newer(next, m) /\ (\A x \in e : m <= x) => Newer(b, m)
    BY <2>3, CommitKeepsOrder
  <2> HIDE DEF b
  <2>5. \A m : m <= n /\ (\A a \in old : m <= a) => \A x \in e : m <= x
    BY DEF e
  <2>6. CASE more = <<>>
    <3>1. t.next = b
      BY <2>2, <2>4, <2>6, ConcatEmptySeq
    <3> QED
      BY <3>1, <2>2, <2>4, <2>5
  <2>7. CASE more = <<{n}>>
    <3>1. t.next = Append(b, {n})
      BY <2>2, <2>3, <2>4, <2>7, AppendIsConcat
    <3>2. Append(b, {n}) \in Seq(Slices) /\ Ordered(Append(b, {n}))
      BY <2>3, <2>4, CommitKeepsOrder
    <3>3. Older(Append(b, {n}), n)
      BY <2>3, <2>4, CommitKeepsOrder
    <3>4. \A m : Newer(b, m) /\ m <= n => Newer(Append(b, {n}), m)
      BY <2>3, <2>4, CommitKeepsOrder
    <3> QED
      BY <3>1, <3>2, <3>3, <3>4, <2>2, <2>4, <2>5
  <2> QED
    BY <2>6, <2>7
<1> QED
  BY <1>1, <1>2 DEF TakeWave
-----------------------------------------------------------------------------
(* The inductive invariant of the driver                                     *)

(* Nothing that was taken from the queue is newer than chunk m.             *)
Reached(m) ==
  sent <= m /\ Older(current, m) /\ Older(next, m) /\ \A a \in accu : a <= m

(* The queue is in order, and everything taken from it is older.            *)
QueueOK ==
  /\ Reached(count)
  /\ \A i \in 1..Len(queue) : queue[i].n <= count /\ Reached(queue[i].n - 1)
  /\ \A i, j \in 1..Len(queue) : i < j => queue[i].n < queue[j].n

(* What waits for its slice is no older than any slice.                     *)
AccuOK == \A a \in accu : sent <= a /\ Older(current, a) /\ Older(next, a)

(* The slices left in currentBuffer are in order; they are all of the frame *)
(* that was submitted last whenever the driver is about to take a chunk.    *)
CurrentOK ==
  /\ Ordered(current) /\ Newer(current, sent)
  /\ driver \in {"take", "decide"} \/ (driver = "top" /\ running) => OneFrame(current, sent)
  /\ left = IF driver = "write" THEN Len(current) ELSE 0
  /\ host = "reset" => current = <<>>

(* The buffer being built is in order, and in frame mode it is one new      *)
(* frame.                                                                   *)
NextOK ==
  driver \in {"take", "decide"} =>
    /\ Ordered(next) /\ Newer(next, sent)
    /\ mode = "frame" /\ next # <<>> => \E n \in Nat : n > sent /\ OneFrame(next, n)

CallOK == FramesAreUnmixed /\ FreshFramesAreFlagged /\ NothingOlder

OrderOK == QueueOK /\ AccuOK /\ CurrentOK /\ NextOK /\ CallOK

Entries == [n : 1..MaxChunks, kind : {"wave", "frame"}]

(* The parts of TypeOK that the order of the points rests on.               *)
LEMMA ChunksTyped ==
  ASSUME TypeOK
  PROVE  /\ queue \in Seq(Entries) /\ next \in Seq(Slices) /\ current \in Seq(Slices)
         /\ count \in Nat /\ sent \in Nat /\ accu \subseteq 1..MaxChunks /\ MaxChunks \in Nat
         /\ \A i \in 1..Len(queue) : queue[i] \in Entries /\ queue[i].n \in 1..MaxChunks
         /\ \A i \in 1..Len(next) : \A x \in next[i] : x \in Nat
         /\ \A i \in 1..Len(current) : \A x \in current[i] : x \in Nat
<1>1. /\ queue \in Seq(Entries) /\ next \in Seq(Slices) /\ current \in Seq(Slices)
      /\ count \in Nat /\ sent \in Nat /\ accu \subseteq 1..MaxChunks /\ MaxChunks \in Nat
  BY IdnAssumption DEF TypeOK, Entries
<1>2. \A i \in 1..Len(next) : next[i] \in Slices
  BY <1>1, ElementOfSeq
<1>3. \A i \in 1..Len(current) : current[i] \in Slices
  BY <1>1, ElementOfSeq
<1>4. \A i \in 1..Len(queue) : queue[i] \in Entries
  BY <1>1, ElementOfSeq
<1>5. \A e \in Entries : e.n \in 1..MaxChunks
  BY DEF Entries
<1>6. \A e \in Slices : \A x \in e : x \in Nat
  BY DEF Slices
<1> QED
  BY <1>1, <1>2, <1>3, <1>4, <1>5, <1>6

LEMMA OrderInit == Init => TypeOK /\ OrderOK
<1> SUFFICES ASSUME Init PROVE TypeOK /\ OrderOK
  OBVIOUS
<1> USE DEF Init
<1>1. <<>> \in Seq(Slices) /\ <<>> \in Seq([n : 1..MaxChunks, kind : {"wave", "frame"}])
      /\ Len(<<>>) = 0
  BY EmptySeq
<1>2. TypeOK
  <2>1. NoCall \in [kind : {"none", "slice", "frame"}, slices : Seq(Slices), fresh : BOOLEAN,
                     before : 0..MaxChunks]
    BY <1>1, IdnAssumption DEF NoCall
  <2>2. starts \in 0..MaxStarts /\ count \in 0..MaxChunks /\ sent \in 0..MaxChunks
        /\ left \in Nat /\ left <= Len(current)
    BY <1>1, IdnAssumption
  <2>3. accu \subseteq 1..MaxChunks /\ content \subseteq {"leftover", "session"}
    OBVIOUS
  <2> QED
    BY <1>1, <2>1, <2>2, <2>3, Zenon DEF TypeOK
<1>3. \A m : Older(<<>>, m) /\ Newer(<<>>, m)
  BY <1>1 DEF Older, Newer
<1>4. Ordered(<<>>) /\ Chunks(<<>>) = {}
  BY <1>1 DEF Ordered, Chunks
<1>5. QueueOK /\ AccuOK
  BY <1>1, <1>3 DEF QueueOK, Reached, AccuOK
<1>6. CurrentOK /\ NextOK
  BY <1>1, <1>3, <1>4 DEF CurrentOK, NextOK
<1>7. CallOK
  BY <1>4 DEF CallOK, FramesAreUnmixed, FreshFramesAreFlagged, NothingOlder, NoCall
<1> QED
  BY <1>2, <1>5, <1>6, <1>7 DEF OrderOK

(* Steps that touch neither the buffers nor the sink's points.              *)
LEMMA QuietStep ==
  ASSUME OrderOK, UNCHANGED <<queue, count, driver, mode, accu, next, current, left, sent, call>>,
         running' => running, host' = "reset" => host = "reset"
  PROVE  OrderOK'
<1>1. QueueOK'
  BY DEF OrderOK, QueueOK, Reached, Older
<1>2. AccuOK'
  BY DEF OrderOK, AccuOK, Older
<1>3. CurrentOK'
  BY DEF OrderOK, CurrentOK, Ordered, Newer, OneFrame
<1>4. NextOK'
  BY DEF OrderOK, NextOK, Ordered, Newer, OneFrame
<1>5. CallOK'
  BY DEF OrderOK, CallOK, FramesAreUnmixed, FreshFramesAreFlagged, NothingOlder, Chunks
<1> QED
  BY <1>1, <1>2, <1>3, <1>4, <1>5 DEF OrderOK

LEMMA HostOrder == ASSUME TypeOK, SinkOwned, OrderOK, Host PROVE OrderOK'
<1> USE DEF hostVars, serverVars, adapterVars, driverVars, sinkVars
<1>1. CASE HostStart
  <2> USE <1>1 DEF HostStart
  <2>1. Len(<<>>) = 0 /\ \A m : Older(<<>>, m) /\ Newer(<<>>, m)
    BY EmptySeq DEF Older, Newer
  <2>2. Ordered(<<>>)
    BY <2>1 DEF Ordered
  <2>3. QueueOK' /\ AccuOK'
    BY <2>1 DEF QueueOK, Reached, AccuOK, OrderOK
  <2>4. CurrentOK' /\ NextOK'
    BY <2>1, <2>2 DEF CurrentOK, NextOK
  <2>5. CallOK'
    BY DEF OrderOK, CallOK, FramesAreUnmixed, FreshFramesAreFlagged, NothingOlder, Chunks
  <2> QED
    BY <2>3, <2>4, <2>5 DEF OrderOK
<1>2. CASE SessionStart
  <2> USE <1>2 DEF SessionStart
  <2>1. QueueOK' /\ AccuOK'
    BY DEF OrderOK, QueueOK, Reached, AccuOK, Older
  <2>2. current' = <<>> /\ Len(<<>>) = 0 /\ left = 0 /\ Ordered(<<>>) /\ Newer(<<>>, sent)
    BY EmptySeq DEF OrderOK, CurrentOK, SinkOwned
  <2>3. CurrentOK'
    BY <2>2, IdnAssumption DEF CurrentOK, OneFrame
  <2>4. NextOK' /\ CallOK'
    BY DEF OrderOK, CallOK, FramesAreUnmixed, FreshFramesAreFlagged, NothingOlder, Chunks, NextOK
  <2> QED
    BY <2>1, <2>3, <2>4 DEF OrderOK
<1>3. CASE HostStarted \/ HostStartFails \/ HostStop \/ JoinServer \/ JoinDriver \/ SessionReset
           \/ HostStopped
  BY <1>3, QuietStep DEF HostStarted, HostStartFails, HostStop, JoinServer, JoinDriver,
                         SessionReset, HostStopped
<1> QED
  BY <1>1, <1>2, <1>3 DEF Host

LEMMA ServerOrder == ASSUME TypeOK, OrderOK, Client \/ ServerThread \/ ReplayDue PROVE OrderOK'
<1> USE DEF hostVars, serverVars, adapterVars, driverVars, sinkVars
<1>1. CASE Put
  <2> USE <1>1 DEF Put
  <2> DEFINE c == [n |-> count + 1, kind |-> opMode]
  <2>1. /\ Len(queue') = Len(queue) + 1 /\ queue'[Len(queue) + 1].n = count + 1
        /\ Len(queue) \in Nat /\ \A i \in 1..Len(queue) : queue'[i] = queue[i]
    <3>1. c \in Entries /\ c.n = count + 1
      BY IdnAssumption DEF TypeOK, Entries
    <3>2. queue \in Seq(Entries) /\ queue' = Append(queue, c)
      BY ChunksTyped
    <3> HIDE DEF c, Put
    <3> QED
      BY <3>1, <3>2, AppendProperties, LenProperties
  <2>2. /\ count \in Nat /\ sent \in Nat /\ \A a \in accu : a \in Nat
        /\ \A i \in 1..Len(queue) : queue[i].n \in Nat
        /\ \A i \in 1..Len(next) : \A x \in next[i] : x \in Nat
        /\ \A i \in 1..Len(current) : \A x \in current[i] : x \in Nat
    BY ChunksTyped
  <2>3. count' = count + 1 /\ UNCHANGED <<sent, accu, next, current>>
    OBVIOUS
  <2>4. Reached(count) /\ \A i \in 1..Len(queue) : queue[i].n <= count /\ Reached(queue[i].n - 1)
    BY DEF OrderOK, QueueOK
  <2>5. \A i, j \in 1..Len(queue) : i < j => queue[i].n < queue[j].n
    BY DEF OrderOK, QueueOK
  <2>6. \A i \in 1..(Len(queue) + 1) : i \in 1..Len(queue) \/ i = Len(queue) + 1
    BY <2>1
  <2>7. \A i, j \in 1..(Len(queue) + 1) : i < j => i \in 1..Len(queue)
    BY <2>1
  <2>8. QueueOK'
    <3> HIDE DEF Put
    <3>1. Reached(count)'
      BY <2>2, <2>3, <2>4 DEF Reached, Older
    <3>2. \A i \in 1..Len(queue) : (queue[i].n <= count /\ Reached(queue[i].n - 1))'
      BY <2>1, <2>2, <2>3, <2>4 DEF Reached, Older
    <3>3. (queue[Len(queue)].n <= count /\ Reached(queue[Len(queue)].n - 1))'
      BY <2>1, <2>2, <2>3, <2>4 DEF Reached, Older
    <3>4. \A i \in 1..Len(queue)' : (queue[i].n <= count /\ Reached(queue[i].n - 1))'
      <4> SUFFICES ASSUME NEW i \in 1..Len(queue)'
                   PROVE  (queue[i].n <= count /\ Reached(queue[i].n - 1))'
        OBVIOUS
      <4>1. i \in 1..Len(queue) \/ i = Len(queue)'
        BY <2>1, <2>6
      <4> QED
        BY <4>1, <3>2, <3>3 DEF Reached
    <3>5. \A i, j \in 1..Len(queue') : i < j => queue'[i].n < queue'[j].n
      <4> SUFFICES ASSUME NEW i \in 1..Len(queue'), NEW j \in 1..Len(queue'), i < j
                   PROVE  queue'[i].n < queue'[j].n
        OBVIOUS
      <4>1. i \in 1..Len(queue) /\ (j \in 1..Len(queue) \/ j = Len(queue) + 1)
        BY <2>1, <2>6, <2>7
      <4>2. queue[i].n \in Nat /\ queue[i].n <= count /\ queue'[i].n = queue[i].n
        BY <4>1, <2>1, <2>2, <2>4
      <4>3. CASE j \in 1..Len(queue)
        <5>1. queue'[j] = queue[j]
          BY <4>3, <2>1
        <5> QED
          BY <4>1, <4>2, <4>3, <5>1, <2>5
      <4>4. CASE j = Len(queue) + 1
        <5>1. queue'[j].n = count + 1
          BY <4>4, <2>1
        <5> QED
          BY <4>2, <5>1, <2>2
      <4> QED
        BY <4>1, <4>3, <4>4
    <3> QED
      BY <3>1, <3>4, <3>5 DEF QueueOK
  <2>9. AccuOK' /\ CurrentOK' /\ NextOK'
    BY DEF OrderOK, AccuOK, Older, CurrentOK, NextOK, Ordered, Newer, OneFrame
  <2>10. CallOK'
    BY DEF OrderOK, CallOK, FramesAreUnmixed, FreshFramesAreFlagged, NothingOlder, Chunks
  <2> QED
    BY <2>8, <2>9, <2>10 DEF OrderOK
<1>2. CASE ServerEnds
  <2> USE <1>2 DEF ServerEnds
  <2>1. CASE queue' = queue
    BY <2>1, QuietStep
  <2>2. CASE queue' = <<>>
    <3>1. Len(<<>>) = 0
      BY EmptySeq
    <3>2. QueueOK'
      BY <2>2, <3>1 DEF OrderOK, QueueOK, Reached, Older
    <3>3. AccuOK' /\ CurrentOK' /\ NextOK'
      BY DEF OrderOK, AccuOK, Older, CurrentOK, NextOK, Ordered, Newer, OneFrame
    <3>4. CallOK'
      BY DEF OrderOK, CallOK, FramesAreUnmixed, FreshFramesAreFlagged, NothingOlder, Chunks
    <3> QED
      BY <3>2, <3>3, <3>4 DEF OrderOK
  <2> QED
    BY <2>1, <2>2
<1>3. CASE (\E m \in {"wave", "frame"} : Open(m)) \/ Close \/ Housekeeping
  BY <1>3, QuietStep DEF Open, Close, Housekeeping, GracefulStop
<1>4. CASE ServerBoots \/ ServerStops \/ ServerBreaks \/ ReplayDue
  BY <1>4, QuietStep DEF ServerBoots, ServerStops, ServerBreaks, LoopEnds, ReplayDue
<1> QED
  BY <1>1, <1>2, <1>3, <1>4 DEF Client, ServerThread

(* Whatever is taken from the queue was queued after all that was taken.    *)
LEMMA HeadOfQueue ==
  ASSUME TypeOK, OrderOK, queue # <<>>, queue' = Tail(queue)
  PROVE  /\ Head(queue) \in Entries /\ Head(queue).n \in 1..MaxChunks /\ queue' \in Seq(Entries)
         /\ Reached(Head(queue).n - 1) /\ Head(queue).n <= count
         /\ \A i \in 1..Len(queue') : /\ queue'[i].n \in Nat /\ Head(queue).n <= queue'[i].n - 1
                                      /\ queue'[i].n <= count
         /\ \A i, j \in 1..Len(queue') : i < j => queue'[i].n < queue'[j].n
<1>1. /\ queue \in Seq(Entries) /\ count \in Nat /\ MaxChunks \in Nat
      /\ \A i \in 1..Len(queue) : queue[i] \in Entries /\ queue[i].n \in 1..MaxChunks
  BY ChunksTyped
<1>2. /\ Tail(queue) \in Seq(Entries) /\ Len(Tail(queue)) = Len(queue) - 1
      /\ Head(queue) = queue[1] /\ Len(queue) \in Nat /\ Len(queue) # 0
      /\ \A i \in 1..Len(Tail(queue)) : Tail(queue)[i] = queue[i + 1]
  BY <1>1, HeadTailProperties, EmptySeq, LenProperties
<1>3. 1 \in 1..Len(queue) /\ \A i \in 1..Len(queue') : i + 1 \in 1..Len(queue) /\ 1 < i + 1
  BY <1>2
<1>4. \A i, j \in 1..Len(queue) : i < j => queue[i].n < queue[j].n
  BY DEF OrderOK, QueueOK
<1>5. \A i \in 1..Len(queue) : queue[i].n <= count /\ Reached(queue[i].n - 1)
  BY DEF OrderOK, QueueOK
<1>6. \A i \in 1..Len(queue') : /\ queue'[i].n \in Nat /\ Head(queue).n <= queue'[i].n - 1
                                /\ queue'[i].n <= count
  BY <1>1, <1>2, <1>3, <1>4, <1>5
<1>7. \A i, j \in 1..Len(queue') : i < j => queue'[i].n < queue'[j].n
  BY <1>1, <1>2, <1>3, <1>4
<1> QED
  BY <1>1, <1>2, <1>3, <1>5, <1>6, <1>7

(* What bounds all that was taken still bounds it when less is held.        *)
LEMMA QueueKept ==
  ASSUME TypeOK, OrderOK, UNCHANGED <<queue, count>>,
         \A m \in Nat : Reached(m) => Reached(m)'
  PROVE  QueueOK'
<1>1. /\ count \in Nat /\ MaxChunks \in Nat
      /\ \A i \in 1..Len(queue) : queue[i].n \in 1..MaxChunks
  BY ChunksTyped
<1>2. Reached(count)'
  BY <1>1 DEF OrderOK, QueueOK, Reached
<1>3. \A i \in 1..Len(queue) : Reached(queue[i].n - 1)'
  BY <1>1 DEF OrderOK, QueueOK, Reached
<1> QED
  BY <1>2, <1>3 DEF OrderOK, QueueOK, Reached

(* The turns of getNextBuffer.                                              *)
LEMMA TakeOrder ==
  ASSUME TypeOK, OrderOK, DriverTop \/ NothingTaken \/ Taken \/ TakenEmpty
  PROVE  OrderOK'
<1> USE DEF hostVars, serverVars, adapterVars, driverVars, sinkVars
<1>1. CallOK'
  <2>1. UNCHANGED <<sent, call>>
    BY DEF DriverTop, NothingTaken, Taken, TakenEmpty
  <2> QED
    BY <2>1 DEF OrderOK, CallOK, FramesAreUnmixed, FreshFramesAreFlagged, NothingOlder, Chunks
<1>2. CASE DriverTop
  <2> USE <1>2 DEF DriverTop
  <2>1. Len(<<>>) = 0 /\ Ordered(<<>>) /\ \A m : Older(<<>>, m) /\ Newer(<<>>, m)
    BY EmptySeq DEF Older, Newer, Ordered
  <2>2. \A m \in Nat : Reached(m) => Reached(m)'
    BY <2>1 DEF Reached, Older
  <2>3. AccuOK'
    BY <2>1 DEF OrderOK, AccuOK, Older
  <2>4. CurrentOK'
    BY DEF OrderOK, CurrentOK, Ordered, Newer, OneFrame
  <2>5. NextOK'
    BY <2>1 DEF NextOK, Ordered, Newer
  <2> QED
    BY <1>1, <2>2, <2>3, <2>4, <2>5, QueueKept DEF OrderOK
<1>3. CASE NothingTaken \/ TakenEmpty
  <2>1. /\ driver = "take" /\ driver' = "decide" /\ mode' = ModeSeen /\ accu' = AccuSeen
        /\ UNCHANGED <<host, running, count, next, current, left, sent>>
        /\ queue' = queue \/ (queue # <<>> /\ queue' = Tail(queue))
    BY <1>3 DEF NothingTaken, TakenEmpty
  <2>2. accu' \subseteq accu /\ (mode' = "frame" => mode = "frame")
    BY <2>1 DEF AccuSeen, ModeSeen
  <2>3. \A m \in Nat : Reached(m) => Reached(m)'
    BY <2>1, <2>2 DEF Reached, Older
  <2>4. QueueOK'
    <3>1. CASE queue' = queue
      BY <2>1, <2>3, <3>1, QueueKept
    <3>2. CASE queue # <<>> /\ queue' = Tail(queue)
      <4>1. /\ \A i \in 1..Len(queue') : /\ queue'[i].n \in Nat /\ Head(queue).n <= queue'[i].n - 1
                                         /\ queue'[i].n <= count
            /\ \A i, j \in 1..Len(queue') : i < j => queue'[i].n < queue'[j].n
            /\ Reached(Head(queue).n - 1) /\ Head(queue).n \in 1..MaxChunks
        BY <3>2, HeadOfQueue
      <4>2. /\ sent \in Nat /\ accu \subseteq Nat /\ count \in Nat
            /\ \A i \in 1..Len(next) : \A x \in next[i] : x \in Nat
            /\ \A i \in 1..Len(current) : \A x \in current[i] : x \in Nat
        BY ChunksTyped
      <4>3. \A m \in Nat : Head(queue).n <= m => Reached(m)
        BY <4>1, <4>2 DEF Reached, Older
      <4>4. \A i \in 1..Len(queue') : Reached(queue[i].n - 1)'
        <5> SUFFICES ASSUME NEW i \in 1..Len(queue') PROVE Reached(queue[i].n - 1)'
          OBVIOUS
        <5>1. queue'[i].n - 1 \in Nat /\ Reached(queue'[i].n - 1)
          BY <4>1, <4>3
        <5> QED
          BY <5>1, <2>3 DEF Reached
      <4>5. Reached(count)'
        BY <2>1, <2>2, <4>2 DEF OrderOK, QueueOK, Reached, Older
      <4> QED
        BY <2>1, <4>1, <4>4, <4>5 DEF QueueOK
    <3> QED
      BY <2>1, <3>1, <3>2
  <2>5. AccuOK'
    BY <2>1, <2>2 DEF OrderOK, AccuOK, Older
  <2>6. CurrentOK'
    BY <2>1 DEF OrderOK, CurrentOK, Ordered, Newer, OneFrame
  <2>7. NextOK'
    BY <2>1, <2>2 DEF OrderOK, NextOK, Ordered, Newer, OneFrame
  <2> QED
    BY <1>1, <2>4, <2>5, <2>6, <2>7 DEF OrderOK
<1>4. CASE Taken
  <2> DEFINE n == Head(queue).n
  <2>1. /\ driver = "take" /\ driver' = "take" /\ mode' = Head(queue).kind
        /\ queue # <<>> /\ queue' = Tail(queue)
        /\ UNCHANGED <<host, running, count, current, left, sent>>
    BY <1>4 DEF Taken
  <2>2. PICK t \in IF mode' = "frame" THEN TakeFrame(n) ELSE TakeWave(n, AccuSeen) :
          next' = t.next /\ accu' = t.accu
    BY <1>4 DEF Taken
  <2>3. /\ n \in 1..MaxChunks /\ Reached(n - 1) /\ n <= count
        /\ \A i \in 1..Len(queue') : /\ queue'[i].n \in Nat /\ n <= queue'[i].n - 1
                                     /\ queue'[i].n <= count
        /\ \A i, j \in 1..Len(queue') : i < j => queue'[i].n < queue'[j].n
    BY <2>1, HeadOfQueue
  <2>4. /\ sent \in Nat /\ accu \subseteq Nat /\ accu \subseteq 1..MaxChunks /\ count \in Nat
        /\ next \in Seq(Slices) /\ MaxChunks \in Nat
        /\ \A i \in 1..Len(next) : \A x \in next[i] : x \in Nat
        /\ \A i \in 1..Len(current) : \A x \in current[i] : x \in Nat
    BY ChunksTyped
  <2> HIDE DEF n
  <2>5. /\ sent < n /\ Older(current, n) /\ Older(next, n) /\ \A a \in accu : a <= n
    BY <2>3, <2>4 DEF Reached, Older
  <2>6. AccuSeen \subseteq accu /\ \A a \in accu : sent <= a /\ Older(current, a) /\ Older(next, a)
    BY DEF AccuSeen, OrderOK, AccuOK
  <2>7. Ordered(next) /\ Newer(next, sent)
    BY <2>1 DEF OrderOK, NextOK
  <2>8. /\ accu' \subseteq AccuSeen \cup {n} /\ next' \in Seq(Slices)
        /\ Ordered(next') /\ Newer(next', sent) /\ Older(next', n)
        /\ \A a \in accu' : Older(next', a)
        /\ mode' = "frame" => OneFrame(next', n)
    <3>1. CASE mode' = "frame"
      <4>1. accu' = {} /\ next' \in Seq(Slices) /\ OneFrame(next', n)
        BY <2>2, <2>3, <3>1, TakenFrame
      <4> QED
        BY <4>1, <2>3, <2>4, <2>5 DEF OneFrame, Ordered, Newer, Older
    <3>2. CASE mode' # "frame"
      <4>1. t \in TakeWave(n, AccuSeen)
        BY <2>2, <3>2
      <4>2. AccuSeen \subseteq 1..MaxChunks /\ \A a \in AccuSeen : a <= n /\ Older(next, a) /\ sent <= a
        BY <2>4, <2>5, <2>6
      <4>3. sent <= n
        BY <2>3, <2>4, <2>5
      <4>4. /\ t.accu \subseteq AccuSeen \cup {n} /\ t.next \in Seq(Slices) /\ Ordered(t.next)
            /\ Older(t.next, n) /\ \A a \in t.accu : Older(t.next, a)
            /\ \A m : Newer(next, m) /\ m <= n /\ (\A a \in AccuSeen : m <= a) => Newer(t.next, m)
        BY <2>3, <2>4, <2>5, <2>7, <4>1, <4>2, TakenWave
      <4> QED
        BY <2>2, <2>7, <3>2, <4>2, <4>3, <4>4
    <3> QED
      BY <3>1, <3>2
  <2>9. \A m \in Nat : n <= m => Reached(m)'
    <3>1. \A i \in 1..Len(next') : \A x \in next'[i] : x \in Nat
      <4>1. \A i \in 1..Len(next') : next'[i] \in Slices
        BY <2>8, ElementOfSeq
      <4> QED
        BY <4>1 DEF Slices
    <3> QED
      BY <3>1, <2>1, <2>3, <2>4, <2>5, <2>6, <2>8 DEF Reached, Older
  <2>10. QueueOK'
    <3>1. \A i \in 1..Len(queue') : Reached(queue[i].n - 1)'
      <4> SUFFICES ASSUME NEW i \in 1..Len(queue') PROVE Reached(queue[i].n - 1)'
        OBVIOUS
      <4>1. queue'[i].n - 1 \in Nat /\ n <= queue'[i].n - 1
        BY <2>3
      <4> QED
        BY <4>1, <2>9 DEF Reached
    <3>2. Reached(count)'
      BY <2>1, <2>3, <2>4, <2>9 DEF Reached
    <3> QED
      BY <2>1, <2>3, <3>1, <3>2 DEF QueueOK
  <2>11. AccuOK'
    BY <2>1, <2>3, <2>4, <2>5, <2>6, <2>8 DEF AccuOK, Older
  <2>12. CurrentOK'
    BY <2>1 DEF OrderOK, CurrentOK, Ordered, Newer, OneFrame
  <2>13. NextOK'
    <3>1. PICK k \in Nat : k = n /\ k > sent'
      BY <2>1, <2>3, <2>4, <2>5
    <3>2. (Ordered(next) /\ Newer(next, sent))'
      BY <2>1, <2>8 DEF Ordered, Newer
    <3>3. (mode = "frame" => OneFrame(next, k))'
      BY <2>8, <3>1 DEF OneFrame
    <3> QED
      BY <3>1, <3>2, <3>3 DEF NextOK
  <2> QED
    BY <1>1, <2>10, <2>11, <2>12, <2>13 DEF OrderOK
<1> QED
  BY <1>2, <1>3, <1>4

(* The driver's decision: the newest buffer becomes currentBuffer.          *)
LEMMA DecideOrder ==
  ASSUME TypeOK, SinkOwned, OrderOK, Nothing \/ ReplaceFrame \/ WriteBegin
  PROVE  OrderOK'
<1> USE DEF hostVars, serverVars, adapterVars, driverVars, sinkVars
<1>1. /\ driver = "decide" /\ current' = Latest
      /\ UNCHANGED <<host, running, queue, count, mode, accu, next>>
  BY DEF Nothing, ReplaceFrame, WriteBegin
<1>2. /\ sent \in Nat /\ accu \subseteq Nat /\ count \in Nat
      /\ next \in Seq(Slices) /\ current \in Seq(Slices)
      /\ \A i \in 1..Len(next) : \A x \in next[i] : x \in Nat
      /\ \A i \in 1..Len(current) : \A x \in current[i] : x \in Nat
  BY ChunksTyped
<1>3. /\ Ordered(next) /\ Newer(next, sent) /\ Ordered(current) /\ Newer(current, sent)
      /\ OneFrame(current, sent) /\ left = 0 /\ host # "reset"
      /\ mode = "frame" /\ next # <<>> => \E n \in Nat : n > sent /\ OneFrame(next, n)
  BY <1>1 DEF OrderOK, CurrentOK, NextOK, SinkOwned
<1>4. /\ Latest \in Seq(Slices) /\ Ordered(Latest) /\ Newer(Latest, sent)
      /\ \A m : Older(next, m) /\ Older(current, m) => Older(Latest, m)
  BY <1>2, <1>3 DEF Latest
<1>5. AccuOK /\ CallOK
  BY DEF OrderOK
<1>6. CASE Nothing \/ WriteBegin
  <2>1. UNCHANGED <<sent, call>>
    BY <1>6 DEF Nothing, WriteBegin
  <2>2. \A m \in Nat : Reached(m) => Reached(m)'
    BY <1>1, <1>4, <2>1 DEF Reached, Older
  <2>3. QueueOK'
    BY <1>1, <2>2, QueueKept
  <2>4. AccuOK'
    BY <1>1, <1>4, <1>5, <2>1 DEF AccuOK, Older
  <2>5. CallOK'
    BY <1>5, <2>1 DEF CallOK, FramesAreUnmixed, FreshFramesAreFlagged, NothingOlder, Chunks
  <2>6. NextOK'
    BY <1>6 DEF Nothing, WriteBegin, NextOK
  <2>7. CurrentOK'
    <3>1. CASE WriteBegin
      BY <1>1, <1>3, <1>4, <2>1, <3>1 DEF WriteBegin, CurrentOK, Ordered, Newer
    <3>2. CASE Nothing
      <4>1. Latest = <<>> \/ Latest = current
        BY <3>2 DEF Nothing, Latest, ReplayAt, Fresh
      <4>2. OneFrame(Latest, sent)
        BY <1>3, <4>1, EmptySeq, IdnAssumption DEF OneFrame
      <4> QED
        BY <1>1, <1>3, <1>4, <2>1, <3>2, <4>2 DEF Nothing, CurrentOK, Ordered, Newer, OneFrame
    <3> QED
      BY <1>6, <3>1, <3>2
  <2> QED
    BY <2>3, <2>4, <2>5, <2>6, <2>7 DEF OrderOK
<1>7. CASE ReplaceFrame
  <2> USE <1>7 DEF ReplaceFrame, Submitted
  <2>1. PICK n \in Nat : OneFrame(Latest, n) /\ n >= sent /\ (Fresh <=> n > sent)
    <3>1. CASE next # <<>>
      BY <1>2, <1>3, <3>1 DEF Latest, Fresh
    <3>2. CASE next = <<>>
      BY <1>2, <1>3, <3>2 DEF Latest, Fresh
    <3> QED
      BY <3>1, <3>2
  <2>2. sent' = n /\ Chunks(Latest) = {n} /\ Latest # <<>>
    BY <1>4, <2>1, FrameChunks
  <2>3. /\ \A m : Older(Latest, m) => n <= m
        /\ Newer(Latest, n)
    BY <1>4, <2>1, <2>2 DEF OneFrame, Older, Newer, Chunks
  <2> HIDE DEF ReplaceFrame
  <2>4. \A m \in Nat : Reached(m) => Reached(m)'
    BY <1>1, <1>4, <2>2, <2>3 DEF Reached, Older
  <2>5. QueueOK'
    BY <1>1, <2>4, QueueKept
  <2>6. AccuOK'
    BY <1>1, <1>4, <1>5, <2>2, <2>3 DEF AccuOK, Older
  <2>7. CurrentOK'
    <3>1. driver' = "top" /\ left' = left
      BY DEF ReplaceFrame
    <3> QED
      BY <1>1, <1>3, <1>4, <2>1, <2>2, <2>3, <3>1 DEF CurrentOK, Ordered, Newer, OneFrame
  <2>8. NextOK'
    BY DEF ReplaceFrame, NextOK
  <2>9. CallOK'
    <3>1. call' = [kind |-> "frame", slices |-> Latest, fresh |-> Fresh, before |-> sent]
      BY DEF ReplaceFrame
    <3>2. (FramesAreUnmixed /\ FreshFramesAreFlagged)'
      BY <1>2, <1>4, <2>1, <2>2, <3>1 DEF FramesAreUnmixed, FreshFramesAreFlagged, OneFrame
    <3>3. NothingOlder'
      BY <1>2, <2>1, <2>2, <3>1 DEF NothingOlder
    <3> QED
      BY <3>2, <3>3 DEF CallOK
  <2> QED
    BY <2>5, <2>6, <2>7, <2>8, <2>9 DEF OrderOK
<1> QED
  BY <1>6, <1>7

(* The write loop: slices leave currentBuffer in their order.               *)
LEMMA WriteOrder ==
  ASSUME TypeOK, SinkOwned, OrderOK, WriteSlice \/ WriteEnd
  PROVE  OrderOK'
<1> USE DEF hostVars, serverVars, adapterVars, driverVars, sinkVars
<1>1. /\ sent \in Nat /\ accu \subseteq Nat /\ count \in Nat /\ current \in Seq(Slices)
      /\ MaxChunks \in Nat
  BY ChunksTyped
<1>2. /\ Ordered(current) /\ Newer(current, sent) /\ AccuOK /\ CallOK
      /\ left = Len(current) /\ host # "reset"
  BY DEF OrderOK, CurrentOK, SinkOwned, WriteSlice, WriteEnd
<1>3. CASE WriteSlice
  <2> USE <1>3 DEF WriteSlice, Submitted
  <2> DEFINE h == Head(current)
             b == Tail(current)
  <2>1. current # <<>> /\ current' = b /\ left' = left - 1 /\ driver' = "write"
        /\ UNCHANGED <<host, running, queue, count, mode, accu, next>>
        /\ call' = [kind |-> "slice", slices |-> <<h>>, fresh |-> FALSE, before |-> sent]
        /\ sent' = Max(Chunks(<<h>>))
    BY <1>2, EmptySeq
  <2>2. /\ h \in Slices /\ b \in Seq(Slices) /\ Len(b) = Len(current) - 1
        /\ Ordered(b) /\ \A x \in h : Newer(b, x)
        /\ \A m : Older(current, m) => Older(b, m) /\ \A x \in h : x <= m
        /\ \A x \in h : sent <= x
    BY <1>1, <1>2, <2>1, TailOfBuffer
  <2> HIDE DEF WriteSlice, h, b
  <2>3. <<h>> \in Seq(Slices) /\ <<h>> # <<>> /\ Chunks(<<h>>) = h
    <3>1. Len(<<h>>) = 1 /\ <<h>>[1] = h /\ <<h>> \in Seq(Slices) /\ <<h>> # <<>>
      BY <2>2, SMT
    <3> QED
      BY <3>1 DEF Chunks
  <2>4. sent' \in h /\ \A x \in h : x <= sent'
    BY <2>1, <2>3, SubmittedChunks
  <2>5. \A m \in Nat : Reached(m) => Reached(m)'
    BY <2>1, <2>2, <2>4 DEF Reached, Older
  <2>6. QueueOK'
    BY <2>1, <2>5, QueueKept
  <2>7. AccuOK'
    BY <1>2, <2>1, <2>2, <2>4 DEF AccuOK, Older
  <2>8. CurrentOK'
    BY <1>2, <2>1, <2>2, <2>4 DEF CurrentOK, Ordered, Newer
  <2>9. NextOK'
    BY <2>1 DEF NextOK
  <2>10. CallOK'
    BY <2>1, <2>2, <2>3 DEF CallOK, FramesAreUnmixed, FreshFramesAreFlagged, NothingOlder
  <2> QED
    BY <2>6, <2>7, <2>8, <2>9, <2>10 DEF OrderOK
<1>4. CASE WriteEnd
  <2>1. /\ driver' = "top" /\ left' = 0 /\ (left = 0 \/ ~running)
        /\ UNCHANGED <<host, running, queue, count, mode, accu, next, current, sent, call>>
    BY <1>4 DEF WriteEnd
  <2>2. QueueOK' /\ AccuOK'
    BY <2>1 DEF OrderOK, QueueOK, Reached, AccuOK, Older
  <2>3. CurrentOK'
    BY <1>2, <2>1, IdnAssumption DEF CurrentOK, Ordered, Newer, OneFrame
  <2>4. NextOK'
    BY <2>1 DEF NextOK
  <2>5. CallOK'
    BY <1>2, <2>1 DEF CallOK, FramesAreUnmixed, FreshFramesAreFlagged, NothingOlder, Chunks
  <2> QED
    BY <2>2, <2>3, <2>4, <2>5 DEF OrderOK
<1> QED
  BY <1>3, <1>4

(* Every step keeps the order of the points.                                *)
LEMMA OrderStep == TypeOK /\ SinkOwned /\ OrderOK /\ [Next]_vars => OrderOK'
<1> SUFFICES ASSUME TypeOK, SinkOwned, OrderOK, [Next]_vars PROVE OrderOK'
  OBVIOUS
<1>1. CASE UNCHANGED vars
  BY <1>1, QuietStep DEF vars, hostVars, serverVars, adapterVars, driverVars, sinkVars
<1> QED
  BY <1>1, HostOrder, ServerOrder, TakeOrder, DecideOrder, WriteOrder DEF Next, Driver

(* The two halves of TypeOK: where the threads are, and what they hold.     *)
ControlTyped ==
  /\ host \in {"down", "reset", "starting", "up", "stopServer", "joinDriver", "resetAgain", "release"}
  /\ running \in BOOLEAN
  /\ server \in {"none", "booting", "serving", "closing", "failed", "ended"}
  /\ threadStop \in BOOLEAN /\ opMode \in {"idle", "flushing", "wave", "frame"}
  /\ enabled \in BOOLEAN
  /\ driver \in {"off", "top", "take", "decide", "write", "gone"}
  /\ mode \in {"inactive", "wave", "frame"} /\ replay \in {"unset", "wait", "due"}
  /\ content \subseteq {"leftover", "session"}

Calls == [kind : {"none", "slice", "frame"}, slices : Seq(Slices), fresh : BOOLEAN,
          before : 0..MaxChunks]

DataTyped ==
  /\ starts \in 0..MaxStarts /\ queue \in Seq(Entries) /\ count \in 0..MaxChunks
  /\ accu \subseteq 1..MaxChunks /\ next \in Seq(Slices) /\ current \in Seq(Slices)
  /\ left \in Nat /\ left <= Len(current) /\ sent \in 0..MaxChunks /\ call \in Calls

LEMMA TypeHalves == TypeOK <=> ControlTyped /\ DataTyped
BY DEF TypeOK, ControlTyped, DataTyped, Entries, Calls

LEMMA ControlStep == ASSUME TypeOK, [Next]_vars PROVE ControlTyped'
<1> ControlTyped
  BY TypeHalves
<1> USE DEF ControlTyped, hostVars, serverVars, adapterVars, driverVars, sinkVars
<1>1. CASE UNCHANGED vars
  BY <1>1 DEF vars
<1>2. CASE Taken
  <2>1. Head(queue) \in Entries
    BY <1>2, ChunksTyped, HeadTailProperties DEF Taken
  <2>2. mode' \in {"wave", "frame"}
    BY <1>2, <2>1 DEF Taken, Entries
  <2> QED
    BY <1>2, <2>2 DEF Taken
<1>3. CASE HostStart
  BY <1>3 DEF HostStart
<1>4. CASE SessionStart
  BY <1>4 DEF SessionStart
<1>5. CASE HostStarted
  BY <1>5 DEF HostStarted
<1>6. CASE HostStartFails
  BY <1>6 DEF HostStartFails
<1>7. CASE HostStop
  BY <1>7 DEF HostStop
<1>8. CASE JoinServer
  BY <1>8 DEF JoinServer
<1>9. CASE JoinDriver
  BY <1>9 DEF JoinDriver
<1>10. CASE SessionReset
  BY <1>10 DEF SessionReset
<1>11. CASE HostStopped
  BY <1>11 DEF HostStopped
<1>12. CASE \E m \in {"wave", "frame"} : Open(m)
  BY <1>12 DEF Open
<1>13. CASE Put
  BY <1>13 DEF Put
<1>14. CASE Close \/ Housekeeping
  <2>1. opMode' \in {"idle", "flushing"} /\ enabled' \in BOOLEAN
    BY <1>14 DEF Close, Housekeeping, GracefulStop
  <2>2. UNCHANGED <<host, running, server, threadStop, driver, mode, replay, content>>
    BY <1>14 DEF Close, Housekeeping, GracefulStop
  <2> QED
    BY <2>1, <2>2
<1>15. CASE ServerBoots
  BY <1>15 DEF ServerBoots
<1>16. CASE ServerStops \/ ServerBreaks
  BY <1>16 DEF ServerStops, ServerBreaks, LoopEnds
<1>17. CASE ServerEnds
  BY <1>17 DEF ServerEnds
<1>18. CASE ReplayDue
  BY <1>18 DEF ReplayDue
<1>19. CASE DriverTop
  BY <1>19 DEF DriverTop
<1>20. CASE NothingTaken \/ TakenEmpty
  <2>1. mode' \in {"inactive", "wave", "frame"} /\ driver' = "decide"
    BY <1>20 DEF NothingTaken, TakenEmpty, ModeSeen
  <2> QED
    BY <1>20, <2>1 DEF NothingTaken, TakenEmpty
<1>21. CASE Nothing
  BY <1>21 DEF Nothing, ReplayAt
<1>22. CASE ReplaceFrame
  BY <1>22 DEF ReplaceFrame, Submitted
<1>23. CASE WriteBegin
  BY <1>23 DEF WriteBegin
<1>24. CASE WriteSlice
  BY <1>24 DEF WriteSlice, Submitted
<1>25. CASE WriteEnd
  BY <1>25 DEF WriteEnd
<1> QED
  BY <1>1, <1>2, <1>3, <1>4, <1>5, <1>6, <1>7, <1>8, <1>9, <1>10, <1>11, <1>12, <1>13,
     <1>14, <1>15, <1>16, <1>17, <1>18, <1>19, <1>20, <1>21, <1>22, <1>23, <1>24, <1>25
     DEF Next, Host, Client, ServerThread, Driver

LEMMA DataStep == ASSUME TypeOK, OrderOK, [Next]_vars PROVE DataTyped'
<1> DataTyped
  BY TypeHalves
<1> USE DEF DataTyped, hostVars, serverVars, adapterVars, driverVars, sinkVars
<1>1. CASE UNCHANGED <<starts, queue, count, accu, next, current, left, sent, call>>
  BY <1>1
<1>2. CASE HostStart
  BY <1>2, EmptySeq, IdnAssumption DEF HostStart
<1>3. CASE Put
  <2>1. [n |-> count + 1, kind |-> opMode] \in Entries
    BY <1>3, IdnAssumption DEF Put, Entries
  <2> QED
    BY <1>3, <2>1, IdnAssumption, AppendProperties DEF Put
<1>4. CASE ServerEnds
  BY <1>4, EmptySeq DEF ServerEnds
<1>5. CASE DriverTop
  BY <1>5, EmptySeq DEF DriverTop
<1>6. CASE NothingTaken \/ TakenEmpty
  <2>1. queue' \in Seq(Entries)
    BY <1>6, HeadTailProperties DEF NothingTaken, TakenEmpty
  <2> QED
    BY <1>6, <2>1 DEF NothingTaken, TakenEmpty, AccuSeen
<1>7. CASE Taken
  <2> DEFINE n == Head(queue).n
  <2>1. /\ driver = "take" /\ queue # <<>> /\ queue' = Tail(queue)
        /\ UNCHANGED <<starts, count, current, left, sent, call>>
    BY <1>7 DEF Taken
  <2>2. PICK t \in IF mode' = "frame" THEN TakeFrame(n) ELSE TakeWave(n, AccuSeen) :
          next' = t.next /\ accu' = t.accu
    BY <1>7 DEF Taken
  <2>3. queue' \in Seq(Entries) /\ n \in 1..MaxChunks /\ Reached(n - 1)
    BY <2>1, HeadOfQueue
  <2> HIDE DEF n
  <2>4. accu' \subseteq 1..MaxChunks /\ next' \in Seq(Slices)
    <3>1. CASE mode' = "frame"
      BY <2>2, <2>3, <3>1, TakenFrame
    <3>2. CASE mode' # "frame"
      <4>1. Older(next, n) /\ \A a \in accu : a <= n
        BY <2>3, ChunksTyped DEF Reached, Older
      <4>2. AccuSeen \subseteq accu /\ Ordered(next) /\ \A a \in accu : Older(next, a)
        BY <2>1 DEF AccuSeen, OrderOK, NextOK, AccuOK
      <4>3. t \in TakeWave(n, AccuSeen)
        BY <2>2, <3>2
      <4>4. t.accu \subseteq AccuSeen \cup {n} /\ t.next \in Seq(Slices)
        BY <2>3, <4>1, <4>2, <4>3, TakenWave
      <4> QED
        BY <2>2, <2>3, <4>2, <4>4
    <3> QED
      BY <3>1, <3>2
  <2> QED
    BY <2>1, <2>3, <2>4
<1>8. CASE Nothing \/ ReplaceFrame \/ WriteBegin
  <2>1. left = 0 /\ Latest \in Seq(Slices) /\ Len(Latest) \in Nat
    BY <1>8, LenProperties DEF Nothing, ReplaceFrame, WriteBegin, OrderOK, CurrentOK, Latest
  <2>2. left' \in Nat /\ left' <= Len(current')
    BY <1>8, <2>1 DEF Nothing, ReplaceFrame, WriteBegin
  <2>3. sent' \in 0..MaxChunks /\ call' \in Calls
    <3>1. CASE Nothing \/ WriteBegin
      BY <3>1 DEF Nothing, WriteBegin
    <3>2. CASE ReplaceFrame
      <4>1. sent' = Max(Chunks(Latest)) /\ Latest # <<>>
            /\ call' = [kind |-> "frame", slices |-> Latest, fresh |-> Fresh, before |-> sent]
        BY <3>2 DEF ReplaceFrame, Submitted
      <4>2. sent' \in 0..MaxChunks
        BY <2>1, <4>1, SubmittedChunks, IdnAssumption
      <4>3. Fresh \in BOOLEAN
        BY DEF Fresh
      <4> QED
        BY <2>1, <4>1, <4>2, <4>3 DEF Calls
    <3> QED
      BY <1>8, <3>1, <3>2
  <2> QED
    BY <1>8, <2>1, <2>2, <2>3 DEF Nothing, ReplaceFrame, WriteBegin
<1>9. CASE WriteSlice
  <2> DEFINE b == <<Head(current)>>
  <2>1. current # <<>> /\ left \in Nat /\ left > 0
    BY <1>9, EmptySeq DEF WriteSlice
  <2>2. Head(current) \in Slices /\ Tail(current) \in Seq(Slices) /\ Len(Tail(current)) = Len(current) - 1
    BY <2>1, HeadTailProperties
  <2>3. b \in Seq(Slices) /\ b # <<>>
    BY <2>2
  <2>4. /\ sent' = Max(Chunks(b))
        /\ call' = [kind |-> "slice", slices |-> b, fresh |-> FALSE, before |-> sent]
    BY <1>9 DEF WriteSlice, Submitted
  <2> HIDE DEF b
  <2>5. sent' \in 0..MaxChunks
    BY <2>3, <2>4, SubmittedChunks, IdnAssumption
  <2>6. call' \in Calls
    BY <2>3, <2>4 DEF Calls
  <2>7. left' \in Nat /\ left' <= Len(current')
    BY <1>9, <2>1, <2>2, LenProperties DEF WriteSlice
  <2> QED
    BY <1>9, <2>2, <2>5, <2>6, <2>7 DEF WriteSlice
<1>10. CASE WriteEnd
  BY <1>10, LenProperties DEF WriteEnd
<1>11. CASE SessionStart \/ HostStarted \/ HostStartFails \/ HostStop
  BY <1>1, <1>11 DEF SessionStart, HostStarted, HostStartFails, HostStop
<1>12. CASE JoinServer \/ JoinDriver \/ SessionReset \/ HostStopped
  BY <1>1, <1>12 DEF JoinServer, JoinDriver, SessionReset, HostStopped
<1>13. CASE (\E m \in {"wave", "frame"} : Open(m)) \/ Close \/ Housekeeping
  BY <1>1, <1>13 DEF Open, Close, Housekeeping, GracefulStop
<1>14. CASE ServerBoots \/ ServerStops \/ ServerBreaks \/ ReplayDue
  BY <1>1, <1>14 DEF ServerBoots, ServerStops, ServerBreaks, LoopEnds, ReplayDue
<1>15. CASE UNCHANGED vars
  BY <1>1, <1>15 DEF vars
<1> QED
  BY <1>1, <1>2, <1>3, <1>4, <1>5, <1>6, <1>7, <1>8, <1>9, <1>10, <1>11,
     <1>12, <1>13, <1>14, <1>15 DEF Next, Host, Client, ServerThread, Driver

(* The inductive invariant of the session.                                  *)
SessionInv == TypeOK /\ SinkOwned /\ OrderOK

LEMMA SessionInvariant == Spec => []SessionInv
<1>1. Init => SessionInv
  BY OrderInit, OwnedInit DEF SessionInv
<1>2. SessionInv /\ [Next]_vars => SessionInv'
  BY OrderStep, OwnedStep, ControlStep, DataStep, TypeHalves, PTL DEF SessionInv
<1> QED
  BY <1>1, <1>2, PTL DEF Spec

(* What the driver submits is typed, never older than what was submitted    *)
(* before it, and of one frame at a time: through mode changes, replays,    *)
(* closed channels, failed servers and restarts, for every number of chunks *)
(* and of slices.                                                           *)
THEOREM SessionIsConsistent == Spec => []SessionConsistent
<1>1. SessionInv => SessionConsistent
  BY DEF SessionInv, OrderOK, CallOK, SessionConsistent
<1> QED
  BY <1>1, SessionInvariant, PTL

(* The first submission of every frame, and no replay of it, clears the     *)
(* transport's prefetch.                                                    *)
THEOREM FreshFramesAlwaysFlagged == Spec => []FreshFramesAreFlagged
<1>1. SessionInv => FreshFramesAreFlagged
  BY DEF SessionInv, OrderOK, CallOK
<1> QED
  BY <1>1, SessionInvariant, PTL
=============================================================================
