----------------------------- MODULE AtomicSink -----------------------------
(***************************************************************************)
(* The calls of the target sink, each taken as one step: every submission   *)
(* and every reset takes effect at one moment between its call and its      *)
(* return, however the threads interleave, and points leave only at the     *)
(* front, in the order in which they came.  Sessions of the protocol hosts  *)
(* rely on this when they submit and reset in one step.  What a call does   *)
(* to the queue is what the code does; where the guide to host authors says *)
(* otherwise, TargetQueue states the promise of the guide: see Bypass.      *)
(***************************************************************************)
EXTENDS Integers, Sequences

CONSTANTS
  Callers,    \* threads that use the sink
  Payloads,   \* what a submission may hold: sequences of lit flags
  Floor,      \* a queue of this many points is never cut
  Capacity    \* no queue is longer

VARIABLES
  queue,      \* the points to be handed out, in order
  admitted,   \* how many were ever put into it; numbers them
  handed,     \* how many were handed out
  called      \* what each thread has asked for

vars == <<queue, admitted, handed, called>>

Kinds == {"continuous", "replace", "frame"}
Away == [kind |-> "none", points |-> <<>>]
Served == [kind |-> "served", points |-> <<>>]

New(points) == [i \in 1..Len(points) |-> [n |-> admitted + i, lit |-> points[i]]]
Without(q, k) == SubSeq(q, k + 1, Len(q))

Init == queue = <<>> /\ admitted = 0 /\ handed = 0 /\ called = [c \in Callers |-> Away]

Turns(c, to) == called' = [called EXCEPT ![c] = to]

Call(c) ==
  /\ called[c] = Away /\ called'[c] \in [kind : Kinds, points : Payloads]
  /\ Turns(c, called'[c]) /\ UNCHANGED <<queue, admitted, handed>>

Serve(c, kind) == called[c].kind = kind /\ Turns(c, Served) /\ UNCHANGED handed

(* The points go behind those that are queued, and the oldest make room for *)
(* them: never the last one, and none when there is room.                   *)
Continue(c) ==
  LET all == queue \o New(called[c].points)
  IN /\ Serve(c, "continuous") /\ admitted' = admitted + Len(called[c].points)
     /\ \E k \in 0..(Len(all) - 1) :
          /\ Len(all) <= Floor => k = 0
          /\ queue' = Without(all, k) /\ Len(queue') <= Capacity

(* The frame takes the place of what is queued, cut to what there is room   *)
(* for.                                                                     *)
Replace(c) ==
  /\ Serve(c, "replace") /\ Len(queue') <= Capacity
  /\ \E m \in 1..Len(called[c].points) : \E k \in 0..m :
       admitted' = admitted + m /\ queue' = Without(New(SubSeq(called[c].points, 1, m)), k)

(* submitFrame: the frame goes to the controller and not into the queue,    *)
(* and what is queued is cleared.  The guide says that it is kept           *)
(* (FramesKeepPending of TargetQueue, which the code violates).             *)
Bypass(c) == Serve(c, "frame") /\ queue' = <<>> /\ UNCHANGED admitted

Return(c) == called[c] = Served /\ Turns(c, Away) /\ UNCHANGED <<queue, admitted, handed>>

Reset(c) == called[c] = Away /\ Turns(c, Served) /\ queue' = <<>> /\ UNCHANGED <<admitted, handed>>

Take ==
  /\ \E k \in 1..Len(queue) : queue' = Without(queue, k) /\ handed' = handed + k
  /\ UNCHANGED <<admitted, called>>

Next ==
  \/ \E c \in Callers : Call(c) \/ Continue(c) \/ Replace(c) \/ Bypass(c) \/ Return(c) \/ Reset(c)
  \/ Take

Spec == Init /\ [][Next]_vars
=============================================================================
