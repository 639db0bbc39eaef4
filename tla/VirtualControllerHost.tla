----------------------- MODULE VirtualControllerHost -----------------------
(***************************************************************************)
(* The interface class VirtualControllerHost: start(), stop(), addTarget()  *)
(* and removeTarget().  LinkRuntime calls one host at a time and waits for  *)
(* the answer, so one variable holds the call that is being served.  A host *)
(* module splits the call into steps where other threads can see a          *)
(* difference, and answers with Return.                                     *)
(*                                                                          *)
(* Targets are numbered in the order in which LinkRuntime passes them: that *)
(* of discovery in a fresh start, of the controller ids in an update.       *)
(***************************************************************************)
EXTENDS Integers, Sequences, FiniteSets

CONSTANT Targets    \* target sinks a host may be given
ASSUME TargetsAssumption == Targets \subseteq Nat \ {0} /\ IsFiniteSet(Targets)

VARIABLE call       \* the call in progress and how far it is

HostTypes == {"libera", "etherdream", "idn"}
Places == {"idle", "adding", "addOne", "join", "take", "drain", "drainOne", "allocate", "ensure",
           "device", "stopDevices", "cleanup", "answer", "done"}

(* todo: the targets the call still has to deal with; ok: its answer.       *)
NoCall == [host |-> "none", pc |-> "idle", todo |-> <<>>, ok |-> TRUE]

CallInit == call = NoCall
CallOK == call \in [host : HostTypes \cup {"none"}, pc : Places, todo : Seq(Targets), ok : BOOLEAN]

Serving(h, place) == call.host = h /\ call.pc = place
Returned(h) == Serving(h, "done")

Enter(h, place, ts) == call' = [host |-> h, pc |-> place, todo |-> ts, ok |-> TRUE]
Move(place) == call' = [call EXCEPT !.pc = place]
Return(ok) == call' = [call EXCEPT !.pc = "done", !.todo = <<>>, !.ok = ok]

(* A call that ends in its first step.                                      *)
Answer(h, ok) == call' = [host |-> h, pc |-> "done", todo |-> <<>>, ok |-> ok]

(* Only the Libera host takes and gives up targets while it runs; the       *)
(* others keep the interface's refusing addTarget() and removeTarget().     *)
SupportsDynamicTargets(h) == h = "libera"

(* How an option reads: a number, or one of these.                          *)
Absent == -1
Malformed == -2
=============================================================================
