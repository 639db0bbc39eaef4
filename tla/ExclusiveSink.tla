---------------------------- MODULE ExclusiveSink ----------------------------
(***************************************************************************)
(* What a target server promises about the sink it feeds: one session at a  *)
(* time has it, it finds it empty before its own points go in, and leaves   *)
(* it empty when it lets go.  This is how docs/virtual-controller-hosts.md  *)
(* asks a host to use a sink ("Call reset() when your protocol session      *)
(* closes or changes ownership").                                           *)
(***************************************************************************)
EXTENDS Integers

CONSTANTS
  Users,    \* who may have the sink
  Nobody,   \* no owner
  Leftover  \* points an earlier host of the same target left in the sink

VARIABLES
  holder,   \* who has the sink, or Nobody
  content   \* whose points it holds

vars == <<holder, content>>

Init == holder = Nobody /\ content \in {{}, {Leftover}}

Acquire(u) == holder = Nobody /\ holder' = u /\ UNCHANGED content

(* Only the holder changes the content, and never mixes two sources.        *)
Clear(u) == holder = u /\ content' = {} /\ UNCHANGED holder
Submit(u) == holder = u /\ content \subseteq {u} /\ content' = {u} /\ UNCHANGED holder

Release(u) == holder = u /\ content = {} /\ holder' = Nobody /\ UNCHANGED content

Next == \E u \in Users : Acquire(u) \/ Clear(u) \/ Submit(u) \/ Release(u)

Spec == Init /\ [][Next]_vars
=============================================================================
