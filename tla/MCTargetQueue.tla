---------------------------- MODULE MCTargetQueue ----------------------------
(* Instance of TargetQueue for TLC: short slices with and without a frame   *)
(* boundary, one request that allows a short read and one that does not.    *)
EXTENDS TargetQueue, TLC

Threads == Permutations(Submitters)

MCSlices == {<<TRUE>>, <<FALSE, FALSE>>, <<FALSE, FALSE, TRUE>>}
MCShortSlices == {<<TRUE>>}
MCRequests == {[min |-> 1, max |-> 2, short |-> FALSE],
               [min |-> 2, max |-> 2, short |-> TRUE]}

(* Threads that only submit: no reset is ever started.                      *)
SubmitOnlySpec ==
  Init /\ [][Next /\ \A s \in Submitters : pc'[s] # "resetFlags"]_vars
=============================================================================
