----------------------------- MODULE MCLinkGui -----------------------------
(* Model-checking instances of LinkGui.                                     *)
EXTENDS LinkGui

MCAllOrNothing == {{}, Controllers}
MCEverything == {Controllers}
MCStaleRoutes == {[c \in D |-> UnknownHost] : D \in {{}, Controllers}}
MCNoRoutes == {[c \in {} |-> UnknownHost]}

(* The option sets are interchangeable, and so are the controllers: the     *)
(* first option set, and one selection of each size, stand for the others.  *)
MCSelections == {{}, {CHOOSE c \in Controllers : TRUE}, Controllers}
MCInit == Init /\ enabled \in MCSelections /\ options = CHOOSE o \in OptionSets : TRUE
MCFairSpec == MCInit /\ [][Next]_vars /\ Fairness
=============================================================================
