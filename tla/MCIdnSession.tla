---------------------------- MODULE MCIdnSession ----------------------------
(* Instance of IdnSession for TLC: three chunks of either kind, frames of   *)
(* two slices, two starts.                                                  *)
EXTENDS IdnSession
=============================================================================
