------------------------ MODULE MCLiberaTargetServer ------------------------
(* Model-checking instance of LiberaTargetServer.                           *)
EXTENDS LiberaTargetServer
=============================================================================
