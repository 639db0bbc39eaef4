---------------------------- MODULE MCEtherDream ----------------------------
(* Instance of EtherDreamDevice for TLC: a buffer of three points, two      *)
(* queued rates, rates and counts on both sides of their limits.            *)
EXTENDS EtherDreamDevice
=============================================================================
