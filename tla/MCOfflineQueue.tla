--------------------------- MODULE MCOfflineQueue ---------------------------
(***************************************************************************)
(* Instances of OfflineQueue.  With HalfRange = 8 the sequences are        *)
(* 1 .. 15; an aged queue starts at 14, so that its records cross the      *)
(* wrap and the skipped zero; four generations cross theirs often.         *)
(***************************************************************************)
EXTENDS OfflineQueue

DualMasks == {{"BLYNK"}, {"BLYNK", "MQTT"}}
=============================================================================
