--------------------------- MODULE MCDurableQueue ---------------------------
(***************************************************************************)
(* DurableQueue by itself, with a bound on the counter of dropped records. *)
(***************************************************************************)
EXTENDS DurableQueue

CONSTANT MaxDropped

DualMasks == {{"BLYNK"}, {"BLYNK", "MQTT"}}

MCSpec == Init /\ [][ApiNext /\ dropped' <= MaxDropped]_vars
=============================================================================
