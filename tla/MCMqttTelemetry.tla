-------------------------- MODULE MCMqttTelemetry ---------------------------
(***************************************************************************)
(* Instances of MqttTelemetry.  The clock is longer than the half range of *)
(* its comparisons, so that it wraps around while a reconnect is due.      *)
(***************************************************************************)
EXTENDS MqttTelemetry
=============================================================================
