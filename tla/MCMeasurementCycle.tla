-------------------------- MODULE MCMeasurementCycle --------------------------
(***************************************************************************)
(* Instances of MeasurementCycle.                                          *)
(***************************************************************************)
EXTENDS MeasurementCycle

NtpErrors == {-1, 0}
TimerDrifts == {-1, 0, 1}
=============================================================================
