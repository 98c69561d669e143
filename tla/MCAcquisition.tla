---------------------------- MODULE MCAcquisition ----------------------------
(***************************************************************************)
(* Instances of Acquisition.                                               *)
(***************************************************************************)
EXTENDS Acquisition
=============================================================================
