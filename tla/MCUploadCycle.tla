--------------------------- MODULE MCUploadCycle ----------------------------
(***************************************************************************)
(* Instances of UploadCycle.                                               *)
(***************************************************************************)
EXTENDS UploadCycle
=============================================================================
