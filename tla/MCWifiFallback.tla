---------------------------- MODULE MCWifiFallback --------------------------
(***************************************************************************)
(* Instances of WifiFallback.                                              *)
(***************************************************************************)
EXTENDS WifiFallback
=============================================================================
