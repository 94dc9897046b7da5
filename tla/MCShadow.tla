------------------------------ MODULE MCShadow ------------------------------
(***************************************************************************)
(* Instances of Shadow for TLC.                                            *)
(***************************************************************************)
EXTENDS Shadow
=============================================================================
