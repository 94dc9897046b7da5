----------------------------- MODULE MCHeartBeat -----------------------------
(***************************************************************************)
(* Instances of HeartBeat for TLC.                                         *)
(***************************************************************************)
EXTENDS HeartBeat
=============================================================================
