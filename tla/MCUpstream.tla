---------------------------- MODULE MCUpstream ----------------------------
(* A small instance of Upstream for TLC.                                   *)
EXTENDS Upstream
=============================================================================
