----------------------------- MODULE MCAccess -----------------------------
(* A small instance of Access for TLC.                                     *)
EXTENDS Access
=============================================================================
