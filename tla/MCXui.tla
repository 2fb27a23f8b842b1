------------------------------- MODULE MCXui -------------------------------
(* Small instances of Xui for TLC.                                         *)
EXTENDS Xui
=============================================================================
