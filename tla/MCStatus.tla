------------------------------ MODULE MCStatus ------------------------------
(* Small instances of Status for TLC.                                      *)
EXTENDS Status
=============================================================================
