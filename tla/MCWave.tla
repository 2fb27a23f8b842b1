------------------------------- MODULE MCWave -------------------------------
(* Small instances of Wave for TLC.                                        *)
EXTENDS Wave
=============================================================================
