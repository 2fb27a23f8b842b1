------------------------------- MODULE MCSsl -------------------------------
(* A small instance of Ssl for TLC.                                        *)
EXTENDS Ssl
=============================================================================
