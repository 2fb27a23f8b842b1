---------------------------- MODULE MCLocations ----------------------------
(* Small instances of Locations for TLC.                                   *)
EXTENDS Locations, TLC

\* Names and threads are interchangeable in Init, Next and the safety properties.
Symmetry == Permutations(Names) \cup Permutations(Threads)
=============================================================================
