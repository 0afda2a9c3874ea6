----------------------------- MODULE MCColdPath -------------------------------
(* Small instances of ColdPath for TLC. *)
EXTENDS ColdPath, TLC

Symmetry == Permutations(Threads \ {Main}) \cup Permutations(Flights)
===============================================================================
