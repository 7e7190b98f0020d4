---------------------------- MODULE MCConfigSync ----------------------------
(* ConfigSync for TLC: requests are alike, and so are persons.             *)
EXTENDS ConfigSync, TLC

Symmetry == Permutations(Requests) \cup Permutations(Persons)
=============================================================================
