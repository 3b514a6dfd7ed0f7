---------------------------- MODULE MCDiarioSync ----------------------------
(* Symmetry for the TLC instances of DiarioSync.                           *)
EXTENDS DiarioSync, TLC

Symmetry == Permutations(Replicas)
=============================================================================
