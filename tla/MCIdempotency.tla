--------------------------- MODULE MCIdempotency ---------------------------
(* Symmetry for the TLC instances of Idempotency.                          *)
EXTENDS Idempotency, TLC

Symmetry == Permutations(Requests) \cup Permutations(Hashes)
=============================================================================
