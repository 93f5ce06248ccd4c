------------------------- MODULE MCCircuitBreaker -------------------------
(* CircuitBreaker with addresses that may be exchanged. *)
EXTENDS CircuitBreaker, TLC

Symmetry == Permutations(IPs)
=============================================================================
