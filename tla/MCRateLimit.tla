----------------------------- MODULE MCRateLimit -----------------------------
(* A small instance of RateLimit for TLC. *)
EXTENDS RateLimit, TLC

Symmetry == Permutations(Call) \union Permutations(Limiter)
                               \union Permutations(Address)
==============================================================================
