---------------------------- MODULE MCIdempotency ----------------------------
(* Small instances of Idempotency for TLC. *)
EXTENDS Idempotency, TLC

\* All requests are one player's, or each is another player's.
OnePlayer == [r \in Request |-> "p1"]
OwnPlayer == [r \in Request |-> r]

Symmetry == Permutations(Request) \union Permutations(ClientKey)
==============================================================================
