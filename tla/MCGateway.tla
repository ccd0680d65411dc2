------------------------------ MODULE MCGateway ------------------------------
(* A small instance of Gateway for TLC. *)
EXTENDS Gateway, TLC

OnePlayer == [r \in Request |-> "p1"]

Symmetry == Permutations(Request) \union Permutations(ClientKey)
==============================================================================
