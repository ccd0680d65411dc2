------------------------------- MODULE MCGacha -------------------------------
(* Small instances of Gacha for TLC. *)
EXTENDS Gacha, TLC

\* A player in a pool with SSR and other cards, in one without an SSR and in an
\* empty one.
MCCards == ("mixed" :> {SSR, Other}) @@ ("plain" :> {Other}) @@ ("empty" :> {})

Symmetry == Permutations(Caller)
==============================================================================
