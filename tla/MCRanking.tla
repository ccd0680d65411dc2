----------------------------- MODULE MCRanking -----------------------------
(* A small instance of Ranking for TLC. *)
EXTENDS Ranking

\* Not a number, below, at and above the limits of both parameters.
MCQueries == {None, -1, 0, 1, 2, 3}
=============================================================================
