------------------------------- MODULE MCEvent -------------------------------
(* Small instances of Event for TLC. *)
EXTENDS Event, TLC

T(t, m) == [tier |-> t, min |-> m]

\* A window shorter than a second, which MySQL rounds to one instant, and one that
\* ends before it starts.
MCWindows == {[start |-> 2, end |-> 4], [start |-> 4, end |-> 2]}

\* A cluster and a single process.
MCDeployments == {<<"mysql", "redis">>, <<"inmem", "inmem">>}

\* A proper list, its tiers out of order, and one with a repeated tier number.
MCRewards == {<<T(2, 2), T(1, 1)>>, <<T(1, 2), T(1, 1)>>}

Symmetry == Permutations(Caller) \union Permutations(Player)
==============================================================================
