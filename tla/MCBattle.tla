------------------------------ MODULE MCBattle ------------------------------
(***************************************************************************)
(* A small instance of Battle for TLC.  Liveness rules out TLC's symmetry  *)
(* reduction, so the initial states are cut to representatives instead:    *)
(* requests are interchangeable, and so are pods and the two players.      *)
(***************************************************************************)
EXTENDS Battle

CONSTANTS r1, r2, r3, podA

\* A damage below the valid range (it would heal), the largest valid one and
\* one above the range; two valid hits on a fresh player reach the clamp.
MCDamage == {-1, 3, 4}

Hits(r) == ValidDamage(args[r].damage)

\* Under V1Naive, where pods do not matter: three hits, two of them on player 1,
\* or two hits and a request that is refused.
NaiveCase ==
  /\ ctxDone = {}
  /\ \A r \in Req : pod[r] = podA
  /\ Hits(r1) /\ Target(r1) = 1
  /\ Hits(r2) /\ Target(r2) = 2
  /\ args[r3] \in [player : {1}, damage : {-1, MaxDamage}]

\* Under V2UserQueue: three hits on a new player from one pod, which fill the
\* channel, one of them with a context that is over when it comes; or two hits,
\* from two pods or on two players, and a request that is refused.
QueueCase ==
  /\ ctxDone = {r3}
  /\ Hits(r1) /\ Hits(r2)
  /\ Target(r1) = 1 /\ pod[r1] = podA
  /\ Target(r2) = 1 \/ pod[r2] = podA
  /\ args[r3] \in [player : {1}, damage : MaxDamage..(MaxDamage + 1)] /\ pod[r3] = podA
  /\ Hits(r3) <=> Key(r1) = Key(r2)

MCInit ==
  /\ BattleInit
  /\ row = [p \in Player |-> NoRow]
  /\ impl = "naive" => NaiveCase
  /\ impl = "queue" => QueueCase

MCSpec == MCInit /\ [][BattleNext]_battleVars /\ BattleFairness
=============================================================================
