---------------------------- MODULE MCBattleQueue ----------------------------
(* A small instance of BattleQueue for TLC: one pod, whose requests are alike. *)
EXTENDS BattleQueue, TLC

ReqSymmetry == Permutations(Req)
=============================================================================
