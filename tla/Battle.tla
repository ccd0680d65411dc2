------------------------------- MODULE Battle -------------------------------
(***************************************************************************)
(* The battle service as main wires it: Build turns BATTLE_IMPL into the   *)
(* Applier every pod of the deployment uses, V1Naive or V2UserQueue, over  *)
(* one MySQL repository.                                                   *)
(***************************************************************************)
EXTENDS BattleQueue

VARIABLE impl   \* the Applier battlesvc.Build returned, the same in every pod

battleVars == <<allVars, impl>>

\* BATTLE_IMPL: the two implementations, and any other text.
Settings == {"naive", "queue", "wb"}

\* An unknown value falls back to V1Naive.
Build(setting) == IF setting = "queue" THEN "queue" ELSE "naive"

BattleInit ==
  /\ QueueInit
  /\ impl \in {Build(s) : s \in Settings}

\* Handlers call the repository themselves; there is no queue.
V1Naive ==
  /\ impl = "naive"
  /\ Next
  /\ UNCHANGED queueVars

V2UserQueue ==
  /\ impl = "queue"
  /\ QueueNext

BattleNext == (V1Naive \/ V2UserQueue) /\ UNCHANGED impl

BattleSpec == BattleInit /\ [][BattleNext]_battleVars

\* Goroutines that can run do run, those of the queue only under V2UserQueue, and
\* InnoDB breaks every wait cycle.  Nothing makes a client call or a context end.
BattleFairness ==
  /\ \A r \in Req :
       /\ WF_allVars(impl = "queue" /\ ApplyStep(r))
       /\ WF_allVars(impl = "queue" /\ WorkerStep(r))
       /\ WF_allVars(Proceed(r) /\ UNCHANGED queueVars)
  /\ WF_allVars((\E r \in Req : DeadlockVictim(r)) /\ UNCHANGED queueVars)

BattleFairSpec == BattleSpec /\ BattleFairness
=============================================================================
