------------------------------ MODULE HPLedger ------------------------------
(***************************************************************************)
(* What a battle repository promises its callers: one HP value per player  *)
(* and damage requests that each take effect at most once, at one instant. *)
(* The in-memory repository is this specification written in Go: every     *)
(* operation runs under one mutex.  The MySQL repository (BattleRepo)      *)
(* reaches the same result through a transaction of several statements     *)
(* and is shown to implement it.                                           *)
(*                                                                         *)
(* A player without a record holds NoRow; the first hit counts from        *)
(* InitialHP.                                                              *)
(***************************************************************************)
EXTENDS Integers

CONSTANTS Req,          \* damage requests, each issued once
          Player,       \* player ids
          InitialHP,    \* DefaultInitialHP
          MaxDamage,    \* MaxDamagePerRequest
          ResetValues,  \* HP values Reset is called with
          NoRow         \* "no record": ErrNoRows, or the missing map key

VARIABLES hp,      \* hpByPlayer
          result   \* what each request has been told

ledgerVars == <<hp, result>>

Results == [status : {"pending", "ok", "error"}, hp : Nat]

\* A request that has not returned, and the (0, err) every error path returns.
Pending == [status |-> "pending", hp |-> 0]

Error == [status |-> "error", hp |-> 0]

Ok(h) == [status |-> "ok", hp |-> h]

\* hp -= damage, not below zero.
Damaged(h, d) == IF h - d < 0 THEN 0 ELSE h - d

\* The HP a hit starts from.
Current(h) == IF h = NoRow THEN InitialHP ELSE h

Init ==
  /\ hp \in [Player -> ResetValues \cup {NoRow}]
  /\ result = [r \in Req |-> Pending]

ApplyDamage(r, p, d) ==
  /\ result[r] = Pending
  /\ hp' = [hp EXCEPT ![p] = Damaged(Current(@), d)]
  /\ result' = [result EXCEPT ![r] = Ok(Damaged(Current(hp[p]), d))]

\* The hit took effect and the caller is told it failed: the acknowledgement
\* of the commit was lost.
ApplyUnacknowledged(r, p, d) ==
  /\ result[r] = Pending
  /\ hp' = [hp EXCEPT ![p] = Damaged(Current(@), d)]
  /\ result' = [result EXCEPT ![r] = Error]

\* A failed request leaves no trace, not even the row its INSERT created.
Refuse(r) ==
  /\ result[r] = Pending
  /\ result' = [result EXCEPT ![r] = Error]
  /\ UNCHANGED hp

Reset(p, h) ==
  /\ hp' = [hp EXCEPT ![p] = h]
  /\ UNCHANGED result

Next ==
  \/ \E r \in Req, p \in Player, d \in 1..MaxDamage :
        ApplyDamage(r, p, d) \/ ApplyUnacknowledged(r, p, d)
  \/ \E r \in Req : Refuse(r)
  \/ \E p \in Player, h \in ResetValues : Reset(p, h)

Spec == Init /\ [][Next]_ledgerVars
=============================================================================
