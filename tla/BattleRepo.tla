----------------------------- MODULE BattleRepo -----------------------------
(***************************************************************************)
(* V1Naive over the MySQL battle repository.  ApplyDamageNaive is a        *)
(* transaction of separate statements (BEGIN, SELECT ... FOR UPDATE, an    *)
(* optional INSERT, UPDATE, COMMIT, deferred ROLLBACK); each statement is  *)
(* an action, and the statements of concurrent requests interleave.        *)
(*                                                                         *)
(* The InnoDB rules the statements meet are modelled as far as this code   *)
(* uses them.  A locking read of an existing row takes its exclusive       *)
(* record lock.  A locking read of a missing row locks the gap around it;  *)
(* gap locks are compatible with each other and block only other           *)
(* transactions' INSERTs into the gap.  Locks last until the transaction   *)
(* ends.  A cycle of waiting transactions is broken by aborting one.       *)
(***************************************************************************)
EXTENDS Integers

CONSTANTS Req,          \* calls of Apply, each with its own context
          Player,       \* player ids; integers, because a gap is an interval of keys
          DamageInput,  \* damage values callers pass, valid or not
          InitialHP,    \* DefaultInitialHP
          MaxDamage,    \* MaxDamagePerRequest
          ResetValues,  \* HP values Reset is called with
          NoRow         \* no row for this player

ASSUME RepoAssumption ==
  /\ Player \subseteq Int
  /\ DamageInput \subseteq Int
  /\ InitialHP \in Nat
  /\ MaxDamage \in Nat \ {0}
  /\ ResetValues \subseteq Nat
  /\ NoRow \notin Nat

VARIABLES args,     \* the request's playerID and damage, fixed at the call
          row,      \* table player_hp as committed: HP or NoRow
          pc,       \* the statement the request's transaction has reached
          txHP,     \* the request's local hp, then newHP
          rec,      \* record locks the request's transaction holds
          gap,      \* keys covered by the gap lock it holds
          ctxDone,  \* requests whose context is cancelled or past its deadline
          result,   \* what ApplyDamageNaive has returned
          base,     \* history: HP at the last Reset
          dealt     \* history: damage committed since then

repoVars == <<args, row, pc, txHP, rec, gap, ctxDone, result, base, dealt>>

Ledger == INSTANCE HPLedger WITH hp <- row

\* Faulty variant: the clamp at zero is missing.
Unclamped(h, d) == h - d

Damaged(h, d) == IF h - d < 0 THEN 0 ELSE h - d

Current(h) == IF h = NoRow THEN InitialHP ELSE h

PC == {"idle", "called", "begun", "selected", "missing", "updated",
       "committing", "failing", "done", "failed"}

Target(r) == args[r].player

\* damage < 1 || damage > MaxDamagePerRequest is refused.
ValidDamage(d) == d >= 1 /\ d <= MaxDamage

RowValues == Nat \cup {NoRow}

TypeOK ==
  /\ args \in [Req -> [player : Player, damage : DamageInput]]
  /\ row \in [Player -> RowValues]
  /\ pc \in [Req -> PC]
  /\ txHP \in [Req -> Nat]
  /\ rec \in [Req -> SUBSET Player]
  /\ gap \in [Req -> SUBSET Player]
  /\ ctxDone \subseteq Req
  /\ result \in [Req -> Ledger!Results]
  /\ base \in [Player -> Nat]
  /\ dealt \in [Player -> Nat]

Init ==
  /\ args \in [Req -> [player : Player, damage : DamageInput]]
  /\ row \in [Player -> ResetValues \cup {NoRow}]
  /\ pc = [r \in Req |-> "idle"]
  /\ txHP = [r \in Req |-> 0]
  /\ rec = [r \in Req |-> {}]
  /\ gap = [r \in Req |-> {}]
  /\ ctxDone \in SUBSET Req
  /\ result = [r \in Req |-> Ledger!Pending]
  /\ base = [p \in Player |-> Current(row[p])]
  /\ dealt = [p \in Player |-> 0]

-----------------------------------------------------------------------------
(* Locks *)

\* An index record exists: committed, or inserted by a transaction in flight.
HasRecord(q) == row[q] # NoRow \/ \E s \in Req : q \in rec[s]

\* Faulty variant: a plain SELECT of a missing row locks no gap.
NoGap(p) == {}

\* The keys a locking read of the missing key p covers: every key that no
\* existing record separates from p.
GapAround(p) ==
  {q \in Player : /\ ~HasRecord(q)
                  /\ \A k \in Player : (p < k /\ k < q) \/ (q < k /\ k < p)
                                          => ~HasRecord(k)}

\* Faulty variant: a plain SELECT does not wait for the record lock.
NeverWait(r, p) == TRUE

RecordFree(r, p) == \A s \in Req \ {r} : p \notin rec[s]

GapFree(r, p) == \A s \in Req \ {r} : p \notin gap[s]

\* The transactions r's next statement has to wait for.
Blockers(r) ==
  {s \in Req \ {r} : \/ pc[r] = "begun" /\ Target(r) \in rec[s]
                     \/ pc[r] = "missing" /\ Target(r) \in gap[s]}

\* r waits, through other waiting transactions, for itself: every set that
\* holds r's blockers and is closed under Blockers holds r.
OnWaitCycle(r) ==
  \A T \in SUBSET Req :
     Blockers(r) \subseteq T /\ (\A s \in T : Blockers(s) \subseteq T) => r \in T

ReleaseLocks(r) ==
  /\ rec' = [rec EXCEPT ![r] = {}]
  /\ gap' = [gap EXCEPT ![r] = {}]

-----------------------------------------------------------------------------
(* The steps of one request *)

\* V1Naive.Apply with a damage out of range.
Reject(r) ==
  /\ pc[r] = "idle"
  /\ ~ValidDamage(args[r].damage)
  /\ pc' = [pc EXCEPT ![r] = "failed"]
  /\ result' = [result EXCEPT ![r] = Ledger!Error]
  /\ UNCHANGED <<args, row, txHP, rec, gap, ctxDone, base, dealt>>

\* V1Naive.Apply calls the repository.
Call(r) ==
  /\ pc[r] = "idle"
  /\ ValidDamage(args[r].damage)
  /\ pc' = [pc EXCEPT ![r] = "called"]
  /\ UNCHANGED <<args, row, txHP, rec, gap, ctxDone, result, base, dealt>>

BeginTx(r) ==
  /\ pc[r] = "called"
  /\ r \notin ctxDone
  /\ pc' = [pc EXCEPT ![r] = "begun"]
  /\ UNCHANGED <<args, row, txHP, rec, gap, ctxDone, result, base, dealt>>

\* SELECT ... FOR UPDATE once no other transaction holds the record.
SelectFound(r) ==
  /\ pc[r] = "begun"
  /\ r \notin ctxDone
  /\ RecordFree(r, Target(r))
  /\ row[Target(r)] # NoRow
  /\ rec' = [rec EXCEPT ![r] = {Target(r)}]
  /\ txHP' = [txHP EXCEPT ![r] = row[Target(r)]]
  /\ pc' = [pc EXCEPT ![r] = "selected"]
  /\ UNCHANGED <<args, row, gap, ctxDone, result, base, dealt>>

\* The same read finds no row (sql.ErrNoRows): it leaves a gap lock.
SelectMissing(r) ==
  /\ pc[r] = "begun"
  /\ r \notin ctxDone
  /\ RecordFree(r, Target(r))
  /\ row[Target(r)] = NoRow
  /\ gap' = [gap EXCEPT ![r] = GapAround(Target(r))]
  /\ pc' = [pc EXCEPT ![r] = "missing"]
  /\ UNCHANGED <<args, row, txHP, rec, ctxDone, result, base, dealt>>

\* INSERT of DefaultInitialHP, once no other transaction's gap covers the key.
InsertInitial(r) ==
  /\ pc[r] = "missing"
  /\ r \notin ctxDone
  /\ GapFree(r, Target(r))
  /\ rec' = [rec EXCEPT ![r] = {Target(r)}]
  /\ txHP' = [txHP EXCEPT ![r] = InitialHP]
  /\ pc' = [pc EXCEPT ![r] = "selected"]
  /\ UNCHANGED <<args, row, gap, ctxDone, result, base, dealt>>

\* newHP = max(hp - damage, 0) and the UPDATE that writes it.
UpdateHP(r) ==
  /\ pc[r] = "selected"
  /\ r \notin ctxDone
  /\ txHP' = [txHP EXCEPT ![r] = Damaged(@, args[r].damage)]
  /\ pc' = [pc EXCEPT ![r] = "updated"]
  /\ UNCHANGED <<args, row, rec, gap, ctxDone, result, base, dealt>>

\* tx.Commit looks at the context once, then sends COMMIT; a context that ends
\* after that no longer stops it.
StartCommit(r) ==
  /\ pc[r] = "updated"
  /\ r \notin ctxDone
  /\ pc' = [pc EXCEPT ![r] = "committing"]
  /\ UNCHANGED <<args, row, txHP, rec, gap, ctxDone, result, base, dealt>>

\* The server makes the transaction durable and frees its locks.
CommitEffect(r) ==
  /\ pc[r] = "committing"
  /\ row' = [row EXCEPT ![Target(r)] = txHP[r]]
  /\ dealt' = [dealt EXCEPT ![Target(r)] = @ + args[r].damage]
  /\ ReleaseLocks(r)
  /\ UNCHANGED <<args, txHP, ctxDone, base>>

\* Faulty variant: the HP read is returned instead of the HP written.
CommitReturnsOldHP(r) ==
  /\ CommitEffect(r)
  /\ pc' = [pc EXCEPT ![r] = "done"]
  /\ result' = [result EXCEPT ![r] = Ledger!Ok(Current(row[Target(r)]))]

Commit(r) ==
  /\ CommitEffect(r)
  /\ pc' = [pc EXCEPT ![r] = "done"]
  /\ result' = [result EXCEPT ![r] = Ledger!Ok(txHP[r])]

\* The connection breaks after the server has committed: Commit returns an
\* error for a hit that counts.
CommitReplyLost(r) ==
  /\ CommitEffect(r)
  /\ pc' = [pc EXCEPT ![r] = "failed"]
  /\ result' = [result EXCEPT ![r] = Ledger!Error]

\* BeginTx fails: the context is done or no connection can be had.
BeginError(r) ==
  /\ pc[r] = "called"
  /\ pc' = [pc EXCEPT ![r] = "failed"]
  /\ result' = [result EXCEPT ![r] = Ledger!Error]
  /\ UNCHANGED <<args, row, txHP, rec, gap, ctxDone, base, dealt>>

\* A statement fails: context done, lock wait timeout, connection lost.  The
\* transaction keeps its locks until the deferred Rollback.
StatementError(r) ==
  /\ pc[r] \in {"begun", "selected", "missing", "updated", "committing"}
  /\ pc' = [pc EXCEPT ![r] = "failing"]
  /\ UNCHANGED <<args, row, txHP, rec, gap, ctxDone, result, base, dealt>>

\* Faulty variant: the deferred Rollback is missing.
RollbackForgotten(r) ==
  /\ pc[r] = "failing"
  /\ pc' = [pc EXCEPT ![r] = "failed"]
  /\ result' = [result EXCEPT ![r] = Ledger!Error]
  /\ UNCHANGED <<args, row, txHP, rec, gap, ctxDone, base, dealt>>

Rollback(r) ==
  /\ pc[r] = "failing"
  /\ pc' = [pc EXCEPT ![r] = "failed"]
  /\ result' = [result EXCEPT ![r] = Ledger!Error]
  /\ ReleaseLocks(r)
  /\ UNCHANGED <<args, row, txHP, ctxDone, base, dealt>>

\* InnoDB aborts a transaction on a wait cycle (error 1213) and frees its locks.
DeadlockVictim(r) ==
  /\ Blockers(r) # {}
  /\ OnWaitCycle(r)
  /\ pc' = [pc EXCEPT ![r] = "failed"]
  /\ result' = [result EXCEPT ![r] = Ledger!Error]
  /\ ReleaseLocks(r)
  /\ UNCHANGED <<args, row, txHP, ctxDone, base, dealt>>

Returned(r) == pc[r] \in {"done", "failed"}

\* The request's context is cancelled: deadline, or the client went away.
CtxExpire(r) ==
  /\ r \notin ctxDone
  /\ ctxDone' = ctxDone \cup {r}
  /\ UNCHANGED <<args, row, pc, txHP, rec, gap, result, base, dealt>>

\* Reset: one auto-committed upsert, which waits for record and gap locks.
Reset(p, h) ==
  /\ \A s \in Req : p \notin rec[s] \cup gap[s]
  /\ row' = [row EXCEPT ![p] = h]
  /\ base' = [base EXCEPT ![p] = h]
  /\ dealt' = [dealt EXCEPT ![p] = 0]
  /\ UNCHANGED <<args, pc, txHP, rec, gap, ctxDone, result>>

-----------------------------------------------------------------------------
\* One step of r's call of ApplyDamageNaive that the database grants.
Statement(r) ==
  \/ BeginTx(r) \/ SelectFound(r) \/ SelectMissing(r) \/ InsertInitial(r)
  \/ UpdateHP(r) \/ StartCommit(r) \/ Commit(r)

Failure(r) ==
  \/ CommitReplyLost(r) \/ BeginError(r) \/ StatementError(r)
  \/ DeadlockVictim(r)

RepoStep(r) == Statement(r) \/ Failure(r) \/ Rollback(r)

Next ==
  \/ \E r \in Req : Reject(r) \/ Call(r) \/ RepoStep(r)
  \/ \E r \in Req : ~Returned(r) /\ CtxExpire(r)
  \/ \E p \in Player, h \in ResetValues : Reset(p, h)

Spec == Init /\ [][Next]_repoVars

\* A done context is reported to the statement that is running.
CtxReported(r) ==
  /\ r \in ctxDone /\ pc[r] # "committing"
  /\ BeginError(r) \/ StatementError(r)

\* How r's call goes on without lock wait timeouts and connection failures: the
\* database executes what it can grant, a done context is reported, and the
\* deferred Rollback runs.
Proceed(r) == Statement(r) \/ CtxReported(r) \/ Rollback(r)

-----------------------------------------------------------------------------
(* Properties *)

\* No lost damage.  However transactions interleave, fail or roll back, the
\* committed HP is the HP of the last Reset less every committed damage,
\* clamped once at zero although ApplyDamageNaive clamps after each hit.
NoLostDamage ==
  \A p \in Player : Current(row[p]) = Damaged(base[p], dealt[p])

\* The INSERT of a first hit never meets a row: between a locking read that
\* found nothing and its INSERT no other request and no Reset can create the
\* row, so ApplyDamageNaive needs no duplicate-key branch.
NoDuplicateInsert ==
  \A r \in Req : pc[r] = "missing" => ~HasRecord(Target(r))

NoRise ==
  (\A p \in Player, h \in ResetValues : ~Reset(p, h))
     => \A p \in Player : /\ Current(row'[p]) <= Current(row[p])
                          /\ row[p] # NoRow => row'[p] # NoRow

\* Outside Reset no step raises a player's HP, and none makes a row vanish:
\* the damage check of Apply, the clamp and the row lock together.
HPOnlyFalls == [][NoRise]_repoVars

\* The MySQL transaction implements the atomic ledger: each request takes
\* effect at its COMMIT or not at all, and a success reports the HP that
\* its own commit left.
ImplementsLedger == Ledger!Spec
=============================================================================
