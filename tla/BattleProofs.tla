---------------------------- MODULE BattleProofs ----------------------------
(***************************************************************************)
(* Proofs about BattleRepo, then about BattleQueue, which composes it with *)
(* V2UserQueue, and last about Battle, which selects one of the two: for   *)
(* any set of requests, players, damages and pods and any capacity of the  *)
(* channels.                                                               *)
(*                                                                         *)
(* NoLostDamage is not inductive: a transaction writes the value it read   *)
(* several statements ago.  The strengthening says who holds which lock    *)
(* (LockInv) and that the value a transaction carries still belongs to the *)
(* committed row (ValueInv), which the locks keep true.                    *)
(***************************************************************************)
EXTENDS Battle, SequenceTheorems, TLAPS

\* The statements after which a transaction owns its player's record.
Writing(r) == pc[r] \in {"selected", "updated", "committing"}

\* Record locks are exclusive and held by writing transactions; a gap lock
\* covers only keys without a record, except the holder's own insert.
LockInv ==
  /\ \A r, s \in Req : r # s => rec[r] \cap rec[s] = {}
  /\ \A r \in Req : Writing(r) => Target(r) \in rec[r]
  /\ \A r \in Req : ~Writing(r) /\ pc[r] # "failing" => rec[r] = {}
  /\ \A r \in Req : pc[r] = "missing" => Target(r) \in gap[r]
  /\ \A r \in Req : \A q \in gap[r] :
        row[q] = NoRow /\ \A s \in Req \ {r} : q \notin rec[s]

\* What a transaction carries is up to date with the committed row.
ValueInv ==
  /\ \A r \in Req : pc[r] = "selected" => txHP[r] = Current(row[Target(r)])
  /\ \A r \in Req : pc[r] \in {"updated", "committing"} =>
        txHP[r] = Damaged(Current(row[Target(r)]), args[r].damage)

\* Only checked damages reach the repository, and only calls that are over
\* have a result.
CallInv ==
  /\ \A r \in Req : ~Returned(r) /\ pc[r] # "idle" => ValidDamage(args[r].damage)
  /\ \A r \in Req : ~Returned(r) => result[r] = Ledger!Pending

IndInv == TypeOK /\ LockInv /\ ValueInv /\ CallInv /\ NoLostDamage

-----------------------------------------------------------------------------
(* Facts about the operators. *)

\* A clamped HP is a natural number, and never above what it was.
LEMMA DamagedFacts ==
  ASSUME NEW h \in Nat, NEW d \in Nat
  PROVE  Damaged(h, d) \in Nat /\ Damaged(h, d) <= h
BY DEF Damaged

\* Clamping after every hit is clamping once after the total damage.
LEMMA DamagedComposes ==
  ASSUME NEW h \in Nat, NEW d \in Nat, NEW e \in Nat
  PROVE  Damaged(Damaged(h, d), e) = Damaged(h, d + e)
BY DEF Damaged

\* A row value counts as a natural number of hit points.
LEMMA CurrentNat ==
  ASSUME NEW v \in RowValues
  PROVE  Current(v) \in Nat
BY RepoAssumption DEF RowValues, Current

\* The constants of the ledger's results.
LEMMA ResultTypes ==
  /\ Ledger!Pending \in Ledger!Results
  /\ Ledger!Error \in Ledger!Results
  /\ \A h \in Nat : Ledger!Ok(h) \in Ledger!Results
BY DEF Ledger!Pending, Ledger!Error, Ledger!Ok, Ledger!Results

-----------------------------------------------------------------------------
LEMMA InitInd == Init => IndInv
<1> SUFFICES ASSUME Init PROVE IndInv
  OBVIOUS
<1> USE RepoAssumption
<1>1. row \in [Player -> RowValues]
  BY DEF Init, RowValues
<1>2. base \in [Player -> Nat]
  BY <1>1, CurrentNat DEF Init
<1>3. TypeOK
  BY <1>1, <1>2, ResultTypes DEF Init, TypeOK, PC
<1>4. LockInv
  BY DEF Init, LockInv, Writing
<1>5. ValueInv /\ CallInv
  BY DEF Init, ValueInv, CallInv
<1>6. NoLostDamage
  <2> SUFFICES ASSUME NEW p \in Player
               PROVE  Current(row[p]) = Damaged(base[p], dealt[p])
    BY DEF NoLostDamage
  <2>1. Current(row[p]) \in Nat
    BY <1>1, CurrentNat
  <2> QED
    BY <2>1 DEF Init, Damaged
<1> QED
  BY <1>3, <1>4, <1>5, <1>6 DEF IndInv
-----------------------------------------------------------------------------
(* Every action preserves IndInv; one lemma per action or group of actions. *)

LEMMA RequestTypes ==
  ASSUME TypeOK, NEW r \in Req
  PROVE  /\ Target(r) \in Player
         /\ args[r].damage \in Int
         /\ row[Target(r)] \in RowValues
         /\ txHP[r] \in Nat
BY RepoAssumption DEF TypeOK, Target

\* Steps of a call outside its transaction.
LEMMA CallStepsInd ==
  ASSUME IndInv, NEW r \in Req,
         Reject(r) \/ Call(r) \/ CtxExpire(r) \/ BeginError(r)
  PROVE  IndInv'
<1> USE DEF Reject, Call, CtxExpire, BeginError
<1>0. TypeOK /\ LockInv /\ ValueInv /\ CallInv /\ NoLostDamage
  BY DEF IndInv
<1>1. TypeOK'
  BY <1>0, ResultTypes DEF TypeOK, PC
<1>2. LockInv'
  <2>3. CASE Reject(r) \/ BeginError(r)
    BY <1>0, <2>3 DEF TypeOK, LockInv, Writing, Target
  <2>4. CASE Call(r)
    BY <1>0, <2>4 DEF TypeOK, LockInv, Writing, Target
  <2>5. CASE CtxExpire(r)
    BY <1>0, <2>5 DEF TypeOK, LockInv, Writing, Target
  <2> QED
    BY <2>3, <2>4, <2>5
<1>3. ValueInv'
  BY <1>0 DEF TypeOK, ValueInv, Target
<1>4. CallInv'
  BY <1>0 DEF TypeOK, CallInv, Returned
<1>5. NoLostDamage'
  BY <1>0 DEF NoLostDamage
<1> QED
  BY <1>1, <1>2, <1>3, <1>4, <1>5 DEF IndInv

\* Statements that touch neither a row nor a lock nor a carried value.
LEMMA QuietStatementsInd ==
  ASSUME IndInv, NEW r \in Req,
         BeginTx(r) \/ StartCommit(r) \/ StatementError(r)
  PROVE  IndInv'
<1> USE DEF BeginTx, StartCommit, StatementError
<1>0. TypeOK /\ LockInv /\ ValueInv /\ CallInv /\ NoLostDamage
  BY DEF IndInv
<1>u. UNCHANGED <<args, row, rec, gap>>
  OBVIOUS
<1>1. TypeOK'
  BY <1>0 DEF TypeOK, PC
<1>2. LockInv'
  <2>1. \A s \in Req : Writing(s)' => Writing(s)
    BY <1>0 DEF TypeOK, Writing
  <2>2. \A s \in Req : ~Writing(s)' /\ pc'[s] # "failing" =>
           ~Writing(s) /\ pc[s] # "failing"
    BY <1>0 DEF TypeOK, Writing
  <2>3. \A s \in Req : pc'[s] = "missing" => pc[s] = "missing"
    BY <1>0 DEF TypeOK
  <2> HIDE DEF BeginTx, StartCommit, StatementError
  <2> QED
    BY <1>0, <1>u, <2>1, <2>2, <2>3 DEF LockInv, Target
<1>3. ValueInv'
  BY <1>0 DEF TypeOK, ValueInv, Target
<1>4. CallInv'
  BY <1>0 DEF TypeOK, CallInv, Returned
<1>5. NoLostDamage'
  BY <1>0 DEF NoLostDamage
<1> QED
  BY <1>1, <1>2, <1>3, <1>4, <1>5 DEF IndInv

\* The locking read: the record was free, so the lock stays exclusive, and the
\* value read is the committed one.
LEMMA SelectFoundInd ==
  ASSUME IndInv, NEW r \in Req, SelectFound(r)
  PROVE  IndInv'
<1> USE RepoAssumption
<1>0. TypeOK /\ LockInv /\ ValueInv /\ CallInv /\ NoLostDamage
  BY DEF IndInv
<1>t. Target(r) \in Player /\ row[Target(r)] \in Nat
  BY <1>0, RequestTypes DEF SelectFound, RowValues
<1>1. TypeOK'
  BY <1>0, <1>t DEF SelectFound, TypeOK, PC
<1>2. LockInv'
  BY <1>0, <1>t DEF SelectFound, RecordFree, TypeOK, LockInv, Writing, Target
<1>3. ValueInv'
  BY <1>0, <1>t DEF SelectFound, TypeOK, ValueInv, Target, Current
<1>4. CallInv'
  BY <1>0 DEF SelectFound, TypeOK, CallInv, Returned
<1>5. NoLostDamage'
  BY <1>0 DEF SelectFound, NoLostDamage
<1> QED
  BY <1>1, <1>2, <1>3, <1>4, <1>5 DEF IndInv

\* The gap lock covers only keys without a record, the target among them.
LEMMA SelectMissingInd ==
  ASSUME IndInv, NEW r \in Req, SelectMissing(r)
  PROVE  IndInv'
<1> USE RepoAssumption
<1>0. TypeOK /\ LockInv /\ ValueInv /\ CallInv /\ NoLostDamage
  BY DEF IndInv
<1>t. Target(r) \in Player
  BY <1>0, RequestTypes
<1>g. /\ GapAround(Target(r)) \subseteq Player
      /\ \A q \in GapAround(Target(r)) :
            row[q] = NoRow /\ \A s \in Req : q \notin rec[s]
  BY DEF GapAround, HasRecord
<1>h. Target(r) \in GapAround(Target(r))
  <2>1. rec[r] = {}
    BY <1>0 DEF SelectMissing, LockInv, Writing
  <2>2. ~HasRecord(Target(r))
    BY <2>1 DEF SelectMissing, RecordFree, HasRecord
  <2>3. ASSUME NEW k \in Player
        PROVE  ~(Target(r) < k /\ k < Target(r))
    <3>1. Target(r) \in Int /\ k \in Int
      BY <1>t
    <3> QED
      BY <3>1
  <2> QED
    BY <2>2, <2>3, <1>t DEF GapAround
<1>1. TypeOK'
  BY <1>0, <1>g DEF SelectMissing, TypeOK, PC
<1>2. LockInv'
  BY <1>0, <1>g, <1>h DEF SelectMissing, TypeOK, LockInv, Writing, Target
<1>3. ValueInv'
  BY <1>0 DEF SelectMissing, TypeOK, ValueInv, Target
<1>4. CallInv'
  BY <1>0 DEF SelectMissing, TypeOK, CallInv, Returned
<1>5. NoLostDamage'
  BY <1>0 DEF SelectMissing, NoLostDamage
<1> QED
  BY <1>1, <1>2, <1>3, <1>4, <1>5 DEF IndInv

\* Nobody else's gap covers the key, and its own gap kept everyone else out.
LEMMA InsertInitialInd ==
  ASSUME IndInv, NEW r \in Req, InsertInitial(r)
  PROVE  IndInv'
<1> USE RepoAssumption
<1>0. TypeOK /\ LockInv /\ ValueInv /\ CallInv /\ NoLostDamage
  BY DEF IndInv
<1>t. Target(r) \in Player
  BY <1>0, RequestTypes
<1>g. row[Target(r)] = NoRow /\ \A s \in Req \ {r} : Target(r) \notin rec[s]
  BY <1>0 DEF InsertInitial, LockInv
<1>1. TypeOK'
  BY <1>0, <1>t DEF InsertInitial, TypeOK, PC
<1>2. LockInv'
  BY <1>0, <1>t, <1>g DEF InsertInitial, GapFree, TypeOK, LockInv, Writing, Target
<1>3. ValueInv'
  BY <1>0, <1>g DEF InsertInitial, TypeOK, ValueInv, Target, Current
<1>4. CallInv'
  BY <1>0 DEF InsertInitial, TypeOK, CallInv, Returned
<1>5. NoLostDamage'
  BY <1>0 DEF InsertInitial, NoLostDamage
<1> QED
  BY <1>1, <1>2, <1>3, <1>4, <1>5 DEF IndInv

LEMMA UpdateHPInd ==
  ASSUME IndInv, NEW r \in Req, UpdateHP(r)
  PROVE  IndInv'
<1> USE RepoAssumption
<1>0. TypeOK /\ LockInv /\ ValueInv /\ CallInv /\ NoLostDamage
  BY DEF IndInv
<1>d. args[r].damage \in Nat
  BY <1>0, RequestTypes DEF UpdateHP, CallInv, Returned, ValidDamage
<1>n. Damaged(txHP[r], args[r].damage) \in Nat
  BY <1>0, <1>d, RequestTypes, DamagedFacts
<1>1. TypeOK'
  BY <1>0, <1>n DEF UpdateHP, TypeOK, PC
<1>2. LockInv'
  BY <1>0 DEF UpdateHP, TypeOK, LockInv, Writing, Target
<1>3. ValueInv'
  BY <1>0 DEF UpdateHP, TypeOK, ValueInv, Target
<1>4. CallInv'
  BY <1>0 DEF UpdateHP, TypeOK, CallInv, Returned
<1>5. NoLostDamage'
  BY <1>0 DEF UpdateHP, NoLostDamage
<1> QED
  BY <1>1, <1>2, <1>3, <1>4, <1>5 DEF IndInv

\* COMMIT, acknowledged or not.  The row moves by exactly this damage because
\* the carried value is up to date, and no other writer's value goes stale
\* because the record lock is exclusive.
LEMMA CommitInd ==
  ASSUME IndInv, NEW r \in Req, Commit(r) \/ CommitReplyLost(r)
  PROVE  IndInv'
<1> USE RepoAssumption
<1>0. TypeOK /\ LockInv /\ ValueInv /\ CallInv /\ NoLostDamage
  BY DEF IndInv
<1>c. CommitEffect(r)
  BY DEF Commit, CommitReplyLost
<1>p. /\ pc' = [pc EXCEPT ![r] = "done"] \/ pc' = [pc EXCEPT ![r] = "failed"]
      /\ \/ result' = [result EXCEPT ![r] = Ledger!Ok(txHP[r])]
         \/ result' = [result EXCEPT ![r] = Ledger!Error]
  BY DEF Commit, CommitReplyLost
<1>d. args[r].damage \in Nat
  BY <1>0, <1>c, RequestTypes DEF CommitEffect, CallInv, Returned, ValidDamage
<1>t. Target(r) \in Player /\ txHP[r] \in Nat
  BY <1>0, RequestTypes
<1>1. TypeOK'
  <2>1. row' \in [Player -> RowValues]
    BY <1>0, <1>c, <1>t DEF CommitEffect, TypeOK, RowValues
  <2>2. dealt' \in [Player -> Nat]
    <3>1. dealt \in [Player -> Nat]
      BY <1>0 DEF TypeOK
    <3>2. dealt[Target(r)] \in Nat
      BY <3>1, <1>t
    <3>3. dealt[Target(r)] + args[r].damage \in Nat
      BY <3>2, <1>d
    <3> QED
      BY <1>c, <3>1, <3>3 DEF CommitEffect
  <2>3. result' \in [Req -> Ledger!Results] /\ pc' \in [Req -> PC]
    BY <1>0, <1>p, <1>t, ResultTypes DEF TypeOK, PC
  <2> QED
    BY <1>0, <1>c, <2>1, <2>2, <2>3 DEF CommitEffect, ReleaseLocks, TypeOK
<1>2. LockInv'
  BY <1>0, <1>c, <1>p DEF CommitEffect, ReleaseLocks, TypeOK, LockInv, Writing, Target
<1>3. ValueInv'
  <2>1. \A s \in Req : Writing(s) /\ s # r => Target(s) # Target(r)
    BY <1>0, <1>c DEF CommitEffect, LockInv, Writing
  <2> QED
    BY <1>0, <1>c, <1>p, <1>t, <2>1 DEF CommitEffect, TypeOK, ValueInv, Writing, Target
<1>4. CallInv'
  BY <1>0, <1>c, <1>p DEF CommitEffect, TypeOK, CallInv, Returned
<1>5. NoLostDamage'
  <2> SUFFICES ASSUME NEW p \in Player
               PROVE  Current(row'[p]) = Damaged(base'[p], dealt'[p])
    BY DEF NoLostDamage, Current, Damaged
  <2>1. CASE p # Target(r)
    BY <1>0, <1>c, <2>1 DEF CommitEffect, NoLostDamage, TypeOK
  <2>2. CASE p = Target(r)
    <3>1. row'[p] = Damaged(Current(row[p]), args[r].damage)
      BY <1>0, <1>c, <1>t, <2>2 DEF CommitEffect, ValueInv, TypeOK
    <3>2. row'[p] \in Nat
      BY <1>0, <1>c, <1>t, <2>2 DEF CommitEffect, TypeOK
    <3>3. Current(row[p]) = Damaged(base[p], dealt[p])
      BY <1>0 DEF NoLostDamage
    <3>4. dealt'[p] = dealt[p] + args[r].damage /\ base' = base
      BY <1>0, <1>c, <1>t, <2>2 DEF CommitEffect, TypeOK
    <3>5. base[p] \in Nat /\ dealt[p] \in Nat
      BY <1>0 DEF TypeOK
    <3>6. Current(row'[p]) = row'[p]
      BY <3>2, RepoAssumption DEF Current
    <3>7. Damaged(Damaged(base[p], dealt[p]), args[r].damage)
            = Damaged(base[p], dealt[p] + args[r].damage)
      BY <1>d, <3>5, DamagedComposes
    <3>8. Current(row'[p]) = Damaged(base[p], dealt[p] + args[r].damage)
      BY <3>1, <3>3, <3>6, <3>7, Zenon
    <3> QED
      BY <3>4, <3>8
  <2> QED
    BY <2>1, <2>2
<1> QED
  BY <1>1, <1>2, <1>3, <1>4, <1>5 DEF IndInv

\* A transaction that ends without COMMIT frees its locks and changes no row.
LEMMA AbortInd ==
  ASSUME IndInv, NEW r \in Req, Rollback(r) \/ DeadlockVictim(r)
  PROVE  IndInv'
<1>0. TypeOK /\ LockInv /\ ValueInv /\ CallInv /\ NoLostDamage
  BY DEF IndInv
<1>a. /\ pc' = [pc EXCEPT ![r] = "failed"]
      /\ result' = [result EXCEPT ![r] = Ledger!Error]
      /\ rec' = [rec EXCEPT ![r] = {}]
      /\ gap' = [gap EXCEPT ![r] = {}]
      /\ UNCHANGED <<args, row, txHP, ctxDone, base, dealt>>
  BY DEF Rollback, DeadlockVictim, ReleaseLocks
<1>1. TypeOK'
  BY <1>0, <1>a, ResultTypes DEF TypeOK, PC
<1>2. LockInv'
  BY <1>0, <1>a DEF TypeOK, LockInv, Writing, Target
<1>3. ValueInv'
  BY <1>0, <1>a DEF TypeOK, ValueInv, Target
<1>4. CallInv'
  BY <1>0, <1>a DEF TypeOK, CallInv, Returned
<1>5. NoLostDamage'
  BY <1>0, <1>a DEF NoLostDamage
<1> QED
  BY <1>1, <1>2, <1>3, <1>4, <1>5 DEF IndInv

\* Reset writes a row nobody has locked, so nobody carries a value of it.
LEMMA ResetInd ==
  ASSUME IndInv, NEW p \in Player, NEW h \in ResetValues, Reset(p, h)
  PROVE  IndInv'
<1> USE RepoAssumption
<1>0. TypeOK /\ LockInv /\ ValueInv /\ CallInv /\ NoLostDamage
  BY DEF IndInv
<1>h. h \in Nat
  OBVIOUS
<1>1. TypeOK'
  BY <1>0, <1>h DEF Reset, TypeOK, RowValues
<1>2. LockInv'
  BY <1>0 DEF Reset, TypeOK, LockInv, Writing, Target
<1>3. ValueInv'
  <2>1. \A s \in Req : Writing(s) => Target(s) # p
    BY <1>0 DEF Reset, LockInv
  <2> QED
    BY <1>0, <2>1 DEF Reset, TypeOK, ValueInv, Writing, Target
<1>4. CallInv'
  BY <1>0 DEF Reset, CallInv, Returned
<1>5. NoLostDamage'
  BY <1>0, <1>h DEF Reset, TypeOK, NoLostDamage, Current, Damaged
<1> QED
  BY <1>1, <1>2, <1>3, <1>4, <1>5 DEF IndInv

\* All steps of one request, as V1Naive and the V2 worker both take them.
LEMMA RequestStepInd ==
  ASSUME IndInv, NEW r \in Req,
         Reject(r) \/ Call(r) \/ RepoStep(r) \/ CtxExpire(r)
  PROVE  IndInv'
BY CallStepsInd, QuietStatementsInd, SelectFoundInd, SelectMissingInd,
   InsertInitialInd, UpdateHPInd, CommitInd, AbortInd
   DEF RepoStep, Statement, Failure

LEMMA StutterInd == IndInv /\ UNCHANGED repoVars => IndInv'
BY DEF repoVars, IndInv, TypeOK, LockInv, ValueInv, CallInv, NoLostDamage,
       Writing, Returned, Target

LEMMA NextInd == IndInv /\ [Next]_repoVars => IndInv'
<1> SUFFICES ASSUME IndInv, [Next]_repoVars PROVE IndInv'
  OBVIOUS
<1>1. ASSUME NEW r \in Req, Reject(r) \/ Call(r) \/ RepoStep(r) \/ CtxExpire(r)
      PROVE  IndInv'
  BY <1>1, RequestStepInd
<1>2. ASSUME NEW p \in Player, NEW h \in ResetValues, Reset(p, h)
      PROVE  IndInv'
  BY <1>2, ResetInd
<1> QED
  BY <1>1, <1>2, StutterInd DEF Next

-----------------------------------------------------------------------------
(* The theorems. *)

\* The lock discipline and the currency of carried values hold throughout
\* ApplyDamageNaive, for every instance.
THEOREM InductiveInvariant == Spec => []IndInv
BY InitInd, NextInd, PTL DEF Spec

\* Type correctness: no transaction ever writes or returns a negative HP.
THEOREM TypeCorrectness == Spec => []TypeOK
<1>1. IndInv => TypeOK
  BY DEF IndInv
<1> QED
  BY <1>1, InductiveInvariant, PTL

\* ApplyDamageNaive loses no damage, for any number of concurrent requests.
THEOREM DamageIsNeverLost == Spec => []NoLostDamage
<1>1. IndInv => NoLostDamage
  BY DEF IndInv
<1> QED
  BY <1>1, InductiveInvariant, PTL

\* The INSERT of ApplyDamageNaive never meets an existing row.
THEOREM InsertNeverCollides == Spec => []NoDuplicateInsert
<1>1. IndInv => NoDuplicateInsert
  BY DEF IndInv, LockInv, Writing, NoDuplicateInsert, HasRecord
<1> QED
  BY <1>1, InductiveInvariant, PTL

-----------------------------------------------------------------------------
(* What a COMMIT does to the row, and the theorems that rest on it. *)

\* A commit replaces the committed HP by that HP less this request's damage.
LEMMA CommitRow ==
  ASSUME IndInv, NEW r \in Req, CommitEffect(r)
  PROVE  /\ args[r].damage \in 1..MaxDamage
         /\ row' = [row EXCEPT ![Target(r)] =
                       Damaged(Current(row[Target(r)]), args[r].damage)]
         /\ txHP[r] = Damaged(Current(row[Target(r)]), args[r].damage)
         /\ result[r] = Ledger!Pending
<1>1. TypeOK /\ ValueInv /\ CallInv
  BY DEF IndInv
<1>2. pc[r] = "committing"
  BY DEF CommitEffect
<1>3. args[r].damage \in 1..MaxDamage
  BY <1>1, <1>2, RequestTypes, RepoAssumption DEF CallInv, Returned, ValidDamage
<1> QED
  BY <1>1, <1>2, <1>3 DEF CommitEffect, ValueInv, CallInv, Returned

LEMMA CommitLowers ==
  ASSUME IndInv, NEW r \in Req, CommitEffect(r), NEW p \in Player
  PROVE  /\ Current(row'[p]) <= Current(row[p])
         /\ row[p] # NoRow => row'[p] # NoRow
<1>1. TypeOK
  BY DEF IndInv
<1>2. row[p] \in RowValues /\ Current(row[p]) \in Nat
  BY <1>1, CurrentNat DEF TypeOK
<1>3. CASE p # Target(r)
  BY <1>1, <1>2, <1>3, CommitRow DEF TypeOK
<1>4. CASE p = Target(r)
  <2>1. row'[p] = Damaged(Current(row[p]), args[r].damage)
    BY <1>1, <1>4, CommitRow DEF TypeOK
  <2>2. args[r].damage \in Nat
    BY CommitRow, RepoAssumption
  <2>3. row'[p] \in Nat /\ row'[p] <= Current(row[p])
    BY <1>2, <2>1, <2>2, DamagedFacts
  <2> QED
    BY <2>3, RepoAssumption DEF Current
<1> QED
  BY <1>3, <1>4

\* The steps of a request other than its COMMIT leave the table alone.
LEMMA OnlyCommitWrites ==
  ASSUME NEW r \in Req, Reject(r) \/ Call(r) \/ RepoStep(r) \/ CtxExpire(r)
  PROVE  CommitEffect(r) \/ row' = row
BY DEF Reject, Call, CtxExpire, RepoStep, Statement, Failure, Rollback,
       BeginTx, SelectFound, SelectMissing, InsertInitial, UpdateHP,
       StartCommit, Commit, CommitReplyLost, BeginError, StatementError,
       DeadlockVictim

\* Only Reset raises HP: the theorem form of HPOnlyFalls, about Apply's check,
\* the clamp and the row lock of ApplyDamageNaive.
THEOREM OnlyResetRaisesHP == Spec => HPOnlyFalls
<1>1. IndInv /\ [Next]_repoVars => [NoRise]_repoVars
  <2> SUFFICES ASSUME IndInv, Next, NEW p \in Player,
                      \A q \in Player, h \in ResetValues : ~Reset(q, h)
               PROVE  /\ Current(row'[p]) <= Current(row[p])
                      /\ row[p] # NoRow => row'[p] # NoRow
    BY DEF NoRise
  <2>1. PICK r \in Req : Reject(r) \/ Call(r) \/ RepoStep(r) \/ CtxExpire(r)
    BY DEF Next
  <2>2. CASE CommitEffect(r)
    BY <2>2, CommitLowers
  <2>3. CASE row' = row
    <3>1. Current(row[p]) \in Nat
      BY CurrentNat DEF IndInv, TypeOK
    <3> QED
      BY <2>3, <3>1
  <2> QED
    BY <2>1, <2>2, <2>3, OnlyCommitWrites
<1> QED
  BY <1>1, InductiveInvariant, PTL DEF Spec, HPOnlyFalls

-----------------------------------------------------------------------------
(* Refinement: COMMIT is the ledger's step, an error return its refusal. *)

\* An error return without COMMIT is a refusal by the ledger.
LEMMA ErrorRefines ==
  ASSUME IndInv, NEW r \in Req,
         Reject(r) \/ BeginError(r) \/ Rollback(r) \/ DeadlockVictim(r)
  PROVE  Ledger!Refuse(r)
<1>1. result' = [result EXCEPT ![r] = Ledger!Error] /\ row' = row
  BY DEF Reject, BeginError, Rollback, DeadlockVictim
<1>2. ~Returned(r)
  BY DEF Reject, BeginError, Rollback, DeadlockVictim, Blockers, Returned
<1>3. result[r] = Ledger!Pending
  BY <1>2 DEF IndInv, CallInv
<1> QED
  BY <1>1, <1>3 DEF Ledger!Refuse

\* An acknowledged COMMIT is the ledger's hit, with its HP as the reply.
LEMMA CommitRefines ==
  ASSUME IndInv, NEW r \in Req, Commit(r)
  PROVE  Ledger!ApplyDamage(r, Target(r), args[r].damage)
<1>1. CommitEffect(r) /\ result' = [result EXCEPT ![r] = Ledger!Ok(txHP[r])]
  BY DEF Commit
<1> QED
  BY <1>1, CommitRow DEF Ledger!ApplyDamage, Ledger!Damaged, Ledger!Current,
                         Damaged, Current

\* A COMMIT whose acknowledgement is lost is the ledger's unacknowledged hit.
LEMMA LostReplyRefines ==
  ASSUME IndInv, NEW r \in Req, CommitReplyLost(r)
  PROVE  Ledger!ApplyUnacknowledged(r, Target(r), args[r].damage)
<1>1. CommitEffect(r) /\ result' = [result EXCEPT ![r] = Ledger!Error]
  BY DEF CommitReplyLost
<1> QED
  BY <1>1, CommitRow DEF Ledger!ApplyUnacknowledged, Ledger!Damaged,
                         Ledger!Current, Damaged, Current

\* Every step of a request is a step of the ledger or invisible to it.
LEMMA RequestStepRefines ==
  ASSUME IndInv, NEW r \in Req,
         Reject(r) \/ Call(r) \/ RepoStep(r) \/ CtxExpire(r)
  PROVE  [Ledger!Next]_(Ledger!ledgerVars)
<1>1. CASE Reject(r) \/ BeginError(r) \/ Rollback(r) \/ DeadlockVictim(r)
  BY <1>1, ErrorRefines DEF Ledger!Next
<1>2. CASE Commit(r) \/ CommitReplyLost(r)
  <2>1. CommitEffect(r)
    BY <1>2 DEF Commit, CommitReplyLost
  <2>2. Target(r) \in Player /\ args[r].damage \in 1..MaxDamage
    BY <2>1, CommitRow, RequestTypes DEF IndInv
  <2> QED
    BY <1>2, <2>2, CommitRefines, LostReplyRefines DEF Ledger!Next
<1>3. CASE Call(r) \/ CtxExpire(r) \/ BeginTx(r) \/ SelectFound(r)
           \/ SelectMissing(r) \/ InsertInitial(r) \/ UpdateHP(r)
           \/ StartCommit(r) \/ StatementError(r)
  BY <1>3 DEF Call, CtxExpire, BeginTx, SelectFound, SelectMissing,
              InsertInitial, UpdateHP, StartCommit, StatementError,
              Ledger!ledgerVars
<1> QED
  BY <1>1, <1>2, <1>3 DEF RepoStep, Statement, Failure

LEMMA NaiveRefines == IndInv /\ [Next]_repoVars => [Ledger!Next]_(Ledger!ledgerVars)
<1> SUFFICES ASSUME IndInv, [Next]_repoVars
             PROVE  [Ledger!Next]_(Ledger!ledgerVars)
  OBVIOUS
<1>1. CASE UNCHANGED repoVars
  BY <1>1 DEF repoVars, Ledger!ledgerVars
<1>2. ASSUME NEW r \in Req,
             Reject(r) \/ Call(r) \/ RepoStep(r) \/ CtxExpire(r)
      PROVE  [Ledger!Next]_(Ledger!ledgerVars)
  BY <1>2, RequestStepRefines
<1>3. ASSUME NEW p \in Player, NEW h \in ResetValues, Reset(p, h)
      PROVE  Ledger!Next
  BY <1>3 DEF Reset, Ledger!Reset, Ledger!Next
<1> QED
  BY <1>1, <1>2, <1>3 DEF Next

\* The MySQL repository implements the ledger: every transaction is atomic and
\* its reply is the HP its own COMMIT left, for any number of requests.
THEOREM RepoImplementsLedger == Spec => ImplementsLedger
<1>1. Init => Ledger!Init
  BY DEF Init, Ledger!Init
<1> QED
  BY <1>1, NaiveRefines, InductiveInvariant, PTL DEF Spec, ImplementsLedger, Ledger!Spec

-----------------------------------------------------------------------------
(***************************************************************************)
(* V2UserQueue.  The steps of the database keep IndInv, whoever calls      *)
(* them.  What the queue adds: a request uses the channel the map holds    *)
(* for its key (ChanInv); the transaction that is running for a channel is *)
(* the one its worker waits for (WorkInv); and of two requests of one key  *)
(* the one sent first has returned, is being served or is ahead in the     *)
(* buffer (SentInv, OrderInv).                                             *)
(***************************************************************************)

ChanInv ==
  \A r \in Req :
     /\ chanOf[r] # NoReq => chanOf[r] = queues[Key(r)]
     /\ caller[r] \in {"enqueue", "await"} => chanOf[r] # NoReq

\* What a channel holds has been sent to it by a caller that awaits it or did.
BufInv ==
  \A c \in Req : \A a \in DOMAIN buf[c] :
     caller[buf[c][a]] \in {"await", "returned"} /\ chanOf[buf[c][a]] = c

WorkInv ==
  \A r \in Req : pc[r] # "idle" =>
     /\ caller[r] \in {"await", "returned"}
     /\ Returned(r) \/ (chanOf[r] \in Req /\ work[chanOf[r]] = r)

\* A request that was sent and has not returned is at its channel.
SentInv ==
  \A j \in DOMAIN sent :
     /\ chanOf[sent[j]] \in Req
     /\ \/ Returned(sent[j])
        \/ work[chanOf[sent[j]]] = sent[j]
        \/ \E b \in DOMAIN buf[chanOf[sent[j]]] : buf[chanOf[sent[j]]][b] = sent[j]

\* Nothing overtakes in a buffer.
OrderInv ==
  \A c \in Req : \A a \in DOMAIN buf[c] : \A i, j \in DOMAIN sent :
     sent[j] = buf[c][a] /\ i < j /\ Key(sent[i]) = Key(sent[j]) =>
        \/ Returned(sent[i])
        \/ work[c] = sent[i]
        \/ \E b \in DOMAIN buf[c] : b < a /\ buf[c][b] = sent[i]

RecInv == \A r \in Req : rec[r] \subseteq {Target(r)}

RepliedInv == \A r \in replied : Returned(r)

QueueInv == /\ IndInv /\ QueueTypeOK /\ ChanInv /\ BufInv /\ WorkInv /\ SentInv
            /\ OrderInv /\ RecInv /\ RepliedInv /\ ServedInOrder /\ ReplyIsTruthful

-----------------------------------------------------------------------------
(* What the database does to the request it advances, and to no other *)

LEMMA CallFacts ==
  ASSUME TypeOK, NEW r \in Req, Call(r)
  PROVE  /\ pc[r] = "idle" /\ pc'[r] = "called"
         /\ \A q \in Req \ {r} : pc'[q] = pc[q]
         /\ UNCHANGED <<args, rec, ctxDone, result>>
BY DEF Call, TypeOK

LEMMA RepoFacts ==
  ASSUME TypeOK, NEW r \in Req, RepoStep(r)
  PROVE  /\ pc[r] # "idle" /\ ~Returned(r) /\ pc'[r] # "idle"
         /\ \A q \in Req \ {r} :
              pc'[q] = pc[q] /\ result'[q] = result[q] /\ rec'[q] = rec[q]
         /\ rec'[r] \in {rec[r], {}, {Target(r)}}
         /\ UNCHANGED <<args, ctxDone>>
<1>1. CASE BeginTx(r) \/ UpdateHP(r) \/ StartCommit(r) \/ StatementError(r)
  BY <1>1 DEF BeginTx, UpdateHP, StartCommit, StatementError, TypeOK, Returned
<1>2. CASE SelectFound(r) \/ SelectMissing(r) \/ InsertInitial(r)
  BY <1>2 DEF SelectFound, SelectMissing, InsertInitial, TypeOK, Returned
<1>3. CASE Commit(r) \/ CommitReplyLost(r)
  BY <1>3 DEF Commit, CommitReplyLost, CommitEffect, ReleaseLocks, TypeOK, Returned
<1>4. CASE BeginError(r) \/ Rollback(r)
  BY <1>4 DEF BeginError, Rollback, ReleaseLocks, TypeOK, Returned
<1>5. CASE DeadlockVictim(r)
  <2>1. pc[r] \in {"begun", "missing"}
    BY <1>5 DEF DeadlockVictim, Blockers
  <2> QED  BY <1>5, <2>1 DEF DeadlockVictim, ReleaseLocks, TypeOK, Returned
<1> QED  BY <1>1, <1>2, <1>3, <1>4, <1>5 DEF RepoStep, Statement, Failure

-----------------------------------------------------------------------------
(* Types of the queue *)

LEMMA KeyTypes ==
  ASSUME TypeOK, QueueTypeOK, NEW r \in Req PROVE Key(r) \in Keys
BY RequestTypes DEF QueueTypeOK, Key, Keys

LEMMA BufTypes ==
  ASSUME QueueTypeOK, NEW c \in Req
  PROVE  /\ buf[c] \in Seq(Req) /\ Len(buf[c]) \in Nat /\ DOMAIN buf[c] = 1..Len(buf[c])
         /\ \A a \in DOMAIN buf[c] : buf[c][a] \in Req
<1>1. buf[c] \in Seq(Req)
  BY DEF QueueTypeOK
<1> QED  BY <1>1, LenProperties

LEMMA SentTypes ==
  ASSUME QueueTypeOK
  PROVE  /\ Len(sent) \in Nat /\ DOMAIN sent = 1..Len(sent)
         /\ \A j \in DOMAIN sent : sent[j] \in Req
<1>1. sent \in Seq(Req)
  BY DEF QueueTypeOK
<1> QED  BY <1>1, LenProperties

LEMMA QueueInitInv == QueueInit => QueueInv
<1> SUFFICES ASSUME QueueInit PROVE QueueInv
  OBVIOUS
<1>1. IndInv
  BY InitInd DEF QueueInit
<1>2. \A c \in Req : buf[c] = <<>>
  BY DEF QueueInit
<1>3. QueueTypeOK
  <2>1. Len(<<>>) <= QueueCapacity /\ <<>> \in Seq(Req)
    BY QueueAssumption
  <2>2. \A c \in Req : Len(buf[c]) <= QueueCapacity
    BY <1>2, <2>1
  <2>3. buf \in [Req -> Seq(Req)] /\ sent \in Seq(Req)
    BY <2>1 DEF QueueInit
  <2> QED  BY <2>2, <2>3, ResultTypes DEF QueueInit, QueueTypeOK
<1>4. \A r \in Req : pc[r] = "idle" /\ rec[r] = {} /\ caller[r] = "new" /\ chanOf[r] = NoReq
  BY DEF QueueInit, Init
<1>5. sent = <<>> /\ replied = {}
  BY DEF QueueInit
<1>6. ChanInv /\ BufInv /\ WorkInv /\ SentInv /\ OrderInv /\ RecInv /\ RepliedInv
  BY <1>2, <1>4, <1>5 DEF ChanInv, BufInv, WorkInv, SentInv, OrderInv, RecInv, RepliedInv
<1>7. ServedInOrder /\ ReplyIsTruthful
  BY <1>4, <1>5 DEF ServedInOrder, ReplyIsTruthful
<1> QED  BY <1>1, <1>3, <1>6, <1>7 DEF QueueInv

-----------------------------------------------------------------------------
(* Apply *)

\* A caller returns: nothing else moves.
LEMMA ReturnStep ==
  ASSUME QueueInv, NEW r \in Req, NEW res \in Ledger!Results, Return(r, res),
         \/ Returned(r) /\ res = result[r]
         \/ res = Ledger!Error /\ (r \in ctxDone \/ ~ValidDamage(args[r].damage))
  PROVE  QueueInv'
<1>1. /\ UNCHANGED repoVars
      /\ UNCHANGED <<pod, queues, chanOf, buf, work, replied, sent>>
      /\ UNCHANGED <<args, pc, rec, ctxDone, result>>
  BY DEF Return, repoVars
<1>2. /\ caller'[r] = "returned" /\ reply'[r] = res
      /\ \A q \in Req \ {r} : caller'[q] = caller[q] /\ reply'[q] = reply[q]
  BY DEF Return, QueueInv, QueueTypeOK
<1>3. IndInv'
  BY <1>1, StutterInd DEF QueueInv
<1>4. QueueTypeOK'
  <2>1. /\ caller' \in [Req -> {"new", "enqueue", "await", "returned"}]
        /\ reply' \in [Req -> Ledger!Results]
    BY DEF Return, QueueInv, QueueTypeOK
  <2> QED  BY <1>1, <2>1 DEF QueueInv, QueueTypeOK, Keys
<1>5. ChanInv' /\ WorkInv'
  BY <1>1, <1>2 DEF QueueInv, ChanInv, WorkInv, Key, Target, Returned
<1>6. BufInv'
  BY <1>1, <1>2, BufTypes DEF QueueInv, BufInv
<1>7. SentInv' /\ OrderInv' /\ ServedInOrder'
  BY <1>1 DEF QueueInv, SentInv, OrderInv, ServedInOrder, Key, Target, Returned
<1>8. RecInv' /\ RepliedInv'
  BY <1>1 DEF QueueInv, RecInv, RepliedInv, Target, Returned
<1>9. ReplyIsTruthful'
  BY <1>1, <1>2 DEF QueueInv, ReplyIsTruthful, Returned
<1> QED  BY <1>3, <1>4, <1>5, <1>6, <1>7, <1>8, <1>9 DEF QueueInv

LEMMA ReturningSteps ==
  ASSUME QueueInv, NEW r \in Req,
         ApplyInvalid(r) \/ EnqueueTimeout(r) \/ Receive(r) \/ AwaitTimeout(r)
  PROVE  QueueInv'
<1>1. Ledger!Error \in Ledger!Results /\ result[r] \in Ledger!Results
  BY ResultTypes DEF QueueInv, IndInv, TypeOK
<1>2. CASE Receive(r)
  <2>1. Returned(r) /\ Return(r, result[r])
    BY <1>2 DEF Receive, QueueInv, RepliedInv
  <2> QED  BY <1>1, <2>1, ReturnStep
<1>3. CASE ApplyInvalid(r) \/ EnqueueTimeout(r) \/ AwaitTimeout(r)
  <2>1. /\ Return(r, Ledger!Error)
        /\ r \in ctxDone \/ ~ValidDamage(args[r].damage)
    BY <1>3 DEF ApplyInvalid, EnqueueTimeout, AwaitTimeout
  <2> QED  BY <1>1, <2>1, ReturnStep
<1> QED  BY <1>2, <1>3

\* The map has one channel for a key, and whoever made it, all requests use it.
LEMMA GetOrCreateStep ==
  ASSUME QueueInv, NEW r \in Req, GetOrCreate(r)
  PROVE  QueueInv'
<1> DEFINE q == IF queues[Key(r)] = NoReq THEN r ELSE queues[Key(r)]
<1>0. TypeOK /\ QueueTypeOK
  BY DEF QueueInv, IndInv
<1>1. /\ UNCHANGED repoVars
      /\ UNCHANGED <<pod, reply, buf, work, replied, sent>>
      /\ UNCHANGED <<args, pc, rec, ctxDone, result>>
      /\ caller[r] = "new"
  BY DEF GetOrCreate, repoVars
<1>2. Key(r) \in Keys /\ q \in Req
  BY <1>0, KeyTypes, QueueAssumption DEF QueueTypeOK
<1>3. /\ queues' = [queues EXCEPT ![Key(r)] = q]
      /\ chanOf' = [chanOf EXCEPT ![r] = q]
      /\ caller' = [caller EXCEPT ![r] = "enqueue"]
  BY DEF GetOrCreate
<1>4. queues[Key(r)] # NoReq => q = queues[Key(r)]
  OBVIOUS
<1> HIDE DEF q
<1>5. /\ caller'[r] = "enqueue" /\ chanOf'[r] = q /\ queues'[Key(r)] = q
      /\ \A s \in Req \ {r} : caller'[s] = caller[s] /\ chanOf'[s] = chanOf[s]
      /\ \A k \in Keys \ {Key(r)} : queues'[k] = queues[k]
  BY <1>0, <1>2, <1>3 DEF QueueTypeOK
<1>6. QueueTypeOK'
  <2>1. /\ queues' \in [Keys -> Req \cup {NoReq}]
        /\ chanOf' \in [Req -> Req \cup {NoReq}]
        /\ caller' \in [Req -> {"new", "enqueue", "await", "returned"}]
    BY <1>0, <1>2, <1>3 DEF QueueTypeOK
  <2> QED  BY <1>0, <1>1, <2>1 DEF QueueTypeOK, Keys
<1>7. IndInv'
  BY <1>1, StutterInd DEF QueueInv
<1>8. \A s \in Req : Key(s)' = Key(s) /\ Key(s) \in Keys
  BY <1>0, <1>1, KeyTypes DEF Key, Target
<1>9. ChanInv'
  <2> SUFFICES ASSUME NEW s \in Req
               PROVE  /\ chanOf'[s] # NoReq => chanOf'[s] = queues'[Key(s)]
                      /\ caller'[s] \in {"enqueue", "await"} => chanOf'[s] # NoReq
    BY <1>8 DEF ChanInv
  <2>1. CASE s = r
    BY <1>2, <1>5, <2>1, QueueAssumption
  <2>2. CASE s # r /\ Key(s) # Key(r)
    BY <1>5, <1>8, <2>2 DEF QueueInv, ChanInv
  <2>3. CASE s # r /\ Key(s) = Key(r)
    BY <1>4, <1>5, <1>8, <2>3 DEF QueueInv, ChanInv
  <2> QED  BY <2>1, <2>2, <2>3
<1>10. pc[r] = "idle"
  BY <1>1 DEF QueueInv, WorkInv
<1>11. BufInv'
  BY <1>0, <1>1, <1>5, BufTypes DEF QueueInv, BufInv
<1>12. WorkInv'
  BY <1>1, <1>5, <1>10 DEF QueueInv, WorkInv, Returned
<1>13. chanOf[r] # NoReq => q = chanOf[r]
  BY <1>4 DEF QueueInv, ChanInv
<1>14. SentInv'
  <2>1. \A j \in DOMAIN sent : chanOf'[sent[j]] = chanOf[sent[j]]
    BY <1>0, <1>5, <1>13, SentTypes, QueueAssumption DEF QueueInv, SentInv
  <2> QED  BY <1>1, <2>1 DEF QueueInv, SentInv, Returned
<1>15. OrderInv' /\ ServedInOrder'
  BY <1>1 DEF QueueInv, OrderInv, ServedInOrder, Key, Target, Returned
<1>16. RecInv' /\ RepliedInv'
  BY <1>1 DEF QueueInv, RecInv, RepliedInv, Target, Returned
<1>17. ReplyIsTruthful'
  BY <1>1, <1>5 DEF QueueInv, ReplyIsTruthful, Returned
<1> QED
  BY <1>6, <1>7, <1>9, <1>11, <1>12, <1>14, <1>15, <1>16, <1>17 DEF QueueInv

\* The send of r: what was sent before and has not returned is ahead of it.
LEMMA EnqueueStep ==
  ASSUME QueueInv, NEW r \in Req, Enqueue(r)
  PROVE  QueueInv'
<1> DEFINE c == chanOf[r]
           n == Len(sent)
           m == Len(buf[c])
<1>0. TypeOK /\ QueueTypeOK
  BY DEF QueueInv, IndInv
<1>1. /\ UNCHANGED repoVars
      /\ UNCHANGED <<pod, reply, queues, chanOf, work, replied>>
      /\ UNCHANGED <<args, pc, rec, ctxDone, result>>
      /\ caller[r] = "enqueue" /\ m < QueueCapacity
      /\ buf' = [buf EXCEPT ![c] = Append(buf[c], r)]
      /\ sent' = Append(sent, r)
      /\ caller' = [caller EXCEPT ![r] = "await"]
  BY DEF Enqueue, repoVars
<1>2. c \in Req /\ pc[r] = "idle"
  <2>1. chanOf[r] \in Req \cup {NoReq} /\ caller[r] = "enqueue"
    BY <1>0 DEF QueueTypeOK, Enqueue
  <2>2. chanOf[r] # NoReq /\ pc[r] = "idle"
    BY <2>1 DEF QueueInv, ChanInv, WorkInv
  <2> QED  BY <2>1, <2>2
<1>3. /\ m \in Nat /\ DOMAIN buf[c] = 1..m /\ buf[c] \in Seq(Req)
      /\ n \in Nat /\ DOMAIN sent = 1..n /\ sent \in Seq(Req)
  BY <1>0, <1>2, BufTypes, SentTypes DEF QueueTypeOK
<1>4. /\ Append(buf[c], r) \in Seq(Req) /\ Len(Append(buf[c], r)) = m + 1
      /\ \A a \in 1..m : Append(buf[c], r)[a] = buf[c][a]
      /\ Append(buf[c], r)[m + 1] = r
  BY <1>3, AppendProperties
<1>5. /\ buf'[c] = Append(buf[c], r)
      /\ \A d \in Req \ {c} : buf'[d] = buf[d]
      /\ buf' \in [Req -> Seq(Req)]
  BY <1>0, <1>1, <1>2, <1>4 DEF QueueTypeOK
<1>6. /\ DOMAIN buf'[c] = 1..(m + 1) /\ Len(buf'[c]) = m + 1 /\ buf'[c][m + 1] = r
      /\ \A a \in 1..m : buf'[c][a] = buf[c][a]
  BY <1>4, <1>5, LenProperties
<1>7. /\ sent' \in Seq(Req) /\ DOMAIN sent' = 1..(n + 1) /\ sent'[n + 1] = r
      /\ \A j \in 1..n : sent'[j] = sent[j]
  <2>1. /\ sent' \in Seq(Req) /\ Len(sent') = n + 1 /\ sent'[n + 1] = r
        /\ \A j \in 1..n : sent'[j] = sent[j]
    BY <1>1, <1>3, AppendProperties
  <2> QED  BY <2>1, LenProperties
<1>8. caller'[r] = "await" /\ \A s \in Req \ {r} : caller'[s] = caller[s]
  BY <1>0, <1>1 DEF QueueTypeOK
<1>9. \A s \in Req : Key(s)' = Key(s) /\ Returned(s)' = Returned(s) /\ Target(s)' = Target(s)
  BY <1>1 DEF Key, Target, Returned
<1>10. \A a \in 1..m : buf[c][a] \in Req /\ buf[c][a] # r
  <2>1. \A a \in DOMAIN buf[c] : buf[c][a] \in Req /\ caller[buf[c][a]] # "enqueue"
    BY <1>0, <1>2, BufTypes DEF QueueInv, BufInv
  <2>2. DOMAIN buf[c] = 1..m /\ caller[r] = "enqueue"
    BY <1>1, <1>3
  <2> QED  BY <2>1, <2>2
<1>11. \A j \in 1..n : sent[j] \in Req
  BY <1>0, <1>3, SentTypes
<1>u. UNCHANGED <<pod, chanOf, work, args, pc>>
  BY <1>1
<1>d. /\ m \in Nat /\ DOMAIN buf[c] = 1..m /\ DOMAIN buf'[c] = 1..(m + 1)
      /\ n \in Nat /\ DOMAIN sent = 1..n /\ DOMAIN sent' = 1..(n + 1)
  BY <1>3, <1>6, <1>7
<1> HIDE DEF c, n, m
<1>12. QueueTypeOK'
  <2>1. \A d \in Req : Len(buf'[d]) <= QueueCapacity
    <3>1. m + 1 <= QueueCapacity
      BY <1>1, <1>3, QueueAssumption
    <3> QED  BY <1>0, <1>5, <1>6, <3>1 DEF QueueTypeOK
  <2>2. caller' \in [Req -> {"new", "enqueue", "await", "returned"}]
    BY <1>0, <1>1 DEF QueueTypeOK
  <2> QED  BY <1>0, <1>1, <1>5, <1>7, <2>1, <2>2 DEF QueueTypeOK, Keys
<1>13. IndInv'
  BY <1>1, StutterInd DEF QueueInv
<1>14. ChanInv' /\ WorkInv'
  BY <1>1, <1>2, <1>8, <1>9, QueueAssumption DEF QueueInv, ChanInv, WorkInv
<1>15. BufInv'
  <2> SUFFICES ASSUME NEW d \in Req, NEW a \in DOMAIN buf'[d]
               PROVE  caller'[buf'[d][a]] \in {"await", "returned"} /\ chanOf[buf'[d][a]] = d
    BY <1>1 DEF BufInv
  <2>1. CASE d # c
    BY <1>0, <1>5, <1>8, <2>1, BufTypes DEF QueueInv, BufInv
  <2>2. CASE d = c /\ a = m + 1
    BY <1>6, <1>8, <2>2 DEF c
  <2>3. CASE d = c /\ a # m + 1
    <3>1. a \in 1..m
      BY <1>3, <1>6, <2>3
    <3>2. caller[buf[c][a]] \in {"await", "returned"} /\ chanOf[buf[c][a]] = c
      BY <1>2, <1>d, <3>1 DEF QueueInv, BufInv
    <3> QED  BY <1>6, <1>8, <1>10, <2>3, <3>1, <3>2
  <2> QED  BY <2>1, <2>2, <2>3
<1>16. \A d \in Req : \A a \in DOMAIN buf[d] : a \in DOMAIN buf'[d] /\ buf'[d][a] = buf[d][a]
  <2>1. \A a \in DOMAIN buf[c] : a \in DOMAIN buf'[c] /\ buf'[c][a] = buf[c][a]
    BY <1>d, <1>6
  <2>2. \A d \in Req \ {c} : buf'[d] = buf[d]
    BY <1>5
  <2> QED  BY <2>1, <2>2
<1>17. SentInv'
  <2> SUFFICES ASSUME NEW j \in 1..(n + 1)
               PROVE  /\ chanOf[sent'[j]] \in Req
                      /\ \/ Returned(sent'[j])
                         \/ work[chanOf[sent'[j]]] = sent'[j]
                         \/ \E b \in DOMAIN buf'[chanOf[sent'[j]]] :
                               buf'[chanOf[sent'[j]]][b] = sent'[j]
    BY <1>u, <1>d DEF SentInv, Returned
  <2>1. CASE j = n + 1
    <3>1. m + 1 \in DOMAIN buf'[c]
      BY <1>3, <1>6
    <3> QED  BY <1>2, <1>6, <1>7, <2>1, <3>1 DEF c
  <2>2. CASE j # n + 1
    <3>1. j \in DOMAIN sent /\ sent'[j] = sent[j]
      BY <1>3, <1>7, <2>2
    <3> QED  BY <1>16, <3>1 DEF QueueInv, SentInv
  <2> QED  BY <2>1, <2>2
<1>18. OrderInv'
  <2> SUFFICES ASSUME NEW d \in Req, NEW a \in DOMAIN buf'[d],
                      NEW i \in 1..(n + 1), NEW j \in 1..(n + 1),
                      sent'[j] = buf'[d][a], i < j, Key(sent'[i]) = Key(sent'[j])
               PROVE  \/ Returned(sent'[i])
                      \/ work[d] = sent'[i]
                      \/ \E b \in DOMAIN buf'[d] : b < a /\ buf'[d][b] = sent'[i]
    BY <1>u, <1>d DEF OrderInv, Returned, Key, Target
  <2>1. i \in 1..n /\ sent'[i] = sent[i] /\ sent[i] \in Req
    BY <1>3, <1>7, <1>11
  <2>2. CASE d = c /\ a = m + 1
    <3>1. sent'[j] = r /\ Key(sent[i]) = Key(r)
      BY <1>6, <2>1, <2>2
    <3>2. chanOf[sent[i]] = c
      <4>1. chanOf[sent[i]] \in Req /\ chanOf[sent[i]] # NoReq
        BY <1>3, <2>1, QueueAssumption DEF QueueInv, SentInv
      <4>2. chanOf[sent[i]] = queues[Key(r)] /\ c = queues[Key(r)]
        BY <1>2, <2>1, <3>1, <4>1, QueueAssumption DEF QueueInv, ChanInv, c
      <4> QED  BY <4>2
    <3>3. \/ Returned(sent[i]) \/ work[c] = sent[i]
          \/ \E b \in DOMAIN buf[c] : buf[c][b] = sent[i]
      BY <1>3, <2>1, <3>2 DEF QueueInv, SentInv
    <3>4. \A b \in DOMAIN buf[c] : b \in DOMAIN buf'[c] /\ b < m + 1 /\ buf'[c][b] = buf[c][b]
      BY <1>3, <1>6
    <3> QED  BY <2>1, <2>2, <3>3, <3>4
  <2>3. CASE ~(d = c /\ a = m + 1)
    <3>1. a \in DOMAIN buf[d] /\ buf'[d][a] = buf[d][a]
      <4>1. CASE d # c
        BY <1>5, <4>1
      <4>2. CASE d = c
        BY <1>d, <1>6, <2>3, <4>2
      <4> QED  BY <4>1, <4>2
    <3>2. buf[d][a] # r
      BY <1>0, <1>1, <3>1, BufTypes DEF QueueInv, BufInv
    <3>3. j \in 1..n /\ sent'[j] = sent[j]
      BY <1>3, <1>7, <3>1, <3>2
    <3>4. \/ Returned(sent[i]) \/ work[d] = sent[i]
          \/ \E b \in DOMAIN buf[d] : b < a /\ buf[d][b] = sent[i]
      BY <1>3, <2>1, <3>1, <3>3 DEF QueueInv, OrderInv
    <3> QED  BY <1>16, <2>1, <3>4
  <2> QED  BY <2>2, <2>3
<1>19. ServedInOrder'
  <2> SUFFICES ASSUME NEW i \in 1..(n + 1), NEW j \in 1..(n + 1),
                      i < j, Key(sent'[i]) = Key(sent'[j]), pc[sent'[j]] # "idle"
               PROVE  Returned(sent'[i])
    BY <1>1, <1>7 DEF ServedInOrder, Returned, Key, Target
  <2>1. j # n + 1
    BY <1>2, <1>7
  <2>2. i \in DOMAIN sent /\ j \in DOMAIN sent /\ sent'[i] = sent[i] /\ sent'[j] = sent[j]
    BY <1>3, <1>7, <2>1
  <2> QED  BY <2>2 DEF QueueInv, ServedInOrder
<1>20. RecInv' /\ RepliedInv'
  BY <1>1 DEF QueueInv, RecInv, RepliedInv, Target, Returned
<1>21. ReplyIsTruthful'
  BY <1>1, <1>8 DEF QueueInv, ReplyIsTruthful, Returned
<1> QED
  BY <1>12, <1>13, <1>14, <1>15, <1>17, <1>18, <1>19, <1>20, <1>21 DEF QueueInv

-----------------------------------------------------------------------------
(* worker *)

\* The worker of c is idle, so all that was sent before the head has returned.
LEMMA WorkerTakeStep ==
  ASSUME QueueInv, NEW c \in Req, WorkerTake(c)
  PROVE  QueueInv'
<1> DEFINE r == Head(buf[c])
           m == Len(buf[c])
<1>0. TypeOK /\ QueueTypeOK
  BY DEF QueueInv, IndInv
<1>1. /\ work[c] = NoReq /\ buf[c] # <<>> /\ Call(r)
      /\ work' = [work EXCEPT ![c] = r]
      /\ buf' = [buf EXCEPT ![c] = Tail(buf[c])]
      /\ UNCHANGED <<pod, caller, reply, queues, chanOf, replied, sent>>
  BY DEF WorkerTake
<1>2. /\ m \in Nat /\ DOMAIN buf[c] = 1..m /\ buf[c] \in Seq(Req)
      /\ \A a \in 1..m : buf[c][a] \in Req
  BY <1>0, BufTypes
<1>3. m \in Nat \ {0}
  BY <1>1, <1>2, EmptySeq
<1>4. /\ r \in Req /\ r = buf[c][1]
      /\ Tail(buf[c]) \in Seq(Req) /\ Len(Tail(buf[c])) = m - 1
      /\ \A a \in 1..(m - 1) : Tail(buf[c])[a] = buf[c][a + 1]
  BY <1>1, <1>2, HeadTailProperties
<1>5. /\ pc[r] = "idle" /\ pc'[r] = "called" /\ \A q \in Req \ {r} : pc'[q] = pc[q]
      /\ UNCHANGED <<args, rec, ctxDone, result>>
  BY <1>0, <1>1, <1>4, CallFacts
<1>6. /\ work'[c] = r /\ \A d \in Req \ {c} : work'[d] = work[d]
      /\ buf'[c] = Tail(buf[c]) /\ \A d \in Req \ {c} : buf'[d] = buf[d]
      /\ work' \in [Req -> Req \cup {NoReq}] /\ buf' \in [Req -> Seq(Req)]
  BY <1>0, <1>1, <1>4 DEF QueueTypeOK
<1>7. /\ DOMAIN buf'[c] = 1..(m - 1) /\ Len(buf'[c]) = m - 1
      /\ \A a \in 1..(m - 1) : buf'[c][a] = buf[c][a + 1]
  BY <1>4, <1>6, LenProperties
<1>8. chanOf[r] = c /\ caller[r] \in {"await", "returned"}
  BY <1>2, <1>3, <1>4 DEF QueueInv, BufInv
<1>9. \A q \in Req : (Returned(q))' = Returned(q) /\ Key(q)' = Key(q)
  BY <1>1, <1>5 DEF Returned, Key, Target
<1>10. IndInv'
  BY <1>1, <1>4, RequestStepInd DEF QueueInv
<1> HIDE DEF r, m
<1>11. QueueTypeOK'
  <2>1. \A d \in Req : Len(buf'[d]) <= QueueCapacity
    <3>1. m - 1 <= QueueCapacity
      BY <1>0, <1>2, <1>3, QueueAssumption DEF QueueTypeOK, m
    <3> QED  BY <1>0, <1>6, <1>7, <3>1 DEF QueueTypeOK
  <2> QED  BY <1>0, <1>1, <1>6, <2>1 DEF QueueTypeOK, Keys
<1>12. ChanInv'
  BY <1>1, <1>9 DEF QueueInv, ChanInv
<1>13. BufInv'
  <2> SUFFICES ASSUME NEW d \in Req, NEW a \in DOMAIN buf'[d]
               PROVE  caller[buf'[d][a]] \in {"await", "returned"} /\ chanOf[buf'[d][a]] = d
    BY <1>1 DEF BufInv
  <2>1. CASE d # c
    BY <1>6, <2>1 DEF QueueInv, BufInv
  <2>2. CASE d = c
    <3>1. a + 1 \in DOMAIN buf[c] /\ buf'[c][a] = buf[c][a + 1]
      BY <1>2, <1>3, <1>7, <2>2
    <3> QED  BY <2>2, <3>1 DEF QueueInv, BufInv
  <2> QED  BY <2>1, <2>2
<1>14. WorkInv'
  <2> SUFFICES ASSUME NEW q \in Req, pc'[q] # "idle"
               PROVE  /\ caller[q] \in {"await", "returned"}
                      /\ Returned(q) \/ (chanOf[q] \in Req /\ work'[chanOf[q]] = q)
    BY <1>1, <1>9 DEF WorkInv
  <2>1. CASE q = r
    BY <1>6, <1>8, <2>1
  <2>2. CASE q # r
    <3>1. pc[q] # "idle"
      BY <1>5, <2>2
    <3>2. /\ caller[q] \in {"await", "returned"}
          /\ Returned(q) \/ (chanOf[q] \in Req /\ work[chanOf[q]] = q)
      BY <3>1 DEF QueueInv, WorkInv
    <3> QED  BY <1>1, <1>6, <3>2, QueueAssumption
  <2> QED  BY <2>1, <2>2
\* What was ahead in the buffer still is, or is what the worker has taken.
<1>15. ASSUME NEW b \in 1..m, b # 1
       PROVE  b - 1 \in DOMAIN buf'[c] /\ buf'[c][b - 1] = buf[c][b]
  BY <1>2, <1>7, <1>15
<1>16. SentInv'
  <2> SUFFICES ASSUME NEW j \in DOMAIN sent
               PROVE  /\ chanOf[sent[j]] \in Req
                      /\ \/ Returned(sent[j])
                         \/ work'[chanOf[sent[j]]] = sent[j]
                         \/ \E b \in DOMAIN buf'[chanOf[sent[j]]] :
                               buf'[chanOf[sent[j]]][b] = sent[j]
    BY <1>0, <1>1, <1>9, SentTypes DEF SentInv
  <2> DEFINE d == chanOf[sent[j]]
  <2>1. /\ d \in Req /\ sent[j] \in Req
        /\ \/ Returned(sent[j]) \/ work[d] = sent[j]
           \/ \E b \in DOMAIN buf[d] : buf[d][b] = sent[j]
    BY <1>0, SentTypes DEF QueueInv, SentInv
  <2> HIDE DEF d
  <2>2. CASE d # c
    BY <1>6, <2>1, <2>2 DEF d
  <2>3. CASE d = c /\ \E b \in DOMAIN buf[c] : buf[c][b] = sent[j]
    <3>1. PICK b \in 1..m : buf[c][b] = sent[j]
      BY <1>2, <2>3
    <3>2. CASE b = 1
      BY <1>4, <1>6, <2>1, <2>3, <3>1, <3>2 DEF d
    <3>3. CASE b # 1
      BY <1>15, <2>1, <2>3, <3>1, <3>3 DEF d
    <3> QED  BY <3>2, <3>3
  <2>4. CASE d = c /\ (Returned(sent[j]) \/ work[c] = sent[j])
    BY <1>1, <2>1, <2>4, QueueAssumption DEF d
  <2> QED  BY <2>1, <2>2, <2>3, <2>4
<1>17. OrderInv'
  <2> SUFFICES ASSUME NEW d \in Req, NEW a \in DOMAIN buf'[d],
                      NEW i \in DOMAIN sent, NEW j \in DOMAIN sent,
                      sent[j] = buf'[d][a], i < j, Key(sent[i]) = Key(sent[j])
               PROVE  \/ Returned(sent[i])
                      \/ work'[d] = sent[i]
                      \/ \E b \in DOMAIN buf'[d] : b < a /\ buf'[d][b] = sent[i]
    BY <1>0, <1>1, <1>9, SentTypes DEF OrderInv
  <2>0. sent[i] \in Req
    BY <1>0, SentTypes
  <2>1. CASE d # c
    <3>1. work'[d] = work[d] /\ buf'[d] = buf[d]
      BY <1>6, <2>1
    <3> QED  BY <3>1 DEF QueueInv, OrderInv
  <2>2. CASE d = c
    <3>1. a \in 1..(m - 1) /\ a + 1 \in DOMAIN buf[c] /\ buf'[c][a] = buf[c][a + 1]
      BY <1>2, <1>3, <1>7, <2>2
    <3>2. \/ Returned(sent[i]) \/ work[c] = sent[i]
          \/ \E b \in DOMAIN buf[c] : b < a + 1 /\ buf[c][b] = sent[i]
      BY <2>2, <3>1 DEF QueueInv, OrderInv
    <3>3. CASE \E b \in DOMAIN buf[c] : b < a + 1 /\ buf[c][b] = sent[i]
      <4>1. PICK b \in 1..m : b < a + 1 /\ buf[c][b] = sent[i]
        BY <1>2, <3>3
      <4>2. CASE b = 1
        BY <1>4, <1>6, <2>2, <4>1, <4>2
      <4>3. CASE b # 1
        <5>1. b - 1 < a
          BY <3>1, <4>1, <1>3
        <5> QED  BY <1>15, <2>2, <4>1, <4>3, <5>1
      <4> QED  BY <4>2, <4>3
    <3>4. CASE Returned(sent[i]) \/ work[c] = sent[i]
      BY <1>1, <2>0, <3>4, QueueAssumption
    <3> QED  BY <3>2, <3>3, <3>4
  <2> QED  BY <2>1, <2>2
<1>18. ServedInOrder'
  <2> SUFFICES ASSUME NEW i \in DOMAIN sent, NEW j \in DOMAIN sent,
                      i < j, Key(sent[i]) = Key(sent[j]), pc'[sent[j]] # "idle"
               PROVE  Returned(sent[i])
    BY <1>0, <1>1, <1>9, SentTypes DEF ServedInOrder
  <2>0. sent[i] \in Req /\ sent[j] \in Req
    BY <1>0, SentTypes
  <2>1. CASE sent[j] # r
    BY <1>5, <2>0, <2>1 DEF QueueInv, ServedInOrder
  <2>2. CASE sent[j] = r
    <3>1. 1 \in DOMAIN buf[c] /\ sent[j] = buf[c][1]
      BY <1>2, <1>3, <1>4, <2>2
    <3>2. \A b \in DOMAIN buf[c] : ~(b < 1)
      BY <1>2
    <3>3. Returned(sent[i]) \/ work[c] = sent[i]
      BY <3>1, <3>2 DEF QueueInv, OrderInv
    <3> QED  BY <1>1, <2>0, <3>3, QueueAssumption
  <2> QED  BY <2>1, <2>2
<1>19. RecInv'
  BY <1>5 DEF QueueInv, RecInv, Target
<1>20. RepliedInv'
  BY <1>0, <1>1, <1>9 DEF QueueInv, RepliedInv, QueueTypeOK
<1>21. ReplyIsTruthful'
  BY <1>1, <1>5, <1>9 DEF QueueInv, ReplyIsTruthful
<1> QED
  BY <1>10, <1>11, <1>12, <1>13, <1>14, <1>16, <1>17, <1>18, <1>19, <1>20, <1>21 DEF QueueInv

\* The one-slot response channel takes the answer of the request that returned.
LEMMA WorkerReplyStep ==
  ASSUME QueueInv, NEW c \in Req, WorkerReply(c)
  PROVE  QueueInv'
<1> DEFINE w == work[c]
<1>0. QueueTypeOK
  BY DEF QueueInv
<1>1. /\ UNCHANGED repoVars
      /\ UNCHANGED <<pod, caller, reply, queues, chanOf, buf, sent>>
      /\ UNCHANGED <<args, pc, rec, ctxDone, result>>
      /\ w # NoReq /\ Returned(w) /\ replied' = replied \cup {w}
      /\ work' = [work EXCEPT ![c] = NoReq]
  BY DEF WorkerReply, repoVars
<1>2. w \in Req
  BY <1>0, <1>1 DEF QueueTypeOK
<1>3. /\ work'[c] = NoReq /\ \A d \in Req \ {c} : work'[d] = work[d]
      /\ work' \in [Req -> Req \cup {NoReq}]
  BY <1>0, <1>1 DEF QueueTypeOK
<1>4. \A d \in Req : \A q \in Req : work[d] = q => Returned(q) \/ work'[d] = q
  BY <1>1, <1>3 DEF w
<1> HIDE DEF w
<1>5. QueueTypeOK'
  BY <1>0, <1>1, <1>2, <1>3 DEF QueueTypeOK, Keys
<1>6. IndInv'
  BY <1>1, StutterInd DEF QueueInv
<1>u. UNCHANGED <<pod, caller, queues, chanOf, buf, sent, args, pc>>
  BY <1>1
<1>7. ChanInv' /\ BufInv' /\ ServedInOrder'
  BY <1>u DEF QueueInv, ChanInv, BufInv, ServedInOrder, Key, Target, Returned
<1>8. WorkInv'
  BY <1>u, <1>4 DEF QueueInv, WorkInv, Returned
<1>9. SentInv'
  BY <1>0, <1>u, <1>4, SentTypes DEF QueueInv, SentInv, Returned
<1>10. OrderInv'
  <2> SUFFICES ASSUME NEW d \in Req, NEW a \in DOMAIN buf[d],
                      NEW i \in DOMAIN sent, NEW j \in DOMAIN sent,
                      sent[j] = buf[d][a], i < j, Key(sent[i]) = Key(sent[j])
               PROVE  \/ Returned(sent[i])
                      \/ work'[d] = sent[i]
                      \/ \E b \in DOMAIN buf[d] : b < a /\ buf[d][b] = sent[i]
    BY <1>u DEF OrderInv, Returned, Key, Target
  <2>1. \/ Returned(sent[i]) \/ work[d] = sent[i]
        \/ \E b \in DOMAIN buf[d] : b < a /\ buf[d][b] = sent[i]
    BY DEF QueueInv, OrderInv
  <2>2. sent[i] \in Req
    BY <1>0, SentTypes
  <2> QED  BY <1>4, <2>1, <2>2
<1>11. RecInv' /\ ReplyIsTruthful'
  BY <1>1 DEF QueueInv, RecInv, ReplyIsTruthful, Target, Returned
<1>12. RepliedInv'
  BY <1>1 DEF QueueInv, RepliedInv, Returned
<1> QED
  BY <1>5, <1>6, <1>7, <1>8, <1>9, <1>10, <1>11, <1>12 DEF QueueInv

-----------------------------------------------------------------------------
(* The database, and the contexts *)

\* A step that leaves the queue alone, by which nothing returns to be unreturned
\* and nobody but a worker calls the repository.
LEMMA RepoSideStep ==
  ASSUME QueueInv, IndInv', UNCHANGED queueVars, UNCHANGED args, ctxDone \subseteq ctxDone',
         \A q \in Req : /\ pc'[q] = "idle" <=> pc[q] = "idle"
                        /\ Returned(q) => Returned(q)' /\ result'[q] = result[q]
                        /\ rec'[q] \in {rec[q], {}, {Target(q)}}
  PROVE  QueueInv'
<1>0. QueueTypeOK
  BY DEF QueueInv
<1>1. UNCHANGED <<pod, caller, reply, queues, chanOf, buf, work, replied, sent>>
  BY DEF queueVars
<1>2. \A q \in Req : Key(q)' = Key(q) /\ Target(q)' = Target(q)
  BY <1>1 DEF Key, Target
<1>3. QueueTypeOK'
  BY <1>0, <1>1 DEF QueueTypeOK, Keys
<1>4. ChanInv' /\ BufInv'
  BY <1>1, <1>2 DEF QueueInv, ChanInv, BufInv
<1>5. WorkInv'
  BY <1>1 DEF QueueInv, WorkInv
<1>6. SentInv'
  BY <1>0, <1>1, SentTypes DEF QueueInv, SentInv
<1>7. OrderInv'
  <2> SUFFICES ASSUME NEW d \in Req, NEW a \in DOMAIN buf[d],
                      NEW i \in DOMAIN sent, NEW j \in DOMAIN sent,
                      sent[j] = buf[d][a], i < j, Key(sent[i]) = Key(sent[j])
               PROVE  \/ Returned(sent[i])'
                      \/ work[d] = sent[i]
                      \/ \E b \in DOMAIN buf[d] : b < a /\ buf[d][b] = sent[i]
    BY <1>0, <1>1, <1>2, SentTypes DEF OrderInv
  <2>1. \/ Returned(sent[i]) \/ work[d] = sent[i]
        \/ \E b \in DOMAIN buf[d] : b < a /\ buf[d][b] = sent[i]
    BY DEF QueueInv, OrderInv
  <2>2. sent[i] \in Req
    BY <1>0, SentTypes
  <2>3. Returned(sent[i]) => Returned(sent[i])'
    BY <1>1, <2>2 DEF Returned
  <2> QED  BY <2>1, <2>3
<1>8. ServedInOrder'
  <2> SUFFICES ASSUME NEW i \in DOMAIN sent, NEW j \in DOMAIN sent,
                      i < j, Key(sent[i]) = Key(sent[j]), pc'[sent[j]] # "idle"
               PROVE  Returned(sent[i])'
    BY <1>0, <1>1, <1>2, SentTypes DEF ServedInOrder
  <2>1. sent[i] \in Req /\ sent[j] \in Req
    BY <1>0, SentTypes
  <2>2. Returned(sent[i])
    BY <2>1 DEF QueueInv, ServedInOrder
  <2> QED  BY <1>1, <2>1, <2>2 DEF Returned
<1>9. RecInv'
  BY <1>2 DEF QueueInv, RecInv
<1>10. RepliedInv'
  BY <1>0, <1>1 DEF QueueInv, RepliedInv, QueueTypeOK
<1>11. ReplyIsTruthful'
  BY <1>1 DEF QueueInv, ReplyIsTruthful
<1> QED
  BY <1>3, <1>4, <1>5, <1>6, <1>7, <1>8, <1>9, <1>10, <1>11 DEF QueueInv

LEMMA RepoRunsStep ==
  ASSUME QueueInv, NEW r \in Req, RepoRuns(r) \/ RequestCtxExpire(r)
  PROVE  QueueInv'
<1>0. IndInv /\ TypeOK
  BY DEF QueueInv, IndInv
<1>1. CASE RepoRuns(r)
  <2>1. RepoStep(r) /\ UNCHANGED queueVars
    BY <1>1 DEF RepoRuns
  <2>2. IndInv'
    BY <1>0, <2>1, RequestStepInd
  <2>3. /\ pc[r] # "idle" /\ ~Returned(r) /\ pc'[r] # "idle"
        /\ \A q \in Req \ {r} :
              pc'[q] = pc[q] /\ result'[q] = result[q] /\ rec'[q] = rec[q]
        /\ rec'[r] \in {rec[r], {}, {Target(r)}}
        /\ UNCHANGED <<args, ctxDone>>
    BY <1>0, <2>1, RepoFacts
  <2>4. \A q \in Req : /\ pc'[q] = "idle" <=> pc[q] = "idle"
                       /\ Returned(q) => Returned(q)' /\ result'[q] = result[q]
                       /\ rec'[q] \in {rec[q], {}, {Target(q)}}
    BY <2>3 DEF Returned
  <2> QED  BY <2>1, <2>2, <2>3, <2>4, RepoSideStep
<1>2. CASE RequestCtxExpire(r)
  <2>1. CtxExpire(r) /\ UNCHANGED queueVars
    BY <1>2 DEF RequestCtxExpire
  <2>2. IndInv'
    BY <1>0, <2>1, RequestStepInd
  <2>3. UNCHANGED <<args, pc, rec, result>> /\ ctxDone \subseteq ctxDone'
    BY <2>1 DEF CtxExpire
  <2>4. \A q \in Req : /\ pc'[q] = "idle" <=> pc[q] = "idle"
                       /\ Returned(q) => Returned(q)' /\ result'[q] = result[q]
                       /\ rec'[q] \in {rec[q], {}, {Target(q)}}
    BY <2>3 DEF Returned
  <2> QED  BY <2>1, <2>2, <2>3, <2>4, RepoSideStep
<1> QED  BY <1>1, <1>2

LEMMA QueueNextInv == QueueInv /\ [QueueNext]_allVars => QueueInv'
<1> SUFFICES ASSUME QueueInv, [QueueNext]_allVars PROVE QueueInv'
  OBVIOUS
<1>1. ASSUME NEW r \in Req, ApplyStep(r) PROVE QueueInv'
  BY <1>1, ReturningSteps, GetOrCreateStep, EnqueueStep DEF ApplyStep
<1>2. ASSUME NEW r \in Req, RequestCtxExpire(r) \/ RepoRuns(r) PROVE QueueInv'
  BY <1>2, RepoRunsStep
<1>3. ASSUME NEW c \in Req, WorkerStep(c) PROVE QueueInv'
  BY <1>3, WorkerTakeStep, WorkerReplyStep DEF WorkerStep
<1>4. CASE UNCHANGED allVars
  <2>1. UNCHANGED queueVars /\ UNCHANGED repoVars
    BY <1>4 DEF allVars
  <2>2. IndInv'
    BY <2>1, StutterInd DEF QueueInv
  <2>3. UNCHANGED <<args, pc, rec, ctxDone, result>>
    BY <2>1 DEF repoVars
  <2>4. \A q \in Req : /\ pc'[q] = "idle" <=> pc[q] = "idle"
                       /\ Returned(q) => Returned(q)' /\ result'[q] = result[q]
                       /\ rec'[q] \in {rec[q], {}, {Target(q)}}
    BY <2>3 DEF Returned
  <2> QED  BY <2>1, <2>2, <2>3, <2>4, RepoSideStep
<1> QED  BY <1>1, <1>2, <1>3, <1>4 DEF QueueNext

LEMMA QueueSafety == QueueSpec => []QueueInv
BY QueueInitInv, QueueNextInv, PTL DEF QueueSpec

-----------------------------------------------------------------------------

\* The queue's maps, channels and replies keep their types; no channel ever holds
\* more than QueueCapacity requests.
THEOREM QueueTypeCorrect == QueueSpec => []QueueTypeOK
<1>1. QueueInv => QueueTypeOK
  BY DEF QueueInv
<1> QED  BY <1>1, QueueSafety, PTL

\* Apply and worker: the requests of one player at one pod reach the database in
\* the order of their sends, one at a time, for any number of pods and requests.
THEOREM QueueServesInOrder == QueueSpec => []ServedInOrder
<1>1. QueueInv => ServedInOrder
  BY DEF QueueInv
<1> QED  BY <1>1, QueueSafety, PTL

LEMMA QueueNeverWaits == QueueInv => NoRowLockWait
<1> SUFFICES ASSUME QueueInv, NEW r \in Req, NEW s \in Req, r # s, pod[r] = pod[s],
                    pc[r] = "begun", Target(r) \in rec[s]
             PROVE  FALSE
  BY DEF NoRowLockWait
<1>1. Target(r) = Target(s) /\ Key(r) = Key(s)
  BY DEF QueueInv, RecInv, Key
<1>2. pc[s] # "idle" /\ ~Returned(s) /\ ~Returned(r)
  BY DEF QueueInv, IndInv, LockInv, Writing, Returned
<1>3. /\ chanOf[r] \in Req /\ work[chanOf[r]] = r
      /\ chanOf[s] \in Req /\ work[chanOf[s]] = s
  BY <1>2 DEF QueueInv, WorkInv
<1>4. chanOf[r] = chanOf[s]
  BY <1>1, <1>3, QueueAssumption DEF QueueInv, ChanInv
<1> QED  BY <1>3, <1>4

\* One worker for each channel: no transaction of a pod waits for the row lock of
\* another transaction of the same pod.
THEOREM NoWaitWithinPod == QueueSpec => []NoRowLockWait
BY QueueNeverWaits, QueueSafety, PTL

\* What Apply returns is the repository's result for this very request, or an
\* error after the context ended or the damage was refused.
THEOREM RepliesAreTruthful == QueueSpec => []ReplyIsTruthful
<1>1. QueueInv => ReplyIsTruthful
  BY DEF QueueInv
<1> QED  BY <1>1, QueueSafety, PTL

\* Behind the queue, too, the committed HP accounts for every committed damage.
THEOREM QueueLosesNoDamage == QueueSpec => []NoLostDamage
<1>1. QueueInv => NoLostDamage
  BY DEF QueueInv, IndInv
<1> QED  BY <1>1, QueueSafety, PTL

\* Behind the queue, too, no INSERT of a first row meets a record or a gap lock
\* that another transaction could have put a record under: pods share the table.
THEOREM QueueInsertNeverCollides == QueueSpec => []NoDuplicateInsert
<1>1. QueueInv => NoDuplicateInsert
  BY DEF QueueInv, IndInv, LockInv, Writing, NoDuplicateInsert, HasRecord
<1> QED  BY <1>1, QueueSafety, PTL

LEMMA QueueRefines == QueueInv /\ [QueueNext]_allVars => [Ledger!Next]_(Ledger!ledgerVars)
<1> SUFFICES ASSUME QueueInv, [QueueNext]_allVars
             PROVE  [Ledger!Next]_(Ledger!ledgerVars)
  OBVIOUS
<1>1. IndInv
  BY DEF QueueInv
<1>2. CASE UNCHANGED repoVars
  BY <1>2 DEF repoVars, Ledger!ledgerVars
<1>3. ASSUME NEW r \in Req, Call(r) \/ RepoStep(r) \/ CtxExpire(r)
      PROVE  [Ledger!Next]_(Ledger!ledgerVars)
  BY <1>1, <1>3, RequestStepRefines
<1>4. ASSUME NEW c \in Req, WorkerTake(c)
      PROVE  [Ledger!Next]_(Ledger!ledgerVars)
  <2>1. buf[c] \in Seq(Req) /\ buf[c] # <<>> /\ Call(Head(buf[c]))
    BY <1>4, BufTypes DEF WorkerTake, QueueInv
  <2>2. Head(buf[c]) \in Req
    BY <2>1, HeadTailProperties
  <2> QED  BY <1>3, <2>1, <2>2
<1> QED
  BY <1>2, <1>3, <1>4 DEF QueueNext, allVars, ApplyStep, ApplyInvalid, GetOrCreate, Enqueue,
     EnqueueTimeout, Receive, AwaitTimeout, Return, RequestCtxExpire, RepoRuns, WorkerStep,
     WorkerReply

\* V2UserQueue over MySQL implements the atomic ledger: whichever pod a request
\* comes to, and whether or not its caller still waits, it takes effect at most
\* once and its result is the HP its own COMMIT left.
THEOREM QueueImplementsLedger == QueueSpec => ImplementsLedger
<1>1. QueueInit => Ledger!Init
  BY DEF QueueInit, Init, Ledger!Init
<1> QED
  BY <1>1, QueueRefines, QueueSafety, PTL DEF QueueSpec, ImplementsLedger, Ledger!Spec

-----------------------------------------------------------------------------
(***************************************************************************)
(* The service as Build composes it.  Under V1Naive the queue's variables  *)
(* keep their initial values.                                              *)
(***************************************************************************)

Unqueued ==
  /\ caller = [r \in Req |-> "new"]
  /\ chanOf = [r \in Req |-> NoReq]
  /\ sent = <<>>

BattleInv ==
  /\ impl \in {"naive", "queue"}
  /\ impl = "naive" => IndInv /\ Unqueued
  /\ impl = "queue" => QueueInv

LEMMA BattleInitInv == BattleInit => BattleInv
<1> SUFFICES ASSUME BattleInit PROVE BattleInv
  OBVIOUS
<1>1. impl \in {"naive", "queue"}
  BY DEF BattleInit, Build
<1>2. IndInv /\ QueueInv
  BY InitInd, QueueInitInv DEF BattleInit, QueueInit
<1>3. Unqueued
  BY DEF BattleInit, QueueInit, Unqueued
<1> QED  BY <1>1, <1>2, <1>3 DEF BattleInv

LEMMA BattleNextInv == BattleInv /\ [BattleNext]_battleVars => BattleInv'
<1> SUFFICES ASSUME BattleInv, [BattleNext]_battleVars PROVE BattleInv'
  OBVIOUS
<1>1. impl' = impl
  BY DEF BattleNext, battleVars
<1>2. ASSUME impl = "naive" PROVE IndInv' /\ Unqueued'
  <2>1. [Next]_repoVars /\ UNCHANGED queueVars
    BY <1>2 DEF BattleNext, V1Naive, V2UserQueue, battleVars, allVars
  <2>2. IndInv /\ Unqueued
    BY <1>2 DEF BattleInv
  <2>3. IndInv'
    BY <2>1, <2>2, NextInd
  <2>4. Unqueued'
    BY <2>1, <2>2 DEF Unqueued, queueVars
  <2> QED  BY <2>3, <2>4
<1>3. ASSUME impl = "queue" PROVE QueueInv'
  <2>1. [QueueNext]_allVars
    BY <1>3 DEF BattleNext, V1Naive, V2UserQueue, battleVars
  <2>2. QueueInv
    BY <1>3 DEF BattleInv
  <2> QED  BY <2>1, <2>2, QueueNextInv
<1> QED  BY <1>1, <1>2, <1>3 DEF BattleInv

LEMMA BattleSafety == BattleSpec => []BattleInv
BY BattleInitInv, BattleNextInv, PTL DEF BattleSpec

\* Whichever implementation BATTLE_IMPL selects: HP accounts for every committed
\* hit, a first hit's INSERT meets no row, requests of a channel are served in
\* order and without waiting for one another's rows, and replies are truthful.
THEOREM BattleIsSafe ==
  BattleSpec => [](/\ TypeOK /\ NoLostDamage /\ NoDuplicateInsert
                   /\ ServedInOrder /\ NoRowLockWait /\ ReplyIsTruthful)
<1>1. ASSUME IndInv PROVE TypeOK /\ NoLostDamage /\ NoDuplicateInsert
  <2>1. TypeOK /\ NoLostDamage
    BY <1>1 DEF IndInv
  <2>2. NoDuplicateInsert
    BY <1>1 DEF IndInv, LockInv, Writing, NoDuplicateInsert, HasRecord
  <2> QED  BY <2>1, <2>2
<1>2. ASSUME Unqueued PROVE ServedInOrder /\ NoRowLockWait /\ ReplyIsTruthful
  BY <1>2 DEF Unqueued, ServedInOrder, NoRowLockWait, ReplyIsTruthful
<1>3. ASSUME QueueInv PROVE IndInv /\ ServedInOrder /\ NoRowLockWait /\ ReplyIsTruthful
  <2>1. IndInv /\ ServedInOrder /\ ReplyIsTruthful
    BY <1>3 DEF QueueInv
  <2> QED  BY <1>3, <2>1, QueueNeverWaits
<1>4. BattleInv => /\ TypeOK /\ NoLostDamage /\ NoDuplicateInsert
                   /\ ServedInOrder /\ NoRowLockWait /\ ReplyIsTruthful
  BY <1>1, <1>2, <1>3 DEF BattleInv
<1> QED  BY <1>4, BattleSafety, PTL

\* The battle service implements the atomic ledger under both implementations: a
\* request takes effect at most once, and a success is the HP its COMMIT left.
THEOREM BattleImplementsLedger == BattleSpec => ImplementsLedger
<1>1. BattleInit => Ledger!Init
  BY DEF BattleInit, QueueInit, Init, Ledger!Init
<1>2. BattleInv /\ [BattleNext]_battleVars => [Ledger!Next]_(Ledger!ledgerVars)
  <2> SUFFICES ASSUME BattleInv, [BattleNext]_battleVars
               PROVE  [Ledger!Next]_(Ledger!ledgerVars)
    OBVIOUS
  <2>1. CASE impl = "naive"
    <3>1. IndInv
      BY <2>1 DEF BattleInv
    <3>2. [Next]_repoVars
      BY <2>1 DEF BattleNext, V1Naive, V2UserQueue, battleVars, allVars
    <3> QED  BY <3>1, <3>2, NaiveRefines
  <2>2. CASE impl = "queue"
    <3>1. QueueInv
      BY <2>2 DEF BattleInv
    <3>2. [QueueNext]_allVars
      BY <2>2 DEF BattleNext, V1Naive, V2UserQueue, battleVars
    <3> QED  BY <3>1, <3>2, QueueRefines
  <2> QED  BY <2>1, <2>2 DEF BattleInv
<1> QED
  BY <1>1, <1>2, BattleSafety, PTL DEF BattleSpec, ImplementsLedger, Ledger!Spec
==============================================================================
