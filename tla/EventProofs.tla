----------------------------- MODULE EventProofs -----------------------------
(***************************************************************************)
(* The event service over its repository, for any number of concurrent     *)
(* calls, events and players, any windows and reward lists and every       *)
(* deployment.                                                             *)
(*                                                                         *)
(* Four arguments share the types.  The call that created an event is the  *)
(* only one that inserts its tiers, and what it has still to insert        *)
(* completes what is there to what was asked for (TierInv).  What MySQL    *)
(* keeps of a window is the rounded window, never an inverted one          *)
(* (WindowInv).  Tiers are only added, points only grow and an event that  *)
(* is over stays over, so what GetRewards has read stays a lower bound     *)
(* while it reads on (ViewInv).  A call that has stored points owes them   *)
(* to the leaderboard until it settles or gives up: the books balance      *)
(* (BoardInv).                                                             *)
(***************************************************************************)
EXTENDS Event, SequenceTheorems, FiniteSetTheorems, TLAPS

\* s is how t begins.
Begins(s, t) == Len(s) <= Len(t) /\ \A i \in 1..Len(s) : s[i] = t[i]

TierInv ==
  /\ \A e \in Id : Begins(tiers[e], wanted[e])
  /\ \A e \in Id : events[e] = None => tiers[e] = <<>>
  /\ \A c \in Caller : phase[c] = "tiers" =>
        /\ events[arg[c][1]] # None
        /\ wanted[arg[c][1]] = tiers[arg[c][1]] \o todo[c]
  /\ \A c, d \in Caller :
        phase[c] = "tiers" /\ phase[d] = "tiers" /\ arg[c][1] = arg[d][1] => c = d

WindowInv ==
  \A e \in Id : events[e] # None =>
     /\ asked[e] \in Windows
     /\ events[e] = StoredWindow(asked[e])
     /\ events[e].start <= events[e].end

\* What GetRewards has read so far is what the repository would still grant.
ViewSound(c) ==
  /\ phase[c] \in {"viewTiers", "viewPoints", "viewStatus", "viewClaimable", "viewed"} =>
        events[arg[c][1]] # None
  /\ phase[c] \in {"viewPoints", "viewStatus", "viewClaimable", "viewed"} =>
        Range(view[c].tiers) \subseteq Range(tiers[arg[c][1]])
  /\ phase[c] \in {"viewStatus", "viewClaimable", "viewed"} =>
        view[c].points <= scores[arg[c]]
  /\ phase[c] \in {"viewClaimable", "viewed"} /\ view[c].status = "ENDED" =>
        Now(c) = "ENDED"
  /\ phase[c] = "viewed" => /\ view[c].status = "ENDED" => view[c].claimable
                            /\ view[c].claimable => Now(c) = "ENDED"

ViewInv == \A c \in Caller : ViewSound(c)

EventInv == TypeOK /\ TierInv /\ WindowInv /\ ViewInv

-----------------------------------------------------------------------------
(* Rounding, windows and the clock *)

\* A TIMESTAMP is at most half a second away from what was stored.
LEMMA KeptIsClose ==
  ASSUME NEW t \in Nat
  PROVE  /\ Kept(t) \in Nat
         /\ OnMySQL => 2 * Kept(t) - 2 * t \in (-Second)..Second
         /\ ~OnMySQL => Kept(t) = t
<1> DEFINE q == (2 * t + Second) \div (2 * Second)
<1>1. Second \in Nat \ {0} /\ 2 * Second \in Nat \ {0} /\ 2 * t + Second \in Nat
  BY EventAssumption
<1>2. q \in Nat
  BY <1>1
<1>3. q * (2 * Second) <= 2 * t + Second /\ 2 * t + Second < q * (2 * Second) + 2 * Second
  BY <1>1
<1> HIDE DEF q
<1>4. q * (2 * Second) = 2 * (q * Second) /\ q * Second \in Nat
  BY <1>1, <1>2
<1>5. 2 * (q * Second) - 2 * t \in (-Second)..Second
  BY <1>1, <1>3, <1>4
<1>6. CASE OnMySQL
  <2>1. Kept(t) = q * Second
    BY <1>6 DEF Kept, q
  <2> QED
    BY <1>4, <1>5, <1>6, <2>1
<1>7. CASE ~OnMySQL
  BY <1>7 DEF Kept
<1> QED
  BY <1>6, <1>7

\* Rounding never swaps two instants.
LEMMA KeptIsMonotonic ==
  ASSUME NEW t \in Nat, NEW u \in Nat, t <= u
  PROVE  Kept(t) <= Kept(u)
<1> DEFINE a == (2 * t + Second) \div (2 * Second)
           b == (2 * u + Second) \div (2 * Second)
<1>1. /\ Second \in Nat \ {0} /\ 2 * Second \in Nat \ {0}
      /\ 2 * t + Second \in Nat /\ 2 * u + Second \in Nat /\ 2 * t + Second <= 2 * u + Second
  BY EventAssumption
<1>2. a \in Nat /\ b \in Nat /\ a <= b
  BY <1>1
<1>3. (OnMySQL => Kept(t) = a * Second /\ Kept(u) = b * Second)
      /\ (~OnMySQL => Kept(t) = t /\ Kept(u) = u)
  BY DEF Kept
<1> HIDE DEF a, b
<1>4. a * Second <= b * Second
  BY <1>1, <1>2
<1> QED
  BY <1>3, <1>4

LEMMA StatusCases ==
  ASSUME NEW w \in Window, w.start <= w.end, NEW now \in Nat
  PROVE  /\ StatusAt(w, now) \in {"UPCOMING", "ONGOING", "ENDED"}
         /\ StatusAt(w, now) = "ENDED" <=> now > w.end
         /\ StatusAt(w, now) = "ONGOING" <=> w.start <= now /\ now <= w.end
<1>1. w.start \in Nat /\ w.end \in Nat
  BY DEF Window
<1>2. CASE now < w.start
  BY <1>1, <1>2 DEF StatusAt
<1>3. CASE now > w.end
  BY <1>1, <1>3 DEF StatusAt
<1>4. CASE ~(now < w.start) /\ ~(now > w.end)
  BY <1>1, <1>4 DEF StatusAt
<1> QED
  BY <1>2, <1>3, <1>4

LEMMA WindowStored ==
  ASSUME NEW w \in Windows, ValidWindow(w)
  PROVE  /\ StoredWindow(w) \in Window
         /\ StoredWindow(w).start <= StoredWindow(w).end
         /\ StoredWindow(w) # None
<1>1. w.start \in Nat /\ w.end \in Nat /\ w.start <= w.end
  BY EventAssumption DEF ValidWindow
<1>2. Kept(w.start) \in Nat /\ Kept(w.end) \in Nat /\ Kept(w.start) <= Kept(w.end)
  BY <1>1, KeptIsClose, KeptIsMonotonic
<1>3. StoredWindow(w) \in Window
  BY <1>2 DEF StoredWindow, Window
<1>4. StoredWindow(w) # None
  BY <1>3, EventAssumption DEF Window
<1> QED
  BY <1>2, <1>3, <1>4 DEF StoredWindow

-----------------------------------------------------------------------------
(* Types *)

Phases == {"idle", "tiers", "add", "read", "incr",
           "viewTiers", "viewPoints", "viewStatus", "viewClaimable", "viewed"}

Views == [tiers : Seq(Tier), points : Nat, claimable : BOOLEAN,
          status : {"UPCOMING", "ONGOING", "ENDED", None}]

\* The local variables of the calls, and what the repository and the leaderboard
\* hold, have their types.
LocalTypes ==
  /\ deploy \in Deployments
  /\ clock \in 0..MaxClock
  /\ phase \in [Caller -> Phases]
  /\ arg \in [Caller -> Id \X Player]
  /\ delta \in [Caller -> 0..MaxDelta]
  /\ todo \in [Caller -> Seq(Tier)]
  /\ view \in [Caller -> Views]

StoredTypes ==
  /\ events \in [Id -> Window \union {None}]
  /\ tiers \in [Id -> Seq(Tier)]
  /\ scores \in [Id \X Player -> Nat]
  /\ board \in [Id \X Player -> Nat]
  /\ missed \in [Id \X Player -> Nat]
  /\ doubled \in [Id \X Player -> Nat]
  /\ asked \in [Id -> Windows \union {None}]
  /\ wanted \in [Id -> Seq(Tier)]

LEMMA TypeParts ==
  /\ TypeOK <=> LocalTypes /\ StoredTypes
  /\ TypeOK' <=> LocalTypes' /\ StoredTypes'
BY DEF TypeOK, LocalTypes, StoredTypes, Phases, Views

LEMMA StoredTypesUnchanged ==
  ASSUME StoredTypes, UNCHANGED stored
  PROVE  StoredTypes'
BY DEF StoredTypes, stored

LEMMA NoViewType == NoView \in Views
<1>1. <<>> \in Seq(Tier)
  BY EmptySeq
<1> QED
  BY <1>1 DEF NoView, Views

\* Sorting loses and invents no tier.
LEMMA TiersListed ==
  ASSUME StoredTypes, NEW e \in Id, NEW ts \in TiersByNumber(e)
  PROVE  ts \in Seq(Tier) /\ Range(ts) \subseteq Range(tiers[e])
<1>1. tiers[e] \in Seq(Tier)
  BY DEF StoredTypes
<1>2. /\ DOMAIN tiers[e] = 1..Len(tiers[e]) /\ Len(tiers[e]) \in Nat
      /\ \A i \in DOMAIN tiers[e] : tiers[e][i] \in Tier
  BY <1>1, LenProperties
<1>3. PICK f \in [DOMAIN tiers[e] -> DOMAIN tiers[e]] :
        ts = [i \in DOMAIN tiers[e] |-> tiers[e][f[i]]]
  BY DEF TiersByNumber, Bijection, Injection
<1>4. DOMAIN ts = 1..Len(tiers[e])
      /\ \A i \in 1..Len(tiers[e]) : ts[i] = tiers[e][f[i]] /\ f[i] \in DOMAIN tiers[e]
  BY <1>2, <1>3
<1>5. ts \in [1..Len(tiers[e]) -> Tier]
  BY <1>2, <1>3
<1>6. ts \in Seq(Tier)
  BY <1>2, <1>5
<1>7. Range(ts) \subseteq Range(tiers[e])
  BY <1>4 DEF Range
<1> QED
  BY <1>6, <1>7

LEMMA LeaveTypes ==
  ASSUME LocalTypes, NEW c \in Caller, Leave(c)
  PROVE  LocalTypes'
<1>1. <<>> \in Seq(Tier) /\ 0 \in 0..MaxDelta
  BY EmptySeq, EventAssumption
<1>2. UNCHANGED <<deploy, clock, arg>>
  BY DEF Leave
<1>3. phase' \in [Caller -> Phases]
  BY DEF Leave, LocalTypes, Phases
<1>4. delta' \in [Caller -> 0..MaxDelta]
  BY <1>1 DEF Leave, LocalTypes
<1>5. todo' \in [Caller -> Seq(Tier)]
  BY <1>1 DEF Leave, LocalTypes
<1>6. view' \in [Caller -> Views]
  BY NoViewType DEF Leave, LocalTypes
<1> QED
  BY <1>2, <1>3, <1>4, <1>5, <1>6 DEF LocalTypes

LEMMA GotoTypes ==
  ASSUME LocalTypes, NEW c \in Caller, NEW to \in Phases, Goto(c, to),
         view' \in [Caller -> Views]
  PROVE  LocalTypes'
<1>1. UNCHANGED <<deploy, clock, arg, delta, todo>>
  BY DEF Goto
<1>2. phase' \in [Caller -> Phases]
  BY DEF Goto, LocalTypes
<1> QED
  BY <1>1, <1>2 DEF LocalTypes

LEMMA TypesAtStart == Init => TypeOK
<1> SUFFICES ASSUME Init PROVE LocalTypes /\ StoredTypes
  BY TypeParts
<1>1. <<>> \in Seq(Tier) /\ 0 \in 0..MaxDelta /\ 0 \in 0..MaxClock
  BY EmptySeq, EventAssumption
<1>2. LocalTypes
  BY <1>1, NoViewType DEF Init, LocalTypes, Phases
<1>3. StoredTypes
  BY <1>1 DEF Init, StoredTypes
<1> QED
  BY <1>2, <1>3

LEMMA CreateTypes ==
  ASSUME TypeOK, NEW c \in Caller,
         \/ \E e \in Id, w \in Windows, ts \in Rewards : CreateEvent(c, e, w, ts)
         \/ InsertRewardTier(c)
         \/ CreateReturns(c)
  PROVE  TypeOK'
<1>a. LocalTypes /\ StoredTypes
  BY TypeParts
<1>1. ASSUME NEW e \in Id, NEW w \in Windows, NEW ts \in Rewards, CreateEvent(c, e, w, ts)
      PROVE  LocalTypes' /\ StoredTypes'
  <2>1. UNCHANGED <<deploy, clock, tiers, scores, board, missed, doubled, delta, view>>
    BY <1>1 DEF CreateEvent
  <2>2. ts \in Seq(Tier) /\ StoredWindow(w) \in Window
    BY <1>1, EventAssumption, WindowStored DEF CreateEvent, Tier
  <2>3. /\ phase' = [phase EXCEPT ![c] = "tiers"]
        /\ arg' = [arg EXCEPT ![c] = <<e, arg[c][2]>>]
        /\ todo' = [todo EXCEPT ![c] = ts]
    BY <1>1 DEF CreateEvent
  <2>4. LocalTypes'
    BY <1>a, <2>1, <2>2, <2>3 DEF LocalTypes, Phases
  <2>5. /\ events' = [events EXCEPT ![e] = StoredWindow(w)]
        /\ asked' = [asked EXCEPT ![e] = w]
        /\ wanted' = [wanted EXCEPT ![e] = ts]
    BY <1>1 DEF CreateEvent
  <2>6. StoredTypes'
    BY <1>a, <2>1, <2>2, <2>5 DEF StoredTypes
  <2> QED
    BY <2>4, <2>6
<1>2. CASE InsertRewardTier(c)
  <2>1. UNCHANGED <<deploy, clock, events, scores, board, missed, doubled, asked, wanted,
                    phase, arg, delta, view>>
    BY <1>2 DEF InsertRewardTier
  <2>2. arg[c][1] \in Id /\ todo[c] \in Seq(Tier) /\ tiers[arg[c][1]] \in Seq(Tier)
    BY <1>a DEF LocalTypes, StoredTypes
  <2>3. /\ todo[c] # <<>>
        /\ tiers' = [tiers EXCEPT ![arg[c][1]] = Append(@, Head(todo[c]))]
        /\ todo' = [todo EXCEPT ![c] = Tail(@)]
    BY <1>2 DEF InsertRewardTier
  <2>4. Head(todo[c]) \in Tier /\ Tail(todo[c]) \in Seq(Tier)
    BY <2>2, <2>3, HeadTailProperties
  <2>5. Append(tiers[arg[c][1]], Head(todo[c])) \in Seq(Tier)
    BY <2>2, <2>4, AppendProperties
  <2>6. LocalTypes'
    BY <1>a, <2>1, <2>3, <2>4 DEF LocalTypes
  <2>7. StoredTypes'
    BY <1>a, <2>1, <2>3, <2>5 DEF StoredTypes
  <2> QED
    BY <2>6, <2>7, TypeParts
<1>3. CASE CreateReturns(c)
  BY <1>a, <1>3, LeaveTypes, StoredTypesUnchanged, TypeParts DEF CreateReturns
<1> QED
  BY <1>1, <1>2, <1>3, TypeParts

LEMMA ScoreTypes ==
  ASSUME TypeOK, NEW c \in Caller,
         \/ \E e \in Id, p \in Player, d \in Deltas : CheckOngoing(c, e, p, d)
         \/ AddScore(c) \/ AddScoreUnacknowledged(c) \/ AddScoreFails(c)
         \/ ReadBack(c) \/ ReadBackFails(c) \/ IncrBy(c)
  PROVE  TypeOK'
<1>a. LocalTypes /\ StoredTypes
  BY TypeParts
<1>b. arg[c] \in Id \X Player /\ delta[c] \in Nat
  BY <1>a, EventAssumption DEF LocalTypes
<1>c. /\ scores[arg[c]] + delta[c] \in Nat
      /\ missed[arg[c]] + delta[c] \in Nat
  BY <1>a, <1>b DEF StoredTypes
<1>1. ASSUME NEW e \in Id, NEW p \in Player, NEW d \in Deltas, CheckOngoing(c, e, p, d)
      PROVE  TypeOK'
  <2>1. UNCHANGED <<deploy, clock, stored, todo, view>>
    BY <1>1 DEF CheckOngoing
  <2>2. /\ arg' = [arg EXCEPT ![c] = <<e, p>>]
        /\ delta' = [delta EXCEPT ![c] = d]
        /\ phase' = [phase EXCEPT ![c] = "add"]
        /\ d \in 0..MaxDelta
    BY <1>1, EventAssumption DEF CheckOngoing, ValidDelta
  <2>3. LocalTypes'
    BY <1>a, <2>1, <2>2 DEF LocalTypes, Phases
  <2> QED
    BY <1>a, <2>1, <2>3, StoredTypesUnchanged, TypeParts
<1>2. CASE AddScore(c)
  <2>1. /\ UNCHANGED <<events, tiers, board, missed, doubled, asked, wanted>>
        /\ scores' = [scores EXCEPT ![arg[c]] = @ + delta[c]]
    BY <1>2 DEF AddScore, Upsert
  <2>2. StoredTypes'
    BY <1>a, <1>c, <2>1 DEF StoredTypes
  <2>3. Goto(c, "read") /\ view' \in [Caller -> Views] /\ "read" \in Phases
    BY <1>a, <1>2 DEF AddScore, LocalTypes, Phases
  <2> QED
    BY <1>a, <2>2, <2>3, GotoTypes, TypeParts
<1>3. CASE AddScoreUnacknowledged(c)
  <2>1. /\ UNCHANGED <<events, tiers, board, doubled, asked, wanted>>
        /\ scores' = [scores EXCEPT ![arg[c]] = @ + delta[c]]
        /\ missed' = [missed EXCEPT ![arg[c]] = @ + delta[c]]
    BY <1>3 DEF AddScoreUnacknowledged, Upsert
  <2>2. StoredTypes'
    BY <1>a, <1>c, <2>1 DEF StoredTypes
  <2> QED
    BY <1>a, <1>3, <2>2, LeaveTypes, TypeParts DEF AddScoreUnacknowledged
<1>4. CASE AddScoreFails(c)
  BY <1>a, <1>4, LeaveTypes, StoredTypesUnchanged, TypeParts DEF AddScoreFails
<1>5. CASE ReadBack(c)
  <2>1. /\ Goto(c, "incr") /\ view' \in [Caller -> Views] /\ "incr" \in Phases
        /\ UNCHANGED stored
    BY <1>a, <1>5 DEF ReadBack, LocalTypes, Phases
  <2> QED
    BY <1>a, <2>1, GotoTypes, StoredTypesUnchanged, TypeParts
<1>6. CASE ReadBackFails(c)
  <2>1. /\ UNCHANGED <<events, tiers, scores, board, doubled, asked, wanted>>
        /\ missed' = [missed EXCEPT ![arg[c]] = @ + delta[c]]
    BY <1>6 DEF ReadBackFails
  <2>2. StoredTypes'
    BY <1>a, <1>c, <2>1 DEF StoredTypes
  <2> QED
    BY <1>a, <1>6, <2>2, LeaveTypes, TypeParts DEF ReadBackFails
<1>7. CASE IncrBy(c)
  <2>1. PICK n \in Applied :
          /\ board' = [board EXCEPT ![arg[c]] = @ + n * delta[c]]
          /\ missed' = [missed EXCEPT ![arg[c]] = @ + (IF n = 0 THEN 1 ELSE 0) * delta[c]]
          /\ doubled' = [doubled EXCEPT ![arg[c]] =
                           @ + (IF n > 1 THEN n - 1 ELSE 0) * delta[c]]
    BY <1>7 DEF IncrBy
  <2>2. n \in Nat
    BY EventAssumption DEF Applied
  <2> DEFINE more == n * delta[c]
             less == (IF n = 0 THEN 1 ELSE 0) * delta[c]
             twice == (IF n > 1 THEN n - 1 ELSE 0) * delta[c]
  <2>3. more \in Nat /\ less \in Nat /\ twice \in Nat
    BY <1>b, <2>2
  <2>t. /\ board' = [board EXCEPT ![arg[c]] = @ + more]
        /\ missed' = [missed EXCEPT ![arg[c]] = @ + less]
        /\ doubled' = [doubled EXCEPT ![arg[c]] = @ + twice]
    BY <2>1
  <2> HIDE DEF more, less, twice
  <2>4. /\ board[arg[c]] + more \in Nat
        /\ missed[arg[c]] + less \in Nat
        /\ doubled[arg[c]] + twice \in Nat
    <3>1. board[arg[c]] \in Nat /\ missed[arg[c]] \in Nat /\ doubled[arg[c]] \in Nat
      BY <1>a, <1>b DEF StoredTypes
    <3> QED
      BY <2>3, <3>1
  <2>5. UNCHANGED <<events, tiers, scores, asked, wanted>>
    BY <1>7 DEF IncrBy
  <2>6. StoredTypes'
    BY <1>a, <2>t, <2>4, <2>5 DEF StoredTypes
  <2> QED
    BY <1>a, <1>7, <2>6, LeaveTypes, TypeParts DEF IncrBy
<1> QED
  BY <1>1, <1>2, <1>3, <1>4, <1>5, <1>6, <1>7

LEMMA ViewTypes ==
  ASSUME TypeOK, WindowInv, ViewInv, NEW c \in Caller,
         \/ \E e \in Id, p \in Player : StartRewards(c, e, p)
         \/ ListRewardTiers(c) \/ GetScore(c) \/ ReadStatus(c) \/ ReadClaimable(c)
         \/ RewardsReturns(c)
  PROVE  TypeOK'
<1>a. LocalTypes /\ StoredTypes
  BY TypeParts
<1>b. arg[c] \in Id \X Player /\ arg[c][1] \in Id /\ clock \in Nat /\ view[c] \in Views
  BY <1>a, EventAssumption DEF LocalTypes
<1>1. ASSUME NEW e \in Id, NEW p \in Player, StartRewards(c, e, p)
      PROVE  TypeOK'
  <2>1. UNCHANGED <<deploy, clock, stored, delta, todo, view>>
    BY <1>1 DEF StartRewards
  <2>2. /\ arg' = [arg EXCEPT ![c] = <<e, p>>]
        /\ phase' = [phase EXCEPT ![c] = "viewTiers"]
    BY <1>1 DEF StartRewards
  <2>3. LocalTypes'
    BY <1>a, <2>1, <2>2 DEF LocalTypes, Phases
  <2> QED
    BY <1>a, <2>1, <2>3, StoredTypesUnchanged, TypeParts
<1>2. CASE ListRewardTiers(c)
  <2>1. PICK ts \in TiersByNumber(arg[c][1]) : view' = [view EXCEPT ![c].tiers = ts]
    BY <1>2 DEF ListRewardTiers
  <2>2. ts \in Seq(Tier)
    BY <1>a, <1>b, <2>1, TiersListed
  <2>3. view' \in [Caller -> Views]
    BY <1>a, <2>1, <2>2 DEF LocalTypes, Views
  <2>4. Goto(c, "viewPoints") /\ UNCHANGED stored /\ "viewPoints" \in Phases
    BY <1>2 DEF ListRewardTiers, Phases
  <2> QED
    BY <1>a, <2>3, <2>4, GotoTypes, StoredTypesUnchanged, TypeParts
<1>3. CASE GetScore(c)
  <2>1. scores[arg[c]] \in Nat
    BY <1>a, <1>b DEF StoredTypes
  <2>2. view' = [view EXCEPT ![c].points = scores[arg[c]]]
    BY <1>3 DEF GetScore
  <2>3. view' \in [Caller -> Views]
    BY <1>a, <2>1, <2>2 DEF LocalTypes, Views
  <2>4. Goto(c, "viewStatus") /\ UNCHANGED stored /\ "viewStatus" \in Phases
    BY <1>3 DEF GetScore, Phases
  <2> QED
    BY <1>a, <2>3, <2>4, GotoTypes, StoredTypesUnchanged, TypeParts
<1>4. CASE ReadStatus(c)
  <2>1. events[arg[c][1]] # None
    BY <1>4 DEF ReadStatus, ViewInv, ViewSound
  <2>2. events[arg[c][1]] \in Window /\ events[arg[c][1]].start <= events[arg[c][1]].end
    BY <1>a, <1>b, <2>1 DEF StoredTypes, WindowInv
  <2>3. Now(c) \in {"UPCOMING", "ONGOING", "ENDED", None}
    BY <1>b, <2>2, StatusCases DEF Now
  <2>4. view' = [view EXCEPT ![c].status = Now(c)]
    BY <1>4 DEF ReadStatus
  <2>5. view' \in [Caller -> Views]
    BY <1>a, <2>3, <2>4 DEF LocalTypes, Views
  <2>6. Goto(c, "viewClaimable") /\ UNCHANGED stored /\ "viewClaimable" \in Phases
    BY <1>4 DEF ReadStatus, Phases
  <2> QED
    BY <1>a, <2>5, <2>6, GotoTypes, StoredTypesUnchanged, TypeParts
<1>5. CASE ReadClaimable(c)
  <2>1. Ended(c) \in BOOLEAN
    BY Zenon DEF Ended
  <2>2. view' = [view EXCEPT ![c].claimable = Ended(c)]
    BY <1>5 DEF ReadClaimable
  <2>3. view' \in [Caller -> Views]
    BY <1>a, <2>1, <2>2 DEF LocalTypes, Views
  <2>4. Goto(c, "viewed") /\ UNCHANGED stored /\ "viewed" \in Phases
    BY <1>5 DEF ReadClaimable, Phases
  <2> QED
    BY <1>a, <2>3, <2>4, GotoTypes, StoredTypesUnchanged, TypeParts
<1>6. CASE RewardsReturns(c)
  BY <1>a, <1>6, LeaveTypes, StoredTypesUnchanged, TypeParts DEF RewardsReturns
<1> QED
  BY <1>1, <1>2, <1>3, <1>4, <1>5, <1>6

LEMMA TickTypes ==
  ASSUME TypeOK, Tick
  PROVE  TypeOK'
<1>1. UNCHANGED <<deploy, stored, phase, arg, delta, todo, view>>
  BY DEF Tick
<1>2. clock' \in 0..MaxClock
  BY EventAssumption DEF Tick, TypeOK
<1>3. LocalTypes'
  BY <1>1, <1>2, TypeParts DEF LocalTypes
<1> QED
  BY <1>1, <1>3, TypeParts, StoredTypesUnchanged

-----------------------------------------------------------------------------
(* What the steps keep *)

\* A caller's view stays sound while tiers are added, points grow, the clock
\* advances and events are created, but none is changed.
LEMMA ViewStays ==
  ASSUME EventInv, TypeOK', NEW d \in Caller,
         phase'[d] = phase[d], arg'[d] = arg[d], view'[d] = view[d],
         \A e \in Id : events[e] # None => events'[e] = events[e],
         \A e \in Id : Range(tiers[e]) \subseteq Range(tiers'[e]),
         \A ep \in Id \X Player : scores[ep] <= scores'[ep],
         clock <= clock'
  PROVE  ViewSound(d)'
<1>a. LocalTypes /\ StoredTypes /\ LocalTypes' /\ StoredTypes'
  BY TypeParts DEF EventInv
<1>b. /\ arg[d] \in Id \X Player /\ arg[d][1] \in Id
      /\ clock \in Nat /\ clock' \in Nat
  BY <1>a, EventAssumption DEF LocalTypes
<1>c. /\ view[d].points \in Nat
      /\ scores[arg[d]] \in Nat /\ scores'[arg[d]] \in Nat
  BY <1>a, <1>b DEF LocalTypes, StoredTypes, Views
<1>v. ViewSound(d)
  BY DEF EventInv, ViewInv
<1>1. events[arg[d][1]] # None => events'[arg[d][1]] = events[arg[d][1]]
  BY <1>b
<1>2. Range(tiers[arg[d][1]]) \subseteq Range(tiers'[arg[d][1]])
  BY <1>b
<1>3. view[d].points <= scores[arg[d]] => view[d].points <= scores'[arg[d]]
  BY <1>b, <1>c
<1>4. ASSUME events[arg[d][1]] # None, Now(d) = "ENDED"
      PROVE  Now(d)' = "ENDED"
  <2> DEFINE w == events[arg[d][1]]
  <2>1. w \in Window /\ w.start <= w.end
    BY <1>a, <1>b, <1>4 DEF StoredTypes, EventInv, WindowInv
  <2>2. clock > w.end
    BY <1>b, <1>4, <2>1, StatusCases DEF Now
  <2>3. clock' > w.end
    BY <1>b, <2>1, <2>2 DEF Window
  <2>4. StatusAt(w, clock') = "ENDED"
    BY <1>b, <2>1, <2>3, StatusCases
  <2> QED
    BY <1>1, <1>4, <2>4 DEF Now
<1> QED
  BY <1>v, <1>1, <1>2, <1>3, <1>4 DEF ViewSound

\* A step of c that leaves events and tiers alone and is no step of GetRewards.
Quiet(c) ==
  /\ UNCHANGED <<deploy, clock, events, tiers, asked, wanted>>
  /\ \A ep \in Id \X Player : scores[ep] <= scores'[ep]
  /\ phase'[c] \in {"idle", "add", "read", "incr"}
  /\ \A d \in Caller \ {c} : /\ phase'[d] = phase[d] /\ arg'[d] = arg[d]
                             /\ todo'[d] = todo[d] /\ view'[d] = view[d]

\* A step of c in GetRewards.
Looks(c) ==
  /\ UNCHANGED <<deploy, clock, stored>>
  /\ phase'[c] \notin {"tiers"}
  /\ \A d \in Caller \ {c} : /\ phase'[d] = phase[d] /\ arg'[d] = arg[d]
                             /\ todo'[d] = todo[d] /\ view'[d] = view[d]

LEMMA TiersAndWindowsKept ==
  ASSUME EventInv, NEW c \in Caller,
         UNCHANGED <<deploy, events, tiers, asked, wanted>>,
         phase'[c] \notin {"tiers"},
         \A d \in Caller \ {c} : /\ phase'[d] = phase[d] /\ arg'[d] = arg[d]
                                 /\ todo'[d] = todo[d]
  PROVE  TierInv' /\ WindowInv'
<1>1. TierInv'
  <2>1. \A d \in Caller : phase'[d] = "tiers" =>
           phase[d] = "tiers" /\ arg'[d] = arg[d] /\ todo'[d] = todo[d]
    OBVIOUS
  <2>2. /\ \A e \in Id : Begins(tiers'[e], wanted'[e])
        /\ \A e \in Id : events'[e] = None => tiers'[e] = <<>>
    BY DEF EventInv, TierInv
  <2>3. ASSUME NEW d \in Caller, phase'[d] = "tiers"
        PROVE  /\ events'[arg'[d][1]] # None
               /\ wanted'[arg'[d][1]] = tiers'[arg'[d][1]] \o todo'[d]
    BY <2>1, <2>3 DEF EventInv, TierInv
  <2>4. ASSUME NEW d \in Caller, NEW b \in Caller, phase'[d] = "tiers", phase'[b] = "tiers",
               arg'[d][1] = arg'[b][1]
        PROVE  d = b
    BY <2>1, <2>4 DEF EventInv, TierInv
  <2> QED
    BY <2>2, <2>3, <2>4 DEF TierInv
<1>2. WindowInv'
  BY DEF EventInv, WindowInv, StoredWindow, Kept, OnMySQL
<1> QED
  BY <1>1, <1>2

LEMMA QuietKeeps ==
  ASSUME EventInv, TypeOK', NEW c \in Caller, Quiet(c)
  PROVE  EventInv'
<1>1. TierInv' /\ WindowInv'
  BY TiersAndWindowsKept DEF Quiet
<1>2. clock <= clock'
  BY EventAssumption DEF Quiet, EventInv, TypeOK
<1>3. ASSUME NEW d \in Caller
      PROVE  ViewSound(d)'
  <2>1. CASE d = c
    BY <2>1 DEF Quiet, ViewSound
  <2>2. CASE d # c
    <3>1. /\ phase'[d] = phase[d] /\ arg'[d] = arg[d] /\ view'[d] = view[d]
          /\ \A e \in Id : events[e] # None => events'[e] = events[e]
          /\ \A e \in Id : Range(tiers[e]) \subseteq Range(tiers'[e])
          /\ \A ep \in Id \X Player : scores[ep] <= scores'[ep]
      BY <2>2 DEF Quiet
    <3> QED
      BY <1>2, <3>1, ViewStays
  <2> QED
    BY <2>1, <2>2
<1> QED
  BY <1>1, <1>3 DEF EventInv, ViewInv

LEMMA LooksKeeps ==
  ASSUME EventInv, TypeOK', NEW c \in Caller, Looks(c), ViewSound(c)'
  PROVE  EventInv'
<1>u. UNCHANGED <<deploy, clock, events, tiers, scores, asked, wanted>>
  BY DEF Looks, stored
<1>1. TierInv' /\ WindowInv'
  BY <1>u, TiersAndWindowsKept DEF Looks
<1>2. clock <= clock' /\ \A ep \in Id \X Player : scores[ep] <= scores'[ep]
  <2>1. clock \in Nat /\ \A ep \in Id \X Player : scores[ep] \in Nat
    BY EventAssumption DEF EventInv, TypeOK
  <2> QED
    BY <1>u, <2>1
<1>3. ASSUME NEW d \in Caller, d # c
      PROVE  ViewSound(d)'
  <2>1. /\ phase'[d] = phase[d] /\ arg'[d] = arg[d] /\ view'[d] = view[d]
        /\ \A e \in Id : events[e] # None => events'[e] = events[e]
        /\ \A e \in Id : Range(tiers[e]) \subseteq Range(tiers'[e])
    BY <1>3, <1>u DEF Looks
  <2> QED
    BY <1>2, <2>1, ViewStays
<1> QED
  BY <1>1, <1>3 DEF EventInv, ViewInv

\* The steps of AddScore, and the returns of Create and GetRewards.
LEMMA QuietSteps ==
  ASSUME EventInv, NEW c \in Caller,
         \/ CreateReturns(c)
         \/ \E e \in Id, p \in Player, d \in Deltas : CheckOngoing(c, e, p, d)
         \/ AddScore(c) \/ AddScoreUnacknowledged(c) \/ AddScoreFails(c)
         \/ ReadBack(c) \/ ReadBackFails(c) \/ IncrBy(c)
         \/ RewardsReturns(c)
  PROVE  Quiet(c)
<1>a. LocalTypes /\ StoredTypes
  BY TypeParts DEF EventInv
<1>b. arg[c] \in Id \X Player /\ delta[c] \in Nat
  BY <1>a, EventAssumption DEF LocalTypes
<1>s. \A ep \in Id \X Player : scores[ep] \in Nat
  BY <1>a DEF StoredTypes
<1>l. ASSUME Leave(c)
      PROVE  /\ UNCHANGED <<deploy, clock>>
             /\ phase'[c] = "idle"
             /\ \A d \in Caller \ {c} : /\ phase'[d] = phase[d] /\ arg'[d] = arg[d]
                                        /\ todo'[d] = todo[d] /\ view'[d] = view[d]
  BY <1>a, <1>l DEF Leave, LocalTypes
<1>g. ASSUME NEW to, Goto(c, to), UNCHANGED view
      PROVE  /\ UNCHANGED <<deploy, clock>>
             /\ phase'[c] = to
             /\ \A d \in Caller \ {c} : /\ phase'[d] = phase[d] /\ arg'[d] = arg[d]
                                        /\ todo'[d] = todo[d] /\ view'[d] = view[d]
  BY <1>a, <1>g DEF Goto, LocalTypes
<1>p. ASSUME scores' = [scores EXCEPT ![arg[c]] = @ + delta[c]]
      PROVE  \A ep \in Id \X Player : scores[ep] <= scores'[ep]
  BY <1>a, <1>b, <1>p, <1>s DEF StoredTypes
<1>q. ASSUME UNCHANGED scores
      PROVE  \A ep \in Id \X Player : scores[ep] <= scores'[ep]
  BY <1>q, <1>s
<1>1. CASE CreateReturns(c)
  BY <1>1, <1>l, <1>q DEF CreateReturns, Quiet, stored
<1>2. ASSUME NEW e \in Id, NEW p \in Player, NEW d \in Deltas, CheckOngoing(c, e, p, d)
      PROVE  Quiet(c)
  <2>1. UNCHANGED <<deploy, clock, events, tiers, scores, asked, wanted, todo, view>>
    BY <1>2 DEF CheckOngoing, stored
  <2>2. /\ phase'[c] = "add"
        /\ \A b \in Caller \ {c} : phase'[b] = phase[b] /\ arg'[b] = arg[b]
    BY <1>a, <1>2 DEF CheckOngoing, LocalTypes
  <2> QED
    BY <1>q, <2>1, <2>2 DEF Quiet
<1>3. CASE AddScore(c)
  BY <1>3, <1>g, <1>p DEF AddScore, Upsert, Quiet
<1>4. CASE AddScoreUnacknowledged(c)
  BY <1>4, <1>l, <1>p DEF AddScoreUnacknowledged, Upsert, Quiet
<1>5. CASE AddScoreFails(c)
  BY <1>5, <1>l, <1>q DEF AddScoreFails, Quiet, stored
<1>6. CASE ReadBack(c)
  BY <1>6, <1>g, <1>q DEF ReadBack, Quiet, stored
<1>7. CASE ReadBackFails(c)
  BY <1>7, <1>l, <1>q DEF ReadBackFails, Quiet
<1>8. CASE IncrBy(c)
  BY <1>8, <1>l, <1>q DEF IncrBy, Quiet
<1>9. CASE RewardsReturns(c)
  BY <1>9, <1>l, <1>q DEF RewardsReturns, Quiet, stored
<1> QED
  BY <1>1, <1>2, <1>3, <1>4, <1>5, <1>6, <1>7, <1>8, <1>9

LEMMA GetRewardsKeeps ==
  ASSUME EventInv, NEW c \in Caller,
         \/ \E e \in Id, p \in Player : StartRewards(c, e, p)
         \/ ListRewardTiers(c) \/ GetScore(c) \/ ReadStatus(c) \/ ReadClaimable(c)
  PROVE  EventInv'
<1>a. LocalTypes /\ StoredTypes
  BY TypeParts DEF EventInv
<1>t. TypeOK'
  BY ViewTypes DEF EventInv
<1>b. arg[c] \in Id \X Player /\ arg[c][1] \in Id /\ clock \in Nat /\ view[c] \in Views
  BY <1>a, EventAssumption DEF LocalTypes
<1>v. ViewSound(c)
  BY DEF EventInv, ViewInv
<1>g. ASSUME NEW to, Goto(c, to), UNCHANGED stored, to # "tiers",
             \A d \in Caller \ {c} : view'[d] = view[d]
      PROVE  Looks(c) /\ phase'[c] = to /\ arg'[c] = arg[c]
  BY <1>a, <1>g DEF Goto, Looks, LocalTypes
<1>1. ASSUME NEW e \in Id, NEW p \in Player, StartRewards(c, e, p)
      PROVE  EventInv'
  <2>1. UNCHANGED <<deploy, clock, stored, todo, view>>
    BY <1>1 DEF StartRewards
  <2>2. /\ phase'[c] = "viewTiers" /\ arg'[c] = <<e, p>> /\ events[e] # None
        /\ \A d \in Caller \ {c} : phase'[d] = phase[d] /\ arg'[d] = arg[d]
    BY <1>a, <1>1 DEF StartRewards, GetEvent, LocalTypes
  <2>3. Looks(c)
    BY <2>1, <2>2 DEF Looks
  <2>4. ViewSound(c)'
    BY <2>1, <2>2 DEF ViewSound, stored
  <2> QED
    BY <1>t, <2>3, <2>4, LooksKeeps
<1>2. CASE ListRewardTiers(c)
  <2>1. PICK ts \in TiersByNumber(arg[c][1]) : view' = [view EXCEPT ![c].tiers = ts]
    BY <1>2 DEF ListRewardTiers
  <2>2. Range(ts) \subseteq Range(tiers[arg[c][1]])
    BY <1>a, <1>b, <2>1, TiersListed
  <2>3. /\ phase[c] = "viewTiers" /\ Goto(c, "viewPoints")
        /\ UNCHANGED stored
    BY <1>2 DEF ListRewardTiers
  <2>4. view'[c].tiers = ts /\ \A d \in Caller \ {c} : view'[d] = view[d]
    BY <1>a, <2>1 DEF LocalTypes, Views
  <2>5. Looks(c) /\ phase'[c] = "viewPoints" /\ arg'[c] = arg[c]
    BY <1>g, <2>3, <2>4
  <2>6. ViewSound(c)'
    BY <1>v, <2>2, <2>3, <2>4, <2>5 DEF ViewSound, stored
  <2> QED
    BY <1>t, <2>5, <2>6, LooksKeeps
<1>3. CASE GetScore(c)
  <2>1. /\ phase[c] = "viewPoints" /\ Goto(c, "viewStatus")
        /\ UNCHANGED stored
        /\ view' = [view EXCEPT ![c].points = scores[arg[c]]]
    BY <1>3 DEF GetScore
  <2>2. /\ view'[c].points = scores[arg[c]] /\ view'[c].tiers = view[c].tiers
        /\ \A d \in Caller \ {c} : view'[d] = view[d]
    BY <1>a, <2>1 DEF LocalTypes, Views
  <2>3. Looks(c) /\ phase'[c] = "viewStatus" /\ arg'[c] = arg[c]
    BY <1>g, <2>1, <2>2
  <2>4. scores[arg[c]] \in Nat
    BY <1>a, <1>b DEF StoredTypes
  <2>5. ViewSound(c)'
    BY <1>v, <2>1, <2>2, <2>3, <2>4 DEF ViewSound, stored
  <2> QED
    BY <1>t, <2>3, <2>5, LooksKeeps
<1>4. CASE ReadStatus(c)
  <2>1. /\ phase[c] = "viewStatus" /\ Goto(c, "viewClaimable")
        /\ UNCHANGED stored
        /\ view' = [view EXCEPT ![c].status = Now(c)]
    BY <1>4 DEF ReadStatus
  <2>2. /\ view'[c].status = Now(c)
        /\ view'[c].points = view[c].points /\ view'[c].tiers = view[c].tiers
        /\ \A d \in Caller \ {c} : view'[d] = view[d]
    BY <1>a, <2>1 DEF LocalTypes, Views
  <2>3. Looks(c) /\ phase'[c] = "viewClaimable" /\ arg'[c] = arg[c]
    BY <1>g, <2>1, <2>2
  <2>4. Now(c)' = Now(c)
    BY <2>1, <2>3 DEF Now, Goto, stored
  <2>5. ViewSound(c)'
    BY <1>v, <2>1, <2>2, <2>3, <2>4 DEF ViewSound, stored
  <2> QED
    BY <1>t, <2>3, <2>5, LooksKeeps
<1>5. CASE ReadClaimable(c)
  <2>1. /\ phase[c] = "viewClaimable" /\ Goto(c, "viewed")
        /\ UNCHANGED stored
        /\ view' = [view EXCEPT ![c].claimable = Ended(c)]
    BY <1>5 DEF ReadClaimable
  <2>2. /\ view'[c].claimable = Ended(c)
        /\ view'[c].points = view[c].points /\ view'[c].tiers = view[c].tiers
        /\ view'[c].status = view[c].status
        /\ \A d \in Caller \ {c} : view'[d] = view[d]
    BY <1>a, <2>1 DEF LocalTypes, Views
  <2>3. Looks(c) /\ phase'[c] = "viewed" /\ arg'[c] = arg[c]
    BY <1>g, <2>1, <2>2
  <2>4. Now(c)' = Now(c)
    BY <2>1, <2>3 DEF Now, Goto, stored
  <2>5. /\ view'[c].status = "ENDED" => view'[c].claimable
        /\ view'[c].claimable => Now(c)' = "ENDED"
    BY <1>v, <2>1, <2>2, <2>4, Zenon DEF ViewSound, Ended
  <2>6. ViewSound(c)'
    BY <1>v, <2>1, <2>2, <2>3, <2>4, <2>5 DEF ViewSound, stored
  <2> QED
    BY <1>t, <2>3, <2>6, LooksKeeps
<1> QED
  BY <1>1, <1>2, <1>3, <1>4, <1>5

LEMMA CreateEventKeeps ==
  ASSUME EventInv, NEW c \in Caller, NEW e \in Id, NEW w \in Windows, NEW ts \in Rewards,
         CreateEvent(c, e, w, ts)
  PROVE  EventInv'
<1>a. LocalTypes /\ StoredTypes
  BY TypeParts DEF EventInv
<1>t. TypeOK'
  BY CreateTypes DEF EventInv
<1>u. UNCHANGED <<deploy, clock, tiers, scores, view>>
  BY DEF CreateEvent
<1>p. /\ phase[c] = "idle" /\ events[e] = None /\ ValidWindow(w)
      /\ events' = [events EXCEPT ![e] = StoredWindow(w)]
      /\ asked' = [asked EXCEPT ![e] = w]
      /\ wanted' = [wanted EXCEPT ![e] = ts]
      /\ todo' = [todo EXCEPT ![c] = ts]
      /\ arg' = [arg EXCEPT ![c] = <<e, arg[c][2]>>]
      /\ phase' = [phase EXCEPT ![c] = "tiers"]
  BY DEF CreateEvent, GetEvent
<1>w. /\ StoredWindow(w) # None
      /\ StoredWindow(w).start <= StoredWindow(w).end
  BY <1>p, WindowStored
<1>s. ts \in Seq(Tier) /\ Len(ts) \in Nat /\ <<>> \o ts = ts /\ Len(<<>>) = 0
  BY EventAssumption, LenProperties, ConcatEmptySeq DEF Tier
<1>e. /\ events'[e] = StoredWindow(w) /\ asked'[e] = w /\ wanted'[e] = ts
      /\ \A f \in Id : f # e =>
            events'[f] = events[f] /\ asked'[f] = asked[f] /\ wanted'[f] = wanted[f]
  BY <1>a, <1>p DEF StoredTypes
<1>l. /\ phase'[c] = "tiers" /\ arg'[c][1] = e /\ todo'[c] = ts
      /\ \A d \in Caller : d # c =>
            phase'[d] = phase[d] /\ arg'[d] = arg[d] /\ todo'[d] = todo[d]
  BY <1>a, <1>p DEF LocalTypes
<1>n. tiers[e] = <<>>
  BY <1>p DEF EventInv, TierInv
<1>o. ASSUME NEW d \in Caller, d # c, phase[d] = "tiers"
      PROVE  arg[d][1] # e /\ arg[d][1] \in Id
  BY <1>a, <1>o, <1>p DEF EventInv, TierInv, LocalTypes
<1>1. TierInv'
  <2>1. ASSUME NEW f \in Id
        PROVE  /\ Begins(tiers'[f], wanted'[f])
               /\ events'[f] = None => tiers'[f] = <<>>
    <3>1. CASE f = e
      BY <1>u, <1>e, <1>n, <1>s, <1>w, <3>1 DEF Begins
    <3>2. CASE f # e
      BY <1>u, <1>e, <3>2 DEF EventInv, TierInv
    <3> QED
      BY <3>1, <3>2
  <2>2. ASSUME NEW d \in Caller, phase'[d] = "tiers"
        PROVE  /\ events'[arg'[d][1]] # None
               /\ wanted'[arg'[d][1]] = tiers'[arg'[d][1]] \o todo'[d]
    <3>1. CASE d = c
      BY <1>u, <1>e, <1>l, <1>n, <1>s, <1>w, <3>1
    <3>2. CASE d # c
      <4>1. phase[d] = "tiers" /\ arg'[d] = arg[d] /\ todo'[d] = todo[d]
        BY <1>l, <2>2, <3>2
      <4>2. arg[d][1] # e /\ arg[d][1] \in Id
        BY <1>o, <3>2, <4>1
      <4>3. /\ events[arg[d][1]] # None
            /\ wanted[arg[d][1]] = tiers[arg[d][1]] \o todo[d]
        BY <4>1 DEF EventInv, TierInv
      <4>4. events'[arg[d][1]] = events[arg[d][1]] /\ wanted'[arg[d][1]] = wanted[arg[d][1]]
        BY <1>e, <4>2
      <4> QED
        BY <1>u, <4>1, <4>3, <4>4
    <3> QED
      BY <3>1, <3>2
  <2>3. ASSUME NEW b \in Caller, NEW d \in Caller, phase'[b] = "tiers", phase'[d] = "tiers",
               arg'[b][1] = arg'[d][1]
        PROVE  b = d
    <3>1. CASE b # c /\ d # c
      BY <1>l, <2>3, <3>1 DEF EventInv, TierInv
    <3>2. CASE b = c /\ d # c
      BY <1>l, <1>o, <2>3, <3>2
    <3>3. CASE b # c /\ d = c
      BY <1>l, <1>o, <2>3, <3>3
    <3> QED
      BY <3>1, <3>2, <3>3
  <2> QED
    BY <2>1, <2>2, <2>3 DEF TierInv
<1>2. WindowInv'
  <2> SUFFICES ASSUME NEW f \in Id, events'[f] # None
               PROVE  /\ asked'[f] \in Windows
                      /\ events'[f] = StoredWindow(asked'[f])
                      /\ events'[f].start <= events'[f].end
    BY <1>u DEF WindowInv, StoredWindow, Kept, OnMySQL
  <2>1. CASE f = e
    BY <1>e, <1>w, <2>1
  <2>2. CASE f # e
    BY <1>e, <2>2 DEF EventInv, WindowInv
  <2> QED
    BY <2>1, <2>2
<1>3. ASSUME NEW d \in Caller
      PROVE  ViewSound(d)'
  <2>1. CASE d = c
    BY <1>l, <2>1 DEF ViewSound
  <2>2. CASE d # c
    <3>1. clock \in Nat /\ \A ep \in Id \X Player : scores[ep] \in Nat
      BY <1>a, EventAssumption DEF LocalTypes, StoredTypes
    <3>2. clock <= clock' /\ \A ep \in Id \X Player : scores[ep] <= scores'[ep]
      BY <1>u, <3>1
    <3>3. /\ phase'[d] = phase[d] /\ arg'[d] = arg[d] /\ view'[d] = view[d]
          /\ \A f \in Id : events[f] # None => events'[f] = events[f]
          /\ \A f \in Id : Range(tiers[f]) \subseteq Range(tiers'[f])
      BY <1>u, <1>e, <1>l, <1>p, <2>2
    <3> QED
      BY <1>t, <3>2, <3>3, ViewStays
  <2> QED
    BY <2>1, <2>2
<1> QED
  BY <1>t, <1>1, <1>2, <1>3 DEF EventInv, ViewInv

\* Moving the first tier of what is to be inserted to the end of what is there.
LEMMA OneTierOver ==
  ASSUME NEW s \in Seq(Tier), NEW t \in Seq(Tier), t # <<>>
  PROVE  /\ s \o t = Append(s, Head(t)) \o Tail(t)
         /\ Append(s, Head(t)) \in Seq(Tier)
         /\ Begins(Append(s, Head(t)), s \o t)
         /\ Range(s) \subseteq Range(Append(s, Head(t)))
<1>1. /\ Head(t) \in Tier /\ Tail(t) \in Seq(Tier)
      /\ Len(Tail(t)) = Len(t) - 1 /\ Len(t) \in Nat \ {0} /\ Head(t) = t[1]
      /\ Len(s) \in Nat
  BY HeadTailProperties, LenProperties, EmptySeq
<1>2. <<Head(t)>> \in Seq(Tier)
  BY <1>1
<1>3. Append(s, Head(t)) = s \o <<Head(t)>>
  BY <1>1, AppendIsConcat
<1>4. t = <<Head(t)>> \o Tail(t)
  OBVIOUS
<1>5. s \o t = Append(s, Head(t)) \o Tail(t)
  <2>1. (s \o <<Head(t)>>) \o Tail(t) = s \o (<<Head(t)>> \o Tail(t))
    BY <1>1, <1>2, ConcatAssociative
  <2> QED
    BY <1>3, <1>4, <2>1, Zenon
<1>6. /\ Append(s, Head(t)) \in Seq(Tier)
      /\ Len(Append(s, Head(t))) = Len(s) + 1
      /\ \A i \in 1..Len(s) : Append(s, Head(t))[i] = s[i]
  BY <1>1, AppendProperties
<1>7. /\ Len(s \o t) = Len(s) + 1 + Len(Tail(t)) /\ Len(Tail(t)) \in Nat
      /\ \A i \in 1..(Len(s) + 1) : (s \o t)[i] = Append(s, Head(t))[i]
  BY <1>1, <1>5, <1>6, ConcatProperties, LenProperties
<1>8. Begins(Append(s, Head(t)), s \o t)
  BY <1>1, <1>6, <1>7 DEF Begins
<1>9. Range(s) \subseteq Range(Append(s, Head(t)))
  <2>1. DOMAIN s = 1..Len(s) /\ DOMAIN Append(s, Head(t)) = 1..(Len(s) + 1)
    BY <1>6, LenProperties
  <2> SUFFICES ASSUME NEW i \in 1..Len(s)
               PROVE  \E j \in 1..(Len(s) + 1) : s[i] = Append(s, Head(t))[j]
    BY <2>1 DEF Range
  <2>2. i \in 1..(Len(s) + 1) /\ Append(s, Head(t))[i] = s[i]
    BY <1>1, <1>6
  <2> QED
    BY <2>2
<1> QED
  BY <1>5, <1>6, <1>8, <1>9

LEMMA InsertKeeps ==
  ASSUME EventInv, NEW c \in Caller, InsertRewardTier(c)
  PROVE  EventInv'
<1> DEFINE e == arg[c][1]
           s == tiers[e]
           t == todo[c]
<1>a. LocalTypes /\ StoredTypes
  BY TypeParts DEF EventInv
<1>t. TypeOK'
  BY CreateTypes DEF EventInv
<1>u. UNCHANGED <<deploy, clock, events, scores, asked, wanted, phase, arg, view>>
  BY DEF InsertRewardTier
<1>p. /\ phase[c] = "tiers" /\ t # <<>>
      /\ tiers' = [tiers EXCEPT ![e] = Append(s, Head(t))]
      /\ todo' = [todo EXCEPT ![c] = Tail(t)]
  BY DEF InsertRewardTier
<1>b. e \in Id /\ s \in Seq(Tier) /\ t \in Seq(Tier)
  BY <1>a DEF LocalTypes, StoredTypes
<1>c. /\ events[e] # None /\ wanted[e] = s \o t
      /\ \A d \in Caller : d # c /\ phase[d] = "tiers" => arg[d][1] # e
  BY <1>p DEF EventInv, TierInv
<1>d. /\ s \o t = Append(s, Head(t)) \o Tail(t)
      /\ Begins(Append(s, Head(t)), s \o t)
      /\ Range(s) \subseteq Range(Append(s, Head(t)))
  BY <1>b, <1>p, OneTierOver
<1>e. /\ tiers'[e] = Append(s, Head(t))
      /\ \A f \in Id : f # e => tiers'[f] = tiers[f]
      /\ todo'[c] = Tail(t)
      /\ \A d \in Caller : d # c => todo'[d] = todo[d]
  BY <1>a, <1>b, <1>p DEF LocalTypes, StoredTypes
<1>f. \A d \in Caller : arg[d][1] \in Id
  BY <1>a DEF LocalTypes
<1> HIDE DEF e, s, t
<1>g. e = arg[c][1] /\ s = tiers[e]
  BY DEF e, s
<1>1. TierInv'
  <2>1. ASSUME NEW f \in Id
        PROVE  /\ Begins(tiers'[f], wanted[f])
               /\ events[f] = None => tiers'[f] = <<>>
    <3>1. CASE f = e
      BY <1>c, <1>d, <1>e, <3>1
    <3>2. CASE f # e
      BY <1>e, <3>2 DEF EventInv, TierInv
    <3> QED
      BY <3>1, <3>2
  <2>2. ASSUME NEW d \in Caller, phase[d] = "tiers"
        PROVE  /\ events[arg[d][1]] # None
               /\ wanted[arg[d][1]] = tiers'[arg[d][1]] \o todo'[d]
    <3>1. CASE d = c
      BY <1>c, <1>d, <1>e, <1>g, <3>1
    <3>2. CASE d # c
      <4>1. tiers'[arg[d][1]] = tiers[arg[d][1]] /\ todo'[d] = todo[d]
        BY <1>c, <1>e, <1>f, <2>2, <3>2
      <4>2. events[arg[d][1]] # None /\ wanted[arg[d][1]] = tiers[arg[d][1]] \o todo[d]
        BY <2>2 DEF EventInv, TierInv
      <4> QED
        BY <4>1, <4>2
    <3> QED
      BY <3>1, <3>2
  <2>3. \A b, d \in Caller :
           phase[b] = "tiers" /\ phase[d] = "tiers" /\ arg[b][1] = arg[d][1] => b = d
    BY DEF EventInv, TierInv
  <2> QED
    BY <1>u, <2>1, <2>2, <2>3 DEF TierInv
<1>2. WindowInv'
  BY <1>u DEF EventInv, WindowInv, StoredWindow, Kept, OnMySQL
<1>3. ASSUME NEW d \in Caller
      PROVE  ViewSound(d)'
  <2>1. clock \in Nat /\ \A ep \in Id \X Player : scores[ep] \in Nat
    BY <1>a, EventAssumption DEF LocalTypes, StoredTypes
  <2>2. clock <= clock' /\ \A ep \in Id \X Player : scores[ep] <= scores'[ep]
    BY <1>u, <2>1
  <2>3. /\ phase'[d] = phase[d] /\ arg'[d] = arg[d] /\ view'[d] = view[d]
        /\ \A f \in Id : events[f] # None => events'[f] = events[f]
    BY <1>u
  <2>4. \A f \in Id : Range(tiers[f]) \subseteq Range(tiers'[f])
    BY <1>d, <1>e, <1>g
  <2> QED
    BY <1>t, <2>2, <2>3, <2>4, ViewStays
<1> QED
  BY <1>t, <1>1, <1>2, <1>3 DEF EventInv, ViewInv

LEMMA TickKeeps ==
  ASSUME EventInv, Tick
  PROVE  EventInv'
<1>a. LocalTypes /\ StoredTypes
  BY TypeParts DEF EventInv
<1>t. TypeOK'
  BY TickTypes DEF EventInv
<1>u. UNCHANGED <<deploy, events, tiers, scores, asked, wanted, phase, arg, todo, view>>
  BY DEF Tick, stored
<1>1. TierInv'
  BY <1>u DEF EventInv, TierInv
<1>2. WindowInv'
  BY <1>u DEF EventInv, WindowInv, StoredWindow, Kept, OnMySQL
<1>3. ASSUME NEW d \in Caller
      PROVE  ViewSound(d)'
  <2>1. /\ clock <= clock'
        /\ \A ep \in Id \X Player : scores[ep] \in Nat
    BY <1>a, EventAssumption DEF Tick, LocalTypes, StoredTypes
  <2>2. /\ phase'[d] = phase[d] /\ arg'[d] = arg[d] /\ view'[d] = view[d]
        /\ \A f \in Id : events[f] # None => events'[f] = events[f]
        /\ \A f \in Id : Range(tiers[f]) \subseteq Range(tiers'[f])
        /\ \A ep \in Id \X Player : scores[ep] <= scores'[ep]
    BY <1>u, <2>1
  <2> QED
    BY <1>t, <2>1, <2>2, ViewStays
<1> QED
  BY <1>t, <1>1, <1>2, <1>3 DEF EventInv, ViewInv

LEMMA EventInit ==
  ASSUME Init
  PROVE  EventInv
<1>1. TypeOK
  BY TypesAtStart
<1>2. TierInv
  BY EmptySeq DEF Init, TierInv, Begins
<1>3. WindowInv
  BY DEF Init, WindowInv
<1>4. ViewInv
  BY DEF Init, ViewInv, ViewSound
<1> QED
  BY <1>1, <1>2, <1>3, <1>4 DEF EventInv

LEMMA EventStep ==
  ASSUME EventInv, [Next]_vars
  PROVE  EventInv'
<1>1. ASSUME NEW c \in Caller,
             \/ CreateReturns(c)
             \/ \E e \in Id, p \in Player, d \in Deltas : CheckOngoing(c, e, p, d)
             \/ AddScore(c) \/ AddScoreUnacknowledged(c) \/ AddScoreFails(c)
             \/ ReadBack(c) \/ ReadBackFails(c) \/ IncrBy(c)
             \/ RewardsReturns(c)
      PROVE  EventInv'
  <2>1. TypeOK'
    BY <1>1, CreateTypes, ScoreTypes, ViewTypes DEF EventInv
  <2>2. Quiet(c)
    BY <1>1, QuietSteps
  <2> QED
    BY <2>1, <2>2, QuietKeeps
<1>2. ASSUME NEW c \in Caller,
             \/ \E e \in Id, p \in Player : StartRewards(c, e, p)
             \/ ListRewardTiers(c) \/ GetScore(c) \/ ReadStatus(c) \/ ReadClaimable(c)
      PROVE  EventInv'
  BY <1>2, GetRewardsKeeps
<1>3. ASSUME NEW c \in Caller, NEW e \in Id, NEW w \in Windows, NEW ts \in Rewards,
             CreateEvent(c, e, w, ts)
      PROVE  EventInv'
  BY <1>3, CreateEventKeeps
<1>4. ASSUME NEW c \in Caller, InsertRewardTier(c)
      PROVE  EventInv'
  BY <1>4, InsertKeeps
<1>5. CASE Tick
  BY <1>5, TickKeeps
<1>6. CASE UNCHANGED vars
  BY <1>6 DEF vars, stored, EventInv, TypeOK, TierInv, WindowInv, StoredWindow, Kept, OnMySQL,
              ViewInv, ViewSound, Now
<1> QED
  BY <1>1, <1>2, <1>3, <1>4, <1>5, <1>6 DEF Next

LEMMA EventInvariant == Spec => []EventInv
<1>1. Init => EventInv
  BY EventInit
<1>2. EventInv /\ [Next]_vars => EventInv'
  BY EventStep
<1> QED
  BY <1>1, <1>2, PTL DEF Spec

-----------------------------------------------------------------------------
(* The theorems *)

\* Every variable of the event service, its repository and the leaderboard keeps
\* its type, for both repositories and both leaderboards.
THEOREM EventTypeCorrect == Spec => []TypeOK
<1>1. EventInv => TypeOK
  BY DEF EventInv
<1> QED
  BY <1>1, EventInvariant, PTL

\* Create inserts the event and then tier by tier, without a transaction.  Of any
\* number of concurrent calls for one id only the one whose CreateEvent succeeded
\* inserts tiers: what is stored is always how its reward list begins.
THEOREM TiersAreTheWinners == Spec => []TiersOfWinner
<1>1. ASSUME EventInv
      PROVE  TiersOfWinner
  <2> SUFFICES ASSUME NEW e \in Id
               PROVE  \E n \in 0..Len(wanted[e]) : tiers[e] = SubSeq(wanted[e], 1, n)
    BY DEF TiersOfWinner
  <2> DEFINE n == Len(tiers[e])
  <2>1. tiers[e] \in Seq(Tier) /\ wanted[e] \in Seq(Tier)
    BY <1>1 DEF EventInv, TypeOK
  <2>2. n \in Nat /\ Len(wanted[e]) \in Nat /\ n <= Len(wanted[e])
        /\ \A i \in 1..n : tiers[e][i] = wanted[e][i]
    BY <1>1, <2>1, LenProperties DEF EventInv, TierInv, Begins
  <2>3. n \in 0..Len(wanted[e])
    BY <2>2
  <2>4. tiers[e] = SubSeq(wanted[e], 1, n)
    BY <2>1, <2>2
  <2> QED
    BY <2>3, <2>4
<1> QED
  BY <1>1, EventInvariant, PTL

\* GetRewards reads the tiers, the points and twice the clock while other calls
\* go on: its response never shows ENDED without claimable, claimable before the
\* event is over, or a tier the repository would not grant.
THEOREM ViewsAreOrdered == Spec => []ViewIsOrdered
<1>1. ASSUME EventInv
      PROVE  ViewIsOrdered
  <2> SUFFICES ASSUME NEW c \in Caller, phase[c] = "viewed"
               PROVE  /\ view[c].status = "ENDED" => view[c].claimable
                      /\ view[c].claimable => Now(c) = "ENDED"
                      /\ EligibleRewards(view[c].tiers, view[c].points)
                           \subseteq EligibleRewards(tiers[arg[c][1]], scores[arg[c]])
    BY DEF ViewIsOrdered
  <2>a. LocalTypes /\ StoredTypes
    BY <1>1, TypeParts DEF EventInv
  <2>1. ViewSound(c)
    BY <1>1 DEF EventInv, ViewInv
  <2>2. /\ view[c].status = "ENDED" => view[c].claimable
        /\ view[c].claimable => Now(c) = "ENDED"
    BY <2>1, Zenon DEF ViewSound
  <2>3. /\ Range(view[c].tiers) \subseteq Range(tiers[arg[c][1]])
        /\ view[c].points <= scores[arg[c]]
    BY <2>1 DEF ViewSound
  <2>4. view[c].points \in Nat /\ scores[arg[c]] \in Nat /\ tiers[arg[c][1]] \in Seq(Tier)
    BY <2>a DEF LocalTypes, StoredTypes, Views
  <2>5. \A t \in Range(tiers[arg[c][1]]) : t.min \in Nat
    <3>1. \A t \in Range(tiers[arg[c][1]]) : t \in Tier
      BY <2>4, LenProperties DEF Range
    <3> QED
      BY <3>1 DEF Tier
  <2>6. EligibleRewards(view[c].tiers, view[c].points)
          \subseteq EligibleRewards(tiers[arg[c][1]], scores[arg[c]])
    BY <2>3, <2>4, <2>5 DEF EligibleRewards
  <2> QED
    BY <2>2, <2>6
<1> QED
  BY <1>1, EventInvariant, PTL

\* AddScore accepts points (StatusAt) exactly while ListCurrentEvents lists the
\* event, and that is the window Create was given, up to the half second by which
\* a TIMESTAMP column rounds its ends; in memory it is exactly that window.
THEOREM WindowsAreKept == Spec => []WindowKept
<1>1. ASSUME EventInv
      PROVE  WindowKept
  <2> SUFFICES ASSUME NEW e \in Id, events[e] # None
               PROVE  LET slack == IF OnMySQL THEN Second ELSE 0
                          open == StatusAt(events[e], clock) = "ONGOING"
                      IN  /\ open <=> e \in ListCurrentEvents(clock)
                          /\ open => 2 * clock \in
                                (2 * asked[e].start - slack)..(2 * asked[e].end + slack)
                          /\ 2 * clock \in
                                (2 * asked[e].start + slack)..(2 * asked[e].end - slack) => open
    BY DEF WindowKept, GetEvent
  <2> DEFINE w == events[e]
             a == asked[e].start
             b == asked[e].end
  <2>1. /\ clock \in Nat /\ w \in Window /\ w.start <= w.end
        /\ asked[e] \in Windows /\ w = StoredWindow(asked[e])
    BY <1>1, EventAssumption DEF EventInv, TypeOK, WindowInv
  <2>2. a \in Nat /\ b \in Nat
    BY <2>1, EventAssumption
  <2>3. w.start = Kept(a) /\ w.end = Kept(b)
    BY <2>1 DEF StoredWindow
  <2>4. StatusAt(w, clock) = "ONGOING" <=> w.start <= clock /\ clock <= w.end
    BY <2>1, StatusCases
  <2>5. e \in ListCurrentEvents(clock) <=> w.start <= clock /\ clock <= w.end
    BY DEF ListCurrentEvents, GetEvent
  <2>k. /\ Kept(a) \in Nat /\ Kept(b) \in Nat
        /\ OnMySQL => /\ 2 * Kept(a) - 2 * a \in (-Second)..Second
                      /\ 2 * Kept(b) - 2 * b \in (-Second)..Second
        /\ ~OnMySQL => Kept(a) = a /\ Kept(b) = b
    BY <2>2, KeptIsClose
  <2>s. Second \in Nat
    BY EventAssumption
  <2> HIDE DEF w, a, b
  <2>6. CASE OnMySQL
    <3>1. Kept(a) <= clock /\ clock <= Kept(b) => 2 * clock \in (2 * a - Second)..(2 * b + Second)
      BY <2>1, <2>2, <2>k, <2>s, <2>6
    <3>2. 2 * clock \in (2 * a + Second)..(2 * b - Second) => Kept(a) <= clock /\ clock <= Kept(b)
      BY <2>1, <2>2, <2>k, <2>s, <2>6
    <3> QED
      BY <2>3, <2>4, <2>5, <2>6, <3>1, <3>2 DEF w, a, b
  <2>7. CASE ~OnMySQL
    <3>1. Kept(a) <= clock /\ clock <= Kept(b) <=> 2 * clock \in (2 * a - 0)..(2 * b + 0)
      BY <2>1, <2>2, <2>k, <2>7
    <3>2. Kept(a) <= clock /\ clock <= Kept(b) <=> 2 * clock \in (2 * a + 0)..(2 * b - 0)
      BY <2>1, <2>2, <2>k, <2>7
    <3> QED
      BY <2>3, <2>4, <2>5, <2>7, <3>1, <3>2 DEF w, a, b
  <2> QED
    BY <2>6, <2>7
<1> QED
  BY <1>1, EventInvariant, PTL

-----------------------------------------------------------------------------
(* Sums over finite sets *)

\* A set of numbers that is not empty has a least one.
LEMMA LeastNumber ==
  ASSUME NEW N \in SUBSET Nat, N # {}
  PROVE  \E m \in N : \A n \in N : m <= n
<1>1. PICK m \in N : \A n \in N : ~(<<n, m>> \in OpToRel(<, Nat))
  BY NatLessThanWellFounded, WFMin
<1>2. ASSUME NEW n \in N PROVE m <= n
  <2>1. ~(<<n, m>> \in {ss \in Nat \X Nat : ss[1] < ss[2]})
    BY <1>1 DEF OpToRel
  <2>2. m \in Nat /\ n \in Nat
    OBVIOUS
  <2>3. ~(n < m)
    BY <2>1, <2>2
  <2> QED
    BY <2>2, <2>3
<1> QED
  BY <1>2

Pick(s) == CHOOSE x \in s : TRUE

\* The equation that the sum of d over the subsets of S is to satisfy at s.
SumAt(g, d, s) == IF s = {} THEN 0 ELSE d[Pick(s)] + g[s \ {Pick(s)}]

Solves(g, d, S) == \A s \in SUBSET S : g[s] = SumAt(g, d, s)

\* g[s] is the sum of d over s, for every subset s of S.
Sums(g, d, S) == g \in [SUBSET S -> Nat] /\ Solves(g, d, S)

\* A subset of a finite set, and what is left of it without its first element.
LEMMA PickFacts ==
  ASSUME NEW S, IsFiniteSet(S), NEW s \in SUBSET S
  PROVE  /\ IsFiniteSet(s) /\ Cardinality(s) \in Nat
         /\ Cardinality(s) = 0 <=> s = {}
         /\ s # {} => /\ Pick(s) \in s
                      /\ s \ {Pick(s)} \in SUBSET S
         /\ \A x \in s : Cardinality(s \ {x}) = Cardinality(s) - 1
<1>1. IsFiniteSet(s) /\ Cardinality(s) \in Nat
  BY FS_Subset, FS_CardinalityType
<1>2. Cardinality(s) = 0 <=> s = {}
  BY <1>1, FS_EmptySet
<1>3. s # {} => Pick(s) \in s
  BY DEF Pick
<1>4. \A x \in s : Cardinality(s \ {x}) = Cardinality(s) - 1
  BY <1>1, FS_RemoveElement
<1> QED
  BY <1>1, <1>2, <1>3, <1>4

\* The sums of the subsets with at most n elements.
SumsUpTo(n, g, d, S) ==
  /\ g \in [SUBSET S -> Nat]
  /\ \A s \in SUBSET S : Cardinality(s) <= n => g[s] = SumAt(g, d, s)

\* From the sums up to n one gets those up to n + 1.
LEMMA OneMore ==
  ASSUME NEW S, IsFiniteSet(S), NEW d, \A x \in S : d[x] \in Nat, NEW n \in Nat,
         NEW g, SumsUpTo(n, g, d, S)
  PROVE  SumsUpTo(n + 1, [s \in SUBSET S |-> SumAt(g, d, s)], d, S)
<1> DEFINE h == [s \in SUBSET S |-> SumAt(g, d, s)]
<1>1. g \in [SUBSET S -> Nat]
  BY DEF SumsUpTo
<1>2. \A s \in SUBSET S : SumAt(g, d, s) \in Nat
  <2> SUFFICES ASSUME NEW s \in SUBSET S PROVE SumAt(g, d, s) \in Nat
    OBVIOUS
  <2>1. s # {} => d[Pick(s)] \in Nat /\ g[s \ {Pick(s)}] \in Nat
    BY <1>1, PickFacts
  <2> QED
    BY <2>1 DEF SumAt
<1>3. h \in [SUBSET S -> Nat]
  BY <1>2
<1>4. ASSUME NEW s \in SUBSET S, Cardinality(s) <= n + 1
      PROVE  h[s] = SumAt(h, d, s)
  <2>1. h[s] = SumAt(g, d, s)
    OBVIOUS
  <2>2. CASE s = {}
    BY <2>1, <2>2 DEF SumAt
  <2>3. CASE s # {}
    <3> DEFINE t == s \ {Pick(s)}
    <3>1. t \in SUBSET S /\ Cardinality(t) = Cardinality(s) - 1 /\ Cardinality(s) \in Nat
      BY <2>3, PickFacts
    <3>2. Cardinality(t) <= n
      BY <1>4, <3>1
    <3>3. g[t] = SumAt(g, d, t)
      BY <3>1, <3>2 DEF SumsUpTo
    <3>4. h[t] = SumAt(g, d, t)
      BY <3>1
    <3>5. g[t] = h[t]
      BY <3>3, <3>4
    <3> HIDE DEF h
    <3> QED
      BY <2>1, <2>3, <3>5 DEF SumAt
  <2> QED
    BY <2>2, <2>3
<1> HIDE DEF h
<1>5. SumsUpTo(n + 1, h, d, S)
  BY <1>3, <1>4 DEF SumsUpTo
<1> QED
  BY <1>5 DEF h

\* A function with the sums of all the subsets of a finite set exists.
LEMMA SumsExist ==
  ASSUME NEW S, IsFiniteSet(S), NEW d, \A x \in S : d[x] \in Nat
  PROVE  \E g : Sums(g, d, S)
<1> DEFINE Has(n) == \E g : SumsUpTo(n, g, d, S)
           Bad == {n \in Nat : ~Has(n)}
<1>1. Has(0)
  <2> DEFINE g == [s \in SUBSET S |-> 0]
  <2>1. \A s \in SUBSET S : Cardinality(s) <= 0 => s = {}
    BY PickFacts
  <2>2. SumsUpTo(0, g, d, S)
    BY <2>1 DEF SumsUpTo, SumAt
  <2> QED
    BY <2>2
<1>2. \A n \in Nat : Has(n) => Has(n + 1)
  BY OneMore
<1> HIDE DEF Has
<1>3. Bad = {}
  <2> SUFFICES ASSUME Bad # {} PROVE FALSE
    OBVIOUS
  <2>1. PICK m \in Bad : \A n \in Bad : m <= n
    BY LeastNumber
  <2>2. m \in Nat /\ ~Has(m) /\ m # 0
    BY <1>1
  <2>3. m - 1 \in Nat /\ m - 1 + 1 = m
    BY <2>2
  <2>4. m - 1 \notin Bad
    BY <2>1, <2>3
  <2> QED
    BY <1>2, <2>2, <2>3, <2>4
<1>4. Cardinality(S) \in Nat
  BY FS_CardinalityType
<1>5. PICK g : SumsUpTo(Cardinality(S), g, d, S)
  BY <1>3, <1>4 DEF Has
<1>6. \A s \in SUBSET S : Cardinality(s) <= Cardinality(S)
  BY FS_Subset
<1> QED
  BY <1>5, <1>6 DEF SumsUpTo, Sums, Solves

\* The sum of a set is one of its elements plus the sum of the others, whichever
\* element it is.
LEMMA TakeOut ==
  ASSUME NEW S, IsFiniteSet(S), NEW d, \A x \in S : d[x] \in Nat, NEW g, Sums(g, d, S),
         NEW s \in SUBSET S, NEW x \in s
  PROVE  g[s] = d[x] + g[s \ {x}]
<1> DEFINE Fails(n) == \E u \in SUBSET S : /\ Cardinality(u) = n
                                          /\ \E y \in u : g[u] # d[y] + g[u \ {y}]
           Bad == {n \in Nat : Fails(n)}
<1> SUFFICES ASSUME g[s] # d[x] + g[s \ {x}] PROVE FALSE
  OBVIOUS
<1>1. Cardinality(s) \in Bad
  BY PickFacts
<1>2. PICK m \in Bad : \A n \in Bad : m <= n
  BY <1>1, LeastNumber
<1>3. PICK u \in SUBSET S : Cardinality(u) = m /\ \E y \in u : g[u] # d[y] + g[u \ {y}]
  BY <1>2
<1>4. PICK y \in u : g[u] # d[y] + g[u \ {y}]
  BY <1>3
<1> DEFINE z == Pick(u)
<1>5. z \in u
  BY <1>4, PickFacts
<1>6. g[u] = d[z] + g[u \ {z}]
  BY <1>4 DEF Sums, Solves, SumAt
<1>7. y # z
  BY <1>4, <1>6
<1>8. /\ Cardinality(u) \in Nat
      /\ Cardinality(u \ {z}) = Cardinality(u) - 1
      /\ Cardinality(u \ {y}) = Cardinality(u) - 1
      /\ Cardinality(u \ {z}) \in Nat
      /\ u \ {z} \in SUBSET S /\ u \ {y} \in SUBSET S
  BY <1>5, PickFacts
<1> HIDE DEF z
<1>9. ~Fails(Cardinality(u) - 1)
  <2>1. Cardinality(u) - 1 \in Nat /\ ~(m <= Cardinality(u) - 1)
    BY <1>3, <1>8
  <2> QED
    BY <1>2, <2>1
<1>10. g[u \ {z}] = d[y] + g[(u \ {z}) \ {y}]
  BY <1>7, <1>8, <1>9
<1>11. g[u \ {y}] = d[z] + g[(u \ {y}) \ {z}]
  BY <1>5, <1>7, <1>8, <1>9
<1>12. (u \ {z}) \ {y} = (u \ {y}) \ {z}
  OBVIOUS
<1> DEFINE w == g[(u \ {y}) \ {z}]
<1>13. d[y] \in Nat /\ d[z] \in Nat /\ w \in Nat
  BY <1>5 DEF Sums
<1>14. g[u] = d[z] + (d[y] + w) /\ g[u \ {y}] = d[z] + w
  BY <1>6, <1>10, <1>11, <1>12, Zenon
<1> HIDE DEF w
<1>15. d[z] + (d[y] + w) = d[y] + (d[z] + w)
  BY <1>13
<1> QED
  BY <1>4, <1>14, <1>15, Zenon

\* Equal numbers have equal sums.
LEMMA SameSums ==
  ASSUME NEW S, IsFiniteSet(S), NEW d, NEW g, Solves(g, d, S),
         NEW T, NEW e, NEW h, Solves(h, e, T),
         NEW s \in SUBSET S, s \in SUBSET T, \A x \in s : d[x] = e[x]
  PROVE  g[s] = h[s]
<1> DEFINE Bad == {n \in Nat : \E u \in SUBSET s : Cardinality(u) = n /\ g[u] # h[u]}
<1> SUFFICES ASSUME g[s] # h[s] PROVE FALSE
  OBVIOUS
<1>1. Cardinality(s) \in Bad
  BY PickFacts
<1>2. PICK m \in Bad : \A n \in Bad : m <= n
  BY <1>1, LeastNumber
<1>3. PICK u \in SUBSET s : Cardinality(u) = m /\ g[u] # h[u]
  BY <1>2
<1>4. u \in SUBSET S /\ u \in SUBSET T
  OBVIOUS
<1>5. g[u] = SumAt(g, d, u) /\ h[u] = SumAt(h, e, u)
  BY <1>4 DEF Solves
<1>6. u # {}
  BY <1>3, <1>5 DEF SumAt
<1>7. /\ Pick(u) \in u
      /\ Cardinality(u \ {Pick(u)}) = Cardinality(u) - 1
      /\ Cardinality(u \ {Pick(u)}) \in Nat /\ Cardinality(u) \in Nat
  <2>1. Pick(u) \in u /\ Cardinality(u \ {Pick(u)}) = Cardinality(u) - 1 /\ Cardinality(u) \in Nat
    BY <1>4, <1>6, PickFacts
  <2>2. u \ {Pick(u)} \in SUBSET S
    BY <1>4
  <2>3. Cardinality(u \ {Pick(u)}) \in Nat
    BY <2>2, PickFacts
  <2> QED
    BY <2>1, <2>3
<1>8. g[u \ {Pick(u)}] = h[u \ {Pick(u)}]
  <2>1. ~(m <= Cardinality(u \ {Pick(u)}))
    BY <1>3, <1>7
  <2>2. u \ {Pick(u)} \in SUBSET s
    OBVIOUS
  <2> QED
    BY <1>2, <1>7, <2>1, <2>2
<1>9. d[Pick(u)] = e[Pick(u)]
  BY <1>7
<1> QED
  BY <1>3, <1>5, <1>6, <1>8, <1>9, Zenon DEF SumAt

Total(d, S) == MapThenSumSet(LAMBDA c : d[c], S)

\* MapThenSumSet is the sum.
LEMMA SumIsSum ==
  ASSUME NEW S, IsFiniteSet(S), NEW d, \A x \in S : d[x] \in Nat
  PROVE  \E g : Sums(g, d, S) /\ Total(d, S) = g[S]
<1> DEFINE iter == CHOOSE g : g = [s \in SUBSET S |->
                     IF s = {} THEN 0
                     ELSE LET x == CHOOSE x \in s : TRUE IN d[x] + g[s \ {x}]]
<1>1. Total(d, S) = iter[S]
  BY DEF Total, MapThenSumSet, MapThenFoldSet
<1>2. PICK f : Sums(f, d, S)
  BY SumsExist
<1>3. f = [s \in SUBSET S |-> SumAt(f, d, s)]
  BY <1>2 DEF Sums, Solves
<1>4. \E g : g = [s \in SUBSET S |-> SumAt(g, d, s)]
  BY <1>3
<1>5. iter = CHOOSE g : g = [s \in SUBSET S |-> SumAt(g, d, s)]
  BY DEF SumAt, Pick
<1>6. iter = [s \in SUBSET S |-> SumAt(iter, d, s)]
  BY <1>4, <1>5
<1> HIDE DEF iter
<1>7. Solves(iter, d, S)
  <2>1. ASSUME NEW s \in SUBSET S PROVE iter[s] = SumAt(iter, d, s)
    BY <1>6
  <2> QED
    BY <2>1 DEF Solves
<1>8. \A s \in SUBSET S : f[s] = iter[s]
  BY <1>2, <1>7, SameSums DEF Sums
<1>9. S \in SUBSET S
  OBVIOUS
<1> QED
  BY <1>1, <1>2, <1>8, <1>9

\* A total is a number; equal numbers have the same total; and the total is any
\* element's number plus the total of the others.
LEMMA TotalFacts ==
  ASSUME NEW S, IsFiniteSet(S), NEW d, \A c \in S : d[c] \in Nat
  PROVE  /\ Total(d, S) \in Nat
         /\ \A e : (\A c \in S : e[c] = d[c]) => Total(e, S) = Total(d, S)
         /\ \A x \in S : Total(d, S) = d[x] + Total(d, S \ {x})
<1>1. PICK g : Sums(g, d, S) /\ Total(d, S) = g[S]
  BY SumIsSum
<1>2. S \in SUBSET S
  OBVIOUS
<1>3. Total(d, S) \in Nat
  BY <1>1, <1>2 DEF Sums
<1>4. ASSUME NEW e, \A c \in S : e[c] = d[c] PROVE Total(e, S) = Total(d, S)
  <2>1. \A c \in S : e[c] \in Nat
    BY <1>4
  <2>2. PICK h : Sums(h, e, S) /\ Total(e, S) = h[S]
    BY <2>1, SumIsSum
  <2>3. \A c \in S : d[c] = e[c]
    BY <1>4
  <2>4. g[S] = h[S]
    BY <1>1, <1>2, <2>2, <2>3, SameSums DEF Sums
  <2> QED
    BY <1>1, <2>2, <2>4
<1>5. ASSUME NEW x \in S PROVE Total(d, S) = d[x] + Total(d, S \ {x})
  <2> DEFINE T == S \ {x}
  <2>1. T \in SUBSET S /\ T \in SUBSET T
    OBVIOUS
  <2>2. IsFiniteSet(T)
    BY <2>1, FS_Subset
  <2>3. PICK h : Sums(h, d, T) /\ Total(d, T) = h[T]
    BY <2>1, <2>2, SumIsSum
  <2>4. \A c \in T : d[c] = d[c]
    OBVIOUS
  <2> HIDE DEF T
  <2>5. g[T] = h[T]
    BY <1>1, <2>1, <2>3, <2>4, SameSums DEF Sums
  <2>6. g[S] = d[x] + g[T]
    BY <1>1, <1>2, TakeOut DEF T
  <2>7. Total(d, S) = d[x] + Total(d, T)
    BY <1>1, <2>3, <2>5, <2>6, Zenon
  <2> QED
    BY <2>7 DEF T
<1> QED
  BY <1>3, <1>4, <1>5

-----------------------------------------------------------------------------
(* What the leaderboard lacks *)

\* Calls that have stored points and not yet offered them to the leaderboard.
Owing(ep) == {c \in Caller : phase[c] \in {"read", "incr"} /\ arg[c] = ep}

\* Points pending before and after a step, as totals.
LEMMA PendingTotals ==
  ASSUME NEW ep
  PROVE  Pending(ep) = Total(delta, Owing(ep)) /\ Pending(ep)' = Total(delta', Owing(ep)')
<1>1. Pending(ep) = Total(delta, Owing(ep))
  BY DEF Pending, Total, Owing
<1>2. Pending(ep)' = Total(delta', Owing(ep)')
  BY DEF Pending, Total, Owing, MapThenSumSet, MapThenFoldSet
<1> QED
  BY <1>1, <1>2

\* A step of one caller changes what is pending by what this caller owes.
LEMMA PendingChange ==
  ASSUME TypeOK, TypeOK', NEW c \in Caller, NEW ep,
         \A x \in Caller \ {c} : phase'[x] = phase[x] /\ arg'[x] = arg[x] /\ delta'[x] = delta[x]
  PROVE  /\ Pending(ep) \in Nat /\ Pending(ep)' \in Nat
         /\ c \notin Owing(ep) /\ c \notin Owing(ep)' => Pending(ep)' = Pending(ep)
         /\ c \notin Owing(ep) /\ c \in Owing(ep)' => Pending(ep)' = Pending(ep) + delta'[c]
         /\ c \in Owing(ep) /\ c \notin Owing(ep)' => Pending(ep) = Pending(ep)' + delta[c]
         /\ c \in Owing(ep) /\ c \in Owing(ep)' /\ delta'[c] = delta[c] =>
              Pending(ep)' = Pending(ep)
<1> DEFINE A == Owing(ep)
           B == Owing(ep)'
<1>1. Pending(ep) = Total(delta, A) /\ Pending(ep)' = Total(delta', B)
  BY PendingTotals
<1>2. A \in SUBSET Caller /\ B \in SUBSET Caller
  BY DEF Owing
<1>3. IsFiniteSet(A) /\ IsFiniteSet(B) /\ IsFiniteSet(A \ {c})
  BY <1>2, EventAssumption, FS_Subset, FS_RemoveElement
<1>4. \A x \in Caller : delta[x] \in Nat /\ delta'[x] \in Nat
  BY EventAssumption DEF TypeOK
<1>5. A \ {c} = B \ {c}
  BY DEF Owing
<1>6. \A x \in A \ {c} : delta'[x] = delta[x]
  BY <1>2
<1> HIDE DEF A, B
<1> DEFINE R == A \ {c}
<1>7. Total(delta, A) \in Nat /\ Total(delta', B) \in Nat
  BY <1>2, <1>3, <1>4, TotalFacts
<1>8. Total(delta', R) = Total(delta, R) /\ Total(delta, R) \in Nat
  <2>1. \A x \in R : delta[x] \in Nat
    BY <1>2, <1>4
  <2> HIDE DEF R
  <2> QED
    BY <1>3, <1>6, <2>1, TotalFacts DEF R
<1>9. c \in A => Total(delta, A) = delta[c] + Total(delta, R)
  BY <1>2, <1>3, <1>4, TotalFacts
<1>10. c \in B => Total(delta', B) = delta'[c] + Total(delta', R)
  BY <1>2, <1>3, <1>4, <1>5, TotalFacts
<1>11. (c \notin A => A = R) /\ (c \notin B => B = R)
  BY <1>5
<1> HIDE DEF R
<1>12. delta[c] \in Nat /\ delta'[c] \in Nat
  BY <1>4
<1>13. /\ c \notin A /\ c \notin B => Total(delta', B) = Total(delta, A)
       /\ c \notin A /\ c \in B => Total(delta', B) = Total(delta, A) + delta'[c]
       /\ c \in A /\ c \notin B => Total(delta, A) = Total(delta', B) + delta[c]
       /\ c \in A /\ c \in B /\ delta'[c] = delta[c] => Total(delta', B) = Total(delta, A)
  BY <1>8, <1>9, <1>10, <1>11, <1>12
<1> QED
  BY <1>1, <1>7, <1>13 DEF A, B

\* The books of one player in one event are balanced.
Books(ep) == scores[ep] + doubled[ep] = board[ep] + Pending(ep) + missed[ep]

\* In one process no call fails and no command is sent twice.
NoFaults ==
  deploy = <<"inmem", "inmem">> => \A ep \in Id \X Player : missed[ep] = 0 /\ doubled[ep] = 0

BoardInv == NoFaults /\ \A ep \in Id \X Player : Books(ep)

\* The other callers do not move.
OthersStay(c) ==
  \A x \in Caller \ {c} : phase'[x] = phase[x] /\ arg'[x] = arg[x] /\ delta'[x] = delta[x]

OwesNow(c) == phase[c] \in {"read", "incr"}

LEMMA PointTypes ==
  ASSUME TypeOK, NEW ep \in Id \X Player
  PROVE  scores[ep] \in Nat /\ board[ep] \in Nat /\ missed[ep] \in Nat /\ doubled[ep] \in Nat
  BY DEF TypeOK

\* A step of a call that owes nothing, before and after, and touches no points.
LEMMA NothingOwed ==
  ASSUME TypeOK, TypeOK', BoardInv, NEW c \in Caller, OthersStay(c),
         ~OwesNow(c), ~OwesNow(c)', UNCHANGED <<deploy, scores, board, missed, doubled>>
  PROVE  BoardInv'
<1>1. ASSUME NEW ep \in Id \X Player PROVE Books(ep)'
  <2>1. c \notin Owing(ep) /\ c \notin Owing(ep)'
    BY DEF Owing, OwesNow
  <2>2. Pending(ep)' = Pending(ep)
    BY <2>1, PendingChange DEF OthersStay
  <2>3. Books(ep)
    BY DEF BoardInv
  <2> QED
    BY <2>2, <2>3 DEF Books
<1>2. NoFaults'
  BY DEF BoardInv, NoFaults
<1> QED
  BY <1>1, <1>2 DEF BoardInv

\* A step of a call that touches points of its own player only.
LEMMA OwnPointsOnly ==
  ASSUME TypeOK, TypeOK', BoardInv, NEW c \in Caller, OthersStay(c),
         NEW a \in Id \X Player, arg[c] = a, arg'[c] = a,
         \A ep \in (Id \X Player) \ {a} :
            /\ scores'[ep] = scores[ep] /\ board'[ep] = board[ep]
            /\ missed'[ep] = missed[ep] /\ doubled'[ep] = doubled[ep],
         Books(a)', NoFaults'
  PROVE  BoardInv'
<1>1. ASSUME NEW ep \in (Id \X Player) \ {a} PROVE Books(ep)'
  <2>1. c \notin Owing(ep) /\ c \notin Owing(ep)'
    BY <1>1 DEF Owing
  <2>2. Pending(ep)' = Pending(ep)
    BY <2>1, PendingChange DEF OthersStay
  <2>3. Books(ep)
    BY DEF BoardInv
  <2> QED
    BY <1>1, <2>2, <2>3 DEF Books
<1>2. \A ep \in Id \X Player : Books(ep)'
  BY <1>1
<1> QED
  BY <1>2 DEF BoardInv

\* How a call's local state moves: it returns, or goes on to the next phase.
LEMMA Moves ==
  ASSUME TypeOK, NEW c \in Caller
  PROVE  /\ Leave(c) => /\ OthersStay(c) /\ phase'[c] = "idle" /\ arg'[c] = arg[c]
                        /\ UNCHANGED deploy
         /\ \A to : Goto(c, to) => /\ OthersStay(c) /\ phase'[c] = to /\ arg'[c] = arg[c]
                                   /\ delta'[c] = delta[c] /\ UNCHANGED deploy
<1>1. /\ phase \in [Caller -> Phases] /\ arg \in [Caller -> Id \X Player]
      /\ delta \in [Caller -> 0..MaxDelta]
  BY TypeParts DEF LocalTypes
<1>2. Leave(c) => /\ OthersStay(c) /\ phase'[c] = "idle" /\ arg'[c] = arg[c]
                  /\ UNCHANGED deploy
  BY <1>1 DEF Leave, OthersStay
<1>3. ASSUME NEW to, Goto(c, to)
      PROVE  /\ OthersStay(c) /\ phase'[c] = to /\ arg'[c] = arg[c]
             /\ delta'[c] = delta[c] /\ UNCHANGED deploy
  BY <1>1, <1>3 DEF Goto, OthersStay
<1> QED
  BY <1>2, <1>3

\* AddScore stores the points: from now on the call owes them to the leaderboard.
LEMMA AddScoreBooks ==
  ASSUME TypeOK, TypeOK', BoardInv, NEW c \in Caller, AddScore(c)
  PROVE  BoardInv'
<1>1. PICK a : a = arg[c]
  OBVIOUS
<1>2. a \in Id \X Player /\ delta[c] \in Nat
  BY <1>1, EventAssumption DEF TypeOK
<1>3. /\ OthersStay(c) /\ phase'[c] = "read" /\ arg'[c] = a /\ delta'[c] = delta[c]
      /\ UNCHANGED <<deploy, board, missed, doubled>> /\ phase[c] = "add"
  BY <1>1, Moves DEF AddScore
<1>4. /\ scores'[a] = scores[a] + delta[c]
      /\ \A ep \in (Id \X Player) \ {a} : scores'[ep] = scores[ep]
  BY <1>1, <1>2 DEF AddScore, Upsert, TypeOK
<1>5. c \notin Owing(a) /\ c \in Owing(a)'
  BY <1>1, <1>3 DEF Owing
<1>6. Pending(a)' = Pending(a) + delta[c] /\ Pending(a) \in Nat
  BY <1>3, <1>5, PendingChange DEF OthersStay
<1>7. Books(a)'
  <2>1. Books(a) /\ scores[a] \in Nat /\ board[a] \in Nat /\ missed[a] \in Nat /\ doubled[a] \in Nat
    BY <1>2, PointTypes DEF BoardInv
  <2>2. scores'[a] + doubled[a] = board[a] + Pending(a)' + missed[a]
    BY <1>2, <1>4, <1>6, <2>1 DEF Books
  <2> QED
    BY <1>3, <2>2 DEF Books
<1>8. NoFaults'
  BY <1>3 DEF BoardInv, NoFaults
<1> QED
  BY <1>1, <1>2, <1>3, <1>4, <1>7, <1>8, OwnPointsOnly

\* The points are stored and the call fails: they count as missed.
LEMMA UnacknowledgedBooks ==
  ASSUME TypeOK, TypeOK', BoardInv, NEW c \in Caller, AddScoreUnacknowledged(c)
  PROVE  BoardInv'
<1>1. PICK a : a = arg[c]
  OBVIOUS
<1>2. a \in Id \X Player /\ delta[c] \in Nat
  BY <1>1, EventAssumption DEF TypeOK
<1>3. /\ OthersStay(c) /\ phase'[c] = "idle" /\ arg'[c] = a
      /\ UNCHANGED <<deploy, board, doubled>> /\ phase[c] = "add" /\ OnMySQL
  BY <1>1, Moves DEF AddScoreUnacknowledged
<1>4. /\ scores'[a] = scores[a] + delta[c] /\ missed'[a] = missed[a] + delta[c]
      /\ \A ep \in (Id \X Player) \ {a} : scores'[ep] = scores[ep] /\ missed'[ep] = missed[ep]
  BY <1>1, <1>2 DEF AddScoreUnacknowledged, Upsert, TypeOK
<1>5. c \notin Owing(a) /\ c \notin Owing(a)'
  BY <1>3 DEF Owing
<1>6. Pending(a)' = Pending(a) /\ Pending(a) \in Nat
  BY <1>3, <1>5, PendingChange DEF OthersStay
<1>7. Books(a)'
  <2>1. Books(a) /\ scores[a] \in Nat /\ board[a] \in Nat /\ missed[a] \in Nat /\ doubled[a] \in Nat
    BY <1>2, PointTypes DEF BoardInv
  <2>2. scores'[a] + doubled[a] = board[a] + Pending(a)' + missed'[a]
    BY <1>2, <1>4, <1>6, <2>1 DEF Books
  <2> QED
    BY <1>3, <2>2 DEF Books
<1>8. NoFaults'
  BY <1>3 DEF NoFaults, OnMySQL
<1> QED
  BY <1>1, <1>2, <1>3, <1>4, <1>7, <1>8, OwnPointsOnly

\* Reading the points back: the call still owes them, or gives up and they are
\* missed.
LEMMA ReadBackBooks ==
  ASSUME TypeOK, TypeOK', BoardInv, NEW c \in Caller, ReadBack(c) \/ ReadBackFails(c)
  PROVE  BoardInv'
<1>1. PICK a : a = arg[c]
  OBVIOUS
<1>2. a \in Id \X Player /\ delta[c] \in Nat
  BY <1>1, EventAssumption DEF TypeOK
<1>a. Books(a) /\ scores[a] \in Nat /\ board[a] \in Nat /\ missed[a] \in Nat /\ doubled[a] \in Nat
  BY <1>2, PointTypes DEF BoardInv
<1>3. CASE ReadBack(c)
  <2>1. /\ OthersStay(c) /\ phase'[c] = "incr" /\ arg'[c] = a /\ delta'[c] = delta[c]
        /\ UNCHANGED <<deploy, scores, board, missed, doubled>> /\ phase[c] = "read"
    BY <1>1, <1>3, Moves DEF ReadBack, stored
  <2>2. c \in Owing(a) /\ c \in Owing(a)'
    BY <1>1, <2>1 DEF Owing
  <2>3. Pending(a)' = Pending(a)
    BY <2>1, <2>2, PendingChange DEF OthersStay
  <2>4. Books(a)' /\ NoFaults'
    BY <1>a, <2>1, <2>3 DEF Books, BoardInv, NoFaults
  <2> QED
    BY <1>1, <1>2, <2>1, <2>4, OwnPointsOnly
<1>4. CASE ReadBackFails(c)
  <2>1. /\ OthersStay(c) /\ phase'[c] = "idle" /\ arg'[c] = a
        /\ UNCHANGED <<deploy, scores, board, doubled>> /\ phase[c] = "read" /\ OnMySQL
    BY <1>1, <1>4, Moves DEF ReadBackFails
  <2>2. /\ missed'[a] = missed[a] + delta[c]
        /\ \A ep \in (Id \X Player) \ {a} : missed'[ep] = missed[ep]
    BY <1>1, <1>2, <1>4 DEF ReadBackFails, TypeOK
  <2>3. c \in Owing(a) /\ c \notin Owing(a)'
    BY <1>1, <2>1 DEF Owing
  <2>4. Pending(a) = Pending(a)' + delta[c] /\ Pending(a)' \in Nat
    BY <2>1, <2>3, PendingChange DEF OthersStay
  <2>5. scores[a] + doubled[a] = board[a] + Pending(a)' + missed'[a]
    BY <1>2, <1>a, <2>2, <2>4 DEF Books
  <2>6. Books(a)' /\ NoFaults'
    BY <2>1, <2>5 DEF Books, NoFaults, OnMySQL
  <2> QED
    BY <1>1, <1>2, <2>1, <2>2, <2>6, OwnPointsOnly
<1> QED
  BY <1>3, <1>4

\* A command carried out n times adds n deltas; all but the first are doubled,
\* and with none the delta is missed.
LEMMA TimesApplied ==
  ASSUME NEW n \in Nat, NEW d \in Nat
  PROVE  LET over == (IF n > 1 THEN n - 1 ELSE 0) * d
             short == (IF n = 0 THEN 1 ELSE 0) * d
         IN  /\ over \in Nat /\ short \in Nat /\ n * d \in Nat
             /\ over + d = n * d + short
             /\ n = 1 => over = 0 /\ short = 0
<1>1. CASE n = 0
  BY <1>1
<1>2. CASE n = 1
  BY <1>2
<1>3. CASE n > 1
  <2>1. (n - 1) * d = n * d - d /\ n * d \in Nat /\ (n - 1) * d \in Nat /\ 0 * d = 0
    BY <1>3
  <2> QED
    BY <1>3, <2>1
<1> QED
  BY <1>1, <1>2, <1>3

\* IncrBy settles what the call owes, on Redis possibly with none or too many of
\* its commands carried out.
LEMMA IncrByBooks ==
  ASSUME TypeOK, TypeOK', BoardInv, NEW c \in Caller, IncrBy(c)
  PROVE  BoardInv'
<1>1. PICK a : a = arg[c]
  OBVIOUS
<1>2. a \in Id \X Player /\ delta[c] \in Nat
  BY <1>1, EventAssumption DEF TypeOK
<1>3. PICK n \in Applied :
        /\ board' = [board EXCEPT ![a] = @ + n * delta[c]]
        /\ missed' = [missed EXCEPT ![a] = @ + (IF n = 0 THEN 1 ELSE 0) * delta[c]]
        /\ doubled' = [doubled EXCEPT ![a] = @ + (IF n > 1 THEN n - 1 ELSE 0) * delta[c]]
  BY <1>1 DEF IncrBy
<1>4. n \in Nat /\ (~OnRedis => n = 1)
  BY EventAssumption DEF Applied
<1>5. PICK over, short, put :
        /\ over = (IF n > 1 THEN n - 1 ELSE 0) * delta[c]
        /\ short = (IF n = 0 THEN 1 ELSE 0) * delta[c]
        /\ put = n * delta[c]
  OBVIOUS
<1>6. /\ over \in Nat /\ short \in Nat /\ put \in Nat
      /\ over + delta[c] = put + short
      /\ n = 1 => over = 0 /\ short = 0
  BY <1>2, <1>4, <1>5, TimesApplied
<1>7. /\ board'[a] = board[a] + put /\ missed'[a] = missed[a] + short
      /\ doubled'[a] = doubled[a] + over
      /\ \A ep \in (Id \X Player) \ {a} :
           board'[ep] = board[ep] /\ missed'[ep] = missed[ep] /\ doubled'[ep] = doubled[ep]
  <2>1. /\ board' = [board EXCEPT ![a] = @ + put]
        /\ missed' = [missed EXCEPT ![a] = @ + short]
        /\ doubled' = [doubled EXCEPT ![a] = @ + over]
    BY <1>3, <1>5, Zenon
  <2> QED
    BY <1>2, <2>1 DEF TypeOK
<1>8. /\ OthersStay(c) /\ phase'[c] = "idle" /\ arg'[c] = a
      /\ UNCHANGED <<deploy, scores>> /\ phase[c] = "incr"
  BY <1>1, Moves DEF IncrBy
<1>9. c \in Owing(a) /\ c \notin Owing(a)'
  BY <1>1, <1>8 DEF Owing
<1>10. Pending(a) = Pending(a)' + delta[c] /\ Pending(a)' \in Nat
  BY <1>8, <1>9, PendingChange DEF OthersStay
<1>11. Books(a)'
  <2>1. Books(a) /\ scores[a] \in Nat /\ board[a] \in Nat /\ missed[a] \in Nat /\ doubled[a] \in Nat
    BY <1>2, PointTypes DEF BoardInv
  <2>2. scores[a] + doubled'[a] = board'[a] + Pending(a)' + missed'[a]
    <3>1. scores[a] + doubled[a] = board[a] + (Pending(a)' + delta[c]) + missed[a]
      BY <1>10, <2>1, Zenon DEF Books
    <3>2. PICK p, d : p = Pending(a)' /\ d = delta[c] /\ p \in Nat /\ d \in Nat
      BY <1>2, <1>10
    <3>3. scores[a] + doubled[a] = board[a] + (p + d) + missed[a] /\ over + d = put + short
      BY <1>6, <3>1, <3>2, Zenon
    <3>4. PICK s, w, b, m : s = scores[a] /\ w = doubled[a] /\ b = board[a] /\ m = missed[a]
      OBVIOUS
    <3>5. /\ s \in Nat /\ w \in Nat /\ b \in Nat /\ m \in Nat
          /\ s + w = b + (p + d) + m
          /\ p \in Nat /\ d \in Nat /\ over \in Nat /\ short \in Nat /\ put \in Nat
          /\ over + d = put + short
      BY <1>6, <2>1, <3>2, <3>3, <3>4, Zenon
    <3>6. s + (w + over) = (b + put) + p + (m + short)
      BY <3>5
    <3> QED
      BY <1>7, <3>2, <3>4, <3>6, Zenon
  <2> QED
    BY <1>8, <2>2 DEF Books
<1>12. NoFaults'
  <2> SUFFICES ASSUME deploy' = <<"inmem", "inmem">>, NEW ep \in Id \X Player
               PROVE  missed'[ep] = 0 /\ doubled'[ep] = 0
    BY DEF NoFaults
  <2>1. deploy = <<"inmem", "inmem">> /\ ~OnRedis
    BY <1>8 DEF OnRedis
  <2>2. \A x \in Id \X Player : missed[x] = 0 /\ doubled[x] = 0
    BY <2>1 DEF BoardInv, NoFaults
  <2>3. over = 0 /\ short = 0
    BY <1>4, <1>6, <2>1
  <2> QED
    BY <1>2, <1>7, <2>2, <2>3
<1> QED
  BY <1>1, <1>2, <1>7, <1>8, <1>11, <1>12, OwnPointsOnly

\* The steps that owe nothing: creating an event, checking its window, a failed
\* upsert, and the rewards view.
LEMMA OtherBooks ==
  ASSUME TypeOK, TypeOK', BoardInv, NEW c \in Caller,
         \/ \E e \in Id, w \in Windows, ts \in Rewards : CreateEvent(c, e, w, ts)
         \/ InsertRewardTier(c) \/ CreateReturns(c)
         \/ \E e \in Id, p \in Player, d \in Deltas : CheckOngoing(c, e, p, d)
         \/ AddScoreFails(c)
         \/ \E e \in Id, p \in Player : StartRewards(c, e, p)
         \/ ListRewardTiers(c) \/ GetScore(c) \/ ReadStatus(c) \/ ReadClaimable(c)
         \/ RewardsReturns(c)
  PROVE  BoardInv'
<1> DEFINE Apart == /\ OthersStay(c) /\ ~OwesNow(c) /\ ~OwesNow(c)'
                    /\ UNCHANGED <<deploy, scores, board, missed, doubled>>
<1>a. /\ phase \in [Caller -> Phases] /\ arg \in [Caller -> Id \X Player]
      /\ delta \in [Caller -> 0..MaxDelta]
  BY TypeParts DEF LocalTypes
<1>1. ASSUME NEW e \in Id, NEW w \in Windows, NEW ts \in Rewards, CreateEvent(c, e, w, ts)
      PROVE  Apart
  BY <1>a, <1>1 DEF CreateEvent, OthersStay, OwesNow
<1>2. ASSUME InsertRewardTier(c) PROVE Apart
  BY <1>2 DEF InsertRewardTier, OthersStay, OwesNow
<1>3. ASSUME CreateReturns(c) \/ AddScoreFails(c) \/ RewardsReturns(c)
      PROVE  Apart
  BY <1>3, Moves DEF CreateReturns, AddScoreFails, RewardsReturns, stored, OwesNow
<1>4. ASSUME NEW e \in Id, NEW p \in Player, NEW d \in Deltas, CheckOngoing(c, e, p, d)
      PROVE  Apart
  BY <1>a, <1>4 DEF CheckOngoing, stored, OthersStay, OwesNow
<1>5. ASSUME NEW e \in Id, NEW p \in Player, StartRewards(c, e, p)
      PROVE  Apart
  BY <1>a, <1>5 DEF StartRewards, stored, OthersStay, OwesNow
<1>6. ASSUME ListRewardTiers(c) \/ GetScore(c) \/ ReadStatus(c) \/ ReadClaimable(c)
      PROVE  Apart
  <2>1. /\ phase[c] \in {"viewTiers", "viewPoints", "viewStatus", "viewClaimable"}
        /\ \/ Goto(c, "viewPoints") \/ Goto(c, "viewStatus")
           \/ Goto(c, "viewClaimable") \/ Goto(c, "viewed")
        /\ UNCHANGED <<scores, board, missed, doubled>>
    BY <1>6 DEF ListRewardTiers, GetScore, ReadStatus, ReadClaimable, stored
  <2> QED
    BY <2>1, Moves DEF OwesNow
<1>7. Apart
  BY <1>1, <1>2, <1>3, <1>4, <1>5, <1>6
<1> QED
  BY <1>7, NothingOwed

\* At the start no call runs: nothing is pending and every account is empty.
LEMMA BoardInit == Init => BoardInv
<1> SUFFICES ASSUME Init PROVE BoardInv
  OBVIOUS
<1>1. ASSUME NEW ep \in Id \X Player PROVE Books(ep)
  <2>1. Owing(ep) = {}
    BY DEF Init, Owing
  <2>2. PICK g : Sums(g, delta, {}) /\ Total(delta, {}) = g[{}]
    <3>1. IsFiniteSet({}) /\ \A x \in {} : delta[x] \in Nat
      BY FS_EmptySet
    <3> QED
      BY <3>1, SumIsSum
  <2>3. g[{}] = 0
    BY <2>2 DEF Sums, Solves, SumAt
  <2>4. Pending(ep) = Total(delta, {})
    BY <2>1, PendingTotals
  <2>5. Pending(ep) = 0
    BY <2>2, <2>3, <2>4
  <2> QED
    BY <2>5 DEF Books, Init
<1>2. NoFaults
  BY DEF Init, NoFaults
<1> QED
  BY <1>1, <1>2 DEF BoardInv

LEMMA BoardStep ==
  ASSUME EventInv, BoardInv, [Next]_vars
  PROVE  BoardInv'
<1>1. TypeOK /\ TypeOK'
  BY EventStep DEF EventInv
<1>2. CASE Tick \/ UNCHANGED vars
  <2>1. UNCHANGED <<deploy, scores, board, missed, doubled, phase, arg, delta>>
    BY <1>2 DEF Tick, vars, stored
  <2>2. ASSUME NEW ep \in Id \X Player PROVE Books(ep)'
    <3>1. Owing(ep)' = Owing(ep)
      BY <2>1 DEF Owing
    <3>2. Pending(ep)' = Pending(ep)
      BY <2>1, <3>1, PendingTotals
    <3>3. Books(ep)
      BY DEF BoardInv
    <3> QED
      BY <2>1, <3>2, <3>3 DEF Books
  <2>3. NoFaults'
    BY <2>1 DEF BoardInv, NoFaults
  <2> QED
    BY <2>2, <2>3 DEF BoardInv
<1>3. ASSUME NEW c \in Caller, AddScore(c) \/ AddScoreUnacknowledged(c)
      PROVE  BoardInv'
  BY <1>1, <1>3, AddScoreBooks, UnacknowledgedBooks
<1>4. ASSUME NEW c \in Caller, ReadBack(c) \/ ReadBackFails(c) \/ IncrBy(c)
      PROVE  BoardInv'
  BY <1>1, <1>4, ReadBackBooks, IncrByBooks
<1>5. ASSUME NEW c \in Caller,
             \/ \E e \in Id, w \in Windows, ts \in Rewards : CreateEvent(c, e, w, ts)
             \/ InsertRewardTier(c) \/ CreateReturns(c)
             \/ \E e \in Id, p \in Player, d \in Deltas : CheckOngoing(c, e, p, d)
             \/ AddScoreFails(c)
             \/ \E e \in Id, p \in Player : StartRewards(c, e, p)
             \/ ListRewardTiers(c) \/ GetScore(c) \/ ReadStatus(c) \/ ReadClaimable(c)
             \/ RewardsReturns(c)
      PROVE  BoardInv'
  BY <1>1, <1>5, OtherBooks
<1> QED
  BY <1>2, <1>3, <1>4, <1>5 DEF Next

\* MySQL is the truth and the leaderboard follows, for any number of concurrent
\* AddScore calls and whatever fails between the upsert, the reading back and the
\* increment: per event and player the repository is ahead of the board by exactly
\* what calls in flight or failed calls owe it, and behind by what the Redis client
\* has sent twice; with both in memory only calls in flight make a difference.
THEOREM BoardAccounts == Spec => []BoardAccountsForScores
<1>1. Init => EventInv /\ BoardInv
  BY EventInit, BoardInit
<1>2. (EventInv /\ BoardInv) /\ [Next]_vars => (EventInv /\ BoardInv)'
  BY EventStep, BoardStep
<1>3. EventInv /\ BoardInv => BoardAccountsForScores
  <2> SUFFICES ASSUME TypeOK, BoardInv, NEW ep \in Id \X Player
               PROVE  /\ Books(ep)
                      /\ deploy = <<"inmem", "inmem">> => scores[ep] = board[ep] + Pending(ep)
    BY DEF BoardAccountsForScores, EventInv, Books
  <2>1. Books(ep)
    BY DEF BoardInv
  <2>2. scores[ep] \in Nat /\ board[ep] \in Nat
    BY PointTypes
  <2>3. Pending(ep) \in Nat
    <3>1. IsFiniteSet(Owing(ep)) /\ \A x \in Owing(ep) : delta[x] \in Nat
      <4>1. Owing(ep) \in SUBSET Caller
        BY DEF Owing
      <4>2. \A x \in Caller : delta[x] \in Nat
        BY EventAssumption DEF TypeOK
      <4> QED
        BY <4>1, <4>2, EventAssumption, FS_Subset
    <3> QED
      BY <3>1, TotalFacts, PendingTotals
  <2>4. deploy = <<"inmem", "inmem">> => missed[ep] = 0 /\ doubled[ep] = 0
    BY DEF BoardInv, NoFaults
  <2> QED
    BY <2>1, <2>2, <2>3, <2>4 DEF Books
<1> QED
  BY <1>1, <1>2, <1>3, PTL DEF Spec
==============================================================================
