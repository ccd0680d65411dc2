-------------------------------- MODULE Event --------------------------------
(***************************************************************************)
(* The event service over its repository and the leaderboard.  Every       *)
(* repository call is a step of its own: creating an event inserts the     *)
(* event and then each reward tier; adding a score checks the event's      *)
(* window, upserts the points, reads them back and then increments the     *)
(* leaderboard; the rewards view reads tiers, points and the clock one     *)
(* after the other.  The MySQL repository may fail at every call and keeps *)
(* whole seconds; the Redis leaderboard may fail, and its client repeats a *)
(* command whose answer it did not get.  Those in memory do neither.       *)
(***************************************************************************)
EXTENDS Integers, Sequences, FiniteSetsExt

CONSTANTS Caller,      \* goroutines running service calls
          Id,          \* event ids
          Player,
          Windows,     \* windows callers ask for: [start, end]
          Rewards,     \* reward lists callers ask for: sequences of [tier, min]
          Deltas,      \* deltas callers ask for, valid or not
          MaxDelta,    \* maxScoreDelta
          Deployments, \* pairs of a repository and a leaderboard
          Attempts,    \* times the Redis client sends a command
          Second,      \* ticks in a second
          None,        \* no value
          MaxClock,    \* bound: ticks of the clock
          MaxPoints    \* bound: points at which callers stop adding

ASSUME EventAssumption ==
  /\ IsFiniteSet(Caller)
  /\ None \notin [start : Nat, end : Nat]
  /\ Windows \subseteq [start : Nat, end : Nat]
  /\ Rewards \subseteq Seq([tier : Nat, min : Nat])
  /\ Deltas \subseteq Int
  /\ MaxDelta \in Nat \ {0}
  /\ Deployments \subseteq {"inmem", "mysql"} \X {"inmem", "redis"}
  /\ Attempts \in Nat \ {0} /\ Second \in Nat \ {0}
  /\ MaxClock \in Nat /\ MaxPoints \in Nat

VARIABLES deploy,  \* the repository and the leaderboard of this server
          clock,   \* the wall clock
          events,  \* window of every event, None if there is no such event
          tiers,   \* reward tiers of every event, in insertion order
          scores,  \* points in the repository, 0 when there is no row
          board,   \* points in the leaderboard
          missed,  \* history: points that failed calls kept from the leaderboard
          doubled, \* history: points the Redis client has added once too often
          asked,   \* history: the window of the Create call that made the event
          wanted,  \* history: its reward list
          phase,   \* where a call is
          arg,     \* its event and player
          delta,   \* points it adds
          todo,    \* reward tiers it has still to insert
          view     \* the RewardsView it has built

stored == <<events, tiers, scores, board, missed, doubled, asked, wanted>>
vars == <<deploy, clock, stored, phase, arg, delta, todo, view>>

Tier == [tier : Nat, min : Nat]
Window == [start : Nat, end : Nat]
NoView == [tiers |-> <<>>, points |-> 0, status |-> None, claimable |-> FALSE]

TypeOK ==
  /\ deploy \in Deployments
  /\ clock \in 0..MaxClock
  /\ events \in [Id -> Window \union {None}]
  /\ tiers \in [Id -> Seq(Tier)]
  /\ scores \in [Id \X Player -> Nat]
  /\ board \in [Id \X Player -> Nat]
  /\ missed \in [Id \X Player -> Nat]
  /\ doubled \in [Id \X Player -> Nat]
  /\ asked \in [Id -> Windows \union {None}]
  /\ wanted \in [Id -> Seq(Tier)]
  /\ phase \in [Caller -> {"idle", "tiers", "add", "read", "incr",
                           "viewTiers", "viewPoints", "viewStatus", "viewClaimable",
                           "viewed"}]
  /\ arg \in [Caller -> Id \X Player]
  /\ delta \in [Caller -> 0..MaxDelta]
  /\ todo \in [Caller -> Seq(Tier)]
  /\ view \in [Caller -> [tiers : Seq(Tier), points : Nat, claimable : BOOLEAN,
                          status : {"UPCOMING", "ONGOING", "ENDED", None}]]

Init ==
  /\ deploy \in Deployments
  /\ clock = 0
  /\ events = [e \in Id |-> None]
  /\ tiers = [e \in Id |-> <<>>]
  /\ scores = [ep \in Id \X Player |-> 0]
  /\ board = [ep \in Id \X Player |-> 0]
  /\ missed = [ep \in Id \X Player |-> 0]
  /\ doubled = [ep \in Id \X Player |-> 0]
  /\ asked = [e \in Id |-> None]
  /\ wanted = [e \in Id |-> <<>>]
  /\ phase = [c \in Caller |-> "idle"]
  /\ arg \in [Caller -> Id \X Player]
  /\ delta = [c \in Caller |-> 0]
  /\ todo = [c \in Caller |-> <<>>]
  /\ view = [c \in Caller |-> NoView]

-----------------------------------------------------------------------------
OnMySQL == deploy[1] = "mysql"
OnRedis == deploy[2] = "redis"

StatusAt(w, now) ==
  CASE now < w.start -> "UPCOMING"
    [] now > w.end   -> "ENDED"
    [] OTHER         -> "ONGOING"

EligibleRewards(ts, points) == {t \in Range(ts) : points >= t.min}

\* The repository has the event.
GetEvent(e) == events[e] # None

\* start_at <= now AND end_at >= now, the repositories' own reading of the window.
ListCurrentEvents(now) ==
  {e \in Id : GetEvent(e) /\ events[e].start <= now /\ now <= events[e].end}

\* A call returns, with or without an error, and its local variables are gone.
Leave(c) ==
  /\ phase' = [phase EXCEPT ![c] = "idle"]
  /\ delta' = [delta EXCEPT ![c] = 0]
  /\ todo' = [todo EXCEPT ![c] = <<>>]
  /\ view' = [view EXCEPT ![c] = NoView]
  /\ UNCHANGED <<deploy, clock, arg>>

Goto(c, to) ==
  /\ phase' = [phase EXCEPT ![c] = to]
  /\ UNCHANGED <<deploy, clock, arg, delta, todo>>

-----------------------------------------------------------------------------
(* Create *)

\* ErrInvalidWindow otherwise.
ValidWindow(w) == w.start < w.end

\* Faulty variant: instants are cut to the second.
KeptCut(t) == IF OnMySQL THEN (t \div Second) * Second ELSE t

\* A TIMESTAMP column keeps whole seconds and rounds to the nearest one.
Kept(t) == IF OnMySQL THEN ((2 * t + Second) \div (2 * Second)) * Second ELSE t

StoredWindow(w) == [start |-> Kept(w.start), end |-> Kept(w.end)]

\* Faulty variant: the error of CreateEvent is dropped.
CreateEventOverExisting(c, e, w, ts) ==
  /\ phase[c] = "idle"
  /\ ValidWindow(w)
  /\ events' = [events EXCEPT ![e] = IF @ = None THEN StoredWindow(w) ELSE @]
  /\ asked' = [asked EXCEPT ![e] = IF @ = None THEN w ELSE @]
  /\ wanted' = [wanted EXCEPT ![e] = IF events[e] = None THEN ts ELSE @]
  /\ todo' = [todo EXCEPT ![c] = ts]
  /\ arg' = [arg EXCEPT ![c] = <<e, @[2]>>]
  /\ phase' = [phase EXCEPT ![c] = "tiers"]
  /\ UNCHANGED <<deploy, clock, tiers, scores, board, missed, doubled, delta, view>>

\* The window is valid and the id is new: the event is in the repository.
CreateEvent(c, e, w, ts) ==
  /\ phase[c] = "idle"
  /\ ValidWindow(w)
  /\ ~GetEvent(e)
  /\ events' = [events EXCEPT ![e] = StoredWindow(w)]
  /\ asked' = [asked EXCEPT ![e] = w]
  /\ wanted' = [wanted EXCEPT ![e] = ts]
  /\ todo' = [todo EXCEPT ![c] = ts]
  /\ arg' = [arg EXCEPT ![c] = <<e, @[2]>>]
  /\ phase' = [phase EXCEPT ![c] = "tiers"]
  /\ UNCHANGED <<deploy, clock, tiers, scores, board, missed, doubled, delta, view>>

DuplicateTier(e, t) == OnMySQL /\ \E u \in Range(tiers[e]) : u.tier = t.tier

InsertRewardTier(c) ==
  /\ phase[c] = "tiers" /\ todo[c] # <<>>
  /\ ~DuplicateTier(arg[c][1], Head(todo[c]))
  /\ tiers' = [tiers EXCEPT ![arg[c][1]] = Append(@, Head(todo[c]))]
  /\ todo' = [todo EXCEPT ![c] = Tail(@)]
  /\ UNCHANGED <<deploy, clock, events, scores, board, missed, doubled, asked, wanted,
                 phase, arg, delta, view>>

\* Create returns: done, or with the error of a failed InsertRewardTier.
CreateReturns(c) ==
  /\ phase[c] = "tiers"
  /\ todo[c] = <<>> \/ OnMySQL
  /\ Leave(c)
  /\ UNCHANGED stored

-----------------------------------------------------------------------------
(* AddScore *)

ValidDelta(d) == d > 0 /\ d <= MaxDelta

\* GetEvent finds the event and its window holds the current time.
CheckOngoing(c, e, p, d) ==
  /\ phase[c] = "idle"
  /\ ValidDelta(d)
  /\ GetEvent(e)
  /\ StatusAt(events[e], clock) = "ONGOING"
  /\ scores[<<e, p>>] < MaxPoints
  /\ arg' = [arg EXCEPT ![c] = <<e, p>>]
  /\ delta' = [delta EXCEPT ![c] = d]
  /\ phase' = [phase EXCEPT ![c] = "add"]
  /\ UNCHANGED <<deploy, clock, stored, todo, view>>

\* INSERT ... ON DUPLICATE KEY UPDATE points = points + delta.
Upsert(old, d) == old + d

AddScore(c) ==
  /\ phase[c] = "add"
  /\ scores' = [scores EXCEPT ![arg[c]] = Upsert(@, delta[c])]
  /\ Goto(c, "read")
  /\ UNCHANGED <<events, tiers, board, missed, doubled, asked, wanted, view>>

\* The points are stored but the call fails: AddScore returns an error.
AddScoreUnacknowledged(c) ==
  /\ OnMySQL /\ phase[c] = "add"
  /\ scores' = [scores EXCEPT ![arg[c]] = Upsert(@, delta[c])]
  /\ missed' = [missed EXCEPT ![arg[c]] = @ + delta[c]]
  /\ Leave(c)
  /\ UNCHANGED <<events, tiers, board, doubled, asked, wanted>>

AddScoreFails(c) ==
  /\ OnMySQL /\ phase[c] = "add"
  /\ Leave(c)
  /\ UNCHANGED stored

\* GetScore succeeds; the leaderboard comes last.
ReadBack(c) ==
  /\ phase[c] = "read"
  /\ Goto(c, "incr")
  /\ UNCHANGED <<stored, view>>

\* GetScore fails: AddScore returns before the leaderboard is touched.
ReadBackFails(c) ==
  /\ OnMySQL /\ phase[c] = "read"
  /\ missed' = [missed EXCEPT ![arg[c]] = @ + delta[c]]
  /\ Leave(c)
  /\ UNCHANGED <<events, tiers, scores, board, doubled, asked, wanted>>

\* How often the leaderboard can have added the delta when IncrBy returns: the
\* Redis client sends ZINCRBY again when it gets no answer, and none or all of
\* the commands it sent may have been carried out.
Applied == IF OnRedis THEN 0..Attempts ELSE {1}

\* Faulty variant: the service gives the leaderboard the delta again on an error.
IncrByAgain(c) ==
  /\ phase[c] = "incr"
  /\ \E n \in Applied :
       /\ board' = [board EXCEPT ![arg[c]] = @ + (n + 1) * delta[c]]
       /\ doubled' = [doubled EXCEPT ![arg[c]] =
                        @ + (IF n > 1 THEN n - 1 ELSE 0) * delta[c]]
  /\ Leave(c)
  /\ UNCHANGED <<events, tiers, scores, missed, asked, wanted>>

\* An error of the leaderboard is logged: AddScore succeeds in every case.
IncrBy(c) ==
  /\ phase[c] = "incr"
  /\ \E n \in Applied :
       /\ board' = [board EXCEPT ![arg[c]] = @ + n * delta[c]]
       /\ missed' = [missed EXCEPT ![arg[c]] = @ + (IF n = 0 THEN 1 ELSE 0) * delta[c]]
       /\ doubled' = [doubled EXCEPT ![arg[c]] =
                        @ + (IF n > 1 THEN n - 1 ELSE 0) * delta[c]]
  /\ Leave(c)
  /\ UNCHANGED <<events, tiers, scores, asked, wanted>>

-----------------------------------------------------------------------------
(* GetRewards *)

StartRewards(c, e, p) ==
  /\ phase[c] = "idle"
  /\ GetEvent(e)
  /\ arg' = [arg EXCEPT ![c] = <<e, p>>]
  /\ phase' = [phase EXCEPT ![c] = "viewTiers"]
  /\ UNCHANGED <<deploy, clock, stored, delta, todo, view>>

\* ORDER BY tier.  sort.Slice is not stable: tiers of one number, which only
\* memory has, may come in any order.
TiersByNumber(e) ==
  {[i \in DOMAIN tiers[e] |-> tiers[e][f[i]]] :
     f \in {g \in Bijection(DOMAIN tiers[e], DOMAIN tiers[e]) :
              \A i, j \in DOMAIN g : i < j => tiers[e][g[i]].tier <= tiers[e][g[j]].tier}}

ListRewardTiers(c) ==
  /\ phase[c] = "viewTiers"
  /\ \E ts \in TiersByNumber(arg[c][1]) : view' = [view EXCEPT ![c].tiers = ts]
  /\ Goto(c, "viewPoints")
  /\ UNCHANGED stored

GetScore(c) ==
  /\ phase[c] = "viewPoints"
  /\ view' = [view EXCEPT ![c].points = scores[arg[c]]]
  /\ Goto(c, "viewStatus")
  /\ UNCHANGED stored

Now(c) == StatusAt(events[arg[c][1]], clock)

\* Status: e.StatusAt(s.now()).
ReadStatus(c) ==
  /\ phase[c] = "viewStatus"
  /\ view' = [view EXCEPT ![c].status = Now(c)]
  /\ Goto(c, "viewClaimable")
  /\ UNCHANGED stored

\* Faulty variant: Claimable is already true in the last moment of the window.
EndedOrEnding(c) == clock >= events[arg[c][1]].end

\* Claimable: e.StatusAt(s.now()) == StatusEnded, a second reading of the clock.
Ended(c) == Now(c) = "ENDED"

ReadClaimable(c) ==
  /\ phase[c] = "viewClaimable"
  /\ view' = [view EXCEPT ![c].claimable = Ended(c)]
  /\ Goto(c, "viewed")
  /\ UNCHANGED stored

\* The response is written, or one of the reads failed.
RewardsReturns(c) ==
  /\ phase[c] = "viewed" \/ (OnMySQL /\ phase[c] \in {"viewTiers", "viewPoints"})
  /\ Leave(c)
  /\ UNCHANGED stored

-----------------------------------------------------------------------------
Tick ==
  /\ clock < MaxClock
  /\ clock' = clock + 1
  /\ UNCHANGED <<deploy, stored, phase, arg, delta, todo, view>>

Next ==
  \/ \E c \in Caller :
       \/ \E e \in Id, w \in Windows, ts \in Rewards : CreateEvent(c, e, w, ts)
       \/ InsertRewardTier(c) \/ CreateReturns(c)
       \/ \E e \in Id, p \in Player, d \in Deltas : CheckOngoing(c, e, p, d)
       \/ AddScore(c) \/ AddScoreUnacknowledged(c) \/ AddScoreFails(c)
       \/ ReadBack(c) \/ ReadBackFails(c) \/ IncrBy(c)
       \/ \E e \in Id, p \in Player : StartRewards(c, e, p)
       \/ ListRewardTiers(c) \/ GetScore(c) \/ ReadStatus(c) \/ ReadClaimable(c)
       \/ RewardsReturns(c)
  \/ Tick

Spec == Init /\ [][Next]_vars

-----------------------------------------------------------------------------
(* Properties *)

\* Points the repository has and a running AddScore will still offer to the board.
Pending(ep) ==
  MapThenSumSet(LAMBDA c : delta[c],
                {c \in Caller : phase[c] \in {"read", "incr"} /\ arg[c] = ep})

\* MySQL is the truth and the leaderboard follows: it lacks exactly what calls
\* in flight or failed calls owe it, and is ahead by what the Redis client has
\* sent twice.  A server that keeps both in memory never lets them drift apart.
BoardAccountsForScores ==
  \A ep \in Id \X Player :
     /\ scores[ep] + doubled[ep] = board[ep] + Pending(ep) + missed[ep]
     /\ deploy = <<"inmem", "inmem">> => scores[ep] = board[ep] + Pending(ep)

\* Concurrent Create calls for one id: only the winner's rewards get in, and
\* in its order, whatever fails in between.
TiersOfWinner ==
  \A e \in Id : \E n \in 0..Len(wanted[e]) : tiers[e] = SubSeq(wanted[e], 1, n)

\* GetRewards reads tiers, points and (twice) the clock while other calls go on.
\* In one response ENDED implies claimable, claimable implies that the event is
\* over, and no tier is shown as earned that the repository would not grant.
ViewIsOrdered ==
  \A c \in Caller : phase[c] = "viewed" =>
     /\ view[c].status = "ENDED" => view[c].claimable
     /\ view[c].claimable => Now(c) = "ENDED"
     /\ EligibleRewards(view[c].tiers, view[c].points)
          \subseteq EligibleRewards(tiers[arg[c][1]], scores[arg[c]])

\* The window is checked before it is stored and MySQL rounds both ends, so a
\* valid window may shrink to an instant; and the repositories select current
\* events with a comparison of their own.  Nevertheless an event is listed as
\* current exactly while its scores are accepted: at no instant more than half a
\* second outside the window asked for, at every instant at least half a second
\* inside it, and in memory exactly in the window.
WindowKept ==
  \A e \in Id : GetEvent(e) =>
     LET slack == IF OnMySQL THEN Second ELSE 0
         open == StatusAt(events[e], clock) = "ONGOING"
     IN  /\ open <=> e \in ListCurrentEvents(clock)
         /\ open => 2 * clock \in (2 * asked[e].start - slack)..(2 * asked[e].end + slack)
         /\ 2 * clock \in (2 * asked[e].start + slack)..(2 * asked[e].end - slack) => open
==============================================================================
