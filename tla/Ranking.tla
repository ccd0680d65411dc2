------------------------------ MODULE Ranking ------------------------------
(***************************************************************************)
(* The ranking service over its two leaderboards, for one event (events    *)
(* have separate sorted sets).  In memory every method runs under one      *)
(* lock.  With Redis, Top is one command, but Rank and Around are two, and *)
(* scores change between them.                                             *)
(*                                                                         *)
(* A player's score is 0 when the player has no entry: AddScore adds only  *)
(* positive amounts.  Ids are numbers, their order is the lexical one.     *)
(***************************************************************************)
EXTENDS Integers, Sequences, FiniteSetsExt

CONSTANTS Player,
          Reader,               \* requests that read the ranking
          Deltas,               \* points AddScore adds
          Queries,              \* values of ?n and ?radius, None if not a number
          DefaultTopN, MaxTopN,
          DefaultAroundRadius, MaxAroundRadius,
          None,                 \* no value
          MaxScore              \* bound: scores stop growing

ASSUME RankingAssumption ==
  /\ Player \subseteq Int /\ IsFiniteSet(Player)
  /\ Deltas \subseteq Nat \ {0}
  /\ Queries \subseteq Int \union {None}
  /\ MaxTopN \in Nat /\ DefaultTopN \in 1..MaxTopN
  /\ MaxAroundRadius \in Nat /\ DefaultAroundRadius \in 0..MaxAroundRadius
  /\ None \notin {"top", "rank", "around"}
  /\ MaxScore \in Nat

VARIABLES backend,  \* the leaderboard main.go has opened
          score,    \* points of every player
          call,     \* the first answer of a Rank or an Around on Redis
          resp      \* the last response of a reader

vars == <<backend, score, call, resp>>

NoCall == [op |-> None, player |-> None, radius |-> 0, idx |-> 0]
NoSelf == [rank |-> 0, score |-> 0]
Failure(kind) == [kind |-> kind, entries |-> <<>>, self |-> NoSelf]

Ranked(s) == {p \in Player : s[p] > 0}

\* Lists of ranked players, as many as there are.  One in strictly descending or
\* ascending order has every ranked player once.
Lists(s) == [1..Cardinality(Ranked(s)) -> Ranked(s)]

Entry == [player : Player, score : 1..MaxScore, rank : 1..Cardinality(Player)]

TypeOK ==
  /\ backend \in {"redis", "inmem"}
  /\ score \in [Player -> 0..MaxScore]
  /\ \A r \in Reader :
       /\ call[r] = NoCall \/ call[r] \in
            [op : {"rank", "around"}, player : Player, radius : 0..MaxAroundRadius,
             idx : 0..(Cardinality(Player) - 1)]
       /\ resp[r].kind \in {None, "top", "rank", "around", "notRanked",
                            "invalidLimit", "error"}
       /\ Range(resp[r].entries) \subseteq Entry
       /\ Len(resp[r].entries) <= CASE resp[r].kind = "top"    -> MaxTopN
                                    [] resp[r].kind = "around" -> 2 * MaxAroundRadius + 1
                                    [] resp[r].kind = "rank"   -> 1
                                    [] OTHER                   -> 0

Init ==
  /\ backend \in {"redis", "inmem"}
  /\ score = [p \in Player |-> 0]
  /\ call = [r \in Reader |-> NoCall]
  /\ resp = [r \in Reader |-> Failure(None)]

-----------------------------------------------------------------------------
(* The in-memory leaderboard *)

\* Faulty variant: ties by ascending id, as sortedLocked's own comment has it.
LessAscending(s, p, q) == s[p] > s[q] \/ (s[p] = s[q] /\ p < q)

Less(s, p, q) == s[p] > s[q] \/ (s[p] = s[q] /\ p > q)

\* Entries of players ps, the first of which has rank start + 1.
Numbered(s, ps, start) ==
  [i \in 1..Len(ps) |-> [player |-> ps[i], score |-> s[ps[i]], rank |-> start + i]]

sortedLocked(s) ==
  LET ps == CHOOSE f \in Lists(s) : \A i, j \in DOMAIN f : i < j => Less(s, f[i], f[j])
  IN  Numbered(s, ps, 0)

InmemTop(s, n) ==
  LET sorted == sortedLocked(s) IN SubSeq(sorted, 1, Min({n, Len(sorted)}))

\* Where a scan of the entries for player p stops.
IndexOf(entries, p) ==
  CHOOSE i \in 1..Len(entries) :
     entries[i].player = p /\ \A j \in 1..(i - 1) : entries[j].player # p

InmemRank(s, p) == LET sorted == sortedLocked(s) IN sorted[IndexOf(sorted, p)]

InmemAround(s, p, radius) ==
  LET sorted == sortedLocked(s)
      at == IndexOf(sorted, p)
  IN  SubSeq(sorted, Max({at - radius, 1}), Min({at + radius, Len(sorted)}))

-----------------------------------------------------------------------------
(* The Redis leaderboard: a sorted set and its commands *)

\* The members by ascending score, ties in lexical order.
ZSet(s) ==
  CHOOSE f \in Lists(s) : \A i, j \in DOMAIN f :
     i < j => s[f[i]] < s[f[j]] \/ (s[f[i]] = s[f[j]] /\ f[i] < f[j])

\* The same from the highest score down.
ZRev(s) == LET z == ZSet(s) IN [i \in 1..Len(z) |-> z[Len(z) - i + 1]]

\* Zero-based position from the highest score down.
ZRevRank(s, p) == LET z == ZRev(s) IN CHOOSE i \in 0..(Len(z) - 1) : z[i + 1] = p

\* Positions start to stop; a negative one counts from the end.
ZRevRange(s, start, stop) ==
  LET z == ZRev(s)
      n == Len(z)
      FromEnd(i) == IF i < 0 THEN Max({n + i, 0}) ELSE i
  IN  SubSeq(z, FromEnd(start) + 1, Min({FromEnd(stop) + 1, n}))

RedisTop(s, n) == IF n <= 0 THEN <<>> ELSE Numbered(s, ZRevRange(s, 0, n - 1), 0)

\* The second half of Around: the range around a position read earlier.
RedisWindow(s, idx, radius) ==
  LET start == Max({idx - radius, 0})
  IN  Numbered(s, ZRevRange(s, start, idx + radius), start)

-----------------------------------------------------------------------------
(* Service and handler *)

parseIntQueryDefault(q, def) == IF q = None THEN def ELSE q

TopLimit(q) ==
  LET n == parseIntQueryDefault(q, DefaultTopN) IN IF n <= 0 THEN DefaultTopN ELSE n

AroundRadius(q) ==
  LET n == parseIntQueryDefault(q, DefaultAroundRadius)
  IN  IF n < 0 THEN DefaultAroundRadius ELSE n

ValidTop(n) == n <= MaxTopN

ValidRadius(n) == n <= MaxAroundRadius

Respond(r, response) ==
  /\ resp' = [resp EXCEPT ![r] = response]
  /\ call' = [call EXCEPT ![r] = NoCall]
  /\ UNCHANGED <<backend, score>>

\* The reader's own entry; rank 0 and score 0 when the entries lack it.
Self(entries, p) ==
  LET own == entries[IndexOf(entries, p)]
  IN  IF \E i \in 1..Len(entries) : entries[i].player = p
      THEN [rank |-> own.rank, score |-> own.score] ELSE NoSelf

Found(kind, entries, p) ==
  [kind |-> kind, entries |-> entries, self |-> Self(entries, p)]

Top(r, q) ==
  LET n == TopLimit(q) IN
  /\ call[r] = NoCall
  /\ Respond(r, IF ~ValidTop(n) THEN Failure("invalidLimit")
                ELSE [kind |-> "top", self |-> NoSelf,
                      entries |-> IF backend = "redis" THEN RedisTop(score, n)
                                  ELSE InmemTop(score, n)])

AroundInvalid(r, q) ==
  /\ call[r] = NoCall
  /\ ~ValidRadius(AroundRadius(q))
  /\ Respond(r, Failure("invalidLimit"))

\* ErrPlayerNotRanked, from the scan in memory or from ZREVRANK's nil.
NotRanked(r, p) ==
  /\ call[r] = NoCall
  /\ p \notin Ranked(score)
  /\ Respond(r, Failure("notRanked"))

RankInmem(r, p) ==
  /\ backend = "inmem"
  /\ p \in Ranked(score)
  /\ Respond(r, Found("rank", <<InmemRank(score, p)>>, p))

AroundInmem(r, p, q) ==
  /\ backend = "inmem"
  /\ ValidRadius(AroundRadius(q))
  /\ p \in Ranked(score)
  /\ Respond(r, Found("around", InmemAround(score, p, AroundRadius(q)), p))

\* ZREVRANK, the first command of Rank and of Around.
ReadPosition(r, op, p, radius) ==
  /\ backend = "redis" /\ call[r] = NoCall
  /\ p \in Ranked(score)
  /\ call' = [call EXCEPT ![r] = [op |-> op, player |-> p, radius |-> radius,
                                  idx |-> ZRevRank(score, p)]]
  /\ UNCHANGED <<backend, score, resp>>

StartRank(r, p) == ReadPosition(r, "rank", p, 0)

StartAround(r, p, q) ==
  /\ ValidRadius(AroundRadius(q))
  /\ ReadPosition(r, "around", p, AroundRadius(q))

\* ZSCORE: the score of now with the rank of then.  Nothing ever removes a
\* member, so its nil is not met.
FinishRank(r) ==
  LET c == call[r] IN
  /\ c.op = "rank"
  /\ Respond(r, Found("rank", <<[player |-> c.player, score |-> score[c.player],
                                 rank |-> c.idx + 1]>>, c.player))

\* Faulty variant: entries are numbered from 1, wherever the range starts.
FinishAroundRenumbered(r) ==
  LET c == call[r] IN
  /\ c.op = "around"
  /\ Respond(r, Found("around", Numbered(score, ZRevRange(score,
               Max({c.idx - c.radius, 0}), c.idx + c.radius), 0), c.player))

\* Faulty variant: the end of the range is taken to be exclusive.
FinishAroundShort(r) ==
  LET c == call[r]
      start == Max({c.idx - c.radius, 0})
  IN
  /\ c.op = "around"
  /\ Respond(r, Found("around", Numbered(score, ZRevRange(score, start,
               Max({c.idx + c.radius - 1, 0})), start), c.player))

\* ZREVRANGE: the range of then with the players of now.
FinishAround(r) ==
  LET c == call[r] IN
  /\ c.op = "around"
  /\ Respond(r, Found("around", RedisWindow(score, c.idx, c.radius), c.player))

\* A Redis command fails: an internal error.
RedisFails(r) ==
  /\ backend = "redis"
  /\ Respond(r, Failure("error"))

-----------------------------------------------------------------------------
\* Faulty variant: ZADD in place of ZINCRBY.
IncrBySets(p, d) ==
  /\ score[p] + d <= MaxScore
  /\ score' = [score EXCEPT ![p] = d]
  /\ UNCHANGED <<backend, call, resp>>

IncrBy(p, d) ==
  /\ score[p] + d <= MaxScore
  /\ score' = [score EXCEPT ![p] = @ + d]
  /\ UNCHANGED <<backend, call, resp>>

Next ==
  \/ \E p \in Player, d \in Deltas : IncrBy(p, d)
  \/ \E r \in Reader :
       \/ \E q \in Queries : Top(r, q) \/ AroundInvalid(r, q)
       \/ \E p \in Player :
            \/ NotRanked(r, p) \/ RankInmem(r, p) \/ StartRank(r, p)
            \/ \E q \in Queries : AroundInmem(r, p, q) \/ StartAround(r, p, q)
       \/ FinishRank(r) \/ FinishAround(r) \/ RedisFails(r)

Spec == Init /\ [][Next]_vars

-----------------------------------------------------------------------------
(* Properties *)

\* A player's rank by definition: one more than the players ahead of it, by
\* score and, on equal scores, by the later id.
Standing(s, p) ==
  1 + Cardinality({q \in Ranked(s) : s[q] > s[p] \/ (s[q] = s[p] /\ q > p)})

\* Graceful degradation: on the same scores both leaderboards give the same
\* Top, the same rank and the same neighbours, ties included.
BackendsAgree ==
  /\ \A n \in 1..MaxTopN : InmemTop(score, n) = RedisTop(score, n)
  /\ \A p \in Ranked(score) :
       /\ InmemRank(score, p).rank = ZRevRank(score, p) + 1
       /\ \A radius \in 0..MaxAroundRadius :
            InmemAround(score, p, radius)
              = RedisWindow(score, ZRevRank(score, p), radius)

\* Every entry of a Top or Around response has, when it is read, the score and
\* the rank it is given, also when Around's range was computed from a position
\* that has changed since.
LabelsAreTrue ==
  [][\A r \in Reader : resp'[r] # resp[r] /\ resp'[r].kind \in {"top", "around"} =>
        \A e \in Range(resp'[r].entries) :
           e.score = score[e.player] /\ e.rank = Standing(score, e.player)]_vars

\* Around is meant to include the player it is asked about.  It can lack the
\* player (and report rank 0) only if the player's position moved further than
\* the radius between the two Redis commands, never in memory.
SelfMissingOnlyIfMoved ==
  [][\A r \in Reader :
        resp'[r] # resp[r] /\ resp'[r].kind = "around" /\ resp'[r].self = NoSelf =>
          /\ call[r] # NoCall
          /\ LET moved == Standing(score, call[r].player) - 1 - call[r].idx
             IN  moved > call[r].radius \/ -moved > call[r].radius]_vars

\* A reader never sees a player's score fall from one response to the next.
ReadsNeverGoBack ==
  [][\A r \in Reader : \A e \in Range(resp[r].entries), f \in Range(resp'[r].entries) :
        e.player = f.player => e.score <= f.score]_vars
=============================================================================
