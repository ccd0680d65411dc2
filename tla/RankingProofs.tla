---------------------------- MODULE RankingProofs ----------------------------
(***************************************************************************)
(* Theorems about Ranking.  Standing numbers the ranked players from 1 to  *)
(* their number, no two alike, because the sets of players ahead of them   *)
(* are strictly nested: so exactly one list of them is sorted, and both    *)
(* leaderboards hold it.                                                   *)
(***************************************************************************)
EXTENDS Ranking, FiniteSetTheorems, SequenceTheorems, TLAPS

Scores == [Player -> 0..MaxScore]

Ahead(s, p) == {q \in Ranked(s) : s[q] > s[p] \/ (s[q] = s[p] /\ q > p)}

Descending(s, f) == \A i, j \in DOMAIN f : i < j => Less(s, f[i], f[j])

\* How many players are ranked.
Size(s) == Cardinality(Ranked(s))

-----------------------------------------------------------------------------
(* Standing *)

\* Only finitely many players are ranked.
LEMMA RankedFinite ==
  ASSUME NEW s
  PROVE  /\ IsFiniteSet(Ranked(s))
         /\ Size(s) \in Nat
         /\ Size(s) <= Cardinality(Player)
<1>1. Ranked(s) \in SUBSET Player
  BY DEF Ranked
<1>2. IsFiniteSet(Player)
  BY RankingAssumption
<1> QED
  BY <1>1, <1>2, FS_Subset, FS_CardinalityType DEF Size

\* Standing is a number from 1 to the number of ranked players.
LEMMA StandingRange ==
  ASSUME NEW s \in Scores, NEW p \in Ranked(s)
  PROVE  Standing(s, p) \in 1..Size(s)
<1>1. IsFiniteSet(Ranked(s)) /\ Size(s) \in Nat
  BY RankedFinite
<1>2. /\ IsFiniteSet(Ranked(s) \ {p})
      /\ Cardinality(Ranked(s) \ {p}) = Size(s) - 1
  BY <1>1, FS_RemoveElement DEF Size
<1>3. p \in Player /\ s[p] \in Nat /\ p \in Int
  BY RankingAssumption DEF Ranked, Scores
<1>4. Ahead(s, p) \in SUBSET (Ranked(s) \ {p})
  BY <1>3 DEF Ahead
<1>5. /\ IsFiniteSet(Ahead(s, p))
      /\ Cardinality(Ahead(s, p)) <= Size(s) - 1
  BY <1>2, <1>4, FS_Subset
<1>6. Cardinality(Ahead(s, p)) \in Nat
  BY <1>5, FS_CardinalityType
<1>7. Standing(s, p) = 1 + Cardinality(Ahead(s, p))
  BY DEF Standing, Ahead
<1> QED
  BY <1>1, <1>5, <1>6, <1>7

\* Who is ahead has the smaller standing.
LEMMA StandingOrder ==
  ASSUME NEW s \in Scores, NEW p \in Ranked(s), NEW q \in Ranked(s), Less(s, p, q)
  PROVE  Standing(s, p) < Standing(s, q)
<1>1. /\ s[p] \in Nat /\ p \in Int /\ s[q] \in Nat /\ q \in Int
      /\ \A t \in Ranked(s) : s[t] \in Nat /\ t \in Int
  BY RankingAssumption DEF Ranked, Scores
<1>2. Ahead(s, p) \in SUBSET Ahead(s, q)
  <2> SUFFICES ASSUME NEW t \in Ahead(s, p) PROVE t \in Ahead(s, q)
    OBVIOUS
  <2>1. t \in Ranked(s) /\ (s[t] > s[p] \/ (s[t] = s[p] /\ t > p))
    BY DEF Ahead
  <2>2. s[p] > s[q] \/ (s[p] = s[q] /\ p > q)
    BY DEF Less
  <2>3. s[t] > s[q] \/ (s[t] = s[q] /\ t > q)
    BY <1>1, <2>1, <2>2
  <2> QED
    BY <2>1, <2>3 DEF Ahead
<1>3. p \in Ahead(s, q) /\ p \notin Ahead(s, p)
  BY <1>1 DEF Ahead, Less
<1>4. Ahead(s, q) \in SUBSET Ranked(s) /\ Ahead(s, p) \in SUBSET Ranked(s)
  BY DEF Ahead
<1>5. IsFiniteSet(Ahead(s, q)) /\ IsFiniteSet(Ahead(s, p))
  BY <1>4, RankedFinite, FS_Subset
<1>6. /\ Cardinality(Ahead(s, p)) <= Cardinality(Ahead(s, q))
      /\ Cardinality(Ahead(s, q)) # Cardinality(Ahead(s, p))
  BY <1>2, <1>3, <1>5, FS_Subset
<1>7. Cardinality(Ahead(s, p)) \in Nat /\ Cardinality(Ahead(s, q)) \in Nat
  BY <1>5, FS_CardinalityType
<1>8. /\ Standing(s, p) = 1 + Cardinality(Ahead(s, p))
      /\ Standing(s, q) = 1 + Cardinality(Ahead(s, q))
  BY DEF Standing, Ahead
<1> QED
  BY <1>6, <1>7, <1>8

\* Of two ranked players one is ahead of the other, ties included.
LEMMA LessTotal ==
  ASSUME NEW s \in Scores, NEW p \in Ranked(s), NEW q \in Ranked(s), p # q
  PROVE  Less(s, p, q) \/ Less(s, q, p)
  BY RankingAssumption DEF Ranked, Scores, Less

\* Nobody is ahead of itself, and the order has no cycle of two.
LEMMA LessStrict ==
  ASSUME NEW s \in Scores, NEW p \in Ranked(s), NEW q \in Ranked(s), Less(s, p, q)
  PROVE  p # q /\ ~Less(s, q, p)
  BY RankingAssumption DEF Ranked, Scores, Less

\* No two ranked players have the same standing.
LEMMA StandingInjective ==
  ASSUME NEW s \in Scores, NEW p \in Ranked(s), NEW q \in Ranked(s),
         Standing(s, p) = Standing(s, q)
  PROVE  p = q
<1> SUFFICES ASSUME p # q PROVE FALSE
  OBVIOUS
<1>1. Standing(s, p) \in Nat /\ Standing(s, q) \in Nat
  BY StandingRange, RankedFinite
<1>2. Standing(s, p) < Standing(s, q) \/ Standing(s, q) < Standing(s, p)
  BY LessTotal, StandingOrder
<1> QED
  BY <1>1, <1>2

\* Every place is taken.
LEMMA StandingSurjective ==
  ASSUME NEW s \in Scores, NEW i \in 1..Size(s)
  PROVE  \E p \in Ranked(s) : Standing(s, p) = i
<1> DEFINE st == [p \in Ranked(s) |-> Standing(s, p)]
<1>1. st \in [Ranked(s) -> 1..Size(s)]
  BY StandingRange
<1>2. IsInjective(st)
  BY StandingInjective DEF IsInjective
<1>3. st \in Injection(Ranked(s), 1..Size(s))
  BY <1>1, <1>2 DEF Injection
<1>4. IsFiniteSet(1..Size(s)) /\ Cardinality(1..Size(s)) = Size(s)
  BY RankedFinite, FS_Interval
<1>5. st \in Surjection(Ranked(s), 1..Size(s))
  BY <1>3, <1>4, FS_Injection DEF Size
<1>6. \E p \in Ranked(s) : st[p] = i
  BY <1>5 DEF Surjection
<1> QED
  BY <1>6

-----------------------------------------------------------------------------
(* Sorted lists *)

\* In a list in descending order every player is at its standing.
LEMMA DescendingStanding ==
  ASSUME NEW s \in Scores, NEW f \in Lists(s), Descending(s, f), NEW i \in 1..Size(s)
  PROVE  Standing(s, f[i]) = i
<1>1. f \in [1..Size(s) -> Ranked(s)] /\ DOMAIN f = 1..Size(s)
  BY DEF Lists, Size
<1>2. Size(s) \in Nat /\ IsFiniteSet(Ranked(s))
  BY RankedFinite
<1>3. \A j, k \in 1..Size(s) : j < k => Less(s, f[j], f[k])
  BY <1>1 DEF Descending
<1>4. \A j, k \in 1..Size(s) : Less(s, f[j], f[k]) => f[j] # f[k] /\ ~Less(s, f[k], f[j])
  BY <1>1, LessStrict
<1>5. IsInjective(f)
  BY <1>1, <1>2, <1>3, <1>4 DEF IsInjective
<1>6. f \in Injection(1..Size(s), Ranked(s))
  BY <1>1, <1>5 DEF Injection
<1>7. Cardinality(1..Size(s)) = Size(s)
  BY <1>2, FS_Interval
<1>8. f \in Surjection(1..Size(s), Ranked(s))
  BY <1>2, <1>6, <1>7, FS_Injection DEF Size
<1> DEFINE g == [j \in 1..(i - 1) |-> f[j]]
<1>9. Ahead(s, f[i]) = {q \in Ranked(s) : Less(s, q, f[i])}
  BY DEF Ahead, Less
<1>10. \A j \in 1..(i - 1) : j \in 1..Size(s) /\ j < i
  BY <1>2
<1>11. g \in [1..(i - 1) -> Ahead(s, f[i])]
  BY <1>1, <1>3, <1>9, <1>10
<1>12. IsInjective(g)
  BY <1>1, <1>5, <1>10 DEF IsInjective
<1>13. ASSUME NEW q \in Ahead(s, f[i]) PROVE \E j \in 1..(i - 1) : g[j] = q
  <2>1. q \in Ranked(s) /\ Less(s, q, f[i])
    BY <1>9
  <2>2. PICK j \in 1..Size(s) : f[j] = q
    BY <1>8, <2>1 DEF Surjection
  <2>3. ~(i < j)
    BY <1>3, <1>4, <2>1, <2>2
  <2>4. i # j
    BY <1>1, <2>1, <2>2, LessStrict
  <2>5. j \in 1..(i - 1)
    BY <1>2, <2>3, <2>4
  <2> QED
    BY <2>2, <2>5
<1>14. g \in Bijection(1..(i - 1), Ahead(s, f[i]))
  BY <1>11, <1>12, <1>13 DEF Bijection, Injection, Surjection
<1>15. Cardinality(Ahead(s, f[i])) = i - 1
  <2>1. i - 1 \in Nat
    BY <1>2
  <2>2. ExistsBijection(1..(i - 1), Ahead(s, f[i]))
    BY <1>14 DEF ExistsBijection
  <2> QED
    BY <2>1, <2>2, FS_CountingElements
<1> QED
  BY <1>2, <1>15 DEF Standing, Ahead

\* Some list is in descending order: what the sort in memory looks for exists.
LEMMA DescendingExists ==
  ASSUME NEW s \in Scores
  PROVE  \E f \in Lists(s) : Descending(s, f)
<1> DEFINE f == [i \in 1..Size(s) |-> CHOOSE p \in Ranked(s) : Standing(s, p) = i]
<1>1. \A i \in 1..Size(s) : f[i] \in Ranked(s) /\ Standing(s, f[i]) = i
  BY StandingSurjective
<1>2. f \in Lists(s)
  BY <1>1 DEF Lists, Size
<1>3. DOMAIN f = 1..Size(s)
  OBVIOUS
<1> HIDE DEF f
<1>4. ASSUME NEW i \in 1..Size(s), NEW j \in 1..Size(s), i < j
      PROVE  Less(s, f[i], f[j])
  <2>1. Size(s) \in Nat
    BY RankedFinite
  <2>2. f[i] # f[j]
    BY <1>1, <1>4, <2>1
  <2>3. ~Less(s, f[j], f[i])
    BY <1>1, <1>4, <2>1, StandingOrder
  <2> QED
    BY <1>1, <2>2, <2>3, LessTotal
<1> QED
  BY <1>2, <1>3, <1>4 DEF Descending

Ascending(s, f) ==
  \A i, j \in DOMAIN f : i < j => s[f[i]] < s[f[j]] \/ (s[f[i]] = s[f[j]] /\ f[i] < f[j])

\* A list read from its end.
Backwards(f, n) == [i \in 1..n |-> f[n - i + 1]]

\* Reading an ascending list from its end gives a descending one, and the other
\* way round: this is how ZREVRANGE agrees with the sort in memory.
LEMMA BackwardsTurns ==
  ASSUME NEW s \in Scores, NEW f \in Lists(s)
  PROVE  /\ Backwards(f, Size(s)) \in Lists(s)
         /\ Ascending(s, f) => Descending(s, Backwards(f, Size(s)))
         /\ Descending(s, f) => Ascending(s, Backwards(f, Size(s)))
<1> DEFINE n == Size(s)
           b == Backwards(f, n)
<1>1. n \in Nat
  BY RankedFinite
<1>2. f \in [1..n -> Ranked(s)] /\ DOMAIN f = 1..n
  BY DEF Lists, Size
<1>3. \A i \in 1..n : n - i + 1 \in 1..n
  BY <1>1
<1>4. DOMAIN b = 1..n /\ \A i \in 1..n : b[i] = f[n - i + 1]
  BY DEF Backwards
<1>5. b \in [1..n -> Ranked(s)]
  BY <1>2, <1>3 DEF Backwards
<1>6. \A p \in Ranked(s) : s[p] \in Nat /\ p \in Int
  BY RankingAssumption DEF Ranked, Scores
<1>7. \A i, j \in 1..n : i < j => n - j + 1 < n - i + 1
  BY <1>1
<1>8. b \in Lists(s)
  BY <1>5 DEF Lists, Size
<1> HIDE DEF n, b
<1>9. ASSUME Ascending(s, f), NEW i \in 1..n, NEW j \in 1..n, i < j
      PROVE  Less(s, b[i], b[j])
  <2>1. n - j + 1 < n - i + 1 /\ n - j + 1 \in 1..n /\ n - i + 1 \in 1..n
    BY <1>3, <1>7, <1>9
  <2>2. \/ s[f[n - j + 1]] < s[f[n - i + 1]]
        \/ s[f[n - j + 1]] = s[f[n - i + 1]] /\ f[n - j + 1] < f[n - i + 1]
    BY <1>2, <1>9, <2>1 DEF Ascending
  <2>3. s[b[j]] < s[b[i]] \/ (s[b[j]] = s[b[i]] /\ b[j] < b[i])
    BY <1>4, <2>2
  <2>4. b[i] \in Ranked(s) /\ b[j] \in Ranked(s)
    BY <1>5
  <2> QED
    BY <1>6, <2>3, <2>4 DEF Less
<1>10. ASSUME Descending(s, f), NEW i \in 1..n, NEW j \in 1..n, i < j
       PROVE  s[b[i]] < s[b[j]] \/ (s[b[i]] = s[b[j]] /\ b[i] < b[j])
  <2>1. n - j + 1 < n - i + 1 /\ n - j + 1 \in 1..n /\ n - i + 1 \in 1..n
    BY <1>3, <1>7, <1>10
  <2>2. Less(s, f[n - j + 1], f[n - i + 1])
    BY <1>2, <1>10, <2>1 DEF Descending
  <2>3. Less(s, b[j], b[i])
    BY <1>4, <2>2
  <2>4. b[i] \in Ranked(s) /\ b[j] \in Ranked(s)
    BY <1>5
  <2> QED
    BY <1>6, <2>3, <2>4 DEF Less
<1>11. Ascending(s, f) => Descending(s, b)
  BY <1>4, <1>9 DEF Descending
<1>12. Descending(s, f) => Ascending(s, b)
  BY <1>4, <1>10 DEF Ascending
<1> QED
  BY <1>8, <1>11, <1>12 DEF n, b

-----------------------------------------------------------------------------
(* The two leaderboards *)

\* The ranked players in descending order.
Order(s) == CHOOSE f \in Lists(s) : Descending(s, f)

\* Order holds every ranked player, at its standing.
LEMMA OrderFacts ==
  ASSUME NEW s \in Scores
  PROVE  /\ Order(s) \in [1..Size(s) -> Ranked(s)]
         /\ Order(s) \in Seq(Player)
         /\ Len(Order(s)) = Size(s)
         /\ \A i \in 1..Size(s) : Standing(s, Order(s)[i]) = i
         /\ \A p \in Ranked(s) : Order(s)[Standing(s, p)] = p
<1>1. Order(s) \in Lists(s) /\ Descending(s, Order(s))
  BY DescendingExists DEF Order
<1>2. Order(s) \in [1..Size(s) -> Ranked(s)]
  BY <1>1 DEF Lists, Size
<1>3. \A i \in 1..Size(s) : Standing(s, Order(s)[i]) = i
  BY <1>1, DescendingStanding
<1>4. ASSUME NEW p \in Ranked(s) PROVE Order(s)[Standing(s, p)] = p
  <2>1. Standing(s, p) \in 1..Size(s)
    BY StandingRange
  <2>2. Standing(s, Order(s)[Standing(s, p)]) = Standing(s, p)
    BY <1>3, <2>1
  <2> QED
    BY <1>2, <2>1, <2>2, StandingInjective
<1>5. Size(s) \in Nat /\ Ranked(s) \subseteq Player
  BY RankedFinite DEF Ranked
<1> QED
  BY <1>2, <1>3, <1>4, <1>5

\* A list in descending order is Order: the sort has one outcome, although
\* sort.Slice is not stable.
LEMMA OrderUnique ==
  ASSUME NEW s \in Scores, NEW f \in Lists(s), Descending(s, f)
  PROVE  f = Order(s)
<1>1. f \in [1..Size(s) -> Ranked(s)] /\ Order(s) \in [1..Size(s) -> Ranked(s)]
  BY OrderFacts DEF Lists, Size
<1>2. ASSUME NEW i \in 1..Size(s) PROVE f[i] = Order(s)[i]
  <2>1. Standing(s, f[i]) = i /\ Standing(s, Order(s)[i]) = i
    BY DescendingStanding, OrderFacts
  <2> QED
    BY <1>1, <2>1, StandingInjective
<1>3. \A i \in 1..Size(s) : f[i] = Order(s)[i]
  BY <1>2
<1>4. f = [i \in 1..Size(s) |-> f[i]] /\ Order(s) = [i \in 1..Size(s) |-> Order(s)[i]]
  BY <1>1
<1>5. [i \in 1..Size(s) |-> f[i]] = [i \in 1..Size(s) |-> Order(s)[i]]
  BY <1>3
<1> QED
  BY <1>4, <1>5, Zenon

\* The sorted set of Redis, read from the highest score down, is that list.
LEMMA ZRevIsOrder ==
  ASSUME NEW s \in Scores
  PROVE  ZRev(s) = Order(s)
<1>1. ZSet(s) = CHOOSE f \in Lists(s) : Ascending(s, f)
  BY DEF ZSet, Ascending
<1>2. \E f \in Lists(s) : Ascending(s, f)
  BY DescendingExists, BackwardsTurns
<1>3. ZSet(s) \in Lists(s) /\ Ascending(s, ZSet(s))
  BY <1>1, <1>2
<1>4. ZSet(s) \in [1..Size(s) -> Ranked(s)] /\ Size(s) \in Nat
  BY <1>3, RankedFinite DEF Lists, Size
<1>5. Len(ZSet(s)) = Size(s)
  BY <1>4
<1>6. ZRev(s) = Backwards(ZSet(s), Size(s))
  BY <1>5 DEF ZRev, Backwards
<1> QED
  BY <1>3, <1>6, BackwardsTurns, OrderUnique

\* The entry of place i.
Placed(s, i) == [player |-> Order(s)[i], score |-> s[Order(s)[i]], rank |-> i]

\* What both leaderboards cut their answers from: places a to b.
Places(s, a, b) == [i \in 1..(b - a + 1) |-> Placed(s, a + i - 1)]

\* The entry of a place has the score and the standing of its player.
LEMMA PlacedFacts ==
  ASSUME NEW s \in Scores, NEW i \in 1..Size(s)
  PROVE  /\ Placed(s, i) \in Entry
         /\ Placed(s, i).player \in Ranked(s)
         /\ Placed(s, i).score = s[Placed(s, i).player]
         /\ Placed(s, i).rank = i
         /\ Standing(s, Placed(s, i).player) = i
<1>1. Order(s)[i] \in Ranked(s) /\ Standing(s, Order(s)[i]) = i
  BY OrderFacts
<1>2. Order(s)[i] \in Player /\ s[Order(s)[i]] \in 1..MaxScore
  <2>1. Order(s)[i] \in Player /\ s[Order(s)[i]] > 0
    BY <1>1 DEF Ranked
  <2>2. s[Order(s)[i]] \in 0..MaxScore
    BY <2>1 DEF Scores
  <2> QED
    BY <2>1, <2>2, RankingAssumption
<1>3. i \in 1..Cardinality(Player)
  <2>1. Size(s) \in Nat /\ Size(s) <= Cardinality(Player) /\ Cardinality(Player) \in Nat
    BY RankedFinite, RankingAssumption, FS_CardinalityType
  <2> QED
    BY <2>1
<1> QED
  BY <1>1, <1>2, <1>3 DEF Placed, Entry

\* The list of the in-memory leaderboard.
LEMMA SortedPlaces ==
  ASSUME NEW s \in Scores
  PROVE  /\ sortedLocked(s) = [i \in 1..Size(s) |-> Placed(s, i)]
         /\ Len(sortedLocked(s)) = Size(s)
<1>1. Order(s) = CHOOSE f \in Lists(s) : \A i, j \in DOMAIN f : i < j => Less(s, f[i], f[j])
  BY DEF Order, Descending
<1>2. sortedLocked(s) = Numbered(s, Order(s), 0)
  BY <1>1 DEF sortedLocked
<1>3. Len(Order(s)) = Size(s) /\ Size(s) \in Nat
  BY OrderFacts, RankedFinite
<1>4. Numbered(s, Order(s), 0) = [i \in 1..Size(s) |-> Placed(s, i)]
  BY <1>3 DEF Numbered, Placed
<1> QED
  BY <1>2, <1>3, <1>4

\* A slice of that list.
LEMMA SortedSlice ==
  ASSUME NEW s \in Scores, NEW a \in Nat \ {0}, NEW b \in 0..Size(s), a <= b + 1
  PROVE  SubSeq(sortedLocked(s), a, b) = Places(s, a, b)
<1>1. Size(s) \in Nat
  BY RankedFinite
<1>2. sortedLocked(s) = [i \in 1..Size(s) |-> Placed(s, i)]
  BY SortedPlaces
<1>3. \A i \in 1..(b - a + 1) : a + i - 1 \in 1..Size(s)
  BY <1>1
<1>4. SubSeq(sortedLocked(s), a, b) = [i \in 1..(b - a + 1) |-> sortedLocked(s)[a + i - 1]]
  BY <1>1, <1>2
<1>5. \A i \in 1..(b - a + 1) : sortedLocked(s)[a + i - 1] = Placed(s, a + i - 1)
  BY <1>2, <1>3
<1> QED
  BY <1>4, <1>5 DEF Places

\* A slice of the sorted set, numbered from its first place.
LEMMA NumberedSlice ==
  ASSUME NEW s \in Scores, NEW a \in Nat \ {0}, NEW b \in 0..Size(s), a <= b + 1
  PROVE  Numbered(s, SubSeq(ZRev(s), a, b), a - 1) = Places(s, a, b)
<1>1. Size(s) \in Nat
  BY RankedFinite
<1>2. ZRev(s) \in [1..Size(s) -> Ranked(s)] /\ ZRev(s) = Order(s)
  BY ZRevIsOrder, OrderFacts
<1> DEFINE w == SubSeq(ZRev(s), a, b)
<1>3. w = [i \in 1..(b - a + 1) |-> Order(s)[a + i - 1]]
  BY <1>1, <1>2
<1>4. Len(w) = b - a + 1
  BY <1>1, <1>3
<1>5. \A i \in 1..(b - a + 1) : w[i] = Order(s)[a + i - 1]
  BY <1>3
<1>6. \A i \in 1..(b - a + 1) : a - 1 + i = a + i - 1
  BY <1>1
<1> HIDE DEF w
<1> QED
  BY <1>4, <1>5, <1>6 DEF Numbered, Places, Placed, w

-----------------------------------------------------------------------------
(* Answers *)

\* The smaller and the greater of two numbers.
LEMMA MinMaxOfTwo ==
  ASSUME NEW a \in Int, NEW b \in Int
  PROVE  /\ Min({a, b}) = IF a <= b THEN a ELSE b
         /\ Max({a, b}) = IF a >= b THEN a ELSE b
<1>1. \A x \in {a, b} : (\A y \in {a, b} : x <= y) <=> x = (IF a <= b THEN a ELSE b)
  OBVIOUS
<1>2. \A x \in {a, b} : (\A y \in {a, b} : x >= y) <=> x = (IF a >= b THEN a ELSE b)
  OBVIOUS
<1> QED
  BY <1>1, <1>2 DEF Min, Max

\* An entry that says of its player what is true.
TrueEntry(s, e) ==
  /\ e \in Entry
  /\ e.player \in Ranked(s)
  /\ e.score = s[e.player]
  /\ e.rank = Standing(s, e.player)

\* Places a to b hold true entries, each player once, and everyone who stands there.
LEMMA PlacesFacts ==
  ASSUME NEW s \in Scores, NEW a \in Nat \ {0}, NEW b \in 0..Size(s), a <= b + 1
  PROVE  /\ Places(s, a, b) \in Seq(Entry)
         /\ Len(Places(s, a, b)) = b - a + 1
         /\ \A i \in 1..(b - a + 1) : Places(s, a, b)[i] = Placed(s, a + i - 1)
         /\ \A i \in 1..(b - a + 1) : TrueEntry(s, Places(s, a, b)[i])
         /\ \A i, j \in 1..(b - a + 1) :
               Places(s, a, b)[i].player = Places(s, a, b)[j].player => i = j
         /\ \A p \in Ranked(s) : Standing(s, p) \in a..b =>
               \E i \in 1..(b - a + 1) : Places(s, a, b)[i].player = p
<1> DEFINE w == Places(s, a, b)
           n == b - a + 1
<1>1. Size(s) \in Nat /\ n \in Nat
  BY RankedFinite
<1>2. \A i \in 1..n : a + i - 1 \in 1..Size(s) /\ i \in Nat
  BY <1>1
<1>3. \A i \in 1..n : w[i] = Placed(s, a + i - 1)
  BY DEF Places
<1>4. \A i \in 1..n : /\ w[i] \in Entry
                      /\ w[i].player \in Ranked(s)
                      /\ w[i].score = s[w[i].player]
                      /\ w[i].rank = a + i - 1
                      /\ Standing(s, w[i].player) = a + i - 1
  BY <1>2, <1>3, PlacedFacts
<1>5. DOMAIN w = 1..n /\ w = [i \in 1..n |-> w[i]]
  BY DEF Places
<1> HIDE DEF w
<1>6. w \in Seq(Entry) /\ Len(w) = n
  BY <1>1, <1>4, <1>5
<1>7. \A i \in 1..n : TrueEntry(s, w[i])
  BY <1>4 DEF TrueEntry
<1>8. \A i, j \in 1..n : w[i].player = w[j].player => i = j
  <2> SUFFICES ASSUME NEW i \in 1..n, NEW j \in 1..n, w[i].player = w[j].player
               PROVE  i = j
    OBVIOUS
  <2>1. a + i - 1 = a + j - 1
    BY <1>4
  <2> QED
    BY <1>1, <2>1
<1>9. ASSUME NEW p \in Ranked(s), Standing(s, p) \in a..b
      PROVE  \E i \in 1..n : w[i].player = p
  <2> DEFINE i == Standing(s, p) - a + 1
  <2>1. i \in 1..n /\ a + i - 1 = Standing(s, p)
    BY <1>1, <1>9
  <2>2. w[i].player \in Ranked(s) /\ Standing(s, w[i].player) = Standing(s, p)
    BY <1>4, <2>1
  <2>3. w[i].player = p
    BY <2>2, StandingInjective
  <2> QED
    BY <2>1, <2>3
<1> QED
  BY <1>3, <1>6, <1>7, <1>8, <1>9 DEF w

TopEnd(s, n) == IF n <= Size(s) THEN n ELSE Size(s)

\* Top, on either leaderboard.
LEMMA TopAnswer ==
  ASSUME NEW s \in Scores, NEW n \in Nat \ {0}
  PROVE  /\ InmemTop(s, n) = Places(s, 1, TopEnd(s, n))
         /\ RedisTop(s, n) = Places(s, 1, TopEnd(s, n))
<1>1. Size(s) \in Nat
  BY RankedFinite
<1>2. TopEnd(s, n) \in 0..Size(s) /\ 1 <= TopEnd(s, n) + 1 /\ 1 \in Nat \ {0}
  BY <1>1 DEF TopEnd
<1>3. InmemTop(s, n) = Places(s, 1, TopEnd(s, n))
  <2>1. Min({n, Len(sortedLocked(s))}) = TopEnd(s, n)
    BY <1>1, SortedPlaces, MinMaxOfTwo DEF TopEnd
  <2>2. InmemTop(s, n) = SubSeq(sortedLocked(s), 1, TopEnd(s, n))
    BY <2>1 DEF InmemTop
  <2> QED
    BY <1>2, <2>2, SortedSlice
<1>4. RedisTop(s, n) = Places(s, 1, TopEnd(s, n))
  <2>1. Len(ZRev(s)) = Size(s)
    BY ZRevIsOrder, OrderFacts
  <2>2. Min({n - 1 + 1, Len(ZRev(s))}) = TopEnd(s, n)
    BY <1>1, <2>1, MinMaxOfTwo DEF TopEnd
  <2>3. ~(0 < 0) /\ ~(n - 1 < 0) /\ 0 + 1 = 1 /\ ~(n <= 0) /\ 1 - 1 = 0
    OBVIOUS
  <2>4. ZRevRange(s, 0, n - 1) = SubSeq(ZRev(s), 1, TopEnd(s, n))
    BY <2>2, <2>3 DEF ZRevRange
  <2>5. RedisTop(s, n) = Numbered(s, SubSeq(ZRev(s), 1, TopEnd(s, n)), 1 - 1)
    BY <2>3, <2>4 DEF RedisTop
  <2> QED
    BY <1>2, <2>5, NumberedSlice
<1> QED
  BY <1>3, <1>4

First(idx, radius) == IF idx - radius >= 0 THEN idx - radius + 1 ELSE 1
Last(s, idx, radius) == IF idx + radius + 1 <= Size(s) THEN idx + radius + 1 ELSE Size(s)

\* The window around a position is within the list and no longer than asked for.
LEMMA WindowBounds ==
  ASSUME NEW s \in Scores, NEW idx \in 0..(Size(s) - 1), NEW radius \in Nat
  PROVE  /\ First(idx, radius) \in Nat \ {0}
         /\ Last(s, idx, radius) \in 0..Size(s)
         /\ First(idx, radius) <= Last(s, idx, radius) + 1
         /\ Last(s, idx, radius) - First(idx, radius) + 1 <= 2 * radius + 1
         /\ \A i \in 1..Size(s) :
               i - 1 - idx <= radius /\ -(i - 1 - idx) <= radius
                 => i \in First(idx, radius)..Last(s, idx, radius)
<1>1. Size(s) \in Nat
  BY RankedFinite
<1> QED
  BY <1>1 DEF First, Last

\* Around on Redis, from any position the list still has.
LEMMA WindowAnswer ==
  ASSUME NEW s \in Scores, NEW idx \in 0..(Size(s) - 1), NEW radius \in Nat
  PROVE  RedisWindow(s, idx, radius) = Places(s, First(idx, radius), Last(s, idx, radius))
<1> DEFINE a == First(idx, radius)
           b == Last(s, idx, radius)
<1>1. Size(s) \in Nat /\ idx \in Nat
  BY RankedFinite
<1>2. a \in Nat \ {0} /\ b \in 0..Size(s) /\ a <= b + 1
  BY WindowBounds
<1>3. Max({idx - radius, 0}) = a - 1
  <2>1. idx - radius \in Int /\ 0 \in Int
    BY <1>1
  <2>2. Max({idx - radius, 0}) = IF idx - radius >= 0 THEN idx - radius ELSE 0
    BY <2>1, MinMaxOfTwo
  <2> QED
    BY <1>1, <2>2 DEF First
<1>4. Len(ZRev(s)) = Size(s)
  BY ZRevIsOrder, OrderFacts
<1>5. Min({idx + radius + 1, Len(ZRev(s))}) = b
  BY <1>1, <1>4, MinMaxOfTwo DEF Last
<1>6. ~(a - 1 < 0) /\ ~(idx + radius < 0) /\ a - 1 + 1 = a
  BY <1>1, <1>2
<1> HIDE DEF a, b
<1>7. ZRevRange(s, a - 1, idx + radius) = SubSeq(ZRev(s), a, b)
  BY <1>5, <1>6 DEF ZRevRange
<1>8. RedisWindow(s, idx, radius) = Numbered(s, SubSeq(ZRev(s), a, b), a - 1)
  BY <1>3, <1>7 DEF RedisWindow
<1>9. Numbered(s, SubSeq(ZRev(s), a, b), a - 1) = Places(s, a, b)
  BY <1>2, NumberedSlice
<1> QED
  BY <1>8, <1>9 DEF a, b

\* The scan in memory stops at the player's standing.
LEMMA IndexOfStanding ==
  ASSUME NEW s \in Scores, NEW p \in Ranked(s)
  PROVE  IndexOf(sortedLocked(s), p) = Standing(s, p)
<1> DEFINE l == sortedLocked(s)
<1>1. Len(l) = Size(s) /\ \A i \in 1..Size(s) : l[i] = Placed(s, i)
  BY SortedPlaces
<1>2. Standing(s, p) \in 1..Size(s) /\ Size(s) \in Nat
  BY StandingRange, RankedFinite
<1>3. \A i \in 1..Size(s) : l[i].player \in Ranked(s) /\ Standing(s, l[i].player) = i
  BY <1>1, PlacedFacts
<1> HIDE DEF l
<1>4. l[Standing(s, p)].player = p
  BY <1>2, <1>3, StandingInjective
<1>5. \A i \in 1..Size(s) : l[i].player = p => i = Standing(s, p)
  BY <1>3
<1>6. \A j \in 1..(Standing(s, p) - 1) : l[j].player # p
  BY <1>2, <1>5
<1>7. \A i \in 1..Len(l) :
        (l[i].player = p /\ \A j \in 1..(i - 1) : l[j].player # p) <=> i = Standing(s, p)
  BY <1>1, <1>4, <1>5, <1>6
<1>8. IndexOf(l, p) = Standing(s, p)
  BY <1>1, <1>2, <1>7 DEF IndexOf
<1> QED
  BY <1>8 DEF l

\* ZREVRANK is the standing, counted from zero.
LEMMA ZRevRankStanding ==
  ASSUME NEW s \in Scores, NEW p \in Ranked(s)
  PROVE  /\ ZRevRank(s, p) = Standing(s, p) - 1
         /\ ZRevRank(s, p) \in 0..(Size(s) - 1)
<1> DEFINE z == ZRev(s)
<1>1. Len(z) = Size(s) /\ z = Order(s)
  BY ZRevIsOrder, OrderFacts
<1>2. Standing(s, p) \in 1..Size(s) /\ Size(s) \in Nat
  BY StandingRange, RankedFinite
<1>3. \A i \in 1..Size(s) : z[i] \in Ranked(s) /\ Standing(s, z[i]) = i
  BY <1>1, OrderFacts
<1>4. z[Standing(s, p)] = p
  BY <1>1, OrderFacts
<1> HIDE DEF z
<1>5. \A i \in 0..(Len(z) - 1) : z[i + 1] = p <=> i = Standing(s, p) - 1
  BY <1>1, <1>2, <1>3, <1>4
<1>6. Standing(s, p) - 1 \in 0..(Len(z) - 1)
  BY <1>1, <1>2
<1>7. ZRevRank(s, p) = Standing(s, p) - 1
  BY <1>5, <1>6 DEF ZRevRank, z
<1> QED
  BY <1>1, <1>6, <1>7

\* Rank in memory.
LEMMA InmemRankAnswer ==
  ASSUME NEW s \in Scores, NEW p \in Ranked(s)
  PROVE  /\ InmemRank(s, p) = Placed(s, Standing(s, p))
         /\ TrueEntry(s, InmemRank(s, p))
         /\ InmemRank(s, p).player = p
<1>1. Standing(s, p) \in 1..Size(s)
  BY StandingRange
<1>2. InmemRank(s, p) = sortedLocked(s)[Standing(s, p)]
  BY IndexOfStanding DEF InmemRank
<1>3. InmemRank(s, p) = Placed(s, Standing(s, p))
  BY <1>1, <1>2, SortedPlaces
<1>4. Placed(s, Standing(s, p)).player = p
  BY <1>1, PlacedFacts, StandingInjective
<1> QED
  BY <1>1, <1>3, <1>4, PlacedFacts DEF TrueEntry

\* Around in memory is the window around the player's own position.
LEMMA InmemAroundAnswer ==
  ASSUME NEW s \in Scores, NEW p \in Ranked(s), NEW radius \in Nat
  PROVE  InmemAround(s, p, radius)
           = Places(s, First(Standing(s, p) - 1, radius), Last(s, Standing(s, p) - 1, radius))
<1> DEFINE at == Standing(s, p)
           a == First(at - 1, radius)
           b == Last(s, at - 1, radius)
<1>1. Size(s) \in Nat /\ at \in 1..Size(s) /\ at - 1 \in 0..(Size(s) - 1)
  BY RankedFinite, StandingRange
<1>2. a \in Nat \ {0} /\ b \in 0..Size(s) /\ a <= b + 1
  BY <1>1, WindowBounds
<1>3. Max({at - radius, 1}) = a
  <2>1. at - radius \in Int /\ 1 \in Int
    BY <1>1
  <2>2. Max({at - radius, 1}) = IF at - radius >= 1 THEN at - radius ELSE 1
    BY <2>1, MinMaxOfTwo
  <2> QED
    BY <1>1, <2>2 DEF First
<1>4. Min({at + radius, Len(sortedLocked(s))}) = b
  BY <1>1, SortedPlaces, MinMaxOfTwo DEF Last
<1>5. IndexOf(sortedLocked(s), p) = at
  BY IndexOfStanding
<1> HIDE DEF at, a, b
<1>6. InmemAround(s, p, radius) = SubSeq(sortedLocked(s), a, b)
  BY <1>3, <1>4, <1>5 DEF InmemAround
<1>7. SubSeq(sortedLocked(s), a, b) = Places(s, a, b)
  BY <1>2, SortedSlice
<1> QED
  BY <1>6, <1>7 DEF at, a, b

-----------------------------------------------------------------------------
(* The inductive invariant *)

Calls == [op : {"rank", "around"}, player : Player, radius : 0..MaxAroundRadius,
          idx : 0..(Cardinality(Player) - 1)]

Own == [rank : Nat, score : Nat]

Kinds == {None, "top", "rank", "around", "notRanked", "invalidLimit", "error"}

Response == [kind : Kinds, entries : Seq(Entry), self : Own]

NoDoubles(w) == \A i, j \in 1..Len(w) : w[i].player = w[j].player => i = j

WithinLimit(a) ==
  /\ a.kind = "top" => Len(a.entries) <= MaxTopN
  /\ a.kind = "around" => Len(a.entries) <= 2 * MaxAroundRadius + 1
  /\ a.kind = "rank" => Len(a.entries) <= 1
  /\ a.kind \notin {"top", "around", "rank"} => Len(a.entries) <= 0

\* A response lists nobody twice, and no score that the player has not reached.
RespInv(s, a) ==
  /\ a \in Response
  /\ WithinLimit(a)
  /\ NoDoubles(a.entries)
  /\ \A i \in 1..Len(a.entries) : a.entries[i].score <= s[a.entries[i].player]

\* A position read earlier still exists, and its player is still ranked.
CallInv(s, c) ==
  c # NoCall => backend = "redis" /\ c.player \in Ranked(s) /\ c.idx < Size(s)

RankInv ==
  /\ backend \in {"redis", "inmem"}
  /\ score \in Scores
  /\ call \in [Reader -> Calls \union {NoCall}]
  /\ resp \in [Reader -> Response]
  /\ \A r \in Reader : CallInv(score, call[r])
  /\ \A r \in Reader : RespInv(score, resp[r])

\* What a response that is written now says of the state it is written in.
Answer(r, a) ==
  /\ RespInv(score, a)
  /\ \A i \in 1..Len(a.entries) : a.entries[i].score = score[a.entries[i].player]
  /\ a.kind \in {"top", "around"} =>
       \A i \in 1..Len(a.entries) : TrueEntry(score, a.entries[i])
  /\ a.kind = "around" /\ a.self = NoSelf =>
       /\ call[r] # NoCall
       /\ LET moved == Standing(score, call[r].player) - 1 - call[r].idx
          IN  moved > call[r].radius \/ -moved > call[r].radius

\* A response without entries.
LEMMA FailureAnswer ==
  ASSUME NEW r, NEW kind \in Kinds \ {"top", "rank", "around"}
  PROVE  Answer(r, Failure(kind))
<1> DEFINE a == Failure(kind)
<1>1. a.kind = kind /\ a.entries = <<>> /\ a.self = NoSelf
  BY DEF Failure
<1>2. a \in Response
  BY DEF Failure, Response, Own, NoSelf
<1>3. Len(a.entries) = 0 /\ 1..Len(a.entries) = {}
  BY <1>1
<1>4. kind \notin {"top", "around", "rank"} /\ Len(a.entries) <= 0
  BY <1>3
<1> HIDE DEF a
<1>5. WithinLimit(a)
  BY <1>1, <1>4 DEF WithinLimit
<1>6. Answer(r, a)
  BY <1>1, <1>2, <1>3, <1>4, <1>5 DEF Answer, RespInv, NoDoubles
<1> QED
  BY <1>6 DEF a

\* The handler's scan for the reader's own entry: zeros exactly when it is missing.
LEMMA SelfFacts ==
  ASSUME NEW w \in Seq(Entry), NoDoubles(w), NEW p
  PROVE  /\ Self(w, p) \in Own
         /\ Self(w, p) = NoSelf <=> ~\E i \in 1..Len(w) : w[i].player = p
<1>1. CASE ~\E i \in 1..Len(w) : w[i].player = p
  <2>1. Self(w, p) = NoSelf
    BY <1>1 DEF Self
  <2> QED
    BY <1>1, <2>1 DEF Own, NoSelf
<1>2. CASE \E i \in 1..Len(w) : w[i].player = p
  <2>1. PICK i \in 1..Len(w) : w[i].player = p
    BY <1>2
  <2>2. Len(w) \in Nat /\ i \in Nat
    OBVIOUS
  <2>3. \A k \in 1..Len(w) : w[k].player = p => k = i
    BY <2>1 DEF NoDoubles
  <2>4. \A j \in 1..(i - 1) : w[j].player # p
    BY <2>2, <2>3
  <2>5. \A k \in 1..Len(w) :
          (w[k].player = p /\ \A j \in 1..(k - 1) : w[j].player # p) <=> k = i
    BY <2>1, <2>3, <2>4
  <2>6. IndexOf(w, p) = i
    BY <2>5 DEF IndexOf
  <2>7. Self(w, p) = [rank |-> w[i].rank, score |-> w[i].score]
    BY <1>2, <2>6 DEF Self
  <2>8. w[i] \in Entry
    OBVIOUS
  <2>9. w[i].rank \in Nat \ {0} /\ w[i].score \in Nat
    <3>1. w[i].rank \in 1..Cardinality(Player) /\ w[i].score \in 1..MaxScore
      BY <2>8 DEF Entry
    <3>2. Cardinality(Player) \in Nat /\ MaxScore \in Nat
      BY RankingAssumption, FS_CardinalityType
    <3> QED
      BY <3>1, <3>2
  <2>10. Self(w, p) \in Own /\ Self(w, p) # NoSelf
    BY <2>7, <2>9 DEF Own, NoSelf
  <2> QED
    BY <1>2, <2>10
<1> QED
  BY <1>1, <1>2

\* Places of the list, as the entries of a response.
LEMMA PlacesAnswer ==
  ASSUME score \in Scores, NEW a \in Nat \ {0}, NEW b \in 0..Size(score), a <= b + 1,
         NEW k \in {"top", "around"}, NEW self \in Own,
         k = "top" => b - a + 1 <= MaxTopN,
         k = "around" => b - a + 1 <= 2 * MaxAroundRadius + 1
  PROVE  LET x == [kind |-> k, entries |-> Places(score, a, b), self |-> self]
         IN  /\ RespInv(score, x)
             /\ \A i \in 1..Len(x.entries) : TrueEntry(score, x.entries[i])
             /\ \A i \in 1..Len(x.entries) : x.entries[i].score = score[x.entries[i].player]
<1> DEFINE w == Places(score, a, b)
           x == [kind |-> k, entries |-> w, self |-> self]
<1>1. /\ w \in Seq(Entry) /\ Len(w) = b - a + 1
      /\ \A i \in 1..(b - a + 1) : TrueEntry(score, w[i])
      /\ \A i, j \in 1..(b - a + 1) : w[i].player = w[j].player => i = j
  BY PlacesFacts
<1> HIDE DEF w
<1>2. x.kind = k /\ x.entries = w /\ x.self = self
  OBVIOUS
<1>3. x \in Response
  BY <1>1 DEF Response, Kinds
<1> HIDE DEF x
<1>4. WithinLimit(x)
  BY <1>1, <1>2 DEF WithinLimit
<1>5. NoDoubles(w)
  BY <1>1 DEF NoDoubles
<1>6. \A i \in 1..Len(w) : /\ TrueEntry(score, w[i])
                           /\ w[i].score = score[w[i].player]
                           /\ w[i].score \in Nat
  <2>1. \A i \in 1..Len(w) : TrueEntry(score, w[i])
    BY <1>1
  <2>2. \A e : TrueEntry(score, e) => e.score = score[e.player] /\ e.score \in Nat
    BY RankingAssumption DEF TrueEntry, Entry
  <2> QED
    BY <2>1, <2>2
<1>7. \A i \in 1..Len(w) : w[i].score <= score[w[i].player]
  BY <1>6
<1>8. RespInv(score, x)
  BY <1>2, <1>3, <1>4, <1>5, <1>7 DEF RespInv
<1> QED
  BY <1>2, <1>6, <1>8 DEF x, w

\* A window, as the entries of an Around response for player p: the player is in
\* it, unless it stands further from idx than the radius.
LEMMA AroundEntries ==
  ASSUME score \in Scores, NEW p \in Ranked(score), NEW radius \in 0..MaxAroundRadius,
         NEW idx \in 0..(Size(score) - 1)
  PROVE  LET w == Places(score, First(idx, radius), Last(score, idx, radius))
             x == Found("around", w, p)
             moved == Standing(score, p) - 1 - idx
         IN  /\ RespInv(score, x)
             /\ \A i \in 1..Len(x.entries) : TrueEntry(score, x.entries[i])
             /\ \A i \in 1..Len(x.entries) : x.entries[i].score = score[x.entries[i].player]
             /\ x.kind = "around"
             /\ x.self = NoSelf => moved > radius \/ -moved > radius
<1> DEFINE a == First(idx, radius)
           b == Last(score, idx, radius)
           w == Places(score, a, b)
           x == Found("around", w, p)
           moved == Standing(score, p) - 1 - idx
<1>1. radius \in Nat /\ radius <= MaxAroundRadius /\ MaxAroundRadius \in Nat
  BY RankingAssumption
<1>2. Size(score) \in Nat /\ Standing(score, p) \in 1..Size(score)
  BY RankedFinite, StandingRange
<1>3. /\ a \in Nat \ {0} /\ b \in 0..Size(score) /\ a <= b + 1
      /\ b - a + 1 <= 2 * radius + 1
      /\ moved <= radius /\ -moved <= radius => Standing(score, p) \in a..b
  BY <1>1, <1>2, WindowBounds
<1> HIDE DEF a, b
<1>4. b - a + 1 <= 2 * MaxAroundRadius + 1
  BY <1>1, <1>2, <1>3
<1>5. /\ w \in Seq(Entry) /\ Len(w) = b - a + 1
      /\ \A i, j \in 1..(b - a + 1) : w[i].player = w[j].player => i = j
      /\ Standing(score, p) \in a..b => \E i \in 1..(b - a + 1) : w[i].player = p
  <2>1. a \in Nat \ {0} /\ b \in 0..Size(score) /\ a <= b + 1
    BY <1>3
  <2>2. /\ w \in Seq(Entry) /\ Len(w) = b - a + 1
        /\ \A i, j \in 1..(b - a + 1) : w[i].player = w[j].player => i = j
    BY <2>1, PlacesFacts
  <2>3. Standing(score, p) \in a..b => \E i \in 1..(b - a + 1) : w[i].player = p
    BY <2>1, PlacesFacts
  <2> QED
    BY <2>2, <2>3
<1> HIDE DEF w
<1>6. Self(w, p) \in Own /\ (Self(w, p) = NoSelf <=> ~\E i \in 1..Len(w) : w[i].player = p)
  BY <1>5, SelfFacts DEF NoDoubles
<1>7. x = [kind |-> "around", entries |-> w, self |-> Self(w, p)]
  BY DEF Found
<1>8. /\ RespInv(score, x)
      /\ \A i \in 1..Len(x.entries) : TrueEntry(score, x.entries[i])
      /\ \A i \in 1..Len(x.entries) : x.entries[i].score = score[x.entries[i].player]
  <2>1. "around" \in {"top", "around"} /\ "around" # "top"
    OBVIOUS
  <2> DEFINE y == [kind |-> "around", entries |-> Places(score, a, b), self |-> Self(w, p)]
  <2>2. /\ RespInv(score, y)
        /\ \A i \in 1..Len(y.entries) : TrueEntry(score, y.entries[i])
        /\ \A i \in 1..Len(y.entries) : y.entries[i].score = score[y.entries[i].player]
    BY <1>3, <1>4, <1>6, <2>1, PlacesAnswer
  <2>3. x = y
    BY <1>7 DEF w
  <2> HIDE DEF x, y
  <2> QED
    BY <2>2, <2>3
<1>9. x.kind = "around" /\ x.self = Self(w, p)
  BY <1>7
<1>10. moved \in Int
  BY <1>2
<1>11. ASSUME x.self = NoSelf PROVE moved > radius \/ -moved > radius
  <2>1. ~(moved <= radius /\ -moved <= radius)
    BY <1>3, <1>5, <1>6, <1>9, <1>11
  <2> HIDE DEF moved
  <2> QED
    BY <1>1, <1>10, <2>1
<1> QED
  BY <1>8, <1>9, <1>11 DEF x, w, a, b

\* What the service makes of the query parameters.
LEMMA Limits ==
  ASSUME NEW q \in Queries
  PROVE  /\ TopLimit(q) \in Nat \ {0}
         /\ AroundRadius(q) \in Nat
         /\ ValidRadius(AroundRadius(q)) => AroundRadius(q) \in 0..MaxAroundRadius
<1>1. /\ DefaultTopN \in Nat \ {0} /\ DefaultAroundRadius \in Nat /\ MaxAroundRadius \in Nat
      /\ q # None => q \in Int
  BY RankingAssumption
<1> QED
  BY <1>1 DEF TopLimit, AroundRadius, ValidRadius, parseIntQueryDefault

LEMMA TopStep ==
  ASSUME RankInv, NEW r \in Reader, NEW q \in Queries, Top(r, q)
  PROVE  \E a : Respond(r, a) /\ Answer(r, a)
<1> DEFINE n == TopLimit(q)
<1>1. n \in Nat \ {0} /\ score \in Scores /\ backend \in {"redis", "inmem"}
  BY Limits DEF RankInv
<1>2. CASE ~ValidTop(n)
  <2>1. Respond(r, Failure("invalidLimit"))
    BY <1>2 DEF Top
  <2>2. Answer(r, Failure("invalidLimit"))
    BY FailureAnswer DEF Kinds
  <2> QED
    BY <2>1, <2>2
<1>3. CASE ValidTop(n)
  <2> DEFINE b == TopEnd(score, n)
             a == [kind |-> "top", entries |-> Places(score, 1, b), self |-> NoSelf]
  <2>1. InmemTop(score, n) = Places(score, 1, b) /\ RedisTop(score, n) = Places(score, 1, b)
    BY <1>1, TopAnswer
  <2>2. Respond(r, a)
    <3> DEFINE e == IF backend = "redis" THEN RedisTop(score, n) ELSE InmemTop(score, n)
    <3>1. Respond(r, [kind |-> "top", self |-> NoSelf, entries |-> e])
      BY <1>3 DEF Top
    <3>2. e = Places(score, 1, b)
      BY <2>1
    <3> HIDE DEF e, b
    <3>3. [kind |-> "top", self |-> NoSelf, entries |-> e] = a
      BY <3>2
    <3> HIDE DEF a
    <3> QED
      BY <3>1, <3>3
  <2>3. Size(score) \in Nat /\ n <= MaxTopN /\ MaxTopN \in Nat
    BY <1>3, RankedFinite, RankingAssumption DEF ValidTop
  <2>4. 1 \in Nat \ {0} /\ b \in 0..Size(score) /\ 1 <= b + 1 /\ b - 1 + 1 <= MaxTopN
    BY <1>1, <2>3 DEF TopEnd
  <2>5. "top" \in {"top", "around"} /\ "top" # "around" /\ NoSelf \in Own
    BY DEF NoSelf, Own
  <2> HIDE DEF b
  <2>6. /\ RespInv(score, a)
        /\ \A i \in 1..Len(a.entries) : TrueEntry(score, a.entries[i])
        /\ \A i \in 1..Len(a.entries) : a.entries[i].score = score[a.entries[i].player]
    BY <1>1, <2>4, <2>5, PlacesAnswer
  <2>7. a.kind = "top"
    OBVIOUS
  <2> HIDE DEF a
  <2>8. Answer(r, a)
    BY <2>5, <2>6, <2>7 DEF Answer
  <2> QED
    BY <2>2, <2>8
<1> QED
  BY <1>2, <1>3

LEMMA FailureStep ==
  ASSUME NEW r, NEW kind \in {"notRanked", "invalidLimit", "error"},
         Respond(r, Failure(kind))
  PROVE  \E a : Respond(r, a) /\ Answer(r, a)
<1>1. kind \in Kinds \ {"top", "rank", "around"}
  BY DEF Kinds
<1>2. Answer(r, Failure(kind))
  BY <1>1, FailureAnswer
<1> QED
  BY <1>2

\* An answer of one entry: Rank.
LEMMA RankAnswer ==
  ASSUME score \in Scores, NEW r, NEW p \in Ranked(score), NEW k \in 1..Cardinality(Player)
  PROVE  Answer(r, Found("rank", <<[player |-> p, score |-> score[p], rank |-> k]>>, p))
<1> DEFINE e == [player |-> p, score |-> score[p], rank |-> k]
           w == <<e>>
           a == Found("rank", w, p)
<1>1. p \in Player /\ score[p] > 0
  BY DEF Ranked
<1>2. score[p] \in 0..MaxScore
  BY <1>1 DEF Scores
<1>3. score[p] \in 1..MaxScore /\ score[p] <= score[p]
  BY <1>1, <1>2, RankingAssumption
<1>4. e \in Entry /\ e.player = p /\ e.score = score[p]
  BY <1>1, <1>3 DEF Entry
<1> HIDE DEF e
<1>5. w \in Seq(Entry) /\ Len(w) = 1 /\ w[1] = e
  BY <1>4
<1> HIDE DEF w
<1>6. \A i \in 1..Len(w) : i = 1
  BY <1>5
<1>7. NoDoubles(w)
  BY <1>6 DEF NoDoubles
<1>8. Self(w, p) \in Own
  BY <1>5, <1>7, SelfFacts
<1>9. a.kind = "rank" /\ a.entries = w
  BY DEF Found
<1>10. a \in Response
  BY <1>5, <1>8 DEF Found, Response, Kinds
<1> HIDE DEF a
<1>11. WithinLimit(a)
  <2>1. Len(a.entries) <= 1
    <3>1. Len(a.entries) = 1
      BY <1>5, <1>9, Zenon
    <3> QED
      BY <3>1
  <2>2. /\ a.kind # "top" /\ a.kind # "around"
        /\ ~(a.kind \notin {"top", "around", "rank"})
    BY <1>9
  <2> QED
    BY <2>1, <2>2, Zenon DEF WithinLimit
<1>12. \A i \in 1..Len(w) : w[i].score = score[w[i].player] /\ w[i].score <= score[w[i].player]
  BY <1>3, <1>4, <1>5, <1>6
<1>13. RespInv(score, a)
  BY <1>7, <1>9, <1>10, <1>11, <1>12 DEF RespInv
<1>14. Answer(r, a)
  BY <1>9, <1>12, <1>13 DEF Answer
<1> QED
  BY <1>14 DEF a, w, e

LEMMA RankInmemStep ==
  ASSUME RankInv, NEW r \in Reader, NEW p \in Player, RankInmem(r, p)
  PROVE  \E a : Respond(r, a) /\ Answer(r, a)
<1> DEFINE a == Found("rank", <<InmemRank(score, p)>>, p)
<1>1. Respond(r, a) /\ p \in Ranked(score) /\ score \in Scores
  BY DEF RankInmem, RankInv
<1>2. TrueEntry(score, InmemRank(score, p)) /\ InmemRank(score, p).player = p
  BY <1>1, InmemRankAnswer
<1> DEFINE e == InmemRank(score, p)
<1>3. e = [player |-> p, score |-> score[p], rank |-> e.rank] /\ e.rank \in 1..Cardinality(Player)
  BY <1>2 DEF TrueEntry, Entry
<1> HIDE DEF e
<1>4. Answer(r, Found("rank", <<[player |-> p, score |-> score[p], rank |-> e.rank]>>, p))
  BY <1>1, <1>3, RankAnswer
<1>5. Answer(r, Found("rank", <<e>>, p))
  BY <1>3, <1>4
<1> QED
  BY <1>1, <1>5 DEF e

LEMMA AroundInmemStep ==
  ASSUME RankInv, NEW r \in Reader, NEW p \in Player, NEW q \in Queries, AroundInmem(r, p, q)
  PROVE  \E a : Respond(r, a) /\ Answer(r, a)
<1> DEFINE radius == AroundRadius(q)
           at == Standing(score, p)
           a == Found("around", InmemAround(score, p, radius), p)
<1>1. Respond(r, a) /\ p \in Ranked(score) /\ score \in Scores
  BY DEF AroundInmem, RankInv
<1>2. radius \in 0..MaxAroundRadius /\ radius \in Nat
  BY Limits DEF AroundInmem
<1>3. at \in 1..Size(score) /\ Size(score) \in Nat
  BY <1>1, StandingRange, RankedFinite
<1>4. at - 1 \in 0..(Size(score) - 1)
  BY <1>3
<1>5. InmemAround(score, p, radius)
        = Places(score, First(at - 1, radius), Last(score, at - 1, radius))
  BY <1>1, <1>2, InmemAroundAnswer
<1> HIDE DEF radius
<1> DEFINE x == Found("around", Places(score, First(at - 1, radius), Last(score, at - 1, radius)), p)
           moved == Standing(score, p) - 1 - (at - 1)
<1>6. /\ RespInv(score, x)
      /\ \A i \in 1..Len(x.entries) : TrueEntry(score, x.entries[i])
      /\ \A i \in 1..Len(x.entries) : x.entries[i].score = score[x.entries[i].player]
      /\ x.kind = "around"
      /\ x.self = NoSelf => moved > radius \/ -moved > radius
  BY <1>1, <1>2, <1>4, AroundEntries
<1>7. moved = 0 /\ -moved = 0
  BY <1>3
<1>8. ~(moved > radius) /\ ~(-moved > radius)
  BY <1>2, <1>7
<1>9. a = x
  BY <1>5
<1> HIDE DEF x, moved, a
<1>10. Answer(r, x)
  BY <1>6, <1>8 DEF Answer
<1> QED
  BY <1>1, <1>9, <1>10

LEMMA FinishRankStep ==
  ASSUME RankInv, NEW r \in Reader, FinishRank(r)
  PROVE  \E a : Respond(r, a) /\ Answer(r, a)
<1> DEFINE c == call[r]
           a == Found("rank", <<[player |-> c.player, score |-> score[c.player],
                                 rank |-> c.idx + 1]>>, c.player)
<1>1. Respond(r, a) /\ c.op = "rank" /\ score \in Scores
  BY DEF FinishRank, RankInv
<1>2. c # NoCall /\ c \in Calls
  <2>1. c \in Calls \union {NoCall}
    BY DEF RankInv
  <2>2. NoCall.op # "rank"
    BY RankingAssumption DEF NoCall
  <2> QED
    BY <1>1, <2>1, <2>2
<1>3. c.player \in Ranked(score)
  BY <1>2 DEF RankInv, CallInv
<1>4. c.idx + 1 \in 1..Cardinality(Player)
  <2>1. c.idx \in 0..(Cardinality(Player) - 1)
    BY <1>2 DEF Calls
  <2>2. Cardinality(Player) \in Nat
    BY RankingAssumption, FS_CardinalityType
  <2> QED
    BY <2>1, <2>2
<1>5. Answer(r, a)
  BY <1>1, <1>3, <1>4, RankAnswer
<1> QED
  BY <1>1, <1>5

LEMMA FinishAroundStep ==
  ASSUME RankInv, NEW r \in Reader, FinishAround(r)
  PROVE  \E a : Respond(r, a) /\ Answer(r, a)
<1> DEFINE c == call[r]
           a == Found("around", RedisWindow(score, c.idx, c.radius), c.player)
<1>1. Respond(r, a) /\ c.op = "around" /\ score \in Scores
  BY DEF FinishAround, RankInv
<1>2. c # NoCall /\ c \in Calls
  <2>1. c \in Calls \union {NoCall}
    BY DEF RankInv
  <2>2. NoCall.op # "around"
    BY RankingAssumption DEF NoCall
  <2> QED
    BY <1>1, <2>1, <2>2
<1>3. c.player \in Ranked(score) /\ c.idx < Size(score)
  BY <1>2 DEF RankInv, CallInv
<1>4. c.idx \in 0..(Size(score) - 1) /\ c.radius \in 0..MaxAroundRadius /\ c.radius \in Nat
  <2>1. c.idx \in 0..(Cardinality(Player) - 1) /\ c.radius \in 0..MaxAroundRadius
    BY <1>2 DEF Calls
  <2>2. Cardinality(Player) \in Nat /\ Size(score) \in Nat /\ MaxAroundRadius \in Nat
    BY RankingAssumption, FS_CardinalityType, RankedFinite
  <2> QED
    BY <1>3, <2>1, <2>2
<1>5. RedisWindow(score, c.idx, c.radius)
        = Places(score, First(c.idx, c.radius), Last(score, c.idx, c.radius))
  BY <1>1, <1>4, WindowAnswer
<1> HIDE DEF c
<1> DEFINE x == Found("around", Places(score, First(c.idx, c.radius),
                                       Last(score, c.idx, c.radius)), c.player)
           moved == Standing(score, c.player) - 1 - c.idx
<1>6. /\ RespInv(score, x)
      /\ \A i \in 1..Len(x.entries) : TrueEntry(score, x.entries[i])
      /\ \A i \in 1..Len(x.entries) : x.entries[i].score = score[x.entries[i].player]
      /\ x.kind = "around"
      /\ x.self = NoSelf => moved > c.radius \/ -moved > c.radius
  BY <1>1, <1>3, <1>4, AroundEntries
<1>7. a = x
  BY <1>5
<1> HIDE DEF x, a
<1>8. Answer(r, x)
  BY <1>2, <1>6 DEF Answer, c
<1> QED
  BY <1>1, <1>7, <1>8

\* A step adds points, reads a position or writes an answer.
LEMMA Steps ==
  ASSUME RankInv, Next
  PROVE  \/ \E p \in Player, d \in Deltas : IncrBy(p, d)
         \/ \E r \in Reader, op \in {"rank", "around"}, p \in Player,
               radius \in 0..MaxAroundRadius : ReadPosition(r, op, p, radius)
         \/ \E r \in Reader : \E a : Respond(r, a) /\ Answer(r, a)
<1> SUFFICES ASSUME ~\E p \in Player, d \in Deltas : IncrBy(p, d)
             PROVE  \/ \E r \in Reader, op \in {"rank", "around"}, p \in Player,
                          radius \in 0..MaxAroundRadius : ReadPosition(r, op, p, radius)
                    \/ \E r \in Reader : \E a : Respond(r, a) /\ Answer(r, a)
  OBVIOUS
<1>1. PICK r \in Reader :
        \/ \E q \in Queries : Top(r, q) \/ AroundInvalid(r, q)
        \/ \E p \in Player :
             \/ NotRanked(r, p) \/ RankInmem(r, p) \/ StartRank(r, p)
             \/ \E q \in Queries : AroundInmem(r, p, q) \/ StartAround(r, p, q)
        \/ FinishRank(r) \/ FinishAround(r) \/ RedisFails(r)
  BY DEF Next
<1> DEFINE Answered == \E a : Respond(r, a) /\ Answer(r, a)
<1>2. ASSUME NEW q \in Queries, Top(r, q) \/ AroundInvalid(r, q) PROVE Answered
  <2>1. AroundInvalid(r, q) => Respond(r, Failure("invalidLimit"))
    BY DEF AroundInvalid
  <2> QED
    BY <1>2, <2>1, TopStep, FailureStep
<1>3. ASSUME NEW p \in Player, NotRanked(r, p) \/ RankInmem(r, p) PROVE Answered
  <2>1. NotRanked(r, p) => Respond(r, Failure("notRanked"))
    BY DEF NotRanked
  <2> QED
    BY <1>3, <2>1, RankInmemStep, FailureStep
<1>4. ASSUME NEW p \in Player, NEW q \in Queries, AroundInmem(r, p, q) PROVE Answered
  BY <1>4, AroundInmemStep
<1>5. ASSUME FinishRank(r) \/ FinishAround(r) \/ RedisFails(r) PROVE Answered
  <2>1. RedisFails(r) => Respond(r, Failure("error"))
    BY DEF RedisFails
  <2> QED
    BY <1>5, <2>1, FinishRankStep, FinishAroundStep, FailureStep
<1>6. ASSUME NEW p \in Player, StartRank(r, p)
      PROVE  ReadPosition(r, "rank", p, 0) /\ 0 \in 0..MaxAroundRadius
  BY <1>6, RankingAssumption DEF StartRank
<1>7. ASSUME NEW p \in Player, NEW q \in Queries, StartAround(r, p, q)
      PROVE  /\ ReadPosition(r, "around", p, AroundRadius(q))
             /\ AroundRadius(q) \in 0..MaxAroundRadius
  BY <1>7, Limits DEF StartAround
<1> HIDE DEF Answered
<1>8. \/ Answered
      \/ \E op \in {"rank", "around"}, p \in Player,
           radius \in 0..MaxAroundRadius : ReadPosition(r, op, p, radius)
  BY <1>1, <1>2, <1>3, <1>4, <1>5, <1>6, <1>7
<1> QED
  BY <1>8 DEF Answered

\* Points are only added: whoever is ranked stays ranked.
LEMMA ScoresGrow ==
  ASSUME NEW s \in Scores, NEW t \in Scores, \A p \in Player : s[p] <= t[p]
  PROVE  /\ Ranked(s) \subseteq Ranked(t)
         /\ Size(s) <= Size(t)
         /\ \A a : RespInv(s, a) => RespInv(t, a)
         /\ \A c : CallInv(s, c) /\ c \in Calls \union {NoCall} => CallInv(t, c)
<1>1. \A p \in Player : s[p] \in Nat /\ t[p] \in Nat
  BY RankingAssumption DEF Scores
<1>2. Ranked(s) \in SUBSET Ranked(t)
  BY <1>1 DEF Ranked
<1>3. Size(s) <= Size(t) /\ Size(s) \in Nat /\ Size(t) \in Nat
  BY <1>2, RankedFinite, FS_Subset DEF Size
<1>4. ASSUME NEW a, RespInv(s, a) PROVE RespInv(t, a)
  <2>1. a.entries \in Seq(Entry)
    BY <1>4 DEF RespInv, Response
  <2> DEFINE w == a.entries
  <2>2. \A i \in 1..Len(w) : w[i].player \in Player /\ w[i].score \in Nat
    <3>1. \A i \in 1..Len(w) : w[i] \in Entry
      BY <2>1
    <3>2. \A e \in Entry : e.player \in Player /\ e.score \in Nat
      BY RankingAssumption DEF Entry
    <3> QED
      BY <3>1, <3>2
  <2>3. \A i \in 1..Len(w) : w[i].score <= s[w[i].player]
    BY <1>4 DEF RespInv
  <2> HIDE DEF w
  <2>4. \A i \in 1..Len(w) : w[i].score <= t[w[i].player]
    BY <1>1, <2>2, <2>3
  <2> QED
    BY <1>4, <2>4 DEF RespInv, w
<1>5. ASSUME NEW c \in Calls \union {NoCall}, CallInv(s, c), c # NoCall
      PROVE  backend = "redis" /\ c.player \in Ranked(t) /\ c.idx < Size(t)
  <2>1. backend = "redis" /\ c.player \in Ranked(s) /\ c.idx < Size(s)
    BY <1>5 DEF CallInv
  <2>2. c.idx \in Int
    BY <1>5, RankingAssumption, FS_CardinalityType DEF Calls
  <2> QED
    BY <1>2, <1>3, <2>1, <2>2
<1> QED
  BY <1>2, <1>3, <1>4, <1>5 DEF CallInv

LEMMA IncrByStep ==
  ASSUME RankInv, NEW p \in Player, NEW d \in Deltas, IncrBy(p, d)
  PROVE  RankInv'
<1>1. /\ score \in Scores /\ d \in Nat /\ MaxScore \in Nat
      /\ score[p] + d <= MaxScore /\ score' = [score EXCEPT ![p] = @ + d]
      /\ UNCHANGED <<backend, call, resp>>
  BY RankingAssumption DEF RankInv, IncrBy
<1>2. score' \in Scores /\ \A q \in Player : score[q] <= score'[q]
  BY <1>1 DEF Scores
<1>3. ASSUME NEW r \in Reader PROVE RespInv(score', resp[r]) /\ CallInv(score', call[r])
  <2>1. /\ RespInv(score, resp[r]) /\ CallInv(score, call[r])
        /\ call[r] \in Calls \union {NoCall}
    BY DEF RankInv
  <2> QED
    BY <1>1, <1>2, <2>1, ScoresGrow
<1>4. \A r \in Reader : (RespInv(score, resp[r]))' /\ (CallInv(score, call[r]))'
  BY <1>1, <1>3 DEF RespInv, CallInv
<1> QED
  BY <1>1, <1>2, <1>4 DEF RankInv

LEMMA ReadPositionStep ==
  ASSUME RankInv, NEW r \in Reader, NEW op \in {"rank", "around"}, NEW p \in Player,
         NEW radius \in 0..MaxAroundRadius, ReadPosition(r, op, p, radius)
  PROVE  RankInv'
<1> DEFINE c == [op |-> op, player |-> p, radius |-> radius, idx |-> ZRevRank(score, p)]
<1>1. /\ score \in Scores /\ backend = "redis" /\ p \in Ranked(score)
      /\ call' = [call EXCEPT ![r] = c] /\ UNCHANGED <<backend, score, resp>>
  BY DEF RankInv, ReadPosition
<1>2. ZRevRank(score, p) \in 0..(Size(score) - 1)
  BY <1>1, ZRevRankStanding
<1>3. /\ Size(score) \in Nat /\ Size(score) <= Cardinality(Player)
      /\ Cardinality(Player) \in Nat
  BY RankedFinite, RankingAssumption, FS_CardinalityType
<1>4. ZRevRank(score, p) \in 0..(Cardinality(Player) - 1) /\ ZRevRank(score, p) < Size(score)
  BY <1>2, <1>3
<1>5. c \in Calls /\ CallInv(score, c)
  BY <1>1, <1>4 DEF Calls, CallInv
<1> HIDE DEF c
<1>6. call' \in [Reader -> Calls \union {NoCall}]
  BY <1>1, <1>5 DEF RankInv
<1>7. \A x \in Reader : CallInv(score, call'[x])
  BY <1>1, <1>5 DEF RankInv
<1>8. \A x \in Reader : (CallInv(score, call[x]))'
  BY <1>1, <1>7 DEF CallInv
<1>9. \A x \in Reader : (RespInv(score, resp[x]))'
  BY <1>1 DEF RankInv
<1> QED
  BY <1>1, <1>6, <1>8, <1>9 DEF RankInv

LEMMA RespondStep ==
  ASSUME RankInv, NEW r \in Reader, NEW a, Respond(r, a), RespInv(score, a)
  PROVE  RankInv'
<1>1. /\ resp' = [resp EXCEPT ![r] = a] /\ call' = [call EXCEPT ![r] = NoCall]
      /\ UNCHANGED <<backend, score>>
  BY DEF Respond
<1>2. a \in Response
  BY DEF RespInv
<1>3. resp' \in [Reader -> Response] /\ call' \in [Reader -> Calls \union {NoCall}]
  BY <1>1, <1>2 DEF RankInv
<1>4. \A x \in Reader : RespInv(score, resp'[x])
  BY <1>1 DEF RankInv
<1>5. \A x \in Reader : CallInv(score, call'[x])
  <2>1. CallInv(score, NoCall)
    BY DEF CallInv
  <2> QED
    BY <1>1, <2>1 DEF RankInv
<1>6. \A x \in Reader : (CallInv(score, call[x]))' /\ (RespInv(score, resp[x]))'
  BY <1>1, <1>4, <1>5 DEF CallInv
<1> QED
  BY <1>1, <1>3, <1>6 DEF RankInv

LEMMA RankInvInit == Init => RankInv
<1> SUFFICES ASSUME Init PROVE RankInv
  OBVIOUS
<1>1. /\ backend \in {"redis", "inmem"} /\ score = [p \in Player |-> 0]
      /\ call = [r \in Reader |-> NoCall] /\ resp = [r \in Reader |-> Failure(None)]
  BY DEF Init
<1>2. score \in Scores
  BY <1>1, RankingAssumption DEF Scores
<1>3. None \in Kinds \ {"top", "rank", "around"}
  BY RankingAssumption DEF Kinds
<1>4. RespInv(score, Failure(None)) /\ Failure(None) \in Response
  BY <1>3, FailureAnswer DEF Answer, RespInv
<1>5. CallInv(score, NoCall)
  BY DEF CallInv
<1> QED
  BY <1>1, <1>2, <1>4, <1>5 DEF RankInv

LEMMA RankInvNext == RankInv /\ [Next]_vars => RankInv'
<1> SUFFICES ASSUME RankInv, [Next]_vars PROVE RankInv'
  OBVIOUS
<1>1. CASE Next
  BY <1>1, Steps, IncrByStep, ReadPositionStep, RespondStep DEF Answer
<1>2. CASE UNCHANGED vars
  BY <1>2 DEF vars, RankInv, RespInv, CallInv
<1> QED
  BY <1>1, <1>2

\* Every position a reader has kept from its first Redis command still exists
\* and its player is still ranked; no response shows a score the player has not
\* reached, or a player twice.
THEOREM RankInvHolds == Spec => []RankInv
  BY RankInvInit, RankInvNext, PTL DEF Spec

-----------------------------------------------------------------------------
(* The properties *)

\* The invariant gives the types and the lengths of the responses.
LEMMA RankInvType == RankInv => TypeOK
<1> SUFFICES ASSUME RankInv PROVE TypeOK
  OBVIOUS
<1>1. ASSUME NEW r \in Reader
      PROVE  /\ call[r] = NoCall \/ call[r] \in Calls
             /\ resp[r].kind \in Kinds
             /\ Range(resp[r].entries) \subseteq Entry
             /\ Len(resp[r].entries) <= CASE resp[r].kind = "top"    -> MaxTopN
                                          [] resp[r].kind = "around" -> 2 * MaxAroundRadius + 1
                                          [] resp[r].kind = "rank"   -> 1
                                          [] OTHER                   -> 0
  <2>1. call[r] = NoCall \/ call[r] \in Calls
    BY DEF RankInv
  <2>2. RespInv(score, resp[r])
    BY DEF RankInv
  <2>3. resp[r].kind \in Kinds /\ resp[r].entries \in Seq(Entry)
    BY <2>2 DEF RespInv, Response
  <2>4. Range(resp[r].entries) \subseteq Entry
    BY <2>3 DEF Range
  <2>5. WithinLimit(resp[r])
    BY <2>2 DEF RespInv
  <2> DEFINE k == resp[r].kind
             n == Len(resp[r].entries)
  <2>6. /\ k = "top" => n <= MaxTopN
        /\ k = "around" => n <= 2 * MaxAroundRadius + 1
        /\ k = "rank" => n <= 1
        /\ k \notin {"top", "around", "rank"} => n <= 0
    BY <2>5 DEF WithinLimit
  <2> HIDE DEF k, n
  <2>7. n <= CASE k = "top"    -> MaxTopN
               [] k = "around" -> 2 * MaxAroundRadius + 1
               [] k = "rank"   -> 1
               [] OTHER        -> 0
    BY <2>6
  <2> QED
    BY <2>1, <2>3, <2>4, <2>7 DEF k, n
<1>2. backend \in {"redis", "inmem"} /\ score \in [Player -> 0..MaxScore]
  BY DEF RankInv, Scores
<1> QED
  BY <1>1, <1>2 DEF TypeOK, Calls, Kinds

\* Responses have their types, and Top, Rank and Around never return more
\* entries than the service's limits allow.
THEOREM RankingType == Spec => []TypeOK
  BY RankInvHolds, RankInvType, PTL

\* For any scores both leaderboards give the same Top, rank and neighbours.
LEMMA LeaderboardsAgree == score \in Scores => BackendsAgree
<1> SUFFICES ASSUME score \in Scores PROVE BackendsAgree
  OBVIOUS
<1>1. ASSUME NEW n \in 1..MaxTopN PROVE InmemTop(score, n) = RedisTop(score, n)
  <2>1. n \in Nat \ {0}
    BY RankingAssumption
  <2> QED
    BY <2>1, TopAnswer
<1>2. ASSUME NEW p \in Ranked(score)
      PROVE  InmemRank(score, p).rank = ZRevRank(score, p) + 1
  <2>1. Standing(score, p) \in 1..Size(score) /\ Size(score) \in Nat
    BY StandingRange, RankedFinite
  <2>2. InmemRank(score, p).rank = Standing(score, p)
    BY <2>1, InmemRankAnswer, PlacedFacts
  <2>3. ZRevRank(score, p) = Standing(score, p) - 1
    BY ZRevRankStanding
  <2> QED
    BY <2>1, <2>2, <2>3
<1>3. ASSUME NEW p \in Ranked(score), NEW radius \in 0..MaxAroundRadius
      PROVE  InmemAround(score, p, radius)
               = RedisWindow(score, ZRevRank(score, p), radius)
  <2>1. radius \in Nat
    BY RankingAssumption
  <2>2. ZRevRank(score, p) = Standing(score, p) - 1 /\ ZRevRank(score, p) \in 0..(Size(score) - 1)
    BY ZRevRankStanding
  <2> DEFINE z == ZRevRank(score, p)
  <2>3. RedisWindow(score, z, radius) = Places(score, First(z, radius), Last(score, z, radius))
    BY <2>1, <2>2, WindowAnswer
  <2>4. InmemAround(score, p, radius) = Places(score, First(z, radius), Last(score, z, radius))
    BY <2>1, <2>2, InmemAroundAnswer
  <2> QED
    BY <2>3, <2>4
<1> QED
  BY <1>1, <1>2, <1>3 DEF BackendsAgree

\* Redis' sorted set and the in-memory sort give the same answers on the same
\* scores, ties included, for every number of players and every score.
THEOREM RankingBackendsAgree == Spec => []BackendsAgree
<1>1. RankInv => BackendsAgree
  BY LeaderboardsAgree DEF RankInv
<1> QED
  BY <1>1, RankInvHolds, PTL

\* The response that has changed in a step is an answer about this state.
LEMMA NewAnswer ==
  ASSUME RankInv, [Next]_vars, NEW r \in Reader
  PROVE  resp'[r] = resp[r] \/ Answer(r, resp'[r])
<1>1. CASE UNCHANGED vars
  BY <1>1 DEF vars
<1>2. CASE Next
  <2>1. CASE resp' = resp
    BY <2>1
  <2>2. CASE \E x \in Reader : \E a : Respond(x, a) /\ Answer(x, a)
    <3>1. PICK x \in Reader : \E a : Respond(x, a) /\ Answer(x, a)
      BY <2>2
    <3>2. PICK a : Respond(x, a) /\ Answer(x, a)
      BY <3>1
    <3>3. resp' = [resp EXCEPT ![x] = a] /\ resp \in [Reader -> Response]
      BY <3>2 DEF Respond, RankInv
    <3>4. CASE x = r
      BY <3>2, <3>3, <3>4
    <3>5. CASE x # r
      BY <3>3, <3>5
    <3> QED
      BY <3>4, <3>5
  <2>3. ASSUME NEW p, NEW d, IncrBy(p, d) PROVE resp' = resp
    BY <2>3 DEF IncrBy
  <2>4. ASSUME NEW x, NEW op, NEW p, NEW radius, ReadPosition(x, op, p, radius)
        PROVE  resp' = resp
    BY <2>4 DEF ReadPosition
  <2> QED
    BY <1>2, <2>1, <2>2, <2>3, <2>4, Steps
<1> QED
  BY <1>1, <1>2

\* The elements of a response's list are its entries.
LEMMA EntriesOf ==
  ASSUME NEW a \in Response, NEW e \in Range(a.entries)
  PROVE  \E i \in 1..Len(a.entries) : e = a.entries[i]
<1>1. a.entries \in Seq(Entry)
  BY DEF Response
<1> QED
  BY <1>1 DEF Range

\* Every entry of Top and of Around has the score and the rank it is given when
\* it is read, also when ZREVRANGE uses a position that ZREVRANK gave earlier.
THEOREM RankingLabelsAreTrue == Spec => LabelsAreTrue
<1> DEFINE P == \A r \in Reader :
                  resp'[r] # resp[r] /\ resp'[r].kind \in {"top", "around"} =>
                    \A e \in Range(resp'[r].entries) :
                       e.score = score[e.player] /\ e.rank = Standing(score, e.player)
<1>1. RankInv /\ [Next]_vars => P
  <2> SUFFICES ASSUME RankInv, [Next]_vars, NEW r \in Reader, resp'[r] # resp[r],
                      resp'[r].kind \in {"top", "around"},
                      NEW e \in Range(resp'[r].entries)
               PROVE  e.score = score[e.player] /\ e.rank = Standing(score, e.player)
    OBVIOUS
  <2>1. Answer(r, resp'[r])
    BY NewAnswer
  <2>2. PICK i \in 1..Len(resp'[r].entries) : e = resp'[r].entries[i]
    BY <2>1, EntriesOf DEF Answer, RespInv
  <2>3. TrueEntry(score, e)
    BY <2>1, <2>2 DEF Answer
  <2> QED
    BY <2>3 DEF TrueEntry
<1> HIDE DEF P
<1>2. Spec => [][P]_vars
  BY <1>1, RankInvHolds, PTL DEF Spec
<1> QED
  BY <1>2 DEF P, LabelsAreTrue

\* Around lacks the player it is asked about only if the player's position moved
\* by more than the radius between the two Redis commands, and never in memory.
THEOREM RankingSelfMissingOnlyIfMoved == Spec => SelfMissingOnlyIfMoved
<1> DEFINE P == \A r \in Reader :
        resp'[r] # resp[r] /\ resp'[r].kind = "around" /\ resp'[r].self = NoSelf =>
          /\ call[r] # NoCall
          /\ LET moved == Standing(score, call[r].player) - 1 - call[r].idx
             IN  moved > call[r].radius \/ -moved > call[r].radius
<1>1. RankInv /\ [Next]_vars => P
  BY NewAnswer DEF Answer
<1> HIDE DEF P
<1>2. Spec => [][P]_vars
  BY <1>1, RankInvHolds, PTL DEF Spec
<1> QED
  BY <1>2 DEF P, SelfMissingOnlyIfMoved

\* A reader never sees a player's score fall from one response to the next,
\* whichever of Top, Rank and Around it uses and however they interleave with
\* ZINCRBY.
THEOREM RankingReadsNeverGoBack == Spec => ReadsNeverGoBack
<1> DEFINE P == \A r \in Reader :
        \A e \in Range(resp[r].entries), f \in Range(resp'[r].entries) :
          e.player = f.player => e.score <= f.score
<1>1. RankInv /\ [Next]_vars => P
  <2> SUFFICES ASSUME RankInv, [Next]_vars, NEW r \in Reader,
                      NEW e \in Range(resp[r].entries), NEW f \in Range(resp'[r].entries),
                      e.player = f.player
               PROVE  e.score <= f.score
    OBVIOUS
  <2>1. RespInv(score, resp[r])
    BY DEF RankInv
  <2>2. PICK i \in 1..Len(resp[r].entries) : e = resp[r].entries[i]
    BY <2>1, EntriesOf DEF RespInv
  <2>3. e.score <= score[e.player]
    BY <2>1, <2>2 DEF RespInv
  <2>4. CASE resp'[r] = resp[r]
    <3>1. PICK j \in 1..Len(resp[r].entries) : f = resp[r].entries[j]
      BY <2>1, <2>4, EntriesOf DEF RespInv
    <3>2. e = f
      BY <2>1, <2>2, <3>1 DEF RespInv, NoDoubles
    <3>3. e \in Entry
      BY <2>1, <2>2 DEF RespInv, Response
    <3>4. e.score \in Nat
      BY <3>3, RankingAssumption DEF Entry
    <3> QED
      BY <3>2, <3>4
  <2>5. CASE Answer(r, resp'[r])
    <3>1. PICK j \in 1..Len(resp'[r].entries) : f = resp'[r].entries[j]
      BY <2>5, EntriesOf DEF Answer, RespInv
    <3>2. f.score = score[f.player]
      BY <2>5, <3>1 DEF Answer
    <3> QED
      BY <2>3, <3>2
  <2> QED
    BY <2>4, <2>5, NewAnswer
<1> HIDE DEF P
<1>2. Spec => [][P]_vars
  BY <1>1, RankInvHolds, PTL DEF Spec
<1> QED
  BY <1>2 DEF P, ReadsNeverGoBack
=============================================================================
