----------------------------- MODULE GachaProofs -----------------------------
(***************************************************************************)
(* The pity rule of Gacha, for any number of players, pools and concurrent *)
(* calls, any threshold and any bound on the counts.                       *)
(*                                                                         *)
(* What is promised of the saved rolls has to be kept for the rolls a call *)
(* would save if it saved now: the ones it found, followed by its batch,   *)
(* with its local counter (DrawInv) and its timestamp (StampInv).  That    *)
(* the ones it found are still the saved ones when it saves is AloneInv.   *)
(***************************************************************************)
EXTENDS Gacha, SequenceTheorems, TLAPS

\* A call of Roll has a key; before the loop it has drawn nothing; and the
\* counter it works with is below the threshold.
CallInv ==
  \A c \in Caller :
     /\ phase[c] = "idle" <=> key[c] = NoKey
     /\ phase[c] # "idle" => Cards[key[c]] # {}
     /\ phase[c] # "draw" => batch[c] = <<>>
     /\ phase[c] \in {"stamp", "draw"} /\ Threshold > 0 => counter[c] < Threshold

AloneInv ==
  \A c, d \in Caller : key[c] = key[d] /\ key[c] \in Sequential => c = d

\* The rolls s of key k keep the pity rule and n counts the last misses.
PityKept(k, s, n) ==
  Guarded(k) => /\ EndsWithMisses(s, n)
                /\ Threshold > 0 => SSRWithin(s, Threshold) /\ ForcedAfter(s, Threshold)

\* The rolls s are in the order of their timestamps, and none is later than t.
Chronological(s, t) ==
  \A i, j \in 1..Len(s) : i <= j => s[i].at <= s[j].at /\ s[j].at <= t

SavedInv ==
  \A k \in Sequential : PityKept(k, rolls[k], pity[k]) /\ Chronological(rolls[k], clock)

\* The rolls the key of c has if c saves now.
Outcome(c) == rolls[key[c]] \o batch[c]

DrawInv ==
  \A c \in Caller : phase[c] \in {"stamp", "draw"} /\ key[c] \in Sequential =>
     PityKept(key[c], Outcome(c), counter[c])

StampInv ==
  \A c \in Caller : phase[c] = "draw" =>
     /\ stamp[c] <= clock
     /\ key[c] \in Sequential => Chronological(Outcome(c), stamp[c])

GachaInv == TypeOK /\ CallInv /\ AloneInv /\ SavedInv /\ DrawInv /\ StampInv

-----------------------------------------------------------------------------
(* What one more roll does to a sequence of rolls *)

LEMMA OlderRoll ==
  ASSUME NEW s \in Seq(RollRecord), NEW r \in RollRecord, NEW n \in Nat, n > 0,
         ForcedAfter(s, n),
         NEW i \in 1..(Len(s) + 1), i # Len(s) + 1, Append(s, r)[i].isPity
  PROVE  i >= n /\ \A j \in (i - n + 1)..(i - 1) : Append(s, r)[j].kind # SSR
<1>a. Len(s) \in Nat /\ \A j \in 1..Len(s) : Append(s, r)[j] = s[j]
  BY AppendProperties, LenProperties
<1>1. i \in 1..Len(s) /\ s[i].isPity
  BY <1>a
<1>2. i >= n /\ \A j \in (i - n + 1)..(i - 1) : s[j].kind # SSR
  BY <1>1 DEF ForcedAfter
<1>3. \A j \in (i - n + 1)..(i - 1) : j \in 1..Len(s)
  BY <1>a, <1>1, <1>2
<1> QED
  BY <1>a, <1>2, <1>3

LEMMA ForcedOrNaturalSSR ==
  ASSUME NEW k \in Key, NEW s \in Seq(RollRecord), NEW r \in RollRecord, NEW n \in Nat,
         PityKept(k, s, n), r.kind = SSR, r.isPity => n + 1 >= Threshold
  PROVE  PityKept(k, Append(s, r), 0)
<1>t. Threshold \in Nat
  BY GachaAssumption
<1>a. /\ Append(s, r) \in Seq(RollRecord)
      /\ Len(s) \in Nat
      /\ Len(Append(s, r)) = Len(s) + 1
      /\ \A i \in 1..Len(s) : Append(s, r)[i] = s[i]
      /\ Append(s, r)[Len(s) + 1] = r
  BY AppendProperties, LenProperties
<1>1. SUFFICES ASSUME Guarded(k)
               PROVE  /\ EndsWithMisses(Append(s, r), 0)
                      /\ Threshold > 0 => /\ SSRWithin(Append(s, r), Threshold)
                                        /\ ForcedAfter(Append(s, r), Threshold)
  BY DEF PityKept
<1>2. Threshold > 0 => SSRWithin(s, Threshold)
  BY <1>1 DEF PityKept
<1>3. EndsWithMisses(Append(s, r), 0)
  BY <1>a DEF EndsWithMisses
<1>4. ASSUME Threshold > 0, NEW i \in 1..(Len(s) + 1 - Threshold + 1)
      PROVE  \E j \in i..(i + Threshold - 1) : Append(s, r)[j].kind = SSR
  <2>1. CASE i = Len(s) + 1 - Threshold + 1
    <3>1. Len(s) + 1 \in i..(i + Threshold - 1)
      BY <1>a, <1>t, <1>4, <2>1
    <3> QED
      BY <1>a, <3>1
  <2>2. CASE i # Len(s) + 1 - Threshold + 1
    <3>1. i \in 1..(Len(s) - Threshold + 1)
      BY <1>a, <1>t, <1>4, <2>2
    <3>2. PICK j \in i..(i + Threshold - 1) : s[j].kind = SSR
      BY <1>2, <1>4, <3>1 DEF SSRWithin
    <3>3. j \in 1..Len(s)
      BY <1>a, <1>t, <1>4, <3>1
    <3> QED
      BY <1>a, <3>2, <3>3
  <2> QED
    BY <2>1, <2>2
<1>9. ASSUME Threshold > 0
      PROVE  SSRWithin(Append(s, r), Threshold)
  <2>1. Len(Append(s, r)) - Threshold + 1 = Len(s) + 1 - Threshold + 1
    BY <1>a, <1>t
  <2>2. \A i \in 1..(Len(s) + 1 - Threshold + 1) :
           \E j \in i..(i + Threshold - 1) : Append(s, r)[j].kind = SSR
    BY <1>4, <1>9
  <2> QED
    BY <2>1, <2>2, Zenon DEF SSRWithin
<1>10. ASSUME Threshold > 0
       PROVE  ForcedAfter(Append(s, r), Threshold)
  <2> SUFFICES ASSUME NEW i \in 1..(Len(s) + 1), Append(s, r)[i].isPity
               PROVE  /\ i >= Threshold
                      /\ \A j \in (i - Threshold + 1)..(i - 1) : Append(s, r)[j].kind # SSR
    BY <1>a DEF ForcedAfter
  <2>1. CASE i = Len(s) + 1
    <3>1. n + 1 >= Threshold
      BY <1>a, <2>1
    <3>2. /\ n <= Len(s)
          /\ \A j \in (Len(s) - n + 1)..Len(s) : s[j].kind # SSR
      BY <1>1, <1>a DEF PityKept, EndsWithMisses
    <3>3. ASSUME NEW j \in (i - Threshold + 1)..(i - 1)
          PROVE  Append(s, r)[j].kind # SSR
      <4>1. j \in (Len(s) - n + 1)..Len(s) /\ j \in 1..Len(s)
        BY <1>a, <1>t, <2>1, <3>1, <3>2
      <4> QED
        BY <1>a, <3>2, <4>1
    <3> QED
      BY <1>a, <1>t, <2>1, <3>1, <3>2, <3>3
  <2>2. CASE i # Len(s) + 1
    BY <1>1, <1>a, <1>t, <1>10, <2>2, OlderRoll DEF PityKept
  <2> QED
    BY <2>1, <2>2
<1> QED
  BY <1>3, <1>9, <1>10

LEMMA OneMoreMiss ==
  ASSUME NEW k \in Key, NEW s \in Seq(RollRecord), NEW r \in RollRecord, NEW n \in Nat,
         PityKept(k, s, n), r.kind # SSR, ~r.isPity, Threshold > 0 => n + 1 < Threshold
  PROVE  PityKept(k, Append(s, r), n + 1)
<1>t. Threshold \in Nat
  BY GachaAssumption
<1>a. /\ Append(s, r) \in Seq(RollRecord)
      /\ Len(s) \in Nat
      /\ Len(Append(s, r)) = Len(s) + 1
      /\ \A i \in 1..Len(s) : Append(s, r)[i] = s[i]
      /\ Append(s, r)[Len(s) + 1] = r
  BY AppendProperties, LenProperties
<1>1. SUFFICES ASSUME Guarded(k)
               PROVE  /\ EndsWithMisses(Append(s, r), n + 1)
                      /\ Threshold > 0 => /\ SSRWithin(Append(s, r), Threshold)
                                        /\ ForcedAfter(Append(s, r), Threshold)
  BY DEF PityKept
<1>2. Threshold > 0 => SSRWithin(s, Threshold)
  BY <1>1 DEF PityKept
<1>3. /\ n <= Len(s)
      /\ \A i \in (Len(s) - n + 1)..Len(s) : s[i].kind # SSR
      /\ n < Len(s) => s[Len(s) - n].kind = SSR
  BY <1>1, <1>a DEF PityKept, EndsWithMisses
<1>4. EndsWithMisses(Append(s, r), n + 1)
  <2>1. ASSUME NEW i \in (Len(s) + 1 - (n + 1) + 1)..(Len(s) + 1)
        PROVE  Append(s, r)[i].kind # SSR
    <3>1. CASE i = Len(s) + 1
      BY <1>a, <3>1
    <3>2. CASE i # Len(s) + 1
      <4>1. i \in (Len(s) - n + 1)..Len(s) /\ i \in 1..Len(s)
        BY <1>a, <1>3, <2>1, <3>2
      <4> QED
        BY <1>a, <1>3, <4>1
    <3> QED
      BY <3>1, <3>2
  <2>2. ASSUME n + 1 < Len(s) + 1
        PROVE  Append(s, r)[Len(s) + 1 - (n + 1)].kind = SSR
    <3>1. Len(s) + 1 - (n + 1) = Len(s) - n /\ Len(s) - n \in 1..Len(s) /\ n < Len(s)
      BY <1>a, <2>2
    <3> QED
      BY <1>a, <1>3, <3>1
  <2>3. n + 1 \in 0..(Len(s) + 1)
    BY <1>a, <1>3
  <2> QED
    BY <1>a, <2>1, <2>2, <2>3 DEF EndsWithMisses
<1>5. ASSUME Threshold > 0, NEW i \in 1..(Len(s) + 1 - Threshold + 1)
      PROVE  \E j \in i..(i + Threshold - 1) : Append(s, r)[j].kind = SSR
  <2>1. CASE i = Len(s) + 1 - Threshold + 1
    <3>1. /\ n < Len(s)
          /\ Len(s) - n \in 1..Len(s)
          /\ Len(s) - n \in i..(i + Threshold - 1)
      BY <1>a, <1>t, <1>5, <2>1
    <3> QED
      BY <1>a, <1>3, <3>1
  <2>2. CASE i # Len(s) + 1 - Threshold + 1
    <3>1. i \in 1..(Len(s) - Threshold + 1)
      BY <1>a, <1>t, <1>5, <2>2
    <3>2. PICK j \in i..(i + Threshold - 1) : s[j].kind = SSR
      BY <1>2, <1>5, <3>1 DEF SSRWithin
    <3>3. j \in 1..Len(s)
      BY <1>a, <1>t, <1>5, <3>1
    <3> QED
      BY <1>a, <3>2, <3>3
  <2> QED
    BY <2>1, <2>2
<1>9. ASSUME Threshold > 0
      PROVE  SSRWithin(Append(s, r), Threshold)
  <2>1. Len(Append(s, r)) - Threshold + 1 = Len(s) + 1 - Threshold + 1
    BY <1>a, <1>t
  <2>2. \A i \in 1..(Len(s) + 1 - Threshold + 1) :
           \E j \in i..(i + Threshold - 1) : Append(s, r)[j].kind = SSR
    BY <1>5, <1>9
  <2> QED
    BY <2>1, <2>2, Zenon DEF SSRWithin
<1>10. ASSUME Threshold > 0
       PROVE  ForcedAfter(Append(s, r), Threshold)
  <2> SUFFICES ASSUME NEW i \in 1..(Len(s) + 1), Append(s, r)[i].isPity
               PROVE  /\ i >= Threshold
                      /\ \A j \in (i - Threshold + 1)..(i - 1) : Append(s, r)[j].kind # SSR
    BY <1>a DEF ForcedAfter
  <2>1. i # Len(s) + 1
    BY <1>a
  <2> QED
    BY <1>1, <1>a, <1>t, <1>10, <2>1, OlderRoll DEF PityKept
<1> QED
  BY <1>4, <1>9, <1>10

LEMMA StampedRoll ==
  ASSUME NEW s \in Seq(RollRecord), NEW r \in RollRecord, Chronological(s, r.at)
  PROVE  Chronological(Append(s, r), r.at)
<1>a. /\ Len(s) \in Nat
      /\ Len(Append(s, r)) = Len(s) + 1
      /\ \A i \in 1..Len(s) : Append(s, r)[i] = s[i]
      /\ Append(s, r)[Len(s) + 1] = r
  BY AppendProperties, LenProperties
<1>b. r.at \in Nat
  BY DEF RollRecord
<1> SUFFICES ASSUME NEW i \in 1..(Len(s) + 1), NEW j \in 1..(Len(s) + 1), i <= j
             PROVE  /\ Append(s, r)[i].at <= Append(s, r)[j].at
                    /\ Append(s, r)[j].at <= r.at
  BY <1>a DEF Chronological
<1>1. CASE j = Len(s) + 1 /\ i = Len(s) + 1
  BY <1>a, <1>b, <1>1
<1>2. CASE j = Len(s) + 1 /\ i # Len(s) + 1
  <2>1. i \in 1..Len(s)
    BY <1>a, <1>2
  <2> QED
    BY <1>a, <1>b, <1>2, <2>1 DEF Chronological
<1>3. CASE j # Len(s) + 1
  <2>1. i \in 1..Len(s) /\ j \in 1..Len(s)
    BY <1>a, <1>3
  <2> QED
    BY <1>a, <2>1 DEF Chronological
<1> QED
  BY <1>1, <1>2, <1>3

LEMMA LaterIsFine ==
  ASSUME NEW s \in Seq(RollRecord), NEW t \in Nat, NEW u \in Nat, t <= u, Chronological(s, t)
  PROVE  Chronological(s, u)
<1>1. ASSUME NEW i \in 1..Len(s)
      PROVE  s[i].at \in Nat
  <2>1. s[i] \in RollRecord
    BY LenProperties
  <2> QED
    BY <2>1 DEF RollRecord
<1> QED
  BY <1>1 DEF Chronological

LEMMA AppendToOutcome ==
  ASSUME NEW s \in Seq(RollRecord), NEW b \in Seq(RollRecord), NEW r \in RollRecord
  PROVE  s \o Append(b, r) = Append(s \o b, r)
<1>1. <<r>> \in Seq(RollRecord)
  OBVIOUS
<1>2. Append(b, r) = b \o <<r>> /\ s \o b \in Seq(RollRecord)
  BY AppendIsConcat, ConcatProperties
<1>3. Append(s \o b, r) = (s \o b) \o <<r>>
  BY <1>2, AppendIsConcat
<1> QED
  BY <1>1, <1>2, <1>3, ConcatAssociative

-----------------------------------------------------------------------------
(* The invariant is inductive *)

\* What a step by caller c means for the others: a key of their own.
LEMMA OthersElsewhere ==
  ASSUME GachaInv, NEW c \in Caller, NEW d \in Caller, d # c, key[d] \in Sequential
  PROVE  key[d] # key[c]
BY DEF GachaInv, AloneInv

LEMMA TypeFacts ==
  ASSUME GachaInv, NEW c \in Caller
  PROVE  /\ phase[c] # "idle" => key[c] \in Key
         /\ key[c] \in Key => rolls[key[c]] \in Seq(RollRecord)
         /\ key[c] \in Key => Outcome(c) \in Seq(RollRecord)
<1>1. key[c] \in Key \union {NoKey} /\ batch[c] \in Seq(RollRecord)
  BY DEF GachaInv, TypeOK
<1>2. phase[c] # "idle" => key[c] \in Key
  BY <1>1 DEF GachaInv, CallInv
<1>3. key[c] \in Key => rolls[key[c]] \in Seq(RollRecord)
  BY DEF GachaInv, TypeOK
<1> QED
  BY <1>1, <1>2, <1>3, ConcatProperties DEF Outcome

LEMMA GachaInit ==
  ASSUME Init
  PROVE  GachaInv
<1>e. <<>> \in Seq(RollRecord) /\ Len(<<>>) = 0
  BY EmptySeq
<1>t. Threshold \in Nat /\ MaxCount \in Nat \ {0} /\ NoKey \notin Key
  BY GachaAssumption
<1>1. TypeOK
  BY <1>e, <1>t DEF Init, TypeOK
<1>2. CallInv
  BY DEF Init, CallInv
<1>3. AloneInv
  BY <1>t DEF Init, AloneInv, Sequential
<1>4. SavedInv
  <2> SUFFICES ASSUME NEW k \in Sequential
               PROVE  PityKept(k, <<>>, 0) /\ Chronological(<<>>, 0)
    BY <1>t DEF Init, SavedInv, Sequential
  <2>1. EndsWithMisses(<<>>, 0)
    BY <1>e DEF EndsWithMisses
  <2>2. Threshold > 0 => SSRWithin(<<>>, Threshold) /\ ForcedAfter(<<>>, Threshold)
    BY <1>e, <1>t DEF SSRWithin, ForcedAfter
  <2>3. Chronological(<<>>, 0)
    BY <1>e DEF Chronological
  <2> QED
    BY <2>1, <2>2, <2>3 DEF PityKept
<1>5. DrawInv /\ StampInv
  BY DEF Init, DrawInv, StampInv
<1> QED
  BY <1>1, <1>2, <1>3, <1>4, <1>5 DEF GachaInv

LEMMA StartKeeps ==
  ASSUME GachaInv, NEW c \in Caller, NEW k \in Key, NEW n \in Counts, Start(c, k, n)
  PROVE  GachaInv'
<1>u. UNCHANGED <<pity, rolls, counter, stamp, batch, clock>>
  BY DEF Start
<1>d. /\ phase \in [Caller -> {"idle", "read", "stamp", "draw"}]
      /\ key \in [Caller -> Key \union {NoKey}]
      /\ left \in [Caller -> 0..MaxCount]
  BY DEF GachaInv, TypeOK
<1>p. /\ phase[c] = "idle"
      /\ phase' = [phase EXCEPT ![c] = "read"]
      /\ key' = [key EXCEPT ![c] = k]
      /\ left' = [left EXCEPT ![c] = n]
      /\ n \in 0..MaxCount
      /\ Cards[k] # {}
  BY GachaAssumption DEF Start, ValidCount
<1>s. /\ overlapped' \subseteq Key
      /\ Sequential' \subseteq Sequential
      /\ k \in Sequential' => \A d \in Caller : key[d] # k
  BY DEF Start, InFlight, Sequential, GachaInv, TypeOK
<1>t. NoKey \notin Key
  BY GachaAssumption
<1>1. TypeOK'
  BY <1>u, <1>d, <1>p, <1>s DEF GachaInv, TypeOK
<1>2. CallInv'
  <2> SUFFICES ASSUME NEW d \in Caller
               PROVE  /\ phase'[d] = "idle" <=> key'[d] = NoKey
                      /\ phase'[d] # "idle" => Cards[key'[d]] # {}
                      /\ phase'[d] # "draw" => batch[d] = <<>>
                      /\ phase'[d] \in {"stamp", "draw"} /\ Threshold > 0
                            => counter[d] < Threshold
    BY <1>u DEF CallInv
  <2>1. CASE d = c
    BY <1>d, <1>p, <1>t, <2>1 DEF GachaInv, CallInv
  <2>2. CASE d # c
    BY <1>d, <1>p, <2>2 DEF GachaInv, CallInv
  <2> QED
    BY <2>1, <2>2
<1>3. AloneInv'
  BY <1>d, <1>p, <1>s DEF GachaInv, AloneInv
<1>4. SavedInv'
  BY <1>u, <1>s DEF GachaInv, SavedInv
<1>5. DrawInv' /\ StampInv'
  <2>1. \A d \in Caller : d # c => phase'[d] = phase[d] /\ key'[d] = key[d]
    BY <1>d, <1>p
  <2>2. phase'[c] = "read"
    BY <1>d, <1>p
  <2>3. DrawInv'
    BY <1>u, <1>s, <2>1, <2>2 DEF GachaInv, DrawInv, Outcome
  <2>4. StampInv'
    BY <1>u, <1>s, <2>1, <2>2 DEF GachaInv, StampInv, Outcome
  <2> QED
    BY <2>3, <2>4
<1> QED
  BY <1>1, <1>2, <1>3, <1>4, <1>5 DEF GachaInv

LEMMA ReadPityKeeps ==
  ASSUME GachaInv, NEW c \in Caller, ReadPity(c)
  PROVE  GachaInv'
<1>u. UNCHANGED <<pity, rolls, key, left, stamp, batch, clock, overlapped>> /\ Sequential' = Sequential
  BY DEF ReadPity, Sequential
<1>d. /\ phase \in [Caller -> {"idle", "read", "stamp", "draw"}]
      /\ counter \in [Caller -> Nat]
      /\ pity \in [Key -> IF Threshold > 0 THEN 0..(Threshold - 1) ELSE Nat]
  BY DEF GachaInv, TypeOK
<1>p. /\ phase[c] = "read"
      /\ counter' = [counter EXCEPT ![c] = pity[key[c]]]
      /\ phase' = [phase EXCEPT ![c] = "stamp"]
  BY DEF ReadPity
<1>k. /\ key[c] \in Key
      /\ rolls[key[c]] \in Seq(RollRecord)
  BY <1>p, TypeFacts
<1>t. Threshold \in Nat
  BY GachaAssumption
<1>b. batch[c] = <<>>
  BY <1>p DEF GachaInv, CallInv
<1>n. /\ pity[key[c]] \in Nat
      /\ Threshold > 0 => pity[key[c]] < Threshold
  BY <1>d, <1>k, <1>t
<1>q. /\ phase'[c] = "stamp" /\ counter'[c] = pity[key[c]]
      /\ \A d \in Caller : d # c => phase'[d] = phase[d] /\ counter'[d] = counter[d]
  BY <1>d, <1>p
<1>1. TypeOK'
  <2>1. /\ phase' \in [Caller -> {"idle", "read", "stamp", "draw"}]
        /\ counter' \in [Caller -> Nat]
    BY <1>d, <1>p, <1>n
  <2> QED
    BY <1>u, <2>1 DEF GachaInv, TypeOK
<1>2. CallInv'
  <2> SUFFICES ASSUME NEW d \in Caller
               PROVE  /\ phase'[d] = "idle" <=> key[d] = NoKey
                      /\ phase'[d] # "idle" => Cards[key[d]] # {}
                      /\ phase'[d] # "draw" => batch[d] = <<>>
                      /\ phase'[d] \in {"stamp", "draw"} /\ Threshold > 0
                            => counter'[d] < Threshold
    BY <1>u DEF CallInv
  <2>1. CASE d = c
    BY <1>q, <1>p, <1>n, <2>1 DEF GachaInv, CallInv
  <2>2. CASE d # c
    BY <1>q, <2>2 DEF GachaInv, CallInv
  <2> QED
    BY <2>1, <2>2
<1>3. AloneInv'
  BY <1>u DEF GachaInv, AloneInv
<1>4. SavedInv'
  BY <1>u DEF GachaInv, SavedInv
<1>5. DrawInv'
  <2> SUFFICES ASSUME NEW d \in Caller, phase'[d] \in {"stamp", "draw"}, key[d] \in Sequential
               PROVE  PityKept(key[d], Outcome(d), counter'[d])
    BY <1>u DEF DrawInv, Outcome
  <2>1. CASE d = c
    <3>1. Outcome(c) = rolls[key[c]]
      BY <1>b, <1>k, ConcatEmptySeq DEF Outcome
    <3> QED
      BY <1>q, <2>1, <3>1 DEF GachaInv, SavedInv
  <2>2. CASE d # c
    BY <1>q, <2>2 DEF GachaInv, DrawInv
  <2> QED
    BY <2>1, <2>2
<1>6. StampInv'
  BY <1>u, <1>q DEF GachaInv, StampInv, Outcome
<1> QED
  BY <1>1, <1>2, <1>3, <1>4, <1>5, <1>6 DEF GachaInv

LEMMA TakeTimeKeeps ==
  ASSUME GachaInv, NEW c \in Caller, TakeTime(c)
  PROVE  GachaInv'
<1>u. UNCHANGED <<pity, rolls, key, left, counter, batch, clock, overlapped>> /\ Sequential' = Sequential
  BY DEF TakeTime, Sequential
<1>d. /\ phase \in [Caller -> {"idle", "read", "stamp", "draw"}]
      /\ stamp \in [Caller -> Nat]
      /\ clock \in Nat
  BY DEF GachaInv, TypeOK
<1>p. /\ phase[c] = "stamp"
      /\ stamp' = [stamp EXCEPT ![c] = clock]
      /\ phase' = [phase EXCEPT ![c] = "draw"]
  BY DEF TakeTime
<1>k. rolls[key[c]] \in Seq(RollRecord)
  BY <1>p, TypeFacts
<1>b. batch[c] = <<>>
  BY <1>p DEF GachaInv, CallInv
<1>q. /\ phase'[c] = "draw" /\ stamp'[c] = clock
      /\ \A d \in Caller : d # c => phase'[d] = phase[d] /\ stamp'[d] = stamp[d]
  BY <1>d, <1>p
<1>1. TypeOK'
  <2>1. /\ phase' \in [Caller -> {"idle", "read", "stamp", "draw"}]
        /\ stamp' \in [Caller -> Nat]
    BY <1>d, <1>p
  <2> QED
    BY <1>u, <2>1 DEF GachaInv, TypeOK
<1>2. CallInv'
  BY <1>u, <1>p, <1>q DEF GachaInv, CallInv
<1>3. AloneInv'
  BY <1>u DEF GachaInv, AloneInv
<1>4. SavedInv'
  BY <1>u DEF GachaInv, SavedInv
<1>5. DrawInv'
  BY <1>u, <1>p, <1>q DEF GachaInv, DrawInv, Outcome
<1>6. StampInv'
  <2> SUFFICES ASSUME NEW d \in Caller, phase'[d] = "draw"
               PROVE  /\ stamp'[d] <= clock
                      /\ key[d] \in Sequential => Chronological(Outcome(d), stamp'[d])
    BY <1>u DEF StampInv, Outcome
  <2>1. CASE d = c
    <3>1. Outcome(c) = rolls[key[c]]
      BY <1>b, <1>k, ConcatEmptySeq DEF Outcome
    <3> QED
      BY <1>d, <1>q, <2>1, <3>1 DEF GachaInv, SavedInv
  <2>2. CASE d # c
    BY <1>q, <2>2 DEF GachaInv, StampInv
  <2> QED
    BY <2>1, <2>2
<1> QED
  BY <1>1, <1>2, <1>3, <1>4, <1>5, <1>6 DEF GachaInv

\* One iteration of the loop, whatever it draws: the counter it leaves has to be
\* right for the card it appends.
LEMMA DrawnKeeps ==
  ASSUME GachaInv, NEW c \in Caller, phase[c] = "draw", left[c] > 0,
         NEW kind \in {SSR, Other}, NEW isPity \in BOOLEAN, NEW n \in Nat,
         Drawn(c, kind, isPity, n),
         kind = SSR => n = 0,
         isPity => kind = SSR /\ counter[c] + 1 >= Threshold,
         kind # SSR /\ Guarded(key[c]) => n = counter[c] + 1,
         Threshold > 0 => n < Threshold
  PROVE  GachaInv'
<1> DEFINE r == [kind |-> kind, isPity |-> isPity, at |-> stamp[c]]
<1>u. UNCHANGED <<pity, rolls, phase, key, stamp, clock, overlapped>> /\ Sequential' = Sequential
  BY DEF Drawn, Sequential
<1>d. /\ batch \in [Caller -> Seq(RollRecord)]
      /\ counter \in [Caller -> Nat]
      /\ left \in [Caller -> 0..MaxCount]
      /\ stamp \in [Caller -> Nat]
  BY DEF GachaInv, TypeOK
<1>p. /\ batch' = [batch EXCEPT ![c] = Append(@, r)]
      /\ counter' = [counter EXCEPT ![c] = n]
      /\ left' = [left EXCEPT ![c] = @ - 1]
  BY DEF Drawn
<1>r. r \in RollRecord /\ r.kind = kind /\ r.isPity = isPity /\ r.at = stamp[c]
  BY <1>d DEF RollRecord
<1> HIDE DEF r
<1>k. /\ key[c] \in Key
      /\ rolls[key[c]] \in Seq(RollRecord)
      /\ Outcome(c) \in Seq(RollRecord)
  BY TypeFacts
<1>t. MaxCount \in Nat
  BY GachaAssumption
<1>a. batch[c] \in Seq(RollRecord) /\ Append(batch[c], r) \in Seq(RollRecord)
  BY <1>d, <1>r, AppendProperties
<1>q. /\ batch'[c] = Append(batch[c], r) /\ counter'[c] = n
      /\ \A d \in Caller : d # c => batch'[d] = batch[d] /\ counter'[d] = counter[d]
  BY <1>d, <1>p
<1>o. /\ Outcome(c)' = Append(Outcome(c), r)
      /\ \A d \in Caller : d # c => Outcome(d)' = Outcome(d)
  BY <1>u, <1>q, <1>k, <1>a, <1>r, AppendToOutcome DEF Outcome
<1>1. TypeOK'
  <2>1. batch' \in [Caller -> Seq(RollRecord)]
    BY <1>d, <1>p, <1>a
  <2>2. counter' \in [Caller -> Nat]
    BY <1>d, <1>p
  <2>3. left' \in [Caller -> 0..MaxCount]
    BY <1>d, <1>p, <1>t
  <2> QED
    BY <1>u, <2>1, <2>2, <2>3 DEF GachaInv, TypeOK
<1>2. CallInv'
  <2> SUFFICES ASSUME NEW d \in Caller
               PROVE  /\ phase[d] = "idle" <=> key[d] = NoKey
                      /\ phase[d] # "idle" => Cards[key[d]] # {}
                      /\ phase[d] # "draw" => batch'[d] = <<>>
                      /\ phase[d] \in {"stamp", "draw"} /\ Threshold > 0
                            => counter'[d] < Threshold
    BY <1>u DEF CallInv
  <2>1. CASE d = c
    BY <1>q, <2>1 DEF GachaInv, CallInv
  <2>2. CASE d # c
    BY <1>q, <2>2 DEF GachaInv, CallInv
  <2> QED
    BY <2>1, <2>2
<1>3. AloneInv'
  BY <1>u DEF GachaInv, AloneInv
<1>4. SavedInv'
  BY <1>u DEF GachaInv, SavedInv
<1>5. DrawInv'
  <2> SUFFICES ASSUME NEW d \in Caller, phase[d] \in {"stamp", "draw"}, key[d] \in Sequential
               PROVE  PityKept(key[d], Outcome(d)', counter'[d])
    BY <1>u DEF DrawInv
  <2>1. CASE d = c
    <3>1. PityKept(key[c], Outcome(c), counter[c])
      BY <2>1 DEF GachaInv, DrawInv
    <3>c. counter[c] \in Nat
      BY <1>d
    <3>2. CASE kind = SSR
      BY <1>k, <1>q, <1>o, <1>r, <2>1, <3>1, <3>2, <3>c, ForcedOrNaturalSSR
    <3>3. CASE kind # SSR /\ Guarded(key[c])
      <4>1. n = counter[c] + 1
        BY <3>3
      <4> QED
        BY <1>k, <1>q, <1>o, <1>r, <2>1, <3>1, <3>3, <3>c, <4>1, OneMoreMiss
    <3>4. CASE ~Guarded(key[c])
      BY <2>1, <3>4 DEF PityKept
    <3> QED
      BY <3>2, <3>3, <3>4
  <2>2. CASE d # c
    BY <1>q, <1>o, <2>2 DEF GachaInv, DrawInv
  <2> QED
    BY <2>1, <2>2
<1>6. StampInv'
  <2> SUFFICES ASSUME NEW d \in Caller, phase[d] = "draw"
               PROVE  /\ stamp[d] <= clock
                      /\ key[d] \in Sequential => Chronological(Outcome(d)', stamp[d])
    BY <1>u DEF StampInv
  <2>1. CASE d = c
    BY <1>k, <1>r, <1>o, <2>1, StampedRoll DEF GachaInv, StampInv
  <2>2. CASE d # c
    BY <1>o, <2>2 DEF GachaInv, StampInv
  <2> QED
    BY <2>1, <2>2
<1> QED
  BY <1>1, <1>2, <1>3, <1>4, <1>5, <1>6 DEF GachaInv

LEMMA DrawPityKeeps ==
  ASSUME GachaInv, NEW c \in Caller, DrawPity(c)
  PROVE  GachaInv'
<1>1. /\ phase[c] = "draw" /\ left[c] > 0
      /\ Threshold > 0 => 0 < Threshold
      /\ counter[c] + 1 >= Threshold
      /\ SSR \in {SSR, Other} /\ Other \in {SSR, Other} /\ SSR # Other
  BY DEF DrawPity, AtThreshold, SSR, Other
<1>2. CASE SSR \in Cards[key[c]] /\ Drawn(c, SSR, TRUE, 0)
  BY <1>1, <1>2, DrawnKeeps
<1>3. CASE SSR \notin Cards[key[c]] /\ Drawn(c, Other, FALSE, 0)
  <2>1. ~Guarded(key[c])
    BY <1>3 DEF Guarded
  <2> QED
    BY <1>1, <1>3, <2>1, DrawnKeeps
<1> QED
  BY <1>2, <1>3 DEF DrawPity

LEMMA DrawNormalKeeps ==
  ASSUME GachaInv, NEW c \in Caller, DrawNormal(c)
  PROVE  GachaInv'
<1>1. PICK kind \in Cards[key[c]] :
        Drawn(c, kind, FALSE, IF kind = SSR THEN 0 ELSE counter[c] + 1)
  BY DEF DrawNormal
<1> DEFINE n == IF kind = SSR THEN 0 ELSE counter[c] + 1
<1>2. phase[c] = "draw" /\ left[c] > 0 /\ ~AtThreshold(counter[c] + 1)
  BY DEF DrawNormal
<1>3. kind \in {SSR, Other}
  BY <1>2, TypeFacts, GachaAssumption
<1>4. counter[c] \in Nat /\ Threshold \in Nat
  BY GachaAssumption DEF GachaInv, TypeOK
<1>5. n \in Nat /\ (kind = SSR => n = 0) /\ (kind # SSR => n = counter[c] + 1)
  BY <1>4
<1>6. Threshold > 0 => n < Threshold
  BY <1>2, <1>4 DEF AtThreshold
<1>7. Drawn(c, kind, FALSE, n)
  BY <1>1
<1> HIDE DEF n
<1> QED
  BY <1>2, <1>3, <1>5, <1>6, <1>7, DrawnKeeps

\* A call returns: whatever it did to the saved state keeps the promise there,
\* and does nothing to the key of another call that nobody may overlap.
LEMMA LeaveKeeps ==
  ASSUME GachaInv, NEW c \in Caller, phase[c] # "idle", Leave(c),
         pity' \in [Key -> IF Threshold > 0 THEN 0..(Threshold - 1) ELSE Nat],
         rolls' \in [Key -> Seq(RollRecord)],
         \A k \in Key : k # key[c] => rolls'[k] = rolls[k],
         SavedInv'
  PROVE  GachaInv'
<1>d. /\ phase \in [Caller -> {"idle", "read", "stamp", "draw"}]
      /\ key \in [Caller -> Key \union {NoKey}]
      /\ left \in [Caller -> 0..MaxCount]
      /\ counter \in [Caller -> Nat]
      /\ stamp \in [Caller -> Nat]
      /\ batch \in [Caller -> Seq(RollRecord)]
      /\ clock \in Nat
  BY DEF GachaInv, TypeOK
<1>t. NoKey \notin Key /\ MaxCount \in Nat /\ 0 \in 0..MaxCount
  BY GachaAssumption
<1>e. <<>> \in Seq(RollRecord)
  BY EmptySeq
<1>u. clock' = clock /\ overlapped' = overlapped /\ Sequential' = Sequential
  BY DEF Leave, Sequential
<1>p. /\ phase' = [phase EXCEPT ![c] = "idle"]
      /\ left' = [left EXCEPT ![c] = 0]
      /\ counter' = [counter EXCEPT ![c] = 0]
      /\ stamp' = [stamp EXCEPT ![c] = 0]
      /\ batch' = [batch EXCEPT ![c] = <<>>]
      /\ key' = [key EXCEPT ![c] = NoKey]
  BY DEF Leave
<1>q. /\ phase'[c] = "idle" /\ key'[c] = NoKey /\ batch'[c] = <<>>
      /\ \A d \in Caller : d # c =>
            /\ phase'[d] = phase[d] /\ key'[d] = key[d] /\ counter'[d] = counter[d]
            /\ stamp'[d] = stamp[d] /\ batch'[d] = batch[d]
  BY <1>d, <1>p
<1>o. ASSUME NEW d \in Caller, d # c, key'[d] \in Sequential
      PROVE  key[d] = key'[d] /\ Outcome(d)' = Outcome(d)
  <2>1. key[d] = key'[d] /\ batch[d] = batch'[d]
    BY <1>o, <1>q
  <2>2. key[d] # key[c]
    BY <1>o, <2>1, OthersElsewhere
  <2> QED
    BY <1>o, <2>1, <2>2 DEF Outcome, Sequential
<1>1. TypeOK'
  <2>1. /\ phase' \in [Caller -> {"idle", "read", "stamp", "draw"}]
        /\ key' \in [Caller -> Key \union {NoKey}]
        /\ left' \in [Caller -> 0..MaxCount]
        /\ counter' \in [Caller -> Nat]
        /\ stamp' \in [Caller -> Nat]
    BY <1>d, <1>p, <1>t
  <2>2. batch' \in [Caller -> Seq(RollRecord)]
    BY <1>d, <1>p, <1>e
  <2> QED
    BY <1>d, <1>u, <2>1, <2>2 DEF GachaInv, TypeOK
<1>2. CallInv'
  <2> SUFFICES ASSUME NEW d \in Caller
               PROVE  /\ phase'[d] = "idle" <=> key'[d] = NoKey
                      /\ phase'[d] # "idle" => Cards[key'[d]] # {}
                      /\ phase'[d] # "draw" => batch'[d] = <<>>
                      /\ phase'[d] \in {"stamp", "draw"} /\ Threshold > 0
                            => counter'[d] < Threshold
    BY DEF CallInv
  <2>1. CASE d = c
    BY <1>q, <2>1
  <2>2. CASE d # c
    BY <1>q, <2>2 DEF GachaInv, CallInv
  <2> QED
    BY <2>1, <2>2
<1>3. AloneInv'
  BY <1>q, <1>u, <1>t DEF GachaInv, AloneInv, Sequential
<1>5. DrawInv'
  <2> SUFFICES ASSUME NEW d \in Caller, phase'[d] \in {"stamp", "draw"}, key'[d] \in Sequential
               PROVE  PityKept(key'[d], Outcome(d)', counter'[d])
    BY <1>u DEF DrawInv
  <2>1. d # c
    BY <1>q
  <2> QED
    BY <1>q, <1>o, <2>1 DEF GachaInv, DrawInv
<1>6. StampInv'
  <2> SUFFICES ASSUME NEW d \in Caller, phase'[d] = "draw"
               PROVE  /\ stamp'[d] <= clock
                      /\ key'[d] \in Sequential => Chronological(Outcome(d)', stamp'[d])
    BY <1>u DEF StampInv
  <2>1. d # c
    BY <1>q
  <2> QED
    BY <1>q, <1>o, <2>1 DEF GachaInv, StampInv
<1> QED
  BY <1>1, <1>2, <1>3, <1>5, <1>6 DEF GachaInv

LEMMA SaveKeeps ==
  ASSUME GachaInv, NEW c \in Caller, Save(c)
  PROVE  GachaInv'
<1>d. /\ pity \in [Key -> IF Threshold > 0 THEN 0..(Threshold - 1) ELSE Nat]
      /\ rolls \in [Key -> Seq(RollRecord)]
      /\ counter[c] \in Nat /\ stamp[c] \in Nat /\ clock \in Nat
  BY DEF GachaInv, TypeOK
<1>p. /\ phase[c] = "draw"
      /\ rolls' = [rolls EXCEPT ![key[c]] = Outcome(c)]
      /\ pity' = [pity EXCEPT ![key[c]] = counter[c]]
      /\ Leave(c)
  BY DEF Save, Outcome
<1>u. clock' = clock /\ Sequential' = Sequential
  BY <1>p DEF Leave, Sequential
<1>k. key[c] \in Key /\ Outcome(c) \in Seq(RollRecord)
  BY <1>p, TypeFacts
<1>t. Threshold \in Nat
  BY GachaAssumption
<1>1. pity' \in [Key -> IF Threshold > 0 THEN 0..(Threshold - 1) ELSE Nat]
  <2>1. Threshold > 0 => counter[c] \in 0..(Threshold - 1)
    BY <1>d, <1>p, <1>t DEF GachaInv, CallInv
  <2> QED
    BY <1>d, <1>p, <2>1
<1>2. rolls' \in [Key -> Seq(RollRecord)]
  BY <1>d, <1>p, <1>k
<1>3. /\ rolls'[key[c]] = Outcome(c) /\ pity'[key[c]] = counter[c]
      /\ \A k \in Key : k # key[c] => rolls'[k] = rolls[k] /\ pity'[k] = pity[k]
  BY <1>d, <1>p, <1>k
<1>4. SavedInv'
  <2> SUFFICES ASSUME NEW k \in Sequential
               PROVE  PityKept(k, rolls'[k], pity'[k]) /\ Chronological(rolls'[k], clock)
    BY <1>u DEF SavedInv
  <2>1. CASE k = key[c]
    <3>1. PityKept(k, Outcome(c), counter[c])
      BY <1>p, <2>1 DEF GachaInv, DrawInv
    <3>2. Chronological(Outcome(c), stamp[c]) /\ stamp[c] <= clock
      BY <1>p, <2>1 DEF GachaInv, StampInv
    <3>3. Chronological(Outcome(c), clock)
      BY <1>d, <1>k, <3>2, LaterIsFine
    <3> QED
      BY <1>3, <2>1, <3>1, <3>3
  <2>2. CASE k # key[c]
    BY <1>3, <2>2 DEF GachaInv, SavedInv, Sequential
  <2> QED
    BY <2>1, <2>2
<1> QED
  BY <1>p, <1>1, <1>2, <1>3, <1>4, LeaveKeeps

LEMMA AbortKeeps ==
  ASSUME GachaInv, NEW c \in Caller, Abort(c)
  PROVE  GachaInv'
<1>1. phase[c] # "idle" /\ Leave(c) /\ UNCHANGED <<pity, rolls, clock>> /\ Sequential' = Sequential
  BY DEF Abort, Leave, Sequential
<1>2. SavedInv'
  BY <1>1 DEF GachaInv, SavedInv
<1>3. /\ pity' \in [Key -> IF Threshold > 0 THEN 0..(Threshold - 1) ELSE Nat]
      /\ rolls' \in [Key -> Seq(RollRecord)]
  BY <1>1 DEF GachaInv, TypeOK
<1> QED
  BY <1>1, <1>2, <1>3, LeaveKeeps

LEMMA TickKeeps ==
  ASSUME GachaInv, Tick
  PROVE  GachaInv'
<1>u. UNCHANGED <<pity, rolls, phase, key, left, counter, stamp, batch, overlapped>> /\ Sequential' = Sequential
  BY DEF Tick, Sequential
<1>c. clock \in Nat /\ clock' \in Nat /\ clock <= clock'
  BY DEF Tick, GachaInv, TypeOK
<1>s. \A c \in Caller : stamp[c] \in Nat
  BY DEF GachaInv, TypeOK
<1>1. TypeOK'
  BY <1>u, <1>c DEF GachaInv, TypeOK
<1>2. CallInv' /\ AloneInv'
  BY <1>u DEF GachaInv, CallInv, AloneInv
<1>3. SavedInv'
  <2> SUFFICES ASSUME NEW k \in Sequential
               PROVE  PityKept(k, rolls[k], pity[k]) /\ Chronological(rolls[k], clock')
    BY <1>u DEF SavedInv
  <2>1. rolls[k] \in Seq(RollRecord)
    BY DEF Sequential, GachaInv, TypeOK
  <2> QED
    BY <1>c, <2>1, LaterIsFine DEF GachaInv, SavedInv
<1>4. DrawInv'
  BY <1>u DEF GachaInv, DrawInv, Outcome
<1>5. StampInv'
  <2>1. \A c \in Caller : stamp[c] <= clock => stamp[c] <= clock'
    BY <1>c, <1>s
  <2> QED
    BY <1>u, <2>1 DEF GachaInv, StampInv, Outcome
<1> QED
  BY <1>1, <1>2, <1>3, <1>4, <1>5 DEF GachaInv

LEMMA GachaStep ==
  ASSUME GachaInv, [Next]_vars
  PROVE  GachaInv'
<1>1. CASE \E c \in Caller, k \in Key, n \in Counts : Start(c, k, n)
  BY <1>1, StartKeeps
<1>2. ASSUME NEW c \in Caller,
             \/ ReadPity(c) \/ TakeTime(c) \/ DrawPity(c)
             \/ DrawNormal(c) \/ Save(c) \/ Abort(c)
      PROVE  GachaInv'
  BY <1>2, ReadPityKeeps, TakeTimeKeeps, DrawPityKeeps, DrawNormalKeeps, SaveKeeps, AbortKeeps
<1>3. CASE Tick
  BY <1>3, TickKeeps
<1>4. CASE UNCHANGED vars
  BY <1>4 DEF vars, GachaInv, TypeOK, CallInv, AloneInv, SavedInv, DrawInv, StampInv,
          Outcome, Sequential
<1> QED
  BY <1>1, <1>2, <1>3, <1>4 DEF Next

LEMMA GachaInvariant == Spec => []GachaInv
<1>1. Init => GachaInv
  BY GachaInit
<1>2. GachaInv /\ [Next]_vars => GachaInv'
  BY GachaStep
<1> QED
  BY <1>1, <1>2, PTL DEF Spec

-----------------------------------------------------------------------------
(* The theorems *)

\* Every variable keeps its type; in particular the counter that Roll saves with
\* its rolls stays below PityThreshold, also when rolls of one player overlap and
\* each saves what it counted from a stale read.
THEOREM GachaTypeCorrect == Spec => []TypeOK
<1>1. GachaInv => TypeOK
  BY DEF GachaInv
<1> QED
  BY <1>1, GachaInvariant, PTL

\* The PityState.Counter that GetPity reads and Roll saves is the number of rolls
\* since the last SSR, for a pool that holds an SSR and a player whose calls have
\* not overlapped, whatever calls of other players do and whichever saves fail.
THEOREM CountersAreExact == Spec => []CounterIsExact
<1>1. GachaInv => CounterIsExact
  BY DEF GachaInv, SavedInv, PityKept, CounterIsExact
<1> QED
  BY <1>1, GachaInvariant, PTL

\* The pity rule of Roll for such a player, for every threshold and however the
\* calls split the rolls: no PityThreshold rolls in a row are without an SSR, and
\* a forced one comes after PityThreshold - 1 misses.
THEOREM PityIsGuaranteed == Spec => []PityGuarantee
<1>1. GachaInv => PityGuarantee
  BY DEF GachaInv, SavedInv, PityKept, PityGuarantee
<1> QED
  BY <1>1, GachaInvariant, PTL

\* ListRollsByPlayer of the in-memory repository, which walks the appended rolls
\* backwards, lists such a player's rolls newest first.
THEOREM HistoryIsNewestFirst == Spec => []HistoryNewestFirst
<1>1. ASSUME GachaInv
      PROVE  HistoryNewestFirst
  <2> SUFFICES ASSUME NEW k \in Sequential, NEW i \in DOMAIN rolls[k],
                      NEW j \in DOMAIN rolls[k], i < j
               PROVE  ListRollsByPlayer(k)[i].at >= ListRollsByPlayer(k)[j].at
    BY DEF HistoryNewestFirst
  <2>1. rolls[k] \in Seq(RollRecord)
    BY <1>1 DEF Sequential, GachaInv, TypeOK
  <2>2. DOMAIN rolls[k] = 1..Len(rolls[k]) /\ Len(rolls[k]) \in Nat
    BY <2>1, LenProperties
  <2> DEFINE m == Len(rolls[k])
             a == m + 1 - i
             b == m + 1 - j
  <2>3. a \in 1..m /\ b \in 1..m /\ b <= a
    BY <2>2
  <2>4. rolls[k][a] \in RollRecord /\ rolls[k][b] \in RollRecord
    BY <2>1, <2>3, LenProperties
  <2>5. ListRollsByPlayer(k)[i] = rolls[k][a] /\ ListRollsByPlayer(k)[j] = rolls[k][b]
    BY DEF ListRollsByPlayer
  <2>6. rolls[k][b].at <= rolls[k][a].at
    BY <1>1, <2>3 DEF GachaInv, SavedInv, Chronological
  <2>7. rolls[k][b].at \in Nat /\ rolls[k][a].at \in Nat
    BY <2>4 DEF RollRecord
  <2> HIDE DEF a, b
  <2> QED
    BY <2>5, <2>6, <2>7
<1> QED
  BY <1>1, GachaInvariant, PTL
==============================================================================
