-------------------------------- MODULE Gacha --------------------------------
(***************************************************************************)
(* The gacha service: Roll reads the pity counter of (player, pool), draws *)
(* count cards with that counter kept in memory, and saves the rolls and   *)
(* the new counter in one transaction.  The read is outside the            *)
(* transaction, and the counter is saved as an absolute value, so two      *)
(* rolls of one player in one pool can overlap.                            *)
(*                                                                         *)
(* A card is abstracted to whether it is an SSR; which card a weighted     *)
(* pick returns is a choice among those the pool holds.                    *)
(***************************************************************************)
EXTENDS Integers, Sequences, FiniteSetsExt

CONSTANTS Caller,     \* goroutines running Service.Roll
          Key,        \* (player, pool) pairs
          NoKey,      \* the key of a goroutine outside Roll
          Cards,      \* Cards[k]: the kinds of card in k's pool, {} for an empty pool
          Threshold,  \* Pool.PityThreshold; 0 switches the pity rule off
          Counts,     \* counts callers ask for, valid or not
          MaxCount,   \* largest count Roll accepts (10)
          MaxRolls,   \* bound: saved rolls of all keys
          MaxClock    \* bound: ticks of the wall clock

SSR == "SSR"
Other == "other"

ASSUME GachaAssumption ==
  /\ NoKey \notin Key
  /\ Cards \in [Key -> SUBSET {SSR, Other}]
  /\ Threshold \in Nat
  /\ MaxCount \in Nat \ {0}
  /\ Counts \subseteq Int
  /\ MaxRolls \in Nat
  /\ MaxClock \in Nat

VARIABLES pity,     \* saved pity counter of every key, 0 when there is no row
          rolls,    \* saved rolls of every key, in the order they were saved
          phase,    \* where a call of Roll is
          key,      \* its (playerID, poolID)
          left,     \* iterations of its loop still to run
          counter,  \* its local variable pity
          stamp,    \* its local variable now
          batch,    \* the rolls it has drawn
          clock,    \* the wall clock
          overlapped \* history: keys of which two calls of Roll were ever in flight

vars == <<pity, rolls, phase, key, left, counter, stamp, batch, clock, overlapped>>

RollRecord == [kind : {SSR, Other}, isPity : BOOLEAN, at : Nat]

\* In particular the saved counter never reaches the threshold, even when rolls
\* overlap: a stale counter is still one that some call of Roll computed.
TypeOK ==
  /\ pity \in [Key -> IF Threshold > 0 THEN 0..(Threshold - 1) ELSE Nat]
  /\ rolls \in [Key -> Seq(RollRecord)]
  /\ phase \in [Caller -> {"idle", "read", "stamp", "draw"}]
  /\ key \in [Caller -> Key \union {NoKey}]
  /\ left \in [Caller -> 0..MaxCount]
  /\ counter \in [Caller -> Nat]
  /\ stamp \in [Caller -> Nat]
  /\ batch \in [Caller -> Seq(RollRecord)]
  /\ clock \in Nat
  /\ overlapped \subseteq Key

Init ==
  /\ pity = [k \in Key |-> 0]
  /\ rolls = [k \in Key |-> <<>>]
  /\ phase = [c \in Caller |-> "idle"]
  /\ key = [c \in Caller |-> NoKey]
  /\ left = [c \in Caller |-> 0]
  /\ counter = [c \in Caller |-> 0]
  /\ stamp = [c \in Caller |-> 0]
  /\ batch = [c \in Caller |-> <<>>]
  /\ clock = 0
  /\ overlapped = {}

-----------------------------------------------------------------------------
SavedRolls == MapThenSumSet(LAMBDA k : Len(rolls[k]), Key)

InFlight(k) == {c \in Caller : key[c] = k}

\* Roll returns and its local variables are gone.
Leave(c) ==
  /\ phase' = [phase EXCEPT ![c] = "idle"]
  /\ left' = [left EXCEPT ![c] = 0]
  /\ counter' = [counter EXCEPT ![c] = 0]
  /\ stamp' = [stamp EXCEPT ![c] = 0]
  /\ batch' = [batch EXCEPT ![c] = <<>>]
  /\ key' = [key EXCEPT ![c] = NoKey]
  /\ UNCHANGED <<clock, overlapped>>

ValidCount(n) == n >= 1 /\ n <= MaxCount

\* Roll is called: the count is in range and the pool has cards.  Every other
\* call returns at once and changes nothing.
Start(c, k, n) ==
  /\ phase[c] = "idle"
  /\ ValidCount(n)
  /\ Cards[k] # {}
  /\ SavedRolls + n <= MaxRolls
  /\ phase' = [phase EXCEPT ![c] = "read"]
  /\ key' = [key EXCEPT ![c] = k]
  /\ left' = [left EXCEPT ![c] = n]
  /\ overlapped' = IF InFlight(k) = {} THEN overlapped ELSE overlapped \union {k}
  /\ UNCHANGED <<pity, rolls, counter, stamp, batch, clock>>

ReadPity(c) ==
  /\ phase[c] = "read"
  /\ counter' = [counter EXCEPT ![c] = pity[key[c]]]
  /\ phase' = [phase EXCEPT ![c] = "stamp"]
  /\ UNCHANGED <<pity, rolls, key, left, stamp, batch, clock, overlapped>>

TakeTime(c) ==
  /\ phase[c] = "stamp"
  /\ stamp' = [stamp EXCEPT ![c] = clock]
  /\ phase' = [phase EXCEPT ![c] = "draw"]
  /\ UNCHANGED <<pity, rolls, key, left, counter, batch, clock, overlapped>>

\* Faulty variant: the SSR is forced one roll later, after Threshold misses, as
\* the comment on Pool.PityThreshold has it.
AtThresholdLate(n) == Threshold > 0 /\ n > Threshold

\* pool.PityThreshold > 0 && pity >= pool.PityThreshold, pity already counted up.
AtThreshold(n) == Threshold > 0 /\ n >= Threshold

\* Faulty variant: a forced roll is appended without its PulledAt.
DrawnPityUnstamped(c, kind, isPity, n) ==
  /\ batch' = [batch EXCEPT ![c] = Append(@, [kind |-> kind, isPity |-> isPity,
                                              at |-> IF isPity THEN 0 ELSE stamp[c]])]
  /\ counter' = [counter EXCEPT ![c] = n]
  /\ left' = [left EXCEPT ![c] = @ - 1]
  /\ UNCHANGED <<pity, rolls, phase, key, stamp, clock, overlapped>>

\* One iteration of the loop draws a card.
Drawn(c, kind, isPity, n) ==
  /\ batch' = [batch EXCEPT ![c] = Append(@, [kind |-> kind, isPity |-> isPity,
                                              at |-> stamp[c]])]
  /\ counter' = [counter EXCEPT ![c] = n]
  /\ left' = [left EXCEPT ![c] = @ - 1]
  /\ UNCHANGED <<pity, rolls, phase, key, stamp, clock, overlapped>>

\* Faulty variant: the forced draw does not reset the counter.
DrawPityNoReset(c) ==
  /\ phase[c] = "draw" /\ left[c] > 0
  /\ AtThreshold(counter[c] + 1)
  /\ \E kind \in Cards[key[c]] :
        Drawn(c, IF SSR \in Cards[key[c]] THEN SSR ELSE kind,
              SSR \in Cards[key[c]], counter[c] + 1)

\* The pity rule applies: an SSR is forced, if the pool has one.
DrawPity(c) ==
  /\ phase[c] = "draw" /\ left[c] > 0
  /\ AtThreshold(counter[c] + 1)
  /\ \/ SSR \in Cards[key[c]] /\ Drawn(c, SSR, TRUE, 0)
     \/ SSR \notin Cards[key[c]] /\ Drawn(c, Other, FALSE, 0)

DrawNormal(c) ==
  /\ phase[c] = "draw" /\ left[c] > 0
  /\ ~AtThreshold(counter[c] + 1)
  /\ \E kind \in Cards[key[c]] :
        Drawn(c, kind, FALSE, IF kind = SSR THEN 0 ELSE counter[c] + 1)

\* InsertRollsAndUpdatePity commits: all rolls and the counter together.
Save(c) ==
  /\ phase[c] = "draw" /\ left[c] = 0
  /\ rolls' = [rolls EXCEPT ![key[c]] = @ \o batch[c]]
  /\ pity' = [pity EXCEPT ![key[c]] = counter[c]]
  /\ Leave(c)

\* Faulty variant: the counter is written outside the transaction that fails.
AbortKeepsPity(c) ==
  /\ phase[c] # "idle"
  /\ pity' = [pity EXCEPT ![key[c]] = counter[c]]
  /\ Leave(c)
  /\ UNCHANGED rolls

\* GetPity, the id generator or the transaction fails: nothing is saved.
Abort(c) ==
  /\ phase[c] # "idle"
  /\ Leave(c)
  /\ UNCHANGED <<pity, rolls>>

Tick ==
  /\ clock < MaxClock
  /\ clock' = clock + 1
  /\ UNCHANGED <<pity, rolls, phase, key, left, counter, stamp, batch, overlapped>>

Next ==
  \/ \E c \in Caller, k \in Key, n \in Counts : Start(c, k, n)
  \/ \E c \in Caller : \/ ReadPity(c) \/ TakeTime(c) \/ DrawPity(c)
                       \/ DrawNormal(c) \/ Save(c) \/ Abort(c)
  \/ Tick

Spec == Init /\ [][Next]_vars

-----------------------------------------------------------------------------
(* Properties *)

\* s ends with exactly n rolls that are not SSR.
EndsWithMisses(s, n) ==
  /\ n \in 0..Len(s)
  /\ \A i \in (Len(s) - n + 1)..Len(s) : s[i].kind # SSR
  /\ n < Len(s) => s[Len(s) - n].kind = SSR

\* Among any n consecutive rolls of s there is an SSR.
SSRWithin(s, n) ==
  \A i \in 1..(Len(s) - n + 1) : \E j \in i..(i + n - 1) : s[j].kind = SSR

\* Before a forced roll there are n - 1 others, none of them an SSR.
ForcedAfter(s, n) ==
  \A i \in 1..Len(s) : s[i].isPity =>
     i >= n /\ \A j \in (i - n + 1)..(i - 1) : s[j].kind # SSR

Guarded(k) == SSR \in Cards[k]

\* Keys whose calls of Roll never overlapped so far.
Sequential == Key \ overlapped

\* PityState.Counter is the number of rolls since the last SSR, across calls,
\* failed saves and mixed natural and forced SSRs, for pools that hold an SSR,
\* until two calls for one key overlap.
CounterIsExact ==
  \A k \in Sequential : Guarded(k) => EndsWithMisses(rolls[k], pity[k])

\* The pity rule of Roll and of TestRoll_PityTrigger, wherever the calls split
\* the rolls and until two of them overlap: the Threshold-th roll after an SSR is
\* one, and a forced SSR is that very roll, after Threshold - 1 misses.  (The
\* comment on Pool.PityThreshold and docs/API.md say the roll after it.)
PityGuarantee ==
  Threshold > 0 => \A k \in Sequential : Guarded(k) =>
     SSRWithin(rolls[k], Threshold) /\ ForcedAfter(rolls[k], Threshold)

\* ListRollsByPlayer walks the appended rolls backwards (here one pool's).
ListRollsByPlayer(k) == [i \in DOMAIN rolls[k] |-> rolls[k][Len(rolls[k]) + 1 - i]]

\* The in-memory repository takes that order for newest pulled_at first; so it
\* is until two rolls of one key overlap.
HistoryNewestFirst ==
  \A k \in Sequential : \A i, j \in DOMAIN rolls[k] :
     i < j => ListRollsByPlayer(k)[i].at >= ListRollsByPlayer(k)[j].at
==============================================================================
