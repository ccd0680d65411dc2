--------------------------- MODULE RateLimitProofs ---------------------------
(***************************************************************************)
(* The rate limiter keeps NoOrphan and WithinRate and implements           *)
(* TokenBucket, for any number of calls, addresses and limiters and any    *)
(* burst, rate and idle time that SweepIsPatient admits.                   *)
(*                                                                         *)
(* The invariant ties the four clocks together: a fetched call is at most  *)
(* MaxStall old, its bucket was stamped no earlier than the call, and a    *)
(* limiter was last charged at most MaxStall after its bucket's stamp.  A  *)
(* bucket that Sweep drops is then full and held by no call.               *)
(***************************************************************************)
EXTENDS RateLimit, TLAPS

Distinct ==
  \A i, j \in Identity :
     buckets[i] # None /\ buckets[j] # None /\ buckets[i].l = buckets[j].l => i = j

Clocks ==
  /\ \A i \in Identity : buckets[i] # None =>
        /\ buckets[i].lastSeen <= clock
        /\ heap[buckets[i].l].last <= buckets[i].lastSeen + MaxStall
        /\ heap[buckets[i].l].last <= clock
  /\ \A c \in Call : held[c] # None =>
        /\ clock <= held[c].at + MaxStall
        /\ buckets[held[c].id] # None => held[c].at <= buckets[held[c].id].lastSeen

Switched == \A c \in Call : held[c] # None => limited

IInv == TypeOK /\ NoOrphan /\ Distinct /\ Switched /\ Clocks /\ WithinRate

levels == [i \in Identity |-> Level(i)]

-----------------------------------------------------------------------------

\* A burst of at least one token makes a capacity of at least one token.
LEMMA CapacityIsNat == Capacity \in Nat /\ Capacity >= Cost
<1> DEFINE b == IF Burst <= 0 THEN 1 ELSE Burst
<1>1. b \in Nat /\ b >= 1  BY RateLimitTypes
<1>2. \A x, y \in Nat : y >= 1 => x * y \in Nat /\ x * y >= x  BY SMT
<1> QED  BY <1>1, <1>2, RateLimitTypes DEF Capacity

\* What a limiter charged in the past holds is between nothing and its burst.
LEMMA HoldsType ==
  ASSUME TypeOK, NEW l \in Limiter, heap[l].last <= clock
  PROVE  Holds(l) \in 0..Capacity
<1>1. heap[l] \in Tokens  BY DEF TypeOK
<1>2. heap[l].tokens \in 0..Capacity /\ heap[l].last \in Nat /\ clock \in Nat
  BY <1>1 DEF Tokens, TypeOK
<1> QED  BY <1>2, CapacityIsNat DEF Holds

\* The level of an identity is a bucket's worth at most.
LEMMA LevelType ==
  ASSUME TypeOK, Clocks, NEW i \in Identity
  PROVE  Level(i) \in 0..Capacity
<1>1. CASE buckets[i] = None  BY <1>1, CapacityIsNat DEF Level
<1>2. CASE buckets[i] # None
  <2>1. buckets[i] \in Bucket  BY <1>2 DEF TypeOK
  <2>2. buckets[i].l \in Limiter  BY <2>1 DEF Bucket
  <2>3. heap[buckets[i].l].last <= clock  BY <1>2 DEF Clocks
  <2> QED  BY <1>2, <2>2, <2>3, HoldsType DEF Level
<1> QED  BY <1>1, <1>2

\* Nothing is fetched, charged or spent when the server starts.
LEMMA RateInit == Init => IInv /\ levels = [i \in Identity |-> Capacity]
<1> SUFFICES ASSUME Init PROVE IInv /\ levels = [i \in Identity |-> Capacity]
  OBVIOUS
<1> USE DEF Init
<1>1. [tokens |-> Capacity, last |-> 0] \in Tokens  BY CapacityIsNat DEF Tokens
<1>2. TypeOK  BY <1>1 DEF TypeOK
<1>3. \A i \in Identity : Level(i) = Capacity  BY DEF Level
<1>4. WithinRate  BY <1>3, CapacityIsNat DEF WithinRate
<1>5. NoOrphan /\ Distinct /\ Switched /\ Clocks
  BY DEF NoOrphan, Distinct, Switched, Clocks
<1> QED  BY <1>2, <1>3, <1>4, <1>5 DEF IInv, levels

-----------------------------------------------------------------------------
(* One lemma per action: the invariant is kept, and the levels move the way *)
(* the abstract bucket's do.                                                *)

\* A limiter that is switched off changes nothing but the verdict.
LEMMA BypassStep ==
  ASSUME IInv, NEW c \in Call, Bypass(c)
  PROVE  IInv' /\ levels' = levels
<1> USE DEF Bypass
<1>1. \A i \in Identity : Level(i)' = Level(i)  BY DEF Level, Holds
<1>2. TypeOK'  BY DEF IInv, TypeOK
<1>3. NoOrphan' /\ Distinct' /\ Switched' /\ Clocks'
  BY DEF IInv, NoOrphan, Distinct, Switched, Clocks
<1>4. WithinRate'  BY <1>1 DEF IInv, WithinRate
<1> QED  BY <1>1, <1>2, <1>3, <1>4 DEF IInv, levels

\* Answering changes nothing but the verdict.
LEMMA RespondStep ==
  ASSUME IInv, NEW c \in Call, Respond(c)
  PROVE  IInv' /\ levels' = levels
<1> USE DEF Respond
<1>1. \A i \in Identity : Level(i)' = Level(i)  BY DEF Level, Holds
<1>2. TypeOK'  BY DEF IInv, TypeOK
<1>3. NoOrphan' /\ Distinct' /\ Switched' /\ Clocks'
  BY DEF IInv, NoOrphan, Distinct, Switched, Clocks
<1>4. WithinRate'  BY <1>1 DEF IInv, WithinRate
<1> QED  BY <1>1, <1>2, <1>3, <1>4 DEF IInv, levels

\* Fetching finds the identity's limiter, or makes a full one that no bucket and
\* no call knows.
LEMMA FetchStep ==
  ASSUME IInv, NEW c \in Call, NEW i \in Identity, NEW l \in Limiter, Fetch(c, i, l)
  PROVE  IInv' /\ levels' = levels
<1> DEFINE b == [l |-> l, lastSeen |-> clock]
           h == [l |-> l, id |-> i, at |-> clock]
<1>1. b \in Bucket /\ h \in Fetched /\ clock \in Nat
  BY DEF IInv, TypeOK, Bucket, Fetched
<1>2. /\ buckets' = [buckets EXCEPT ![i] = b] /\ held' = [held EXCEPT ![c] = h]
      /\ UNCHANGED <<limited, clock, verdict, spent>> /\ held[c] = None
  BY DEF Fetch
<1>3. /\ buckets'[i] = b /\ \A j \in Identity \ {i} : buckets'[j] = buckets[j]
      /\ held'[c] = h /\ \A d \in Call \ {c} : held'[d] = held[d]
  BY <1>2 DEF IInv, TypeOK
<1>4. b # None /\ h # None  BY <1>1, NilAssumption
<1>5. /\ \A j \in Identity \ {i} : buckets[j] # None => buckets[j].l # l
      /\ buckets[i] # None => buckets[i].l = l /\ heap' = heap
      /\ buckets[i] = None =>
            /\ \A d \in Call : held[d] # None => held[d].l # l
            /\ heap' = [heap EXCEPT ![l] = [tokens |-> Capacity, last |-> clock]]
  BY DEF Fetch, Reachable, IInv, Distinct
<1>6. [tokens |-> Capacity, last |-> clock] \in Tokens
  BY <1>1, CapacityIsNat DEF Tokens
<1>7. TypeOK'
  BY <1>1, <1>2, <1>5, <1>6 DEF IInv, TypeOK
<1>8. /\ \A k \in Limiter \ {l} : heap'[k] = heap[k]
      /\ heap'[l] = IF buckets[i] = None THEN [tokens |-> Capacity, last |-> clock]
                                         ELSE heap[l]
  BY <1>5 DEF IInv, TypeOK
<1>9. \A j \in Identity : Level(j)' = Level(j)
  <2> SUFFICES ASSUME NEW j \in Identity PROVE Level(j)' = Level(j)
    OBVIOUS
  <2>1. CASE j # i /\ buckets[j] = None
    BY <2>1, <1>3 DEF Level
  <2>2. CASE j # i /\ buckets[j] # None
    <3>1. buckets[j].l \in Limiter \ {l}
      BY <2>2, <1>5 DEF IInv, TypeOK, Bucket
    <3> QED  BY <3>1, <2>2, <1>2, <1>3, <1>8 DEF Level, Holds
  <2>3. CASE j = i /\ buckets[i] = None
    <3>1. Level(i)' = Holds(l)'  BY <1>3, <1>4 DEF Level
    <3>2. Holds(l)' = Capacity
      BY <2>3, <1>1, <1>2, <1>8, CapacityIsNat DEF Holds
    <3> QED  BY <3>1, <3>2, <2>3 DEF Level
  <2>4. CASE j = i /\ buckets[i] # None
    BY <2>4, <1>2, <1>3, <1>4, <1>5 DEF Level, Holds
  <2> QED  BY <2>1, <2>2, <2>3, <2>4
<1>10. NoOrphan'
  BY <1>3, <1>4, <1>5 DEF IInv, NoOrphan, TypeOK, Fetched
<1>11. Distinct' /\ Switched'
  BY <1>2, <1>3, <1>4, <1>5 DEF IInv, Distinct, Switched, Fetch
<1>12. Clocks'
  <2>1. ASSUME NEW j \in Identity, buckets'[j] # None
        PROVE  /\ buckets'[j].lastSeen <= clock'
               /\ heap'[buckets'[j].l].last <= buckets'[j].lastSeen + MaxStall
               /\ heap'[buckets'[j].l].last <= clock'
    <3>1. CASE j = i
      <4>1. heap'[l].last <= clock
        BY <3>1, <1>1, <1>5, <1>8 DEF IInv, Clocks
      <4>2. heap'[l].last \in Nat
        BY <1>7 DEF TypeOK, Tokens
      <4> QED  BY <3>1, <4>1, <4>2, <1>1, <1>2, <1>3, RateLimitTypes
    <3>2. CASE j # i
      <4>1. buckets[j] # None /\ buckets[j].l \in Limiter \ {l}
        BY <3>2, <2>1, <1>3, <1>5 DEF IInv, TypeOK, Bucket
      <4> QED  BY <3>2, <4>1, <1>2, <1>3, <1>8 DEF IInv, Clocks
    <3> QED  BY <3>1, <3>2
  <2>2. ASSUME NEW d \in Call, held'[d] # None
        PROVE  /\ clock' <= held'[d].at + MaxStall
               /\ buckets'[held'[d].id] # None
                     => held'[d].at <= buckets'[held'[d].id].lastSeen
    <3>1. CASE d = c
      BY <3>1, <1>1, <1>2, <1>3, RateLimitTypes
    <3>2. CASE d # c
      <4>1. held[d] # None /\ held'[d] = held[d]  BY <3>2, <2>2, <1>3
      <4>2. held[d].id \in Identity /\ held[d].at \in Nat
        BY <4>1 DEF IInv, TypeOK, Fetched
      <4>3. held[d].at <= clock
        BY <4>1, <4>2, <1>1 DEF IInv, NoOrphan, Clocks, TypeOK, Bucket
      <4> QED  BY <4>1, <4>2, <4>3, <1>1, <1>2, <1>3 DEF IInv, Clocks
    <3> QED  BY <3>1, <3>2
  <2> QED  BY <2>1, <2>2 DEF Clocks
<1>13. WithinRate'  BY <1>2, <1>9 DEF IInv, WithinRate
<1> QED  BY <1>7, <1>9, <1>10, <1>11, <1>12, <1>13 DEF IInv, levels

\* Taking charges the caller's own bucket if it holds a token, and only then.
LEMMA TakeStep ==
  ASSUME IInv, NEW c \in Call, Take(c)
  PROVE  /\ IInv'
         /\ LET i == held[c].id
            IN  /\ i \in Identity
                /\ verdict' = [verdict EXCEPT ![c] = Level(i) >= Cost]
                /\ levels' = IF Level(i) >= Cost
                             THEN [levels EXCEPT ![i] = @ - Cost] ELSE levels
<1>1. PICK i \in Identity, l \in Limiter :
        /\ held[c] # None /\ held[c].id = i /\ held[c].l = l
        /\ buckets[i] # None /\ buckets[i].l = l /\ clock \in Nat
  BY DEF Take, IInv, TypeOK, NoOrphan, Fetched
<1> DEFINE ok == Holds(l) >= Cost
           t == [tokens |-> Holds(l) - Cost, last |-> clock]
<1>2. Level(i) = Holds(l)  BY <1>1 DEF Level
<1>3. heap[l].last <= clock  BY <1>1 DEF IInv, Clocks
<1>4. Holds(l) \in 0..Capacity  BY <1>1, <1>3, HoldsType DEF IInv
<1>5. Cost \in Nat /\ Capacity \in Nat  BY RateLimitTypes, CapacityIsNat
<1>6. /\ verdict' = [verdict EXCEPT ![c] = ok]
      /\ heap' = IF ok THEN [heap EXCEPT ![l] = t] ELSE heap
      /\ spent' = IF ok THEN [spent EXCEPT ![i] = @ + Cost] ELSE spent
      /\ held' = [held EXCEPT ![c] = None]
      /\ UNCHANGED <<limited, clock, buckets>>
  BY <1>1 DEF Take
<1>7. ok => t \in Tokens  BY <1>1, <1>4, <1>5 DEF Tokens
<1>8. ok \in BOOLEAN  OBVIOUS
<1>9. TypeOK'
  <2>1. heap' \in [Limiter -> Tokens]  BY <1>6, <1>7 DEF IInv, TypeOK
  <2>2. spent' \in [Identity -> Nat]  BY <1>5, <1>6 DEF IInv, TypeOK
  <2>3. verdict' \in [Call -> BOOLEAN \union {None}]
    BY <1>6, <1>8, Zenon DEF IInv, TypeOK
  <2> QED  BY <2>1, <2>2, <2>3, <1>6 DEF IInv, TypeOK
<1>10. /\ \A k \in Limiter \ {l} : heap'[k] = heap[k]
       /\ heap'[l] = IF ok THEN t ELSE heap[l]
  BY <1>1, <1>6 DEF IInv, TypeOK
<1>11. Level(i)' = IF ok THEN Level(i) - Cost ELSE Level(i)
  <2>1. Level(i)' = Holds(l)'  BY <1>1, <1>6 DEF Level
  <2>2. CASE ok
    <3>1. heap'[l].tokens = Holds(l) - Cost /\ heap'[l].last = clock
      BY <2>2, <1>10
    <3> QED  BY <3>1, <2>1, <2>2, <1>1, <1>2, <1>4, <1>5, <1>6 DEF Holds
  <2>3. CASE ~ok  BY <2>1, <2>3, <1>2, <1>6 DEF Holds
  <2> QED  BY <2>2, <2>3
<1>12. \A j \in Identity \ {i} : Level(j)' = Level(j)
  <2> SUFFICES ASSUME NEW j \in Identity \ {i} PROVE Level(j)' = Level(j)
    OBVIOUS
  <2>1. CASE buckets[j] = None  BY <2>1, <1>6 DEF Level
  <2>2. CASE buckets[j] # None
    <3>1. buckets[j].l \in Limiter \ {l}
      BY <2>2, <1>1 DEF IInv, TypeOK, Bucket, Distinct
    <3> QED  BY <3>1, <2>2, <1>6, <1>10 DEF Level, Holds
  <2> QED  BY <2>1, <2>2
<1>13. levels' = IF ok THEN [levels EXCEPT ![i] = @ - Cost] ELSE levels
  BY <1>1, <1>11, <1>12 DEF levels
<1>14. held'[c] = None /\ \A d \in Call \ {c} : held'[d] = held[d]
  BY <1>6 DEF IInv, TypeOK
<1>15. NoOrphan'  BY <1>6, <1>14 DEF IInv, NoOrphan
<1>16. Distinct' /\ Switched'  BY <1>6, <1>14 DEF IInv, Distinct, Switched
<1>17. Clocks'
  <2>1. ASSUME NEW j \in Identity, buckets'[j] # None
        PROVE  /\ buckets'[j].lastSeen <= clock'
               /\ heap'[buckets'[j].l].last <= buckets'[j].lastSeen + MaxStall
               /\ heap'[buckets'[j].l].last <= clock'
    <3>1. CASE j = i /\ ok
      <4>1. heap'[l].last = clock  BY <3>1, <1>10
      <4>2. /\ clock <= held[c].at + MaxStall
            /\ held[c].at <= buckets[i].lastSeen /\ buckets[i].lastSeen <= clock
        BY <1>1 DEF IInv, Clocks
      <4>3. held[c].at \in Nat /\ buckets[i].lastSeen \in Nat
        BY <1>1 DEF IInv, TypeOK, Fetched, Bucket
      <4> QED  BY <3>1, <4>1, <4>2, <4>3, <1>1, <1>6, RateLimitTypes
    <3>2. CASE j = i /\ ~ok
      BY <3>2, <2>1, <1>1, <1>6, <1>10 DEF IInv, Clocks
    <3>3. CASE j # i
      <4>1. buckets[j] # None /\ buckets[j].l \in Limiter \ {l}
        BY <3>3, <2>1, <1>1, <1>6 DEF IInv, TypeOK, Bucket, Distinct
      <4> QED  BY <4>1, <1>6, <1>10 DEF IInv, Clocks
    <3> QED  BY <3>1, <3>2, <3>3
  <2>2. ASSUME NEW d \in Call, held'[d] # None
        PROVE  /\ clock' <= held'[d].at + MaxStall
               /\ buckets'[held'[d].id] # None
                     => held'[d].at <= buckets'[held'[d].id].lastSeen
    BY <2>2, <1>6, <1>14 DEF IInv, Clocks
  <2> QED  BY <2>1, <2>2 DEF Clocks
<1>18. WithinRate'
  <2> SUFFICES ASSUME NEW j \in Identity
               PROVE  spent'[j] + Level(j)' <= Capacity + clock'
    BY DEF WithinRate
  <2>1. spent[j] + Level(j) <= Capacity + clock  BY DEF IInv, WithinRate
  <2>2. Level(j) \in 0..Capacity /\ spent[j] \in Nat
    BY LevelType DEF IInv, TypeOK
  <2>3. CASE j = i /\ ok
    <3>1. spent'[j] = spent[j] + Cost  BY <2>3, <1>6 DEF IInv, TypeOK
    <3>2. Level(j)' = Level(j) - Cost  BY <2>3, <1>11
    <3> QED  BY <3>1, <3>2, <2>1, <2>2, <1>1, <1>5, <1>6
  <2>4. CASE ~(j = i /\ ok)
    <3>1. spent'[j] = spent[j]  BY <2>4, <1>1, <1>6 DEF IInv, TypeOK
    <3>2. Level(j)' = Level(j)  BY <2>4, <1>11, <1>12
    <3> QED  BY <3>1, <3>2, <2>1, <1>6
  <2> QED  BY <2>3, <2>4
<1> QED
  BY <1>1, <1>2, <1>6, <1>9, <1>13, <1>15, <1>16, <1>17, <1>18 DEF IInv

\* A bucket that is swept is full and no call holds its limiter.
LEMMA SweepStep ==
  ASSUME IInv, Sweep
  PROVE  IInv' /\ levels' = levels
<1>1. /\ UNCHANGED <<limited, clock, heap, held, verdict, spent>>
      /\ buckets' = [i \in Identity |->
                       IF buckets[i] # None /\ Idle(i) THEN None ELSE buckets[i]]
  BY DEF Sweep
<1>2. TypeOK'  BY <1>1 DEF IInv, TypeOK
<1>3. \A i \in Identity : buckets[i] # None =>
        /\ buckets[i].lastSeen \in Nat /\ buckets[i].l \in Limiter
        /\ heap[buckets[i].l].last \in Nat /\ heap[buckets[i].l].tokens \in 0..Capacity
  BY DEF IInv, TypeOK, Bucket, Tokens
<1>4. clock \in Nat /\ IdleTTL \in Nat /\ MaxStall \in Nat /\ Capacity \in Nat
  BY RateLimitTypes, CapacityIsNat DEF IInv, TypeOK
<1>5. \A i \in Identity : Level(i)' = Level(i)
  <2> SUFFICES ASSUME NEW i \in Identity PROVE Level(i)' = Level(i)
    OBVIOUS
  <2>1. CASE buckets[i] = None \/ ~Idle(i)
    BY <2>1, <1>1 DEF Level, Holds
  <2>2. CASE buckets[i] # None /\ Idle(i)
    <3>1. heap[buckets[i].l].last <= buckets[i].lastSeen + MaxStall
      BY <2>2 DEF IInv, Clocks
    <3>2. Holds(buckets[i].l) = Capacity
      BY <3>1, <2>2, <1>3, <1>4, SweepIsPatient DEF Idle, Holds
    <3> QED  BY <3>2, <2>2, <1>1 DEF Level
  <2> QED  BY <2>1, <2>2
<1>6. NoOrphan'
  <2> SUFFICES ASSUME NEW c \in Call, held'[c] # None
               PROVE  /\ buckets'[held'[c].id] # None
                      /\ buckets'[held'[c].id].l = held'[c].l
    BY DEF NoOrphan
  <2> DEFINE i == held[c].id
  <2>1. /\ held[c] # None /\ held'[c] = held[c] /\ i \in Identity
        /\ held[c].at \in Nat
    BY <1>1 DEF IInv, TypeOK, Fetched
  <2>2. buckets[i] # None /\ buckets[i].l = held[c].l
    BY <2>1 DEF IInv, NoOrphan
  <2>3. clock <= held[c].at + MaxStall /\ held[c].at <= buckets[i].lastSeen
    BY <2>1, <2>2 DEF IInv, Clocks
  <2>4. ~Idle(i)
    BY <2>1, <2>2, <2>3, <1>3, <1>4, SweepIsPatient DEF Idle
  <2> QED  BY <2>1, <2>2, <2>4, <1>1
<1>7. Distinct' /\ Switched'  BY <1>1 DEF IInv, Distinct, Switched
<1>8. Clocks'  BY <1>1, <1>3 DEF IInv, Clocks, TypeOK, Fetched
<1>9. WithinRate'  BY <1>1, <1>5 DEF IInv, WithinRate
<1> QED  BY <1>2, <1>5, <1>6, <1>7, <1>8, <1>9 DEF IInv, levels

\* A tick gives every bucket that is not full one unit.
LEMMA TickStep ==
  ASSUME IInv, Tick
  PROVE  /\ IInv'
         /\ levels' = [i \in Identity |->
                         IF levels[i] < Capacity THEN levels[i] + 1 ELSE Capacity]
<1>1. /\ UNCHANGED <<limited, buckets, heap, held, verdict, spent>>
      /\ clock' = clock + 1 /\ clock \in Nat
      /\ \A c \in Call : held[c] # None => clock - held[c].at < MaxStall
  BY DEF Tick, IInv, TypeOK
<1>2. TypeOK'  BY <1>1 DEF IInv, TypeOK
<1>3. MaxStall \in Nat /\ Capacity \in Nat  BY RateLimitTypes, CapacityIsNat
<1>4. \A i \in Identity : buckets[i] # None =>
        /\ buckets[i].lastSeen \in Nat /\ buckets[i].l \in Limiter
        /\ heap[buckets[i].l].last \in Nat /\ heap[buckets[i].l].tokens \in 0..Capacity
  BY DEF IInv, TypeOK, Bucket, Tokens
<1>5. \A i \in Identity :
        Level(i)' = IF Level(i) < Capacity THEN Level(i) + 1 ELSE Capacity
  <2> SUFFICES ASSUME NEW i \in Identity
      PROVE  Level(i)' = IF Level(i) < Capacity THEN Level(i) + 1 ELSE Capacity
    OBVIOUS
  <2>1. CASE buckets[i] = None  BY <2>1, <1>1, <1>3 DEF Level
  <2>2. CASE buckets[i] # None
    <3>1. Level(i) = Holds(buckets[i].l) /\ Level(i)' = Holds(buckets[i].l)'
      BY <2>2, <1>1 DEF Level
    <3> QED  BY <3>1, <2>2, <1>1, <1>3, <1>4 DEF Holds
  <2> QED  BY <2>1, <2>2
<1>6. NoOrphan' /\ Distinct' /\ Switched'
  BY <1>1 DEF IInv, NoOrphan, Distinct, Switched
<1>7. Clocks'
  <2>1. \A i \in Identity : buckets'[i] # None =>
          /\ buckets'[i].lastSeen <= clock'
          /\ heap'[buckets'[i].l].last <= buckets'[i].lastSeen + MaxStall
          /\ heap'[buckets'[i].l].last <= clock'
    BY <1>1, <1>3, <1>4 DEF IInv, Clocks
  <2>2. \A c \in Call : held'[c] # None =>
          /\ clock' <= held'[c].at + MaxStall
          /\ buckets'[held'[c].id] # None
                => held'[c].at <= buckets'[held'[c].id].lastSeen
    BY <1>1, <1>3 DEF IInv, Clocks, TypeOK, Fetched
  <2> QED  BY <2>1, <2>2 DEF Clocks
<1>8. WithinRate'
  <2> SUFFICES ASSUME NEW i \in Identity
               PROVE  spent'[i] + Level(i)' <= Capacity + clock'
    BY DEF WithinRate
  <2>1. spent[i] + Level(i) <= Capacity + clock  BY DEF IInv, WithinRate
  <2>2. Level(i) \in 0..Capacity /\ spent[i] \in Nat
    BY LevelType DEF IInv, TypeOK
  <2> QED  BY <2>1, <2>2, <1>1, <1>3, <1>5
<1> QED  BY <1>2, <1>5, <1>6, <1>7, <1>8 DEF IInv, levels

-----------------------------------------------------------------------------
(* The theorems *)

\* Whatever its headers say, a request names an identity.
LEMMA RequesterIsIdentity == Requester \subseteq Identity
BY DEF Requester, identityOf, Header, Identity

\* The invariant is inductive.
LEMMA RateNext == IInv /\ [Next]_vars => IInv'
<1> SUFFICES ASSUME IInv, [Next]_vars PROVE IInv'
  OBVIOUS
<1>1. ASSUME NEW c \in Call, Bypass(c) PROVE IInv'  BY <1>1, BypassStep
<1>2. ASSUME NEW c \in Call, Take(c) PROVE IInv'  BY <1>2, TakeStep
<1>3. ASSUME NEW c \in Call, Respond(c) PROVE IInv'  BY <1>3, RespondStep
<1>4. ASSUME NEW c \in Call, NEW i \in Requester, NEW l \in Limiter, Fetch(c, i, l)
      PROVE  IInv'
  BY <1>4, FetchStep, RequesterIsIdentity
<1>5. CASE Sweep  BY <1>5, SweepStep
<1>6. CASE Tick  BY <1>6, TickStep
<1>7. CASE UNCHANGED vars
  <2>1. \A i \in Identity : Level(i)' = Level(i)  BY <1>7 DEF vars, Level, Holds
  <2>2. WithinRate'  BY <2>1, <1>7 DEF vars, IInv, WithinRate
  <2>3. TypeOK' /\ NoOrphan' /\ Distinct' /\ Switched' /\ Clocks'
    BY <1>7 DEF vars, IInv, TypeOK, NoOrphan, Distinct, Switched, Clocks
  <2> QED  BY <2>2, <2>3 DEF IInv
<1> QED  BY <1>1, <1>2, <1>3, <1>4, <1>5, <1>6, <1>7 DEF Next

\* The maps and the heap of limiters keep their types: Allow never leaves a
\* limiter below zero or above its burst.
THEOREM RateTypeCorrect == Spec => []TypeOK
<1>1. IInv => TypeOK  BY DEF IInv
<1> QED  BY <1>1, RateInit, RateNext, PTL DEF Spec

\* No sweep comes between the two halves of an Allow.
THEOREM NoSweepUnderCall == Spec => []NoOrphan
<1>1. IInv => NoOrphan  BY DEF IInv
<1> QED  BY <1>1, RateInit, RateNext, PTL DEF Spec

\* Allow never lets an identity exceed its burst and its rate.
THEOREM RateIsKept == Spec => []WithinRate
<1>1. IInv => WithinRate  BY DEF IInv
<1> QED  BY <1>1, RateInit, RateNext, PTL DEF Spec

\* Every step of the limiter is a step of the abstract bucket or changes nothing
\* that the bucket shows.
LEMMA RateStepRefines == IInv /\ [Next]_vars => [Abstract!Next]_(Abstract!bucketVars)
<1> SUFFICES ASSUME IInv, [Next]_vars
             PROVE  Abstract!Next \/ UNCHANGED Abstract!bucketVars
  OBVIOUS
<1> USE DEF levels
<1>1. ASSUME NEW c \in Call, Bypass(c) PROVE Abstract!Pass(c)
  <2>1. levels' = levels  BY <1>1, BypassStep
  <2> QED  BY <2>1, <1>1 DEF Bypass, Abstract!Pass
<1>2. ASSUME NEW c \in Call, Respond(c) PROVE Abstract!Return(c)
  <2>1. levels' = levels  BY <1>2, RespondStep
  <2> QED  BY <2>1, <1>2 DEF Respond, Abstract!Return
<1>3. ASSUME NEW c \in Call, NEW i \in Requester, NEW l \in Limiter, Fetch(c, i, l)
      PROVE  UNCHANGED Abstract!bucketVars
  <2>1. levels' = levels  BY <1>3, FetchStep, RequesterIsIdentity
  <2> QED  BY <2>1, <1>3 DEF Fetch, Abstract!bucketVars
<1>4. ASSUME Sweep PROVE UNCHANGED Abstract!bucketVars
  <2>1. levels' = levels  BY <1>4, SweepStep
  <2> QED  BY <2>1, <1>4 DEF Sweep, Abstract!bucketVars
<1>5. ASSUME Tick PROVE Abstract!Fill
  <2>1. levels' = [i \in Identity |->
                     IF levels[i] < Capacity THEN levels[i] + 1 ELSE Capacity]
    BY <1>5, TickStep
  <2> QED  BY <2>1, <1>5 DEF Tick, Abstract!Fill
<1>6. ASSUME NEW c \in Call, Take(c)
      PROVE  \E i \in Identity : Abstract!Grant(c, i) \/ Abstract!Refuse(c, i)
  <2>1. PICK i \in Identity :
          /\ held[c].id = i /\ verdict' = [verdict EXCEPT ![c] = Level(i) >= Cost]
          /\ levels' = IF Level(i) >= Cost
                       THEN [levels EXCEPT ![i] = @ - Cost] ELSE levels
    BY <1>6, TakeStep
  <2>2. limited' = limited /\ limited  BY <1>6 DEF Take, IInv, Switched
  <2>3. Level(i) \in Int /\ Cost \in Int
    BY LevelType, CapacityIsNat, RateLimitTypes DEF IInv
  <2>4. CASE Level(i) >= Cost
    <3>1. (Level(i) >= Cost) = TRUE  BY <2>4
    <3>2. verdict' = [verdict EXCEPT ![c] = TRUE]  BY <2>1, <3>1
    <3>3. levels' = [levels EXCEPT ![i] = @ - Cost]  BY <2>1, <2>4
    <3> QED  BY <2>2, <2>4, <3>2, <3>3 DEF Abstract!Grant
  <2>5. CASE Level(i) < Cost
    <3>1. (Level(i) >= Cost) = FALSE  BY <2>3, <2>5
    <3>2. verdict' = [verdict EXCEPT ![c] = FALSE]  BY <2>1, <3>1
    <3>3. levels' = levels  BY <2>1, <3>1
    <3> QED  BY <2>2, <2>5, <3>2, <3>3 DEF Abstract!Refuse
  <2> QED  BY <2>3, <2>4, <2>5
<1>7. ASSUME UNCHANGED vars PROVE UNCHANGED Abstract!bucketVars
  BY <1>7 DEF vars, Level, Holds, Abstract!bucketVars
<1> QED
  BY <1>1, <1>2, <1>3, <1>4, <1>5, <1>6, <1>7 DEF Next, Abstract!Next

\* Buckets, limiters and sweeps together are one token bucket per identity.
THEOREM RateRefines == Spec => ImplementsBucket
<1>1. Init => Abstract!Init
  BY RateInit DEF Init, Abstract!Init, levels
<1> QED
  BY <1>1, RateInit, RateNext, RateStepRefines, PTL
     DEF Spec, ImplementsBucket, Abstract!Spec
==============================================================================
