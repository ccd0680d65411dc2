---------------------------- MODULE GatewayProofs ----------------------------
(***************************************************************************)
(* The idempotency middleware and the routes behind it, for any number of  *)
(* requests and keys and any lifetimes that satisfy TokenOutlivesAnswer.   *)
(*                                                                         *)
(* Idempotency is proved on its own.  IdemInv says what a stored response  *)
(* is and, for every key no overlap or failure has upset, that at most one *)
(* request is under way, that it found no entry when it came to its        *)
(* handler, and that a handler run either lies a TTL back or is answered   *)
(* for by an entry that lasts as long.  Gateway implements Idempotency and *)
(* adds when an answer was given, what the profile was then, and how far   *)
(* the life of a stored answer can reach.                                  *)
(***************************************************************************)
EXTENDS Gateway, TLAPS

Slot(k) == <<Anon, k>>

UnderWay == {"bypass", "lookup", "run", "save"}

PhaseInv ==
  \A r \in Request :
     /\ phase[r] \in {"lookup", "run", "save"} => ckey[r] \in ClientKey
     /\ phase[r] = "bypass" => ckey[r] = NoKey
     /\ ranAt[r] # None => phase[r] \in {"save", "done"} /\ ranAt[r] <= clock
     /\ phase[r] = "save" => ranAt[r] # None /\ reply[r] = r
     /\ reply[r] = r => ranAt[r] # None
     /\ reply[r] \in Request => reply[reply[r]] = reply[r]

\* An entry holds the response of a handler run for its key.
StoreInv ==
  \A k \in ClientKey :
     store[Slot(k)] # None =>
        LET q == store[Slot(k)].response
        IN  ckey[q] = k /\ reply[q] = q /\ ranAt[q] # None

\* A key whose requests come one after the other, over a store that works.
Alone(k) ==
  \A r, q \in Request :
     /\ ckey[r] = k /\ phase[r] \in UnderWay
     /\ ckey[q] = k /\ phase[q] \in UnderWay
     => r = q

Missed(k) ==
  \A r \in Request :
     ckey[r] = k /\ phase[r] \in {"run", "save"} => store[Slot(k)] = None

Covered(k) ==
  \A q \in Request :
     ckey[q] = k /\ ranAt[q] # None /\ phase[q] = "done" =>
        \/ clock >= ranAt[q] + TTL
        \/ store[Slot(k)] # None /\ store[Slot(k)].expiresAt >= ranAt[q] + TTL

UndisturbedInv ==
  \A k \in ClientKey \ upset : Alone(k) /\ Missed(k) /\ Covered(k)

IdemInv == /\ TypeOK /\ PhaseInv /\ StoreInv /\ ReplayMatchesKey
           /\ UndisturbedInv /\ RerunHasCause

-----------------------------------------------------------------------------
(* Keys and entries *)

LEMMA Slots ==
  /\ \A k \in ClientKey : Slot(k) \in ScopedKey
  /\ \A s \in ScopedKey : \E k \in ClientKey : s = Slot(k)
  /\ \A j, k \in ClientKey : Slot(j) = Slot(k) => j = k
BY DEF Slot, ScopedKey

LEMMA ScopedIsSlot ==
  ASSUME NEW r \in Request PROVE scopedIdempotencyKey(r) = Slot(ckey[r])
BY DEF scopedIdempotencyKey, PlayerInCtx, Slot

\* The parts of the type invariant the arguments below use.
LEMMA Types ==
  ASSUME TypeOK
  PROVE  /\ clock \in Nat /\ clock <= MaxClock /\ TTL \in Nat \ {0} /\ MaxClock \in Nat
         /\ \A r \in Request :
              /\ reply[r] \in Request \union {None, Failed}
              /\ ckey[r] \in ClientKey \union {NoKey}
              /\ ranAt[r] # None => ranAt[r] \in Nat
         /\ \A k \in ClientKey :
              store[Slot(k)] # None => /\ store[Slot(k)].response \in Request
                                       /\ store[Slot(k)].expiresAt \in Nat
         /\ NoKey \notin ClientKey /\ None \notin Request /\ Failed \notin Request
         /\ None # Failed /\ None \notin Nat
<1>1. clock \in Nat /\ clock <= MaxClock /\ TTL \in Nat \ {0} /\ MaxClock \in Nat
  BY IdempotencyAssumption DEF TypeOK
<1>2. \A r \in Request : /\ reply[r] \in Request \union {None, Failed}
                         /\ ckey[r] \in ClientKey \union {NoKey}
                         /\ ranAt[r] # None => ranAt[r] \in Nat
  <2>1. \A r \in Request : /\ reply[r] \in Request \union {None, Failed}
                           /\ ckey[r] \in ClientKey \union {NoKey}
                           /\ ranAt[r] \in (0..MaxClock) \union {None}
    BY DEF TypeOK
  <2>2. \A i \in 0..MaxClock : i \in Nat
    BY <1>1
  <2> QED  BY <2>1, <2>2
<1>3. \A k \in ClientKey :
        store[Slot(k)] # None => /\ store[Slot(k)].response \in Request
                                 /\ store[Slot(k)].expiresAt \in Nat
  BY <1>1, Slots DEF TypeOK, Entry
<1> QED  BY <1>1, <1>2, <1>3, IdempotencyAssumption

LEMMA IdemInit == Init => IdemInv
<1> SUFFICES ASSUME Init PROVE IdemInv
  OBVIOUS
<1>1. TypeOK
  BY IdempotencyAssumption DEF Init, TypeOK
<1>2. \A r \in Request : phase[r] = "new" /\ reply[r] = None /\ ranAt[r] = None
  BY DEF Init
<1>3. \A k \in ClientKey : store[Slot(k)] = None
  BY Slots DEF Init
<1>4. PhaseInv /\ StoreInv
  BY <1>2, <1>3, IdempotencyAssumption DEF PhaseInv, StoreInv
<1>5. UndisturbedInv
  BY <1>2 DEF UndisturbedInv, Alone, Missed, Covered, UnderWay
<1>6. ReplayMatchesKey /\ RerunHasCause
  BY <1>2 DEF ReplayMatchesKey, Replayed, RerunHasCause
<1> QED  BY <1>1, <1>4, <1>5, <1>6 DEF IdemInv

-----------------------------------------------------------------------------
(* The steps of the middleware *)

LEMMA ArriveStep ==
  ASSUME NEW r \in Request, NEW k \in ClientKey \union {NoKey}, IdemInv, Arrive(r, k)
  PROVE  IdemInv'
<1>1. /\ phase[r] = "new" /\ ranAt[r] = None /\ reply[r] = None
      /\ UNCHANGED <<backend, clock, store, reply, ranAt>>
  BY DEF Arrive, IdemInv, TypeOK, PhaseInv
<1>2. /\ ckey'[r] = k /\ phase'[r] = IF k = NoKey THEN "bypass" ELSE "lookup"
      /\ \A q \in Request \ {r} : ckey'[q] = ckey[q] /\ phase'[q] = phase[q]
  BY DEF Arrive, IdemInv, TypeOK
<1>3. TypeOK'
  <2>1. upset' \subseteq ClientKey
    BY DEF Arrive, IdemInv, TypeOK
  <2>2. /\ ckey' \in [Request -> ClientKey \union {NoKey}]
        /\ phase' \in [Request -> {"new", "bypass", "lookup", "run", "save", "done"}]
    BY DEF Arrive, IdemInv, TypeOK
  <2>3. \A q \in Request : reply'[q] = None <=> phase'[q] \notin {"save", "done"}
    BY <1>1, <1>2 DEF IdemInv, TypeOK
  <2> QED  BY <1>1, <2>1, <2>2, <2>3 DEF IdemInv, TypeOK
<1>4. PhaseInv'
  BY <1>1, <1>2, Types DEF IdemInv, PhaseInv
<1>5. \A q \in Request : ranAt[q] # None => ckey'[q] = ckey[q] /\ phase'[q] = phase[q]
  BY <1>1, <1>2
<1>6. StoreInv'
  BY <1>1, <1>5, Types DEF IdemInv, StoreInv
<1>7. ReplayMatchesKey'
  BY <1>1, <1>2, <1>5, Types DEF IdemInv, ReplayMatchesKey, Replayed
<1>8. upset \subseteq upset' /\ (k \in ClientKey \ upset' => Active(k) = {})
  BY Types DEF Arrive, IdemInv
<1>9. RerunHasCause'
  BY <1>1, <1>5, <1>8 DEF IdemInv, RerunHasCause, Duplicates, Apart
<1>10. UndisturbedInv'
  <2> SUFFICES ASSUME NEW j \in ClientKey \ upset' PROVE (Alone(j) /\ Missed(j) /\ Covered(j))'
    BY DEF UndisturbedInv
  <2>1. Alone(j) /\ Missed(j) /\ Covered(j)
    BY <1>8 DEF IdemInv, UndisturbedInv
  <2>2. Alone(j)'
    <3>1. j = k => \A q \in Request : ckey[q] = j => phase[q] \notin UnderWay
      BY <1>8 DEF Active, UnderWay
    <3> QED  BY <1>2, <2>1, <3>1 DEF Alone
  <2>3. Missed(j)'
    BY <1>1, <1>2, <2>1 DEF Missed
  <2>4. Covered(j)'
    BY <1>1, <1>2, <2>1 DEF Covered
  <2> QED  BY <2>2, <2>3, <2>4
<1> QED  BY <1>3, <1>4, <1>6, <1>7, <1>9, <1>10 DEF IdemInv

LEMMA BypassStep ==
  ASSUME NEW r \in Request, IdemInv, Bypass(r) PROVE IdemInv'
<1>1. /\ phase[r] = "bypass" /\ ckey[r] = NoKey /\ ranAt[r] = None /\ reply[r] = None
      /\ UNCHANGED <<backend, clock, store, ckey, upset>>
  BY DEF Bypass, IdemInv, TypeOK, PhaseInv
<1>2. /\ phase'[r] = "done" /\ reply'[r] = r /\ ranAt'[r] = clock
      /\ \A q \in Request \ {r} :
           phase'[q] = phase[q] /\ reply'[q] = reply[q] /\ ranAt'[q] = ranAt[q]
  BY DEF Bypass, IdemInv, TypeOK
<1>3. TypeOK'
  <2>1. /\ phase' \in [Request -> {"new", "bypass", "lookup", "run", "save", "done"}]
        /\ reply' \in [Request -> Request \union {None, Failed}]
        /\ ranAt' \in [Request -> (0..MaxClock) \union {None}]
    BY DEF Bypass, IdemInv, TypeOK
  <2>2. \A q \in Request : reply'[q] = None <=> phase'[q] \notin {"save", "done"}
    BY <1>2, Types DEF IdemInv, TypeOK
  <2> QED  BY <1>1, <2>1, <2>2 DEF IdemInv, TypeOK
<1>4. PhaseInv'
  BY <1>1, <1>2, Types DEF IdemInv, PhaseInv
<1>5. StoreInv'
  BY <1>1, <1>2, Types DEF IdemInv, StoreInv
<1>6. ReplayMatchesKey'
  BY <1>1, <1>2, Types DEF IdemInv, ReplayMatchesKey, Replayed
<1>7. RerunHasCause'
  BY <1>1, <1>2 DEF IdemInv, RerunHasCause, Duplicates, Apart
<1>8. UndisturbedInv'
  <2> SUFFICES ASSUME NEW j \in ClientKey \ upset PROVE (Alone(j) /\ Missed(j) /\ Covered(j))'
    BY <1>1 DEF UndisturbedInv
  <2>1. Alone(j) /\ Missed(j) /\ Covered(j) /\ j # ckey[r]
    BY <1>1, Types DEF IdemInv, UndisturbedInv
  <2>2. Alone(j)' /\ Missed(j)' /\ Covered(j)'
    BY <1>1, <1>2, <2>1 DEF Alone, Missed, Covered
  <2> QED  BY <2>2
<1> QED  BY <1>3, <1>4, <1>5, <1>6, <1>7, <1>8 DEF IdemInv

LEMMA ReplayStep ==
  ASSUME NEW r \in Request, IdemInv, Replay(r) PROVE IdemInv'
<1> DEFINE q0 == store[Slot(ckey[r])].response
<1>1. /\ phase[r] = "lookup" /\ ckey[r] \in ClientKey /\ ranAt[r] = None /\ reply[r] = None
      /\ UNCHANGED <<backend, clock, store, ckey, ranAt, upset>>
  BY DEF Replay, IdemInv, TypeOK, PhaseInv
<1>2. q0 \in Request /\ ckey[q0] = ckey[r] /\ reply[q0] = q0 /\ ranAt[q0] # None
  BY <1>1, Types, ScopedIsSlot DEF Replay, Hit, IdemInv, StoreInv
<1>3. /\ phase'[r] = "done" /\ reply'[r] = q0 /\ q0 # r
      /\ \A q \in Request \ {r} : phase'[q] = phase[q] /\ reply'[q] = reply[q]
  BY <1>1, <1>2, ScopedIsSlot DEF Replay, IdemInv, TypeOK
<1> HIDE DEF q0
<1>4. TypeOK'
  <2>1. phase' \in [Request -> {"new", "bypass", "lookup", "run", "save", "done"}]
    BY DEF Replay, IdemInv, TypeOK
  <2>2. reply' = [reply EXCEPT ![r] = q0]
    BY ScopedIsSlot DEF Replay, q0
  <2>3. reply' \in [Request -> Request \union {None, Failed}]
    BY <1>2, <2>2 DEF IdemInv, TypeOK
  <2>4. \A q \in Request : reply'[q] = None <=> phase'[q] \notin {"save", "done"}
    BY <1>2, <1>3, Types DEF IdemInv, TypeOK
  <2> QED  BY <1>1, <2>1, <2>3, <2>4 DEF IdemInv, TypeOK
<1>5. PhaseInv'
  BY <1>1, <1>2, <1>3, Types DEF IdemInv, PhaseInv
<1>6. StoreInv'
  BY <1>1, <1>2, <1>3, Types DEF IdemInv, StoreInv
<1>7. ReplayMatchesKey'
  BY <1>1, <1>2, <1>3, Types DEF IdemInv, ReplayMatchesKey, Replayed
<1>8. RerunHasCause'
  BY <1>1 DEF IdemInv, RerunHasCause, Duplicates, Apart
<1>9. UndisturbedInv'
  <2> SUFFICES ASSUME NEW j \in ClientKey \ upset PROVE (Alone(j) /\ Missed(j) /\ Covered(j))'
    BY <1>1 DEF UndisturbedInv
  <2>1. Alone(j) /\ Missed(j) /\ Covered(j)
    BY DEF IdemInv, UndisturbedInv
  <2>2. Alone(j)' /\ Missed(j)' /\ Covered(j)'
    BY <1>1, <1>3, <2>1 DEF Alone, Missed, Covered, UnderWay
  <2> QED  BY <2>2
<1> QED  BY <1>4, <1>5, <1>6, <1>7, <1>8, <1>9 DEF IdemInv

\* What Get does not serve has expired.
LEMMA NotHit ==
  ASSUME TypeOK, NEW k \in ClientKey, ~Hit(Slot(k)), store[Slot(k)] # None
  PROVE  clock >= store[Slot(k)].expiresAt
BY Types DEF Hit, Unexpired

LEMMA MissStep ==
  ASSUME NEW r \in Request, IdemInv, Miss(r) PROVE IdemInv'
<1>1. /\ phase[r] = "lookup" /\ ckey[r] \in ClientKey /\ ranAt[r] = None /\ reply[r] = None
      /\ UNCHANGED <<backend, clock, ckey, reply, ranAt, upset>>
      /\ ~Hit(Slot(ckey[r]))
  BY ScopedIsSlot DEF Miss, IdemInv, TypeOK, PhaseInv
<1>2. /\ phase'[r] = "run" /\ \A q \in Request \ {r} : phase'[q] = phase[q]
  BY DEF Miss, IdemInv, TypeOK
<1>3. /\ store' \in [ScopedKey -> Entry \union {None}]
      /\ store'[Slot(ckey[r])] = None
      /\ \A j \in ClientKey \ {ckey[r]} : store'[Slot(j)] = store[Slot(j)]
  BY <1>1, Slots, ScopedIsSlot DEF Miss, IdemInv, TypeOK
<1>4. TypeOK'
  <2>1. phase' \in [Request -> {"new", "bypass", "lookup", "run", "save", "done"}]
    BY DEF Miss, IdemInv, TypeOK
  <2>2. \A q \in Request : reply'[q] = None <=> phase'[q] \notin {"save", "done"}
    BY <1>1, <1>2 DEF IdemInv, TypeOK
  <2> QED  BY <1>1, <1>3, <2>1, <2>2 DEF IdemInv, TypeOK
<1>5. PhaseInv'
  BY <1>1, <1>2 DEF IdemInv, PhaseInv
<1>6. StoreInv'
  BY <1>1, <1>3 DEF IdemInv, StoreInv
<1>7. ReplayMatchesKey' /\ RerunHasCause'
  BY <1>1 DEF IdemInv, ReplayMatchesKey, Replayed, RerunHasCause, Duplicates, Apart
<1>8. UndisturbedInv'
  <2> SUFFICES ASSUME NEW j \in ClientKey \ upset PROVE (Alone(j) /\ Missed(j) /\ Covered(j))'
    BY <1>1 DEF UndisturbedInv
  <2>1. Alone(j) /\ Missed(j) /\ Covered(j)
    BY DEF IdemInv, UndisturbedInv
  <2>2. Alone(j)'
    BY <1>1, <1>2, <2>1 DEF Alone, UnderWay
  <2>3. Missed(j)'
    BY <1>1, <1>2, <1>3, <2>1 DEF Missed
  <2>4. Covered(j)'
    <3>1. CASE j # ckey[r]
      BY <1>1, <1>2, <1>3, <2>1, <3>1 DEF Covered
    <3>2. CASE j = ckey[r]
      <4> SUFFICES ASSUME NEW q \in Request, ckey[q] = j, ranAt[q] # None, phase[q] = "done"
                   PROVE  clock >= ranAt[q] + TTL
        BY <1>1, <1>2 DEF Covered
      <4>1. store[Slot(j)] # None => clock >= store[Slot(j)].expiresAt
        BY <1>1, <3>2, NotHit DEF IdemInv
      <4> QED  BY <2>1, <4>1, Types DEF Covered, IdemInv
    <3> QED  BY <3>1, <3>2
  <2> QED  BY <2>2, <2>3, <2>4
<1> QED  BY <1>4, <1>5, <1>6, <1>7, <1>8 DEF IdemInv

\* A failed call upsets its key, and with that all it has to answer for.
LEMMA DisturbedStep ==
  ASSUME NEW r \in Request, IdemInv, Disturbed(r), ckey[r] \in ClientKey,
         UNCHANGED <<backend, clock, store, ckey>>,
         \A q \in Request \ {r} :
           phase'[q] = phase[q] /\ reply'[q] = reply[q] /\ ranAt'[q] = ranAt[q],
         ranAt'[r] = ranAt[r] \/ (ranAt[r] = None /\ ranAt'[r] = clock)
  PROVE  UndisturbedInv' /\ RerunHasCause' /\ upset' \subseteq ClientKey
<1>1. upset' \subseteq ClientKey /\ upset \subseteq upset' /\ ckey[r] \in upset'
  BY DEF Disturbed, IdemInv, TypeOK
<1>2. RerunHasCause'
  BY <1>1 DEF IdemInv, RerunHasCause, Duplicates, Apart
<1>3. UndisturbedInv'
  <2> SUFFICES ASSUME NEW j \in ClientKey \ upset' PROVE (Alone(j) /\ Missed(j) /\ Covered(j))'
    BY DEF UndisturbedInv
  <2>1. Alone(j) /\ Missed(j) /\ Covered(j) /\ j # ckey[r]
    BY <1>1 DEF IdemInv, UndisturbedInv
  <2>2. Alone(j)' /\ Missed(j)' /\ Covered(j)'
    BY <2>1 DEF Alone, Missed, Covered
  <2> QED  BY <2>2
<1> QED  BY <1>1, <1>2, <1>3

LEMMA GetFailsStep ==
  ASSUME NEW r \in Request, IdemInv, GetFails(r) PROVE IdemInv'
<1>1. /\ phase[r] = "lookup" /\ ckey[r] \in ClientKey /\ ranAt[r] = None /\ reply[r] = None
      /\ UNCHANGED <<backend, clock, store, ckey, reply, ranAt>> /\ Disturbed(r)
  BY DEF GetFails, IdemInv, TypeOK, PhaseInv
<1>2. /\ phase'[r] = "run" /\ \A q \in Request \ {r} : phase'[q] = phase[q]
  BY DEF GetFails, IdemInv, TypeOK
<1>3. UndisturbedInv' /\ RerunHasCause' /\ upset' \subseteq ClientKey
  BY <1>1, <1>2, DisturbedStep
<1>4. TypeOK'
  <2>1. phase' \in [Request -> {"new", "bypass", "lookup", "run", "save", "done"}]
    BY DEF GetFails, IdemInv, TypeOK
  <2>2. \A q \in Request : reply'[q] = None <=> phase'[q] \notin {"save", "done"}
    BY <1>1, <1>2 DEF IdemInv, TypeOK
  <2> QED  BY <1>1, <1>3, <2>1, <2>2 DEF IdemInv, TypeOK
<1>5. PhaseInv'
  BY <1>1, <1>2 DEF IdemInv, PhaseInv
<1>6. StoreInv' /\ ReplayMatchesKey'
  BY <1>1 DEF IdemInv, StoreInv, ReplayMatchesKey, Replayed
<1> QED  BY <1>3, <1>4, <1>5, <1>6 DEF IdemInv

\* A handler runs: no entry answers for an earlier run of its key, so each lies a
\* TTL back.
LEMMA RunStep ==
  ASSUME NEW r \in Request, IdemInv, Run(r) PROVE IdemInv'
<1>1. /\ phase[r] = "run" /\ ckey[r] \in ClientKey /\ ranAt[r] = None /\ reply[r] = None
      /\ UNCHANGED <<backend, clock, store, ckey, upset>>
  BY DEF Run, IdemInv, TypeOK, PhaseInv
<1>2. /\ phase'[r] = "save" /\ reply'[r] = r /\ ranAt'[r] = clock
      /\ \A q \in Request \ {r} :
           phase'[q] = phase[q] /\ reply'[q] = reply[q] /\ ranAt'[q] = ranAt[q]
  BY DEF Run, IdemInv, TypeOK
<1>3. TypeOK'
  <2>1. /\ phase' \in [Request -> {"new", "bypass", "lookup", "run", "save", "done"}]
        /\ reply' \in [Request -> Request \union {None, Failed}]
        /\ ranAt' \in [Request -> (0..MaxClock) \union {None}]
    BY DEF Run, IdemInv, TypeOK
  <2>2. \A q \in Request : reply'[q] = None <=> phase'[q] \notin {"save", "done"}
    BY <1>2, Types DEF IdemInv, TypeOK
  <2> QED  BY <1>1, <2>1, <2>2 DEF IdemInv, TypeOK
<1>4. PhaseInv'
  BY <1>1, <1>2, Types DEF IdemInv, PhaseInv
<1>5. StoreInv'
  BY <1>1, <1>2, Types DEF IdemInv, StoreInv
<1>6. ReplayMatchesKey'
  BY <1>1, <1>2, Types DEF IdemInv, ReplayMatchesKey, Replayed
<1>7. UndisturbedInv'
  <2> SUFFICES ASSUME NEW j \in ClientKey \ upset PROVE (Alone(j) /\ Missed(j) /\ Covered(j))'
    BY <1>1 DEF UndisturbedInv
  <2>1. Alone(j) /\ Missed(j) /\ Covered(j)
    BY DEF IdemInv, UndisturbedInv
  <2>2. Alone(j)' /\ Missed(j)' /\ Covered(j)'
    BY <1>1, <1>2, <2>1 DEF Alone, Missed, Covered, UnderWay
  <2> QED  BY <2>2
<1>8. RerunHasCause'
  <2>1. ASSUME NEW q \in Request \ {r}, ckey[q] = ckey[r], ranAt[q] # None,
               ckey[r] \notin upset
        PROVE  clock - ranAt[q] >= TTL
    <3>1. Alone(ckey[r]) /\ Missed(ckey[r]) /\ Covered(ckey[r])
      BY <1>1, <2>1 DEF IdemInv, UndisturbedInv
    <3>2. phase[q] = "done"
      BY <1>1, <2>1, <3>1 DEF IdemInv, PhaseInv, Alone, UnderWay
    <3>3. store[Slot(ckey[r])] = None
      BY <1>1, <3>1 DEF Missed
    <3>4. clock >= ranAt[q] + TTL
      BY <2>1, <3>1, <3>2, <3>3 DEF Covered
    <3> QED  BY <2>1, <3>4, Types DEF IdemInv
  <2> QED  BY <1>1, <1>2, <2>1 DEF IdemInv, RerunHasCause, Duplicates, Apart
<1> QED  BY <1>3, <1>4, <1>5, <1>6, <1>7, <1>8 DEF IdemInv

LEMMA PanicStep ==
  ASSUME NEW r \in Request, IdemInv, Panic(r) PROVE IdemInv'
<1>1. /\ phase[r] = "run" /\ ckey[r] \in ClientKey /\ ranAt[r] = None /\ reply[r] = None
      /\ UNCHANGED <<backend, clock, store, ckey>> /\ Disturbed(r)
  BY DEF Panic, IdemInv, TypeOK, PhaseInv
<1>2. /\ phase'[r] = "done" /\ reply'[r] = Failed /\ ranAt'[r] = clock
      /\ \A q \in Request \ {r} :
           phase'[q] = phase[q] /\ reply'[q] = reply[q] /\ ranAt'[q] = ranAt[q]
  BY DEF Panic, IdemInv, TypeOK
<1>3. UndisturbedInv' /\ RerunHasCause' /\ upset' \subseteq ClientKey
  BY <1>1, <1>2, DisturbedStep
<1>4. TypeOK'
  <2>1. /\ phase' \in [Request -> {"new", "bypass", "lookup", "run", "save", "done"}]
        /\ reply' \in [Request -> Request \union {None, Failed}]
        /\ ranAt' \in [Request -> (0..MaxClock) \union {None}]
    BY DEF Panic, IdemInv, TypeOK
  <2>2. \A q \in Request : reply'[q] = None <=> phase'[q] \notin {"save", "done"}
    BY <1>2, Types DEF IdemInv, TypeOK
  <2> QED  BY <1>1, <1>3, <2>1, <2>2 DEF IdemInv, TypeOK
<1>5. PhaseInv'
  BY <1>1, <1>2, Types DEF IdemInv, PhaseInv
<1>6. StoreInv'
  BY <1>1, <1>2, Types DEF IdemInv, StoreInv
<1>7. ReplayMatchesKey'
  BY <1>1, <1>2, Types DEF IdemInv, ReplayMatchesKey, Replayed
<1> QED  BY <1>3, <1>4, <1>5, <1>6, <1>7 DEF IdemInv

\* A request that missed an undisturbed key finds the slot free and fills it.
LEMMA SaveStep ==
  ASSUME NEW r \in Request, IdemInv, Save(r) PROVE IdemInv'
<1> DEFINE k == ckey[r]
           entry == [response |-> r, expiresAt |-> Expiry]
<1>1. /\ phase[r] = "save" /\ k \in ClientKey /\ ranAt[r] # None /\ reply[r] = r
      /\ UNCHANGED <<backend, clock, ckey, reply, ranAt, upset>>
  BY DEF Save, IdemInv, PhaseInv
<1>2. /\ phase'[r] = "done" /\ \A q \in Request \ {r} : phase'[q] = phase[q]
  BY DEF Save, IdemInv, TypeOK
<1>3. entry \in Entry /\ entry.response = r /\ entry.expiresAt = clock + TTL /\ entry # None
  <2>1. clock + TTL \in 0..(MaxClock + TTL) /\ clock + TTL \in Nat
    BY Types DEF IdemInv
  <2>2. entry \in [response : Request, expiresAt : Nat]
    BY <2>1 DEF Expiry
  <2> QED  BY <2>1, <2>2, IdempotencyAssumption DEF Entry, Expiry
<1>4. \/ store' = store /\ store[Slot(k)] # None /\ clock < store[Slot(k)].expiresAt
      \/ store' = [store EXCEPT ![Slot(k)] = entry]
  BY ScopedIsSlot DEF Save, Taken
<1>5. /\ store' \in [ScopedKey -> Entry \union {None}]
      /\ \A j \in ClientKey \ {k} : store'[Slot(j)] = store[Slot(j)]
      /\ store'[Slot(k)] = entry \/ (store'[Slot(k)] = store[Slot(k)] /\ store[Slot(k)] # None)
  BY <1>1, <1>3, <1>4, Slots DEF IdemInv, TypeOK
<1> HIDE DEF entry
<1>6. TypeOK'
  <2>1. phase' \in [Request -> {"new", "bypass", "lookup", "run", "save", "done"}]
    BY DEF Save, IdemInv, TypeOK
  <2>2. \A q \in Request : reply'[q] = None <=> phase'[q] \notin {"save", "done"}
    BY <1>1, <1>2 DEF IdemInv, TypeOK
  <2> QED  BY <1>1, <1>5, <2>1, <2>2 DEF IdemInv, TypeOK
<1>7. PhaseInv'
  BY <1>1, <1>2 DEF IdemInv, PhaseInv
<1>8. StoreInv'
  BY <1>1, <1>3, <1>5 DEF IdemInv, StoreInv
<1>9. ReplayMatchesKey' /\ RerunHasCause'
  BY <1>1 DEF IdemInv, ReplayMatchesKey, Replayed, RerunHasCause, Duplicates, Apart
<1>10. UndisturbedInv'
  <2> SUFFICES ASSUME NEW j \in ClientKey \ upset PROVE (Alone(j) /\ Missed(j) /\ Covered(j))'
    BY <1>1 DEF UndisturbedInv
  <2>1. Alone(j) /\ Missed(j) /\ Covered(j)
    BY DEF IdemInv, UndisturbedInv
  <2>2. Alone(j)'
    BY <1>1, <1>2, <2>1 DEF Alone, UnderWay
  <2>3. Missed(j)'
    BY <1>1, <1>2, <1>5, <2>1 DEF Missed, Alone, UnderWay
  <2>4. Covered(j)'
    <3>1. CASE j # k
      BY <1>1, <1>2, <1>5, <2>1, <3>1 DEF Covered
    <3>2. CASE j = k
      <4> SUFFICES ASSUME NEW q \in Request, ckey[q] = j, ranAt[q] # None, phase'[q] = "done"
                   PROVE  \/ clock >= ranAt[q] + TTL
                          \/ store'[Slot(j)] # None /\ store'[Slot(j)].expiresAt >= ranAt[q] + TTL
        BY <1>1 DEF Covered
      <4>1. store[Slot(k)] = None /\ store'[Slot(k)] = entry
        BY <1>1, <1>5, <2>1, <3>2 DEF Missed
      <4>2. ranAt[q] \in Nat /\ ranAt[q] <= clock /\ clock \in Nat /\ TTL \in Nat
        BY Types DEF IdemInv, PhaseInv
      <4> QED  BY <1>3, <3>2, <4>1, <4>2
    <3> QED  BY <3>1, <3>2
  <2> QED  BY <2>2, <2>3, <2>4
<1> QED  BY <1>6, <1>7, <1>8, <1>9, <1>10 DEF IdemInv

LEMMA SaveFailsStep ==
  ASSUME NEW r \in Request, IdemInv, SaveFails(r) PROVE IdemInv'
<1>1. /\ phase[r] = "save" /\ ckey[r] \in ClientKey /\ ranAt[r] # None
      /\ UNCHANGED <<backend, clock, store, ckey, reply, ranAt>> /\ Disturbed(r)
  BY DEF SaveFails, IdemInv, PhaseInv
<1>2. /\ phase'[r] = "done" /\ \A q \in Request \ {r} : phase'[q] = phase[q]
  BY DEF SaveFails, IdemInv, TypeOK
<1>3. UndisturbedInv' /\ RerunHasCause' /\ upset' \subseteq ClientKey
  BY <1>1, <1>2, DisturbedStep
<1>4. TypeOK'
  <2>1. phase' \in [Request -> {"new", "bypass", "lookup", "run", "save", "done"}]
    BY DEF SaveFails, IdemInv, TypeOK
  <2>2. \A q \in Request : reply'[q] = None <=> phase'[q] \notin {"save", "done"}
    BY <1>1, <1>2 DEF IdemInv, TypeOK
  <2> QED  BY <1>1, <1>3, <2>1, <2>2 DEF IdemInv, TypeOK
<1>5. PhaseInv'
  BY <1>1, <1>2 DEF IdemInv, PhaseInv
<1>6. StoreInv' /\ ReplayMatchesKey'
  BY <1>1 DEF IdemInv, StoreInv, ReplayMatchesKey, Replayed
<1> QED  BY <1>3, <1>4, <1>5, <1>6 DEF IdemInv

\* What a sweep drops has expired, and so covers no run that is not a TTL back.
LEMMA SweepStep == ASSUME IdemInv, Sweep PROVE IdemInv'
<1>1. /\ UNCHANGED <<backend, clock, phase, ckey, reply, ranAt, upset>>
      /\ store' \in [ScopedKey -> Entry \union {None}]
      /\ \A j \in ClientKey :
           store'[Slot(j)] = IF Hit(Slot(j)) THEN store[Slot(j)] ELSE None
  BY Slots DEF Sweep, IdemInv, TypeOK
<1>2. TypeOK'
  BY <1>1 DEF IdemInv, TypeOK
<1>3. PhaseInv' /\ ReplayMatchesKey' /\ RerunHasCause'
  BY <1>1 DEF IdemInv, PhaseInv, ReplayMatchesKey, Replayed, RerunHasCause, Duplicates, Apart
<1>4. StoreInv'
  BY <1>1 DEF IdemInv, StoreInv
<1>5. UndisturbedInv'
  <2> SUFFICES ASSUME NEW j \in ClientKey \ upset PROVE (Alone(j) /\ Missed(j) /\ Covered(j))'
    BY <1>1 DEF UndisturbedInv
  <2>1. Alone(j) /\ Missed(j) /\ Covered(j)
    BY DEF IdemInv, UndisturbedInv
  <2>2. Alone(j)' /\ Missed(j)'
    BY <1>1, <2>1 DEF Alone, Missed
  <2>3. Covered(j)'
    <3> SUFFICES ASSUME NEW q \in Request, ckey[q] = j, ranAt[q] # None, phase[q] = "done"
                 PROVE  \/ clock >= ranAt[q] + TTL
                        \/ store'[Slot(j)] # None /\ store'[Slot(j)].expiresAt >= ranAt[q] + TTL
      BY <1>1 DEF Covered
    <3>1. CASE Hit(Slot(j))
      BY <1>1, <2>1, <3>1 DEF Covered
    <3>2. CASE ~Hit(Slot(j))
      <4>1. store[Slot(j)] # None => clock >= store[Slot(j)].expiresAt
        BY <3>2, NotHit DEF IdemInv
      <4> QED  BY <2>1, <4>1, Types DEF Covered, IdemInv
    <3> QED  BY <3>1, <3>2
  <2> QED  BY <2>2, <2>3
<1> QED  BY <1>2, <1>3, <1>4, <1>5 DEF IdemInv

LEMMA TickStep == ASSUME IdemInv, Tick PROVE IdemInv'
<1>1. /\ UNCHANGED <<backend, store, phase, ckey, reply, ranAt, upset>>
      /\ clock' = clock + 1 /\ clock' \in 0..MaxClock
  BY Types DEF Tick, IdemInv
<1>2. TypeOK'
  BY <1>1 DEF IdemInv, TypeOK
<1>3. PhaseInv'
  BY <1>1, Types DEF IdemInv, PhaseInv
<1>4. StoreInv' /\ ReplayMatchesKey' /\ RerunHasCause'
  BY <1>1 DEF IdemInv, StoreInv, ReplayMatchesKey, Replayed, RerunHasCause, Duplicates, Apart
<1>5. UndisturbedInv'
  <2> SUFFICES ASSUME NEW j \in ClientKey \ upset PROVE (Alone(j) /\ Missed(j) /\ Covered(j))'
    BY <1>1 DEF UndisturbedInv
  <2>1. Alone(j) /\ Missed(j) /\ Covered(j)
    BY DEF IdemInv, UndisturbedInv
  <2>2. Alone(j)' /\ Missed(j)' /\ Covered(j)'
    BY <1>1, <2>1, Types DEF Alone, Missed, Covered, IdemInv
  <2> QED  BY <2>2
<1> QED  BY <1>2, <1>3, <1>4, <1>5 DEF IdemInv

LEMMA IdemNext == IdemInv /\ [Next]_vars => IdemInv'
<1> SUFFICES ASSUME IdemInv, [Next]_vars PROVE IdemInv'
  OBVIOUS
<1>1. CASE \E r \in Request : \/ \E k \in ClientKey \union {NoKey} : Arrive(r, k)
                              \/ Bypass(r) \/ Replay(r) \/ Miss(r) \/ GetFails(r)
                              \/ Run(r) \/ Panic(r) \/ Save(r) \/ SaveFails(r)
  BY <1>1, ArriveStep, BypassStep, ReplayStep, MissStep, GetFailsStep, RunStep, PanicStep,
     SaveStep, SaveFailsStep
<1>2. CASE Sweep \/ Tick
  BY <1>2, SweepStep, TickStep
<1>3. CASE UNCHANGED vars
  BY <1>3 DEF vars, IdemInv, TypeOK, PhaseInv, StoreInv, ReplayMatchesKey, Replayed,
              UndisturbedInv, Alone, Missed, Covered, RerunHasCause, Duplicates, Apart,
              Slot
<1> QED  BY <1>1, <1>2, <1>3 DEF Next

LEMMA IdemSafety == Spec => []IdemInv
BY IdemInit, IdemNext, PTL DEF Spec

\* A replayed response is one the handler gave for the same Idempotency-Key, to a
\* request that did not run the handler itself.
THEOREM ReplaysMatchKeys == Spec => []ReplayMatchesKey
<1>1. IdemInv => ReplayMatchesKey
  BY DEF IdemInv
<1> QED  BY <1>1, IdemSafety, PTL

\* Two runs of the handler for one key within a TTL have a cause: requests of the
\* key overlapped, the store failed or a handler panicked.
THEOREM RerunsHaveCause == Spec => []RerunHasCause
<1>1. IdemInv => RerunHasCause
  BY DEF IdemInv
<1> QED  BY <1>1, IdemSafety, PTL

\* No Set, Get or Sweep of the stores replaces or removes an entry that has not
\* expired; at the instant of its expiry only an in-memory Set may replace it, by
\* an entry that lives for another TTL.
THEOREM FirstStoredStays == Spec => FirstStoredWins
<1> DEFINE Stays == \A s \in ScopedKey : store[s] # None => FirstStays(s)
<1>1. ASSUME IdemInv, [Next]_vars PROVE [Stays]_vars
  <2> SUFFICES ASSUME Next, NEW k \in ClientKey, store[Slot(k)] # None
               PROVE  FirstStays(Slot(k))
    BY <1>1, Slots
  <2>1. /\ clock \in Nat /\ clock' \in Nat /\ clock <= clock'
        /\ store[Slot(k)].expiresAt \in Nat
    BY <1>1, IdemNext, Types DEF IdemInv, Next, Arrive, Bypass, Replay, Miss, GetFails, Run,
       Panic, Save, SaveFails, Sweep, Tick
  <2>2. CASE \E r \in Request : Miss(r)
    <3> PICK r \in Request : Miss(r)
      BY <2>2
    <3>1. /\ clock' = clock /\ ckey[r] \in ClientKey
          /\ store' = [store EXCEPT ![Slot(ckey[r])] = None]
          /\ ~Hit(Slot(ckey[r]))
      BY <1>1, ScopedIsSlot DEF Miss, IdemInv, PhaseInv
    <3>2. CASE ckey[r] = k
      BY <2>1, <3>1, <3>2 DEF FirstStays, Hit, Unexpired
    <3>3. CASE ckey[r] # k
      BY <1>1, <3>1, <3>3, Slots DEF FirstStays, IdemInv, TypeOK
    <3> QED  BY <3>2, <3>3
  <2>3. CASE \E r \in Request : Save(r)
    <3> PICK r \in Request : Save(r)
      BY <2>3
    <3> DEFINE e == [response |-> r, expiresAt |-> clock + TTL]
    <3>1. /\ clock' = clock /\ ckey[r] \in ClientKey
          /\ store' = IF Taken(Slot(ckey[r])) THEN store
                      ELSE [store EXCEPT ![Slot(ckey[r])] = e]
      BY <1>1, ScopedIsSlot DEF Save, Expiry, IdemInv, PhaseInv
    <3>2. CASE Taken(Slot(ckey[r]))
      BY <3>1, <3>2 DEF FirstStays
    <3>3. CASE ~Taken(Slot(ckey[r])) /\ ckey[r] = k
      <4>1. store'[Slot(k)] = e
        BY <1>1, <3>1, <3>3, Slots DEF IdemInv, TypeOK
      <4>2. e # None /\ e.expiresAt = clock' + TTL
        BY <1>1, <2>1, <3>1, IdempotencyAssumption
      <4>3. ~(clock < store[Slot(k)].expiresAt)
        BY <3>3 DEF Taken
      <4> HIDE DEF e
      <4> QED  BY <2>1, <3>1, <4>1, <4>2, <4>3 DEF FirstStays
    <3>4. CASE ~Taken(Slot(ckey[r])) /\ ckey[r] # k
      BY <1>1, <3>1, <3>4, Slots DEF FirstStays, IdemInv, TypeOK
    <3> QED  BY <3>2, <3>3, <3>4
  <2>4. CASE Sweep
    <3>1. /\ clock' = clock
          /\ store'[Slot(k)] = IF Hit(Slot(k)) THEN store[Slot(k)] ELSE None
      BY <2>4, Slots DEF Sweep
    <3> QED  BY <2>1, <3>1 DEF FirstStays, Hit, Unexpired
  <2>5. CASE UNCHANGED store
    BY <2>5 DEF FirstStays
  <2> QED
    BY <2>2, <2>3, <2>4, <2>5
    DEF Next, Arrive, Bypass, Replay, GetFails, Run, Panic, SaveFails, Tick
<1> QED  BY <1>1, IdemSafety, PTL DEF Spec, FirstStoredWins

-----------------------------------------------------------------------------
(* The routes behind the middleware *)

\* Whatever the handlers do, the middleware around them is the middleware of
\* Idempotency: its results hold for the routes as main.go mounts them.
THEOREM GatewayImplementsIdempotency == GatewaySpec => Spec
<1>1. GatewayInit => Init
  BY DEF GatewayInit
<1>2. [GatewayNext]_allVars => [Next]_vars
  <2> SUFFICES ASSUME [GatewayNext]_allVars PROVE [Next]_vars
    OBVIOUS
  <2>1. CASE UNCHANGED allVars
    BY <2>1 DEF allVars
  <2>2. CASE GatewayNext
    BY <2>2 DEF GatewayNext, Next, Send, Pass
  <2> QED  BY <2>1, <2>2
<1> QED  BY <1>1, <1>2, PTL DEF GatewaySpec, Spec

AnswerInv ==
  \A r \in Request :
     /\ answer[r] # None => ranAt[r] # None
     /\ reply[r] = r => answer[r] # None
     /\ bearer[r] # None => bearer[r] <= clock
     /\ route[r] = "login" /\ answer[r] # None /\ answer[r].status = "ok"
           => answer[r].at = ranAt[r]
     /\ phase[r] = "save" => clock - ranAt[r] <= MaxStall

\* An entry outlives the run it comes from by a TTL and the stall before its Set.
LifeInv ==
  \A k \in ClientKey :
     store[Slot(k)] # None =>
        store[Slot(k)].expiresAt <= ranAt[store[Slot(k)].response] + MaxStall + TTL

\* ProfileAgrees, with the profile a Get found.
ProfileInv ==
  /\ ProfileAgrees
  /\ \A r \in Request :
       answer[r] # None /\ route[r] = "get" /\ answer[r].status = "ok" => profile # None

GateInv == /\ IdemInv /\ GatewayTypeOK /\ AnswerInv /\ LifeInv
           /\ TokenKeepsPromise /\ ProfileInv

-----------------------------------------------------------------------------
(* Whole seconds *)

\* NumericDate cuts less than a second off.
LEMMA CutIsShort ==
  ASSUME NEW t \in Nat
  PROVE  /\ NumericDate(t) \in Nat
         /\ NumericDate(t) <= t /\ t < NumericDate(t) + Second
<1>1. t \div Second \in Nat /\ Second \in Nat \ {0}
  BY GatewayAssumption
<1>2. (t \div Second) * Second <= t /\ t < (t \div Second) * Second + Second
  BY GatewayAssumption
<1>3. (t \div Second) * Second \in Nat
  BY <1>1
<1> QED  BY <1>2, <1>3 DEF NumericDate

\* A TIMESTAMP is at most half a second away from what was stored.
LEMMA RoundingIsClose ==
  ASSUME NEW t \in Nat
  PROVE  /\ Kept(t) \in Nat /\ Kept(t) <= t + Second
         /\ 2 * Kept(t) - 2 * t \in (-Second)..Second
<1> DEFINE q == (2 * t + Second) \div (2 * Second)
<1>1. Second \in Nat \ {0} /\ 2 * Second \in Nat \ {0} /\ 2 * t + Second \in Nat
  BY GatewayAssumption
<1>2. q \in Nat
  BY <1>1
<1>3. q * (2 * Second) <= 2 * t + Second /\ 2 * t + Second < q * (2 * Second) + 2 * Second
  BY <1>1
<1> HIDE DEF q
<1>4. q * (2 * Second) = 2 * (q * Second) /\ q * Second \in Nat
  BY <1>1, <1>2
<1>5. /\ q * Second <= t + Second
      /\ 2 * (q * Second) - 2 * t \in (-Second)..Second
  BY <1>1, <1>3, <1>4
<1>6. t <= t + Second /\ 2 * t - 2 * t \in (-Second)..Second
  BY <1>1
<1>7. Kept(t) = q * Second \/ Kept(t) = t
  BY DEF Kept, q
<1> QED  BY <1>4, <1>5, <1>6, <1>7

-----------------------------------------------------------------------------
(* What a handler answers, and what it leaves in the database *)

Told(r, a) ==
  /\ answer' = [answer EXCEPT ![r] = a]
  /\ profile # None => profile' = profile
  /\ route[r] = "login" /\ a.status = "ok" => a.at = clock
  /\ auth /\ route[r] = "roll" /\ bearer[r] # None =>
        /\ a.status = "unauthorized" => ~Validate(bearer[r])
        /\ a.status = "ok" => Validate(bearer[r])
  /\ a.status = "created" => /\ profile' # None /\ profile'.by = r
                             /\ 2 * profile'.at - 2 * a.at \in (-Second)..Second
  /\ a.status = "conflict" => profile' # None
  /\ route[r] = "get" /\ a.status = "ok" => profile' # None /\ a.at = profile'.at

LEMMA SaysAnswer ==
  ASSUME NEW r \in Request, NEW st \in Status, NEW at \in (0..(MaxClock + Second)) \union {None},
         Says(r, st, at)
  PROVE  \E a \in Answer : a.status = st /\ a.at = at /\ answer' = [answer EXCEPT ![r] = a]
<1> DEFINE a == [status |-> st, at |-> at]
<1>1. a \in Answer /\ a.status = st /\ a.at = at
  BY DEF Answer
<1>2. answer' = [answer EXCEPT ![r] = a]
  BY DEF Says
<1> QED  BY <1>1, <1>2

LEMMA SaysStatus ==
  ASSUME NEW r \in Request, NEW st \in Status, Says(r, st, None)
  PROVE  \E a \in Answer : a.status = st /\ a.at = None /\ answer' = [answer EXCEPT ![r] = a]
<1> DEFINE a == [status |-> st, at |-> None]
<1>1. a \in Answer /\ a.status = st /\ a.at = None
  BY DEF Answer
<1>2. answer' = [answer EXCEPT ![r] = a]
  BY DEF Says
<1> QED  BY <1>1, <1>2

LEMMA HandlerAnswers ==
  ASSUME NEW r \in Request, TypeOK, GatewayTypeOK, Handle(r)
  PROVE  /\ \E a \in Answer : Told(r, a)
         /\ profile' \in Profile \union {None}
         /\ UNCHANGED <<auth, db, route, bearer>>
<1>1. /\ clock \in (0..(MaxClock + Second)) \union {None}
      /\ clock \in Nat /\ MaxClock \in Nat /\ Second \in Nat /\ clock <= MaxClock
  BY Types, GatewayAssumption
<1>2. UNCHANGED <<auth, db, route, bearer>>
  BY DEF Handle
<1>3. ASSUME Says(r, "error", None), UNCHANGED profile
      PROVE  \E a \in Answer : Told(r, a)
  <2>1. PICK a \in Answer : a.status = "error" /\ a.at = None /\ answer' = [answer EXCEPT ![r] = a]
    BY <1>3, SaysStatus DEF Status
  <2>2. Told(r, a)
    BY <1>3, <2>1 DEF Told
  <2> QED  BY <2>2
<1>4. CASE route[r] = "login" /\ Login(r)
  <2>1. UNCHANGED profile
    BY <1>4 DEF Login
  <2>2. CASE Issue(r)
    <3>1. PICK a \in Answer : a.status = "ok" /\ a.at = clock /\ answer' = [answer EXCEPT ![r] = a]
      BY <1>1, <2>2, SaysAnswer DEF Status, Issue
    <3>2. Told(r, a)
      BY <1>4, <2>1, <3>1 DEF Told
    <3> QED  BY <1>2, <2>1, <3>2 DEF GatewayTypeOK
  <2> QED  BY <1>2, <1>3, <1>4, <2>1, <2>2 DEF Login, GatewayTypeOK
<1>5. CASE route[r] = "create" /\ Create(r)
  <2>1. CASE Says(r, "error", None) /\ UNCHANGED profile
    BY <1>2, <1>3, <2>1 DEF GatewayTypeOK
  <2>2. CASE profile # None /\ Says(r, "conflict", None) /\ UNCHANGED profile
    <3>1. PICK a \in Answer : a.status = "conflict" /\ a.at = None /\ answer' = [answer EXCEPT ![r] = a]
      BY <2>2, SaysStatus DEF Status
    <3>2. Told(r, a)
      BY <1>5, <2>2, <3>1 DEF Told
    <3> QED  BY <1>2, <2>2, <3>2 DEF GatewayTypeOK
  <2>3. CASE CreateProfile(r)
    <3>1. /\ Kept(clock) \in Nat /\ Kept(clock) <= clock + Second
          /\ 2 * Kept(clock) - 2 * clock \in (-Second)..Second
      BY <1>1, RoundingIsClose
    <3>2. profile = None /\ profile' = [by |-> r, at |-> Kept(clock)]
      BY <2>3 DEF CreateProfile, Insert
    <3>3. profile' \in Profile /\ profile'.by = r /\ profile'.at = Kept(clock)
      <4>1. Kept(clock) \in 0..(MaxClock + Second)
        BY <1>1, <3>1
      <4> QED  BY <3>2, <4>1 DEF Profile
    <3>4. profile' # None
      BY <3>3, NoneIsNoRecord
    <3>5. CASE Says(r, "created", clock)
      <4>1. PICK a \in Answer : a.status = "created" /\ a.at = clock
                                /\ answer' = [answer EXCEPT ![r] = a]
        BY <1>1, <3>5, SaysAnswer DEF Status
      <4>2. Told(r, a)
        BY <1>5, <3>1, <3>2, <3>3, <3>4, <4>1 DEF Told
      <4> QED  BY <1>2, <3>3, <4>2
    <3>6. CASE Says(r, "error", None)
      <4>1. PICK a \in Answer : a.status = "error" /\ a.at = None /\ answer' = [answer EXCEPT ![r] = a]
        BY <3>6, SaysStatus DEF Status
      <4>2. Told(r, a)
        BY <1>5, <3>2, <4>1 DEF Told
      <4> QED  BY <1>2, <3>3, <4>2
    <3> QED  BY <2>3, <3>5, <3>6 DEF CreateProfile
  <2> QED  BY <1>5, <2>1, <2>2, <2>3 DEF Create
<1>6. CASE route[r] = "get" /\ Get(r)
  <2>1. UNCHANGED profile
    BY <1>6 DEF Get
  <2>2. CASE profile = None /\ Says(r, "missing", None)
    <3>1. PICK a \in Answer : a.status = "missing" /\ a.at = None /\ answer' = [answer EXCEPT ![r] = a]
      BY <2>2, SaysStatus DEF Status
    <3>2. Told(r, a)
      BY <1>6, <2>1, <3>1 DEF Told
    <3> QED  BY <1>2, <2>1, <3>2 DEF GatewayTypeOK
  <2>3. CASE profile # None /\ Says(r, "ok", profile.at)
    <3>1. profile.at \in 0..(MaxClock + Second)
      BY <2>3 DEF GatewayTypeOK, Profile
    <3>2. PICK a \in Answer : a.status = "ok" /\ a.at = profile.at /\ answer' = [answer EXCEPT ![r] = a]
      BY <2>3, <3>1, SaysAnswer DEF Status
    <3>3. Told(r, a)
      BY <1>6, <2>1, <2>3, <3>2 DEF Told
    <3> QED  BY <1>2, <2>1, <3>3 DEF GatewayTypeOK
  <2> QED  BY <1>2, <1>3, <1>6, <2>1, <2>2, <2>3 DEF Get, GetProfile, GatewayTypeOK
<1>7. CASE route[r] = "roll" /\ Roll(r)
  <2>1. UNCHANGED profile
    BY <1>7 DEF Roll
  <2>2. CASE RequireAuth(r) /\ Says(r, "ok", None)
    <3>1. PICK a \in Answer : a.status = "ok" /\ a.at = None /\ answer' = [answer EXCEPT ![r] = a]
      BY <2>2, SaysStatus DEF Status
    <3>2. Told(r, a)
      BY <1>7, <2>1, <2>2, <3>1 DEF Told, RequireAuth
    <3> QED  BY <1>2, <2>1, <3>2 DEF GatewayTypeOK
  <2>3. CASE ~RequireAuth(r) /\ Says(r, "unauthorized", None)
    <3>1. PICK a \in Answer : a.status = "unauthorized" /\ a.at = None /\ answer' = [answer EXCEPT ![r] = a]
      BY <2>3, SaysStatus DEF Status
    <3>2. Told(r, a)
      BY <1>7, <2>1, <2>3, <3>1 DEF Told, RequireAuth
    <3> QED  BY <1>2, <2>1, <3>2 DEF GatewayTypeOK
  <2> QED  BY <1>7, <2>2, <2>3 DEF Roll
<1> QED  BY <1>4, <1>5, <1>6, <1>7 DEF Handle

-----------------------------------------------------------------------------
(* The steps of the routes *)

LEMMA GateTypes ==
  ASSUME GateInv
  PROVE  /\ MaxStall \in Nat /\ Second \in Nat \ {0} /\ TokenTTL \in Nat
         /\ \A r \in Request : bearer[r] # None => bearer[r] \in Nat
<1>1. MaxClock \in Nat
  BY IdempotencyAssumption
<1>2. \A r \in Request : bearer[r] \in (0..MaxClock) \union {None}
  BY DEF GateInv, GatewayTypeOK, Instant
<1>3. \A i \in 0..MaxClock : i \in Nat
  BY <1>1
<1> QED  BY <1>2, <1>3, GatewayAssumption

LEMMA GateInit == GatewayInit => GateInv
<1> SUFFICES ASSUME GatewayInit PROVE GateInv
  OBVIOUS
<1>1. IdemInv /\ Init
  BY IdemInit DEF GatewayInit
<1>2. GatewayTypeOK
  BY <1>1 DEF IdemInv, GatewayInit, GatewayTypeOK, Route
<1>3. \A r \in Request : /\ answer[r] = None /\ bearer[r] = None
                         /\ reply[r] = None /\ phase[r] = "new"
  BY DEF GatewayInit, Init
<1>4. \A k \in ClientKey : store[Slot(k)] = None
  BY <1>1, Slots DEF Init
<1>5. AnswerInv /\ LifeInv /\ TokenKeepsPromise /\ ProfileInv
  BY <1>3, <1>4, IdempotencyAssumption DEF AnswerInv, LifeInv, TokenKeepsPromise, ProfileInv,
     ProfileAgrees
<1> QED  BY <1>1, <1>2, <1>5 DEF GateInv

\* A step of the middleware in which no handler answers.
LEMMA UntouchedStep ==
  ASSUME GateInv, IdemInv', Untouched, LifeInv', clock' = clock,
         \A q \in Request : /\ ranAt[q] # None => ranAt'[q] = ranAt[q]
                            /\ reply'[q] = q => reply[q] = q
                            /\ phase'[q] = "save" => phase[q] = "save"
  PROVE  GateInv'
<1>1. UNCHANGED <<auth, db, route, bearer, answer, profile>>
  BY DEF Untouched, gatewayVars
<1>2. GatewayTypeOK'
  BY <1>1 DEF GateInv, GatewayTypeOK, IdemInv
<1>3. AnswerInv'
  BY <1>1 DEF GateInv, IdemInv, PhaseInv, AnswerInv
<1>4. TokenKeepsPromise'
  BY <1>1 DEF GateInv, AnswerInv, TokenKeepsPromise
<1>5. ProfileInv'
  BY <1>1 DEF GateInv, ProfileInv, ProfileAgrees
<1> QED  BY <1>2, <1>3, <1>4, <1>5 DEF GateInv

\* Every entry of the store was there before, or is the one a Save has put there.
LEMMA LifeKept ==
  ASSUME GateInv, IdemInv',
         \A q \in Request : ranAt[q] # None => ranAt'[q] = ranAt[q],
         \A k \in ClientKey :
            \/ store'[Slot(k)] = store[Slot(k)]
            \/ store'[Slot(k)] = None
            \/ \E r \in Request : /\ phase[r] = "save"
                                  /\ store'[Slot(k)] = [response |-> r, expiresAt |-> Expiry]
  PROVE  LifeInv'
<1> SUFFICES ASSUME NEW k \in ClientKey, store'[Slot(k)] # None
             PROVE  store'[Slot(k)].expiresAt
                      <= ranAt'[store'[Slot(k)].response] + MaxStall + TTL
  BY DEF LifeInv
<1>1. CASE store'[Slot(k)] = store[Slot(k)]
  <2>1. store[Slot(k)].response \in Request /\ ranAt[store[Slot(k)].response] # None
    BY <1>1, Types DEF GateInv, IdemInv, StoreInv
  <2> QED  BY <1>1, <2>1 DEF GateInv, LifeInv
<1>2. CASE \E r \in Request : /\ phase[r] = "save"
                              /\ store'[Slot(k)] = [response |-> r, expiresAt |-> Expiry]
  <2>1. PICK r \in Request : /\ phase[r] = "save"
                             /\ store'[Slot(k)] = [response |-> r, expiresAt |-> Expiry]
    BY <1>2
  <2>2. ranAt[r] # None /\ clock - ranAt[r] <= MaxStall
    BY <2>1 DEF GateInv, IdemInv, PhaseInv, AnswerInv
  <2>3. ranAt[r] \in Nat /\ clock \in Nat /\ TTL \in Nat /\ MaxStall \in Nat
    BY <2>2, Types, GateTypes DEF GateInv, IdemInv
  <2>4. clock + TTL <= ranAt[r] + MaxStall + TTL
    BY <2>2, <2>3
  <2> QED  BY <2>1, <2>2, <2>4 DEF Expiry
<1> QED  BY <1>1, <1>2

LEMMA MiddlewareStep ==
  ASSUME GateInv, Untouched,
         NEW r \in Request,
         \/ Replay(r) \/ Miss(r) \/ GetFails(r) \/ Panic(r) \/ Save(r) \/ SaveFails(r)
  PROVE  GateInv'
<1>1. IdemInv /\ TypeOK
  BY DEF GateInv, IdemInv
<1>2. IdemInv'
  BY <1>1, ReplayStep, MissStep, GetFailsStep, PanicStep, SaveStep, SaveFailsStep
<1>3. clock' = clock
  BY DEF Replay, Miss, GetFails, Panic, Save, SaveFails
<1>4. phase[r] \in {"lookup", "run", "save"} /\ ckey[r] \in ClientKey
  BY <1>1 DEF Replay, Miss, GetFails, Panic, Save, SaveFails, IdemInv, PhaseInv
<1>5. \A q \in Request : ranAt[q] # None => ranAt'[q] = ranAt[q]
  BY <1>1 DEF Replay, Miss, GetFails, Panic, Save, SaveFails, TypeOK, IdemInv, PhaseInv
<1>6. \A q \in Request : phase'[q] = "save" => phase[q] = "save"
  BY <1>1 DEF Replay, Miss, GetFails, Panic, Save, SaveFails, TypeOK
<1>7. \A q \in Request : reply'[q] = q => reply[q] = q
  <2>1. CASE Replay(r)
    <3> DEFINE q0 == store[Slot(ckey[r])].response
    <3>1. q0 \in Request /\ ranAt[q0] # None /\ ranAt[r] = None
      BY <1>1, <1>4, <2>1, Types, ScopedIsSlot DEF Replay, Hit, IdemInv, StoreInv, PhaseInv
    <3>2. reply' = [reply EXCEPT ![r] = q0]
      BY <2>1, ScopedIsSlot DEF Replay
    <3> QED  BY <1>1, <3>1, <3>2 DEF TypeOK
  <2>2. CASE Panic(r)
    BY <1>1, <2>2, Types DEF Panic, TypeOK
  <2>3. CASE UNCHANGED reply
    BY <2>3
  <2> QED  BY <2>1, <2>2, <2>3 DEF Miss, GetFails, Save, SaveFails
<1>8. \A k \in ClientKey :
        \/ store'[Slot(k)] = store[Slot(k)]
        \/ store'[Slot(k)] = None
        \/ \E q \in Request : /\ phase[q] = "save"
                              /\ store'[Slot(k)] = [response |-> q, expiresAt |-> Expiry]
  <2> SUFFICES ASSUME NEW k \in ClientKey
               PROVE  \/ store'[Slot(k)] = store[Slot(k)]
                      \/ store'[Slot(k)] = None
                      \/ /\ phase[r] = "save"
                         /\ store'[Slot(k)] = [response |-> r, expiresAt |-> Expiry]
    OBVIOUS
  <2>1. CASE Miss(r)
    BY <1>1, <1>4, <2>1, Slots, ScopedIsSlot DEF Miss, TypeOK
  <2>2. CASE Save(r)
    BY <1>1, <1>4, <2>2, Slots, ScopedIsSlot DEF Save, TypeOK
  <2>3. CASE UNCHANGED store
    BY <2>3
  <2> QED  BY <2>1, <2>2, <2>3 DEF Replay, GetFails, Panic, SaveFails
<1>9. LifeInv'
  BY <1>2, <1>5, <1>8, LifeKept
<1> QED  BY <1>2, <1>3, <1>5, <1>6, <1>7, <1>9, UntouchedStep

LEMMA SweepGateStep == ASSUME GateInv, Sweep, Untouched PROVE GateInv'
<1>1. IdemInv /\ TypeOK /\ IdemInv'
  BY SweepStep DEF GateInv, IdemInv
<1>2. UNCHANGED <<clock, phase, reply, ranAt>>
  BY DEF Sweep
<1>3. \A k \in ClientKey : store'[Slot(k)] = store[Slot(k)] \/ store'[Slot(k)] = None
  BY Slots DEF Sweep
<1>4. LifeInv'
  BY <1>1, <1>2, <1>3, LifeKept
<1> QED  BY <1>1, <1>2, <1>4, UntouchedStep

\* The answer of a handler is in the store before MaxStall has passed.
LEMMA PassStep == ASSUME GateInv, Pass PROVE GateInv'
<1>1. IdemInv'
  BY TickStep DEF GateInv, Pass
<1>2. /\ UNCHANGED <<store, phase, reply, ranAt, auth, db, route, bearer, answer, profile>>
      /\ clock' = clock + 1 /\ clock \in Nat
  BY Types DEF Pass, Tick, Untouched, gatewayVars, GateInv, IdemInv
<1>3. GatewayTypeOK'
  BY <1>1, <1>2 DEF GateInv, GatewayTypeOK, IdemInv
<1>4. AnswerInv'
  <2> SUFFICES ASSUME NEW r \in Request
               PROVE  /\ bearer[r] # None => bearer[r] <= clock'
                      /\ phase[r] = "save" => clock' - ranAt[r] <= MaxStall
    BY <1>2 DEF GateInv, AnswerInv
  <2>1. bearer[r] # None => bearer[r] <= clock'
    BY <1>2, GateTypes DEF GateInv, AnswerInv
  <2>2. phase[r] = "save" => clock' - ranAt[r] <= MaxStall
    <3> HAVE phase[r] = "save"
    <3>1. ranAt[r] \in Nat /\ clock - ranAt[r] < MaxStall /\ MaxStall \in Nat
      BY Types, GateTypes DEF Pass, GateInv, IdemInv, PhaseInv
    <3> QED  BY <1>2, <3>1
  <2> QED  BY <2>1, <2>2
<1>5. LifeInv' /\ TokenKeepsPromise' /\ ProfileInv'
  BY <1>2 DEF GateInv, LifeInv, TokenKeepsPromise, ProfileInv, ProfileAgrees
<1> QED  BY <1>1, <1>3, <1>4, <1>5 DEF GateInv

\* A request carries a token that a login was answered with, so one issued before.
LEMMA SendStep == ASSUME GateInv, NEW r \in Request, Send(r) PROVE GateInv'
<1>1. PICK k \in ClientKey \union {NoKey}, rt \in Route, b \in Received \union {None} :
        /\ Arrive(r, k)
        /\ route' = [route EXCEPT ![r] = rt]
        /\ bearer' = [bearer EXCEPT ![r] = b]
        /\ UNCHANGED <<auth, db, answer, profile>>
  BY DEF Send
<1>2. IdemInv'
  BY <1>1, ArriveStep DEF GateInv
<1>3. /\ UNCHANGED <<clock, store, reply, ranAt>> /\ phase[r] = "new"
      /\ ranAt[r] = None /\ reply[r] = None /\ answer[r] = None
      /\ \A q \in Request : phase'[q] = "save" => phase[q] = "save"
  BY <1>1 DEF Arrive, GateInv, IdemInv, TypeOK, PhaseInv, AnswerInv
<1>4. b # None => b \in Instant /\ b <= clock
  <2> SUFFICES ASSUME b \in Received PROVE b \in Instant /\ b <= clock
    OBVIOUS
  <2>1. PICK q \in Request : /\ reply[q] \in Request /\ route[reply[q]] = "login"
                             /\ answer[reply[q]].status = "ok" /\ b = answer[reply[q]].at
    BY DEF Received, Answered
  <2>2. reply[reply[q]] = reply[q]
    BY <2>1 DEF GateInv, IdemInv, PhaseInv
  <2>3. answer[reply[q]] # None /\ ranAt[reply[q]] # None
    BY <2>1, <2>2 DEF GateInv, AnswerInv
  <2>4. b = ranAt[reply[q]]
    BY <2>1, <2>3 DEF GateInv, AnswerInv
  <2>5. b \in Nat /\ b <= clock /\ clock \in Nat /\ clock <= MaxClock /\ MaxClock \in Nat
    BY <2>1, <2>3, <2>4, Types DEF GateInv, IdemInv, PhaseInv
  <2> QED  BY <2>5 DEF Instant
<1>5. /\ route' \in [Request -> Route] /\ bearer' \in [Request -> Instant \union {None}]
      /\ route'[r] = rt /\ bearer'[r] = b
      /\ \A q \in Request \ {r} : route'[q] = route[q] /\ bearer'[q] = bearer[q]
  BY <1>1, <1>4 DEF GateInv, GatewayTypeOK
<1>6. GatewayTypeOK'
  BY <1>1, <1>2, <1>5 DEF GateInv, GatewayTypeOK, IdemInv
<1>7. AnswerInv'
  BY <1>1, <1>3, <1>4, <1>5 DEF GateInv, AnswerInv
<1>8. LifeInv'
  BY <1>3 DEF GateInv, LifeInv
<1>9. TokenKeepsPromise'
  BY <1>1, <1>3, <1>5 DEF GateInv, TokenKeepsPromise
<1>10. ProfileInv'
  BY <1>1, <1>3, <1>5 DEF GateInv, ProfileInv, ProfileAgrees
<1> QED  BY <1>2, <1>6, <1>7, <1>8, <1>9, <1>10 DEF GateInv

\* Validate, against the clock: nothing is honoured at or after the expiry its
\* owner was told, nothing is refused more than a second before it.
LEMMA ValidateIsFair ==
  ASSUME NEW t \in Nat, clock \in Nat, t <= clock
  PROVE  /\ Validate(t) => clock < t + TokenTTL
         /\ ~Validate(t) => clock > t + TokenTTL - Second
<1>1. TokenTTL \in Nat /\ Second \in Nat /\ t + TokenTTL \in Nat
  BY GatewayAssumption
<1>2. /\ NumericDate(t) \in Nat /\ NumericDate(t) <= t
      /\ NumericDate(t + TokenTTL) \in Nat
      /\ NumericDate(t + TokenTTL) <= t + TokenTTL
      /\ t + TokenTTL < NumericDate(t + TokenTTL) + Second
  BY <1>1, CutIsShort
<1> QED  BY <1>1, <1>2 DEF Validate

LEMMA HandleStep ==
  ASSUME GateInv, NEW r \in Request, (Bypass(r) \/ Run(r)), Handle(r) PROVE GateInv'
<1>1. IdemInv /\ IdemInv' /\ TypeOK
  BY BypassStep, RunStep DEF GateInv, IdemInv
<1>2. /\ UNCHANGED <<clock, store>> /\ phase[r] \in {"bypass", "run"}
      /\ reply'[r] = r /\ ranAt'[r] = clock
      /\ \A q \in Request \ {r} :
           phase'[q] = phase[q] /\ reply'[q] = reply[q] /\ ranAt'[q] = ranAt[q]
  BY <1>1 DEF Bypass, Run, TypeOK
<1>3. ranAt[r] = None /\ answer[r] = None /\ clock \in Nat
  BY <1>1, <1>2, Types DEF GateInv, IdemInv, PhaseInv, AnswerInv
<1>4. /\ \E a \in Answer : Told(r, a)
      /\ profile' \in Profile \union {None}
      /\ UNCHANGED <<auth, db, route, bearer>>
  BY <1>1, HandlerAnswers DEF GateInv
<1>5. PICK a \in Answer : Told(r, a)
  BY <1>4
<1>6. /\ answer' \in [Request -> Answer \union {None}] /\ answer'[r] = a
      /\ \A q \in Request \ {r} : answer'[q] = answer[q]
  BY <1>5 DEF Told, GateInv, GatewayTypeOK
<1>7. a # None
  BY NoneIsNoRecord
<1>8. GatewayTypeOK'
  BY <1>1, <1>4, <1>6 DEF GateInv, GatewayTypeOK, IdemInv
<1>9. AnswerInv'
  <2>1. clock - clock <= MaxStall
    BY <1>3, GateTypes
  <2>2. ASSUME NEW q \in Request \ {r}
        PROVE  /\ answer'[q] # None => ranAt'[q] # None
               /\ reply'[q] = q => answer'[q] # None
               /\ bearer'[q] # None => bearer'[q] <= clock'
               /\ route'[q] = "login" /\ answer'[q] # None /\ answer'[q].status = "ok"
                     => answer'[q].at = ranAt'[q]
               /\ phase'[q] = "save" => clock' - ranAt'[q] <= MaxStall
    BY <1>2, <1>4, <1>6, <2>2 DEF GateInv, AnswerInv
  <2>3. /\ answer'[r] # None => ranAt'[r] # None
        /\ reply'[r] = r => answer'[r] # None
        /\ bearer'[r] # None => bearer'[r] <= clock'
        /\ route'[r] = "login" /\ answer'[r] # None /\ answer'[r].status = "ok"
              => answer'[r].at = ranAt'[r]
        /\ phase'[r] = "save" => clock' - ranAt'[r] <= MaxStall
    BY <1>2, <1>3, <1>4, <1>5, <1>6, <1>7, <2>1, Types DEF GateInv, AnswerInv, Told, IdemInv
  <2> QED  BY <2>2, <2>3 DEF AnswerInv
<1>10. LifeInv'
  <2>1. \A q \in Request : ranAt[q] # None => ranAt'[q] = ranAt[q]
    BY <1>2, <1>3
  <2> QED  BY <1>1, <1>2, <2>1, LifeKept
<1>11. TokenKeepsPromise'
  <2>1. ASSUME auth, route[r] = "roll", bearer[r] # None
        PROVE  /\ a.status = "unauthorized" => clock > bearer[r] + TokenTTL - Second
               /\ a.status = "ok" => clock < bearer[r] + TokenTTL
    <3>1. bearer[r] \in Nat /\ bearer[r] <= clock
      BY <2>1, GateTypes DEF GateInv, AnswerInv
    <3> QED  BY <1>3, <1>5, <2>1, <3>1, ValidateIsFair DEF Told
  <2> QED  BY <1>2, <1>4, <1>6, <2>1 DEF GateInv, TokenKeepsPromise
<1>12. ProfileInv'
  <2>1. \A q \in Request \ {r} : answer[q] # None =>
          /\ answer[q].status = "created" =>
                /\ profile' # None /\ profile'.by = q
                /\ 2 * profile'.at - 2 * answer[q].at \in (-Second)..Second
          /\ answer[q].status = "conflict" => profile' # None
          /\ route[q] = "get" /\ answer[q].status = "ok" =>
                profile' # None /\ answer[q].at = profile'.at
    BY <1>5 DEF Told, GateInv, ProfileInv, ProfileAgrees
  <2> QED  BY <1>4, <1>5, <1>6, <2>1 DEF ProfileInv, ProfileAgrees, Told
<1> QED  BY <1>1, <1>8, <1>9, <1>10, <1>11, <1>12 DEF GateInv

LEMMA GateNext == GateInv /\ [GatewayNext]_allVars => GateInv'
<1> SUFFICES ASSUME GateInv, [GatewayNext]_allVars PROVE GateInv'
  OBVIOUS
<1>1. CASE UNCHANGED allVars
  <2>1. UNCHANGED vars /\ Untouched
    BY <1>1 DEF allVars, Untouched
  <2>2. UNCHANGED <<clock, store, phase, reply, ranAt>>
    BY <2>1 DEF vars
  <2>3. IdemInv'
    BY <2>1, IdemNext DEF GateInv
  <2>4. LifeInv'
    BY <2>2 DEF GateInv, LifeInv
  <2> QED  BY <2>1, <2>2, <2>3, <2>4, UntouchedStep
<1>2. CASE GatewayNext
  BY <1>2, SendStep, HandleStep, MiddlewareStep, SweepGateStep, PassStep DEF GatewayNext
<1> QED  BY <1>1, <1>2

LEMMA GateSafety == GatewaySpec => []GateInv
BY GateInit, GateNext, PTL DEF GatewaySpec

\* The middleware, the tokens, the answers and the profile keep their types.
THEOREM GatewayTypeCorrect == GatewaySpec => []GatewayTypeOK
<1>1. GateInv => GatewayTypeOK
  BY DEF GateInv
<1> QED  BY <1>1, GateSafety, PTL

\* What Validate does with a token is what its owner was told at login, cut to the
\* second, for every lifetime and every length of a second in ticks.
THEOREM TokensKeepPromise == GatewaySpec => []TokenKeepsPromise
<1>1. GateInv => TokenKeepsPromise
  BY DEF GateInv
<1> QED  BY <1>1, GateSafety, PTL

\* The unique insert elects one creator of a profile; conflicts and Gets agree
\* with it, and the stored created_at is within half a second of what it was told.
THEOREM ProfilesAgree == GatewaySpec => []ProfileAgrees
<1>1. GateInv => ProfileAgrees
  BY DEF GateInv, ProfileInv
<1> QED  BY <1>1, GateSafety, PTL

\* Whether the handler issued it just now or the store replays it, the token a
\* login is answered with is honoured at that moment.
THEOREM LoginsAreUsable == GatewaySpec => LoginUsable
<1> DEFINE Usable(r) ==
             ~Answered(r) /\ Answered(r)' /\ route[r] = "login" =>
                LET q == reply'[r]
                IN  route[q] = "login" /\ answer'[q].status = "ok" => Validate(answer'[q].at)
<1>1. ASSUME GateInv, [GatewayNext]_allVars, GateInv' PROVE [\A r \in Request : Usable(r)]_allVars
  <2> SUFFICES ASSUME GatewayNext, NEW r \in Request, ~Answered(r), Answered(r)',
                      route[r] = "login", route[reply'[r]] = "login",
                      answer'[reply'[r]].status = "ok"
               PROVE  Validate(answer'[reply'[r]].at)
    BY <1>1
  <2> DEFINE q == reply'[r]
             t == answer'[q].at
  <2>1. IdemInv /\ TypeOK /\ IdemInv' /\ AnswerInv /\ AnswerInv' /\ LifeInv
    BY <1>1 DEF GateInv, IdemInv
  <2>2. \/ (Bypass(r) \/ Run(r)) /\ Handle(r)
        \/ Replay(r) /\ Untouched
    <3>1. reply'[r] # reply[r]
      BY DEF Answered
    <3>2. PICK p \in Request : \/ (Bypass(p) \/ Run(p)) /\ Handle(p)
                               \/ Replay(p) /\ Untouched
                               \/ Panic(p)
      BY <3>1 DEF GatewayNext, Send, Arrive, Miss, GetFails, Save, SaveFails, Sweep, Pass, Tick
    <3>3. p = r
      BY <2>1, <3>1, <3>2 DEF Bypass, Run, Replay, Panic, TypeOK
    <3>4. ~Panic(r)
      BY <2>1, IdempotencyAssumption DEF Panic, Answered, TypeOK
    <3> QED  BY <3>2, <3>3, <3>4
  <2>3. clock \in Nat /\ clock' = clock
    BY <2>1, <2>2, Types DEF Bypass, Run, Replay
  <2>4. t \in Nat /\ t <= clock /\ clock <= t + MaxStall + TTL
    <3>1. CASE Replay(r) /\ Untouched
      <4>1. phase[r] = "lookup" /\ ckey[r] \in ClientKey /\ Hit(Slot(ckey[r]))
            /\ q = store[Slot(ckey[r])].response /\ answer' = answer /\ ranAt' = ranAt
        BY <2>1, <3>1, ScopedIsSlot DEF Replay, Untouched, gatewayVars, IdemInv, PhaseInv, TypeOK
      <4>2. q \in Request /\ reply[q] = q /\ ranAt[q] # None
        BY <2>1, <4>1, Types DEF Hit, IdemInv, StoreInv
      <4>3. t = ranAt[q] /\ t <= clock /\ t \in Nat
        BY <2>1, <4>1, <4>2, Types DEF AnswerInv, IdemInv, PhaseInv
      <4>4. /\ clock <= store[Slot(ckey[r])].expiresAt
            /\ store[Slot(ckey[r])].expiresAt \in Nat
            /\ store[Slot(ckey[r])].expiresAt <= ranAt[q] + MaxStall + TTL
        BY <2>1, <2>3, <4>1, Types DEF Hit, Unexpired, LifeInv
      <4>5. MaxStall \in Nat /\ TTL \in Nat
        BY <2>1, Types, GatewayAssumption
      <4> QED  BY <2>3, <4>3, <4>4, <4>5
    <3>2. CASE (Bypass(r) \/ Run(r)) /\ Handle(r)
      <4>1. q = r /\ ranAt'[r] = clock /\ route' = route
        BY <2>1, <3>2 DEF Bypass, Run, Handle, TypeOK
      <4>2. answer'[r] # None
        BY <2>1, <4>1 DEF AnswerInv
      <4>3. t = clock
        BY <2>1, <4>1, <4>2 DEF AnswerInv
      <4>4. MaxStall \in Nat /\ TTL \in Nat
        BY <2>1, Types, GatewayAssumption
      <4> QED  BY <2>3, <4>3, <4>4
    <3> QED  BY <2>2, <3>1, <3>2
  <2> HIDE DEF t
  <2>5. /\ TokenTTL \in Nat /\ Second \in Nat /\ MaxStall \in Nat /\ TTL \in Nat
        /\ TokenTTL >= TTL + MaxStall + Second
    BY <2>1, Types, GatewayAssumption, TokenOutlivesAnswer
  <2>6. ~(clock > t + TokenTTL - Second)
    BY <2>3, <2>4, <2>5
  <2>7. Validate(t)
    BY <2>3, <2>4, <2>6, ValidateIsFair
  <2> QED  BY <2>7 DEF t
<1>2. GatewaySpec => [][\A r \in Request : Usable(r)]_allVars
  BY <1>1, GateSafety, PTL DEF GatewaySpec
<1> QED  BY <1>2 DEF LoginUsable

-----------------------------------------------------------------------------
(* The middleware's results, for the routes as they are mounted *)

\* The promises of Idempotency hold behind the routes, whatever their handlers do.
THEOREM GatewayIsIdempotent ==
  GatewaySpec => []ReplayMatchesKey /\ []RerunHasCause /\ FirstStoredWins
BY GatewayImplementsIdempotency, ReplaysMatchKeys, RerunsHaveCause, FirstStoredStays, PTL
==============================================================================
