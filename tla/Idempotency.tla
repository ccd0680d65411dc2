----------------------------- MODULE Idempotency -----------------------------
(***************************************************************************)
(* The Idempotency-Key middleware over its response store.  A keyed write  *)
(* request looks its key up, replays a stored response or runs the         *)
(* handler, and then stores the response unless the key is taken.  The     *)
(* three steps are separate calls: other requests and the clock move in    *)
(* between.                                                                *)
(*                                                                         *)
(* A response is identified by the request whose handler run produced it.  *)
(***************************************************************************)
EXTENDS Integers

CONSTANTS Request,    \* HTTP requests
          ClientKey,  \* values of the Idempotency-Key header
          NoKey,      \* no header, or a GET or HEAD request
          Anon,       \* the scope of a request with no player in its context
          Owner,      \* Owner[r]: the player that r is sent for
          None,       \* no value
          Failed,     \* the 500 that Recoverer writes for a panic
          Backends,   \* stores the server may be configured with
          TTL,        \* lifetime of an entry
          MaxClock    \* bound: ticks of the clock

ASSUME IdempotencyAssumption ==
  /\ NoKey \notin ClientKey /\ DOMAIN Owner = Request
  /\ None \notin Request /\ Failed \notin Request /\ None # Failed
  /\ None \notin Nat /\ None \notin [response : Request, expiresAt : Nat]
  /\ Backends \subseteq {"inmem", "redis"}
  /\ TTL \in Nat \ {0}
  /\ MaxClock \in Nat

VARIABLES backend, \* the store this server uses
          clock,   \* the wall clock
          store,   \* entry of every scoped key: response and expiry, or None
          phase,   \* where a request is
          ckey,    \* its Idempotency-Key
          reply,   \* the response its client gets
          ranAt,   \* when the handler ran for it, None if it did not
          upset    \* history: keys whose requests overlapped or met a failure

vars == <<backend, clock, store, phase, ckey, reply, ranAt, upset>>

ScopedKey == {Anon} \X ClientKey
Entry == [response : Request, expiresAt : 0..(MaxClock + TTL)]

TypeOK ==
  /\ backend \in Backends
  /\ clock \in 0..MaxClock
  /\ store \in [ScopedKey -> Entry \union {None}]
  /\ phase \in [Request -> {"new", "bypass", "lookup", "run", "save", "done"}]
  /\ ckey \in [Request -> ClientKey \union {NoKey}]
  /\ reply \in [Request -> Request \union {None, Failed}]
  /\ ranAt \in [Request -> (0..MaxClock) \union {None}]
  /\ upset \subseteq ClientKey
  /\ \A r \in Request : reply[r] = None <=> phase[r] \notin {"save", "done"}

Init ==
  /\ backend \in Backends
  /\ clock = 0
  /\ store = [s \in ScopedKey |-> None]
  /\ phase = [r \in Request |-> "new"]
  /\ ckey = [r \in Request |-> NoKey]
  /\ reply = [r \in Request |-> None]
  /\ ranAt = [r \in Request |-> None]
  /\ upset = {}

-----------------------------------------------------------------------------
(* The store *)

\* Faulty variant: an entry is served for as long as it is there.
UnexpiredAlways(s) == TRUE

\* Get serves an entry: the in-memory store until now.After(expiresAt), Redis
\* until the key's TTL runs out.
Unexpired(s) == IF backend = "inmem" THEN clock <= store[s].expiresAt
                                     ELSE clock < store[s].expiresAt

\* Faulty variant: Set overwrites whatever is there.
TakenNever(s) == FALSE

\* Set leaves an entry alone: the in-memory store while now.Before(expiresAt),
\* Redis (SET NX) while the key exists.
Taken(s) == store[s] # None /\ clock < store[s].expiresAt

\* Faulty variant: the TTL is cut to a shorter unit.
ExpiryShort == clock + TTL - 1

Expiry == clock + TTL

Hit(s) == store[s] # None /\ Unexpired(s)

\* Sweep drops what Get would not serve any more.
Sweep ==
  /\ backend = "inmem"
  /\ store' = [s \in ScopedKey |-> IF Hit(s) THEN store[s] ELSE None]
  /\ UNCHANGED <<backend, clock, phase, ckey, reply, ranAt, upset>>

-----------------------------------------------------------------------------
(* The middleware *)

\* The middleware is mounted outside RequireAuth, the only code that puts a
\* player into the context.
PlayerInCtx(r) == None

\* Faulty variant: the scope is the player alone.
ScopedWithoutKey(r) == <<Anon, CHOOSE k \in ClientKey : TRUE>>

scopedIdempotencyKey(r) ==
  <<IF PlayerInCtx(r) # None THEN PlayerInCtx(r) ELSE Anon, ckey[r]>>

Active(k) == {r \in Request : ckey[r] = k /\ phase[r] \notin {"new", "done"}}

Disturbed(r) == upset' = upset \union {ckey[r]}

Arrive(r, k) ==
  /\ phase[r] = "new"
  /\ ckey' = [ckey EXCEPT ![r] = k]
  /\ phase' = [phase EXCEPT ![r] = IF k = NoKey THEN "bypass" ELSE "lookup"]
  /\ upset' = IF k # NoKey /\ Active(k) # {} THEN upset \union {k} ELSE upset
  /\ UNCHANGED <<backend, clock, store, reply, ranAt>>

\* No key, or not a write: the handler runs and the store is not touched.
Bypass(r) ==
  /\ phase[r] = "bypass"
  /\ phase' = [phase EXCEPT ![r] = "done"]
  /\ reply' = [reply EXCEPT ![r] = r]
  /\ ranAt' = [ranAt EXCEPT ![r] = clock]
  /\ UNCHANGED <<backend, clock, store, ckey, upset>>

Replay(r) ==
  /\ phase[r] = "lookup"
  /\ Hit(scopedIdempotencyKey(r))
  /\ reply' = [reply EXCEPT ![r] = store[scopedIdempotencyKey(r)].response]
  /\ phase' = [phase EXCEPT ![r] = "done"]
  /\ UNCHANGED <<backend, clock, store, ckey, ranAt, upset>>

\* Get finds nothing, or deletes the expired entry it finds.
Miss(r) ==
  /\ phase[r] = "lookup"
  /\ ~Hit(scopedIdempotencyKey(r))
  /\ store' = [store EXCEPT ![scopedIdempotencyKey(r)] = None]
  /\ phase' = [phase EXCEPT ![r] = "run"]
  /\ UNCHANGED <<backend, clock, ckey, reply, ranAt, upset>>

\* A failing Get, of Redis, does not stop the request.
GetFails(r) ==
  /\ backend = "redis" /\ phase[r] = "lookup"
  /\ phase' = [phase EXCEPT ![r] = "run"]
  /\ Disturbed(r)
  /\ UNCHANGED <<backend, clock, store, ckey, reply, ranAt>>

\* The handler runs; recordedWriter passes its response on while recording it.
Run(r) ==
  /\ phase[r] = "run"
  /\ phase' = [phase EXCEPT ![r] = "save"]
  /\ reply' = [reply EXCEPT ![r] = r]
  /\ ranAt' = [ranAt EXCEPT ![r] = clock]
  /\ UNCHANGED <<backend, clock, store, ckey, upset>>

\* The handler panics: Recoverer, outside this middleware, answers and nothing
\* is stored.
Panic(r) ==
  /\ phase[r] = "run"
  /\ phase' = [phase EXCEPT ![r] = "done"]
  /\ reply' = [reply EXCEPT ![r] = Failed]
  /\ ranAt' = [ranAt EXCEPT ![r] = clock]
  /\ Disturbed(r)
  /\ UNCHANGED <<backend, clock, store, ckey>>

Save(r) ==
  /\ phase[r] = "save"
  /\ store' = IF Taken(scopedIdempotencyKey(r)) THEN store
              ELSE [store EXCEPT ![scopedIdempotencyKey(r)] =
                      [response |-> r, expiresAt |-> Expiry]]
  /\ phase' = [phase EXCEPT ![r] = "done"]
  /\ UNCHANGED <<backend, clock, ckey, reply, ranAt, upset>>

\* A failing Set, of Redis, is logged; the client already has its response.
SaveFails(r) ==
  /\ backend = "redis" /\ phase[r] = "save"
  /\ phase' = [phase EXCEPT ![r] = "done"]
  /\ Disturbed(r)
  /\ UNCHANGED <<backend, clock, store, ckey, reply, ranAt>>

Tick ==
  /\ clock < MaxClock
  /\ clock' = clock + 1
  /\ UNCHANGED <<backend, store, phase, ckey, reply, ranAt, upset>>

Next ==
  \/ \E r \in Request : \/ \E k \in ClientKey \union {NoKey} : Arrive(r, k)
                        \/ Bypass(r) \/ Replay(r) \/ Miss(r) \/ GetFails(r)
                        \/ Run(r) \/ Panic(r) \/ Save(r) \/ SaveFails(r)
  \/ Sweep
  \/ Tick

Spec == Init /\ [][Next]_vars

-----------------------------------------------------------------------------
(* Properties *)

Replayed(r) == reply[r] \notin {None, Failed, r}

\* What is replayed is the response of a handler run for the same
\* Idempotency-Key, and the request it is replayed to has not run the handler
\* itself: a key never serves another key's response.  Whose request that run
\* was for is left open: see ReplayStaysWithPlayer.
ReplayMatchesKey ==
  \A r \in Request : Replayed(r) =>
     /\ ckey[r] # NoKey /\ ckey[reply[r]] = ckey[r]
     /\ ranAt[reply[r]] # None /\ ranAt[r] = None

Apart(r, q) == ranAt[r] - ranAt[q] >= TTL \/ ranAt[q] - ranAt[r] >= TTL

Duplicates(r, q) == r # q /\ ckey[r] = ckey[q] /\ ckey[r] # NoKey

\* A handler runs twice for one key within a TTL only if requests with that key
\* overlapped, a lookup or a save failed, or a handler panicked: a client that
\* retries after the answer, over a store that works, is executed once.
RerunHasCause ==
  \A r, q \in Request :
     Duplicates(r, q) /\ ranAt[r] # None /\ ranAt[q] # None
        => Apart(r, q) \/ ckey[r] \in upset


\* The comment on Idempotency and the API document: other users may use the same
\* key without a collision, so that no player is given another's response.
ReplayStaysWithPlayer ==
  \A r \in Request : Replayed(r) => Owner[reply[r]] = Owner[r]

FirstStays(s) ==
  /\ clock' < store[s].expiresAt => store'[s] = store[s]
  /\ backend = "inmem" /\ clock' = store[s].expiresAt =>
        \/ store'[s] = store[s]
        \/ store'[s] # None /\ store'[s].expiresAt = clock' + TTL

\* The first response wins: until an entry expires no Set, sweep or lookup of
\* another request replaces or removes it, so all its replays are the same.  At
\* the instant it expires the in-memory Get still serves it: then nothing removes
\* it either, and a Set that replaces it does so for another whole TTL.
FirstStoredWins == [][\A s \in ScopedKey : store[s] # None => FirstStays(s)]_vars
==============================================================================
