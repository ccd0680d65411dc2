------------------------------ MODULE RateLimit ------------------------------
(***************************************************************************)
(* The per-identity rate limiter and the middleware in front of every      *)
(* route.  Allow finds or makes the identity's bucket and stamps it under  *)
(* the mutex, and takes the token after the mutex is released; Sweep drops *)
(* buckets not stamped for IdleTTL.  A sweep between the two steps leaves  *)
(* the call with a limiter no later call will find.                        *)
(*                                                                         *)
(* Time is counted in units of which a token costs Cost, so a limiter      *)
(* gains one unit per tick and holds at most burst * Cost.                 *)
(***************************************************************************)
EXTENDS Integers

CONSTANTS Call,      \* requests in flight (a slot is used again)
          Address,   \* addresses that requests come from or name
          Limiter,   \* addresses of rate.Limiter objects
          None,      \* no value
          Burst,     \* RATE_LIMIT_BURST
          Cost,      \* ticks in which one token is gained, 1 / RATE_LIMIT_RPS
          IdleTTL,   \* idleTTL
          MaxStall,  \* longest time between the two steps of Allow
          MaxClock   \* bound: ticks of the clock

ASSUME RateLimitTypes ==
  /\ None \notin Address /\ None \notin Limiter /\ None \notin BOOLEAN
  /\ Burst \in Int
  /\ Cost \in Nat \ {0}
  /\ IdleTTL \in Nat /\ MaxStall \in Nat /\ MaxClock \in Nat

\* New: a burst below one counts as one.
Capacity == Cost * (IF Burst <= 0 THEN 1 ELSE Burst)

\* A bucket is full again before it is swept, however long a call stalls.
ASSUME SweepIsPatient == IdleTTL >= MaxStall + Capacity

VARIABLES limited,  \* rps > 0
          clock,    \* the wall clock
          buckets,  \* buckets: limiter and lastSeen of an identity, or None
          heap,     \* tokens and last of every rate.Limiter
          held,     \* the limiter and identity a call has fetched, or None
          verdict,  \* what Allow returned to a call, None before
          spent     \* history: what each identity has been charged

vars == <<limited, clock, buckets, heap, held, verdict, spent>>

Identity == {"ip"} \X Address \union {"player"} \X Address

Bucket == [l : Limiter, lastSeen : Nat]
Tokens == [tokens : 0..Capacity, last : Nat]
Fetched == [l : Limiter, id : Identity, at : Nat]

ASSUME NilAssumption == None \notin Bucket /\ None \notin Fetched

TypeOK ==
  /\ limited \in BOOLEAN
  /\ clock \in Nat
  /\ buckets \in [Identity -> Bucket \union {None}]
  /\ heap \in [Limiter -> Tokens]
  /\ held \in [Call -> Fetched \union {None}]
  /\ verdict \in [Call -> BOOLEAN \union {None}]
  /\ spent \in [Identity -> Nat]

Init ==
  /\ limited \in BOOLEAN
  /\ clock = 0
  /\ buckets = [i \in Identity |-> None]
  /\ heap = [l \in Limiter |-> [tokens |-> Capacity, last |-> 0]]
  /\ held = [c \in Call |-> None]
  /\ verdict = [c \in Call |-> None]
  /\ spent = [i \in Identity |-> 0]

-----------------------------------------------------------------------------
(* rate.Limiter *)

\* Faulty variant: an idle limiter gains without end.
HoldsUncapped(l) == heap[l].tokens + clock - heap[l].last

\* What a limiter holds now: it gains with time and never exceeds its burst.
Holds(l) ==
  LET grown == heap[l].tokens + clock - heap[l].last
  IN  IF grown < Capacity THEN grown ELSE Capacity

Reachable(l) == \/ \E i \in Identity : buckets[i] # None /\ buckets[i].l = l
                \/ \E c \in Call : held[c] # None /\ held[c].l = l

-----------------------------------------------------------------------------
(* Limiter *)

Header == [player : Address \union {None}, xff : Address \union {None},
           xri : Address \union {None}, remote : Address]

\* The player in the context, else the first proxy address, else the real one,
\* else the peer.
identityOf(h) ==
  IF h.player # None THEN <<"player", h.player>>
  ELSE <<"ip", IF h.xff # None THEN h.xff ELSE IF h.xri # None THEN h.xri
                                                             ELSE h.remote>>

\* The limiter is mounted outside RequireAuth, which alone sets the player.
Requester == {identityOf(h) : h \in {g \in Header : g.player = None}}

Bypass(c) ==
  /\ ~limited
  /\ verdict[c] = None
  /\ verdict' = [verdict EXCEPT ![c] = TRUE]
  /\ UNCHANGED <<limited, clock, buckets, heap, held, spent>>

\* Faulty variant: only a new bucket is stamped.
FetchUnstamped(c, i, l) ==
  /\ limited
  /\ held[c] = None /\ verdict[c] = None
  /\ IF buckets[i] # None
       THEN l = buckets[i].l /\ UNCHANGED <<heap, buckets>>
       ELSE /\ ~Reachable(l)
            /\ heap' = [heap EXCEPT ![l] = [tokens |-> Capacity, last |-> clock]]
            /\ buckets' = [buckets EXCEPT ![i] = [l |-> l, lastSeen |-> clock]]
  /\ held' = [held EXCEPT ![c] = [l |-> l, id |-> i, at |-> clock]]
  /\ UNCHANGED <<limited, clock, verdict, spent>>

\* Allow up to Unlock: the identity's limiter, a new one if it has none.
Fetch(c, i, l) ==
  /\ limited
  /\ held[c] = None /\ verdict[c] = None
  /\ IF buckets[i] # None
       THEN l = buckets[i].l /\ UNCHANGED heap
       ELSE /\ ~Reachable(l)
            /\ heap' = [heap EXCEPT ![l] = [tokens |-> Capacity, last |-> clock]]
  /\ buckets' = [buckets EXCEPT ![i] = [l |-> l, lastSeen |-> clock]]
  /\ held' = [held EXCEPT ![c] = [l |-> l, id |-> i, at |-> clock]]
  /\ UNCHANGED <<limited, clock, verdict, spent>>

\* limiter.Allow(): pay if the limiter holds enough, else leave it alone.
Take(c) ==
  /\ held[c] # None
  /\ LET l == held[c].l
         i == held[c].id
         ok == Holds(l) >= Cost
     IN  /\ verdict' = [verdict EXCEPT ![c] = ok]
         /\ heap' = IF ok THEN [heap EXCEPT ![l] = [tokens |-> Holds(l) - Cost,
                                                    last |-> clock]]
                          ELSE heap
         /\ spent' = IF ok THEN [spent EXCEPT ![i] = @ + Cost] ELSE spent
  /\ held' = [held EXCEPT ![c] = None]
  /\ UNCHANGED <<limited, clock, buckets>>

\* The route's handler, or the 429.
Respond(c) ==
  /\ verdict[c] # None
  /\ verdict' = [verdict EXCEPT ![c] = None]
  /\ UNCHANGED <<limited, clock, buckets, heap, held, spent>>

\* Faulty variant: a bucket goes once it is idle for half the time.
IdleEarly(i) == 2 * buckets[i].lastSeen < 2 * clock - IdleTTL

Idle(i) == buckets[i].lastSeen < clock - IdleTTL

Sweep ==
  /\ buckets' = [i \in Identity |->
                   IF buckets[i] # None /\ Idle(i) THEN None ELSE buckets[i]]
  /\ UNCHANGED <<limited, clock, heap, held, verdict, spent>>

Tick ==
  /\ clock < MaxClock
  /\ \A c \in Call : held[c] # None => clock - held[c].at < MaxStall
  /\ clock' = clock + 1
  /\ UNCHANGED <<limited, buckets, heap, held, verdict, spent>>

Next ==
  \/ \E c \in Call : \/ Bypass(c) \/ Take(c) \/ Respond(c)
                     \/ \E i \in Requester, l \in Limiter : Fetch(c, i, l)
  \/ Sweep
  \/ Tick

Spec == Init /\ [][Next]_vars

-----------------------------------------------------------------------------
(* Properties *)

Level(i) == IF buckets[i] = None THEN Capacity ELSE Holds(buckets[i].l)

\* No identity is let through more often than its burst and its rate allow, no
\* matter how its calls interleave with sweeps that drop and remake its bucket.
WithinRate == \A i \in Identity : spent[i] + Level(i) <= Capacity + clock

\* A call that holds a limiter holds the one its identity's bucket has: no sweep
\* drops a bucket between the lookup and the taking of the token.
NoOrphan ==
  \A c \in Call : held[c] # None =>
     buckets[held[c].id] # None /\ buckets[held[c].id].l = held[c].l

\* Buckets, mutex and sweeps together are one token bucket per identity: every
\* grant is paid for, every refusal is due, and a sweep changes nothing.
Abstract == INSTANCE TokenBucket WITH Cap <- Capacity,
                                      level <- [i \in Identity |-> Level(i)]
ImplementsBucket == Abstract!Spec
==============================================================================
