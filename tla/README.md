# StageSync: a verification project

TLA+ models of the StageSync game server (Go, `src/`), TLC configurations that
check them on small instances, and TLAPS proofs. `PROJECT.json` lists the runs,
the faulty variants each property is tested against, the source lines behind
every definition, the findings, the hazards and the theorems.

## 1. The system

One HTTP server (`src/cmd/server/main.go`), possibly in several pods, over MySQL
and Redis, each with an in-memory substitute when it is not configured. Every
request is a goroutine; handlers call services, services call repositories.

| Component | State | Operations | Interaction |
|---|---|---|---|
| Battle (`service/battle`, `persistence/*/battle_repo.go`) | `player_hp` rows; V2: map of channels, one worker each | `Apply` (V1Naive, V2UserQueue), `Get`, `Reset` | MySQL row and gap locks; channels; request contexts |
| Gacha (`service/gacha`, `persistence/*/gacha_repo.go`) | rolls, pity counters | `Roll`, `ListHistory`, `GetPity` | reads pity, later saves rolls and pity in one transaction |
| Idempotency (`endpoint/idempotency.go`, `idempotency/`) | stored responses with expiry | middleware: lookup, run, save; `Sweep` | wraps every handler, login and `RequireAuth` included; Redis shared by the pods |
| Event (`service/event`, `persistence/*/event_repo.go`) | events, reward tiers, scores | `Create`, `AddScore`, `GetRewards`, reads | writes the repository, then the leaderboard |
| Ranking (`service/ranking`, leaderboards) | sorted set per event | `IncrBy`, `Top`, `Rank`, `Around` | written by Event; Redis commands one by one |
| Rate limiter (`ratelimit/`) | token bucket per identity | `Allow`, `Sweep` | middleware before all others; sweeper goroutine |
| Room and WebSocket (`room/`, `endpoint/ws.go`) | members and positions | `ApplyMove`, `Remove` | one goroutine per connection |
| Lifecycle (`lifecycle/`, `config/`, `main.go`) | what is open, deferred closes, ready flag, listener | start, signal, drain, shutdown, exit | readiness probes, requests in flight |
| Auth (`auth/`) | none (signed tokens) | login, `RequireAuth` | its answers are stored and replayed by Idempotency |
| Profile (`service/profile`, `persistence/*/profile_repo.go`) | profiles | create, get | one insert whose answer may be lost |

What is hard: transactions of several statements that interleave (Battle);
a counter read before and written after the work (Gacha); lookup and save with
the handler in between (Idempotency); check-then-act against the clock, and
several writes without a transaction (Event); two commands that should be one
(Ranking); contexts that end at any step; lost acknowledgements; deadlocks; a
bounded channel whose senders give up; a token taken after the mutex is released
while a sweeper drops buckets (Rate limiter); a start that fails halfway and a
stop while requests run (Lifecycle); answers that are stored longer than they are
true (Auth behind Idempotency).

What makes each component correct:

* Battle: committed damage is never lost; every transaction is atomic; calls
  return; V2 serves a player one request at a time and in order.
* Gacha: the counter is the number of rolls since the last SSR; no player waits
  longer than the threshold.
* Idempotency: a key's first response is the one replayed; a duplicate does not
  run the handler again; a response belongs to the key it is replayed
  for, and should belong to the player.
* Ranking: both leaderboards give the same answers; an entry's rank and score are
  true when it is read; scores do not go back.
* Room: a member has a connection, a connected player is a member, and nobody
  stays behind.
* Event: the leaderboard and the repository differ by what calls in flight, failed
  calls and repeated commands account for, and by no more; the tiers are the creator's; the window is the one asked for, whatever MySQL rounds; a reward shown
  as earned is granted.
* Rate limiter: nobody exceeds burst and rate, whatever the sweeper drops.
* Lifecycle: what was opened is closed, a clean stop cuts no request, refusals
  end once the probes have failed, and the process ends.
* Auth and Profile: a token is honoured as its owner was told, a replayed login
  still works, and creates of one id elect one creator.

## 2. Modules

| Module | Models | Notes |
|---|---|---|
| `HPLedger` | what a battle repository promises: damage as one atomic step | it is the in-memory repository, whose methods hold one mutex |
| `BattleRepo` | V1Naive over the MySQL repository | one action per SQL statement; implements `HPLedger` |
| `BattleQueue` | V2UserQueue in one or several pods | extends `BattleRepo`: the workers' calls run in its transactions |
| `Battle` | `Build`'s choice between the two | composes `BattleRepo` and `BattleQueue` over one database |
| `Gacha` | `Service.Roll` and the save | one action per iteration of the loop |
| `Idempotency` | middleware, Redis or in-memory store | one action per store call |
| `Gateway` | login, `RequireAuth`, profile create and get, behind the middleware | extends `Idempotency`: a handler's answer is what is stored and replayed |
| `Event` | `Create`, `AddScore`, `GetRewards`, `IncrBy` | one action per repository call |
| `Ranking` | `Top`, `Rank`, `Around`, `IncrBy` over both leaderboards | one action per Redis command |
| `Room` | connections and the members of the room | one action per frame, failure and removal |
| `TokenBucket` | what a rate limiter promises: one bucket per identity | grant, refuse, fill |
| `RateLimit` | `Allow` in two steps, `Sweep`, identities | implements `TokenBucket` |
| `Lifecycle` | `run()` of `main.go`, readiness, probes, requests | one action per open, failure, close and phase |
| `MC...` | instances for TLC | model values, symmetry sets |
| `BattleProofs`, `GachaProofs`, `GatewayProofs`, `EventProofs`, `RankingProofs`, `RoomProofs`, `RateLimitProofs`, `LifecycleProofs` | theorems about the module of that name | section 5; `BattleProofs` covers `BattleRepo`, `BattleQueue` and `Battle`, `GatewayProofs` covers `Idempotency` too |

Definitions marked "Faulty variant" are not part of any specification: each is
the neighbouring definition with a plausible mistake, and shows that a property
notices it.

### Battle

`pc[r]` is the statement request `r` has reached in `ApplyDamageNaive`: BEGIN,
`SELECT ... FOR UPDATE` (`SelectFound`, `SelectMissing`), the INSERT of a first
hit, UPDATE, COMMIT. `txHP` is the local variable `hp`, then `newHP`. Any
statement may fail (`StatementError`, `BeginError`), after which only the
deferred `Rollback` frees the locks. COMMIT may take effect and its answer be
lost (`CommitReplyLost`). A context may end at any time before the call returns
and is noticed at the next statement, but not once COMMIT is on its way.

InnoDB is outside the repository; it is modelled from the statements used, at
its default isolation level (REPEATABLE READ): an exclusive record lock for a
row that is read for update, a gap lock for one that is missing (gap locks do
not exclude each other, they block inserts into the gap), locks held to the end
of the transaction, and a victim for every wait cycle. Players are integers in
these modules because a gap is an interval of keys.

`BattleQueue` adds `getOrCreate`, the send that blocks on a full channel, the
receive, the two `ctx.Done` branches and the worker loop. A channel is named
after the request that created it, so a second channel for a player would be
visible as a different value. `Battle` adds `impl`, what `Build` made of
`BATTLE_IMPL` (an unknown value is `V1Naive`): under `V1Naive` the handlers call the
repository themselves and the variables of the queue stay as they are.

### Gacha

A card is SSR or not; `WeightedPick` is a choice among the kinds in the pool (an
empty pool is refused). Calls of one (player, pool) pair overlap freely, as in the
code. `overlapped` is a history variable: the pairs of which two calls have been in
`Roll` at the same time. The exact counter, the pity rule and the order of the
history depend on a player's rolls following one another, so they are stated for
the other pairs (`Sequential`); what survives overlapping rolls is the range of the
counter (`TypeOK`), and what does not is a remark in section 6. `PityGuarantee`
fixes the roll that is forced: the one that would otherwise be the
`PityThreshold`-th without an SSR. The rolls of a key are kept in the order they
were saved, as the in-memory repository does.

### Idempotency and Gateway

A response is the identity of the request whose handler run produced it, so
"replays the right response" is an equation. `backend` is fixed at the start and
selects the comparison with the expiry time: the in-memory `Get` and `Set` differ
at the instant of expiry, Redis has one answer for both. `upset` is a history
variable: the keys whose requests have overlapped or met a failing store or a
panic. `RerunHasCause` says that nothing else makes a handler run twice within a
TTL. `PlayerInCtx` is always `None`: in `main.go` the middleware is mounted
outside `RequireAuth`. `Owner` is the player who sends a request; the middleware
never sees it, and `ReplayStaysWithPlayer`, which the comments claim, is refuted
(`idempotency_scope`); `ReplayMatchesKey` is what holds. `Sweep` has no caller in the program; it is an action
because it is an operation of the store.

`Gateway` refines the handler run: `answer` is the status and the instant a
handler answered with. A token is its instant of issue; its claims and the
`expires_at` in the response follow from it, and the claims are cut to the second
(`NumericDate`). `Validate` compares with the claims, so `TokenKeepsPromise` and
`LoginUsable` relate three clocks: issue, lookup and expiry of the stored answer.
`profile` is the row of one id, with the request that made it; an insert may
succeed and its answer be lost.

### Event

Every repository call is an action, so is each of the two readings of the clock
in `GetRewards`. `deploy` is fixed at the start: MySQL with Redis, or both in
memory, where no call fails. MySQL keeps windows to the second (`Kept`); the
Redis client sends a command again when its answer is lost (`Applied`, at most
`Attempts` times). `missed`, `doubled`, `wanted` and `asked` are history
variables: points that will never reach the leaderboard, points counted twice,
the tiers and the window the creator asked for. `AddScoreUnacknowledged` is an
upsert whose answer is lost. `TiersByNumber` is the set of all lists `sort.Slice`
may return: it is not stable, and the in-memory repository admits tiers of one
number.

### Ranking

`score` is one event's scores; 0 stands for "no entry", which is exact because
`AddScore` adds only positive amounts. `backend` is fixed at the start, as in
`openLeaderboard`. The two implementations are separate definitions:
`sortedLocked` and the index arithmetic in memory, the sorted set, `ZREVRANK` and
`ZREVRANGE` (with Redis' rule for negative positions) behind the Redis one. `call`
is what `Rank` or `Around` remembers between its two commands. `Standing` is the
reference: a rank is the number of players ahead plus one. The players' ids are
numbers because the order of ids decides ties. Both sorts are stated by what they
return, a list of all ranked players in order; that there is exactly one is a lemma
of `RankingProofs`.

### Room

`state` is where `ServeHTTP` of a connection is, `playerID` its local variable;
the end of the read loop and the removal are two steps, because others move in
between. The empty id is an id like any other in the map, but is never removed.
`abandoned` and `evicted` are history variables that name the two ways in which
the room and the connections come apart: a connection that goes over to another
player, and the end of one of two connections of a player. The properties say
that there is no third way.

### Rate limiter

Time is counted in units of which a token costs `Cost`, so `rate.Limiter` is
integer arithmetic: `Holds` is what it has now. `Fetch` is `Allow` under the
mutex, `Take` is `limiter.Allow()` after it. `Limiter` is a set of heap addresses
that are used again once nothing refers to them (`Reachable`), so a limiter kept
by a call whose bucket was dropped is visible as such. Sweeps happen at any
moment, not only once a minute. `MaxStall` bounds the time between the two steps
of a call; `SweepIsPatient` (the idle time covers a stall and the refill of a
whole bucket) is what the program's constants give for ordinary settings, and
both proofs and runs rest on it.

### Lifecycle

`phase` is the statement `run()` has reached, `open` what exists, `deferred` the
stack of closes. Every open may fail. A handle is open before it is pinged (and,
for MySQL, migrated) and before `run()` has deferred its close, so each of these
steps is an action whose own error path has to close it (`Held`,
`CloseAndReturn`). The listener is a goroutine of its own that can break before,
during and after the signal. Requests of HTTP/1 are waited for by `Shutdown`;
connections that a handler has taken over (WebSocket) and h2c streams are not.
Probes come at least every `ProbePeriod` ticks and take the server out of rotation
after `FailureThreshold` failures. `leaving` is a history variable, the ticks since
`run()` began to stop. Nothing relates the sleep to the probes: `RefusalsEnd` says
what the drain achieves for every setting, and `NoRefusal`, which the comments
claim, is refuted for the repository's own values (`drain`). Kubernetes also removes
a pod that it deletes from the endpoints by itself, at a speed the repository does
not fix; the model has only the way the comments rely on, the readiness probe.

## 3. Runs

The `battle` run takes about three minutes with two workers, each other at most
about one.

| Run | Shows | Bounds and why they suffice |
|---|---|---|
| `battle` | types, `NoLostDamage`, `NoDuplicateInsert`, `ImplementsLedger`; within a pod send order one by one and no wait for the row; `Apply` returns what its own request got; `Apply` and every repository call return | V1: 3 hits on 2 players (a holder, a waiter and one that shares the gap), or 2 hits and a refused request, resets. V2: 3 hits of one pod on a new player through one slot (full, empty and blocked senders), one of them abandoned from the start, or 2 hits from two pods or on two players (competition for the row, gap deadlocks) and a refused request. Two hits reach the clamp; rows are missing at first and appear by hits and resets |
| `gacha` | counter in range, exact counter, pity rule, history order | threshold 3, batches of 1 and 2, 5 saved rolls: batches start before, at and after the threshold; pools mixed, without SSR, empty; two calls that overlap or not; counts below and above the limit |
| `gateway` | replays match their key, reruns have a cause, the first response wins, tokens keep their promise, replayed logins work, one profile is elected | 3 requests on any route, 2 keys and requests without one (`Keyless`: reads only), both stores, a second of 2 ticks, TTL 1 and token lifetime 3 within 3 ticks: hit, expiry, second life of a key, tokens valid, expiring and expired; `MaxStall` 0, profiles in MySQL (in memory nothing fails or is rounded) |
| `event` | accounting of the leaderboard, tiers of the winner, ordered view that shows only granted tiers, the window kept | 2 callers, 2 players, a second of 3 ticks and a window [2, 4] within 5: MySQL rounds both ends to 3; invalid windows, tiers out of order, a repeated tier; 2 attempts of a Redis command |
| `ranking` | both leaderboards agree, labels are true, `Around` lacks its player only after an overtaking, scores do not go back | 3 players with up to 3 points: ties, overtakings by one and two places; parameters missing, negative, at and beyond the limits; readers share nothing, so one suffices |
| `room` | members have connections, connected players are members, players of failed connections leave | 3 connections (an old, a new and a third party), 2 players and the empty id, 2 positions |
| `ratelimit` | types, no call loses its bucket, burst and rate kept, `ImplementsBucket` | 2 calls in flight, 2 addresses (so 4 identities), 3 limiters (one is used again), burst 2, a token every 2 ticks, idle time 5 (the least `SweepIsPatient` admits) within 7 ticks: buckets drained, refilled, swept and made again |
| `lifecycle` | nothing left open, a clean exit cuts nothing, refusals begin with `Shutdown` and end with the probes, `ShutsDown` | every configuration and failure, 2 requests (one may hang), drain 2, shutdown timeout 3, probes every 2 ticks with threshold 2: the probes need longer than the drain, as in the deployment |

One type invariant is checked where it says more than types (`BattleRepo`: HP
within its range; `Gacha`: the counter below the threshold; `RateLimit`: tokens
within the burst). The `TypeOK` of `Event`, `Ranking`, `Room`, `Idempotency`,
`Gateway`, `BattleQueue` and `Lifecycle` document the state.

Bounds are named constants in the guards: `MaxClock`, `MaxRolls`, `MaxPoints`,
`MaxScore`, `MaxStall`, `Attempts`.

Deadlock checking is off where requests or bounded clocks run out, which is
their normal end.

Runs that end with a violation, each against a statement of the repository
(quoted in `PROJECT.json`):

| Run | Finding |
|---|---|
| `battle_queue_deadlock` | V2 is said to rule deadlocks out; two first hits on different new players of one pod deadlock on the gap |
| `idempotency_concurrent` | duplicates that overlap both run the handler |
| `idempotency_scope` | players are said not to collide; one player's response is replayed to another who sends the same key |
| `drain` | the drain is said to let the load balancer take the pod out first; with 5 s of sleep and probes of 2 times 5 s (the values of `main.go` and the Deployment, in seconds) a request meets a closed listener |

## 4. Fairness

`BattleFairness` assumes weak fairness of what the runtime and the database
guarantee: a statement that can be granted is executed, a done context is reported
to the statement that waits (database/sql), a deferred `Rollback` runs, a wait cycle
is detected, a goroutine of the queue that can run does run. Nothing is assumed
about clients, contexts, lock wait timeouts or connection failures, and no fairness
between two waiters for one lock: every holder ends and the number of requests is
finite. Weak fairness of the whole of a call's `Proceed` is enough because at each
point at most one of a statement, the report of a done context and the `Rollback`
of a call can be enabled. Liveness forbids TLC's symmetry reduction; `MCBattle`
starts from one representative of each class of interchangeable requests instead.
`Room!FairSpec` assumes only that a
handler whose read has failed runs to its end. `Lifecycle!Spec` assumes that
`run()` goes on when it can, that time passes and that the kubelet probes; not
that requests end, nor that a signal comes. `Migrate` has no timeout in the code:
the run assumes that the database answers it, in one way or the other.

## 5. Proofs

Of `BattleRepo`, `BattleProofs` proves, for every set of requests, players and damages and
every initial HP and limit:

* `TypeCorrectness`: `Spec => []TypeOK`
* `DamageIsNeverLost`: `Spec => []NoLostDamage`
* `InsertNeverCollides`: `Spec => []NoDuplicateInsert`
* `OnlyResetRaisesHP`: `Spec => HPOnlyFalls`
* `RepoImplementsLedger`: `Spec => Ledger!Spec`

from `RepoAssumption` alone (integer keys, natural HP, a positive limit, a null
value that is no number).

`NoLostDamage` is not inductive: COMMIT writes a value that was computed from a
read several statements before. `IndInv` adds what keeps that value true.
`LockInv`: record locks exclude each other, a transaction past its read holds
its player's record, one that found nothing holds the gap, and nobody else has a
record in a gap someone holds. `ValueInv`: the value carried equals the committed
HP, or that HP less the damage once UPDATE has run. `CallInv`: only checked
damages reach the repository. Each action has its lemma; COMMIT uses
`DamagedComposes` (clamping after each hit is clamping the total once), which is
where the arithmetic is. The refinement maps `hp` to the committed rows:
COMMIT is the ledger's step, an error is `Refuse`, a lost answer is
`ApplyUnacknowledged`, everything else stutters.

`RoomProofs` proves `MembersAreConnected` and `ConnectedAreMembers`, the two
invariants of `Room`, for any connections, players and positions. They are
inductive together with `NewNamesNobody` (a connection that has not been accepted
has named nobody). The argument for a member is a witness: the connection that
moved it last. Another move replaces the witness, its going over to another player
makes the player abandoned, its end removes the member.

`RateLimitProofs` proves, for any calls, addresses, limiters, burst, rate and
idle time:

* `RateTypeCorrect`: `Spec => []TypeOK`
* `NoSweepUnderCall`: `Spec => []NoOrphan`
* `RateIsKept`: `Spec => []WithinRate`
* `RateRefines`: `Spec => ImplementsBucket`

from `RateLimitTypes`, `NilAssumption` and `SweepIsPatient`. `WithinRate` is not
inductive: a sweep and a new bucket give an identity a full burst, and only the
stamps say that the old one was full. `IInv` adds `NoOrphan` (a call's limiter is
its identity's), `Distinct` (identities share no limiter), `Switched`, and
`Clocks`: a fetched call is at most `MaxStall` old, its bucket was stamped no
earlier than the call, a limiter was charged at most `MaxStall` after the stamp.
A bucket idle for `IdleTTL` is then held by nobody and has had `Capacity` ticks to
fill. The refinement maps the abstract level to what the limiter holds, and to a
full bucket where there is none: sweeps and lookups stutter, `Take` is a grant or
a refusal, a tick fills.

Of `BattleQueue`, `BattleProofs` proves, for any requests, players, pods and
capacity of the channels:

* `QueueServesInOrder`: `QueueSpec => []ServedInOrder`
* `NoWaitWithinPod`: `QueueSpec => []NoRowLockWait`
* `RepliesAreTruthful`: `QueueSpec => []ReplyIsTruthful`
* `QueueLosesNoDamage`: `QueueSpec => []NoLostDamage`
* `QueueInsertNeverCollides`: `QueueSpec => []NoDuplicateInsert`
* `QueueImplementsLedger`: `QueueSpec => ImplementsLedger`
* `QueueTypeCorrect`: `QueueSpec => []QueueTypeOK`

from `RepoAssumption` and `QueueAssumption`. The steps of the database are those of
`BattleRepo`, so `IndInv` is kept by the lemmas about `BattleRepo`, whoever
calls them. `QueueInv` adds the queue: a request uses the channel the map holds for
its key (`ChanInv`); what a channel holds was sent to it (`BufInv`); the
transaction that runs for a channel is the one its worker waits for (`WorkInv`); a
request that was sent has returned, is being served or is in the buffer
(`SentInv`), and of two of one key the earlier one is ahead (`OrderInv`, the
strengthening `ServedInOrder` needs when the worker takes the next one). That
nobody waits for a row follows from `WorkInv`: two running requests of one key
would be the same.

Of `Battle` it proves `BattleIsSafe` (`BattleSpec => []` of the six invariants the
run checks) and `BattleImplementsLedger` (`BattleSpec => ImplementsLedger`): the
invariant is `IndInv` with an untouched queue under `V1Naive` and `QueueInv` under
`V2UserQueue`.

`GachaProofs` proves, for any callers, keys, pools, thresholds and counts:

* `GachaTypeCorrect`: `Spec => []TypeOK` (the saved counter stays below the
  threshold, overlapping rolls included)
* `CountersAreExact`: `Spec => []CounterIsExact`
* `PityIsGuaranteed`: `Spec => []PityGuarantee`
* `HistoryIsNewestFirst`: `Spec => []HistoryNewestFirst`

from `GachaAssumption`. None is inductive: the counter and the rolls that are saved
together come from a loop that began with a read. `GachaInv` states the promises
for the rolls a call would leave if it saved now (`Outcome`), with its local counter
(`DrawInv`) and its timestamp (`StampInv`); `AloneInv` says that a key that has not
overlapped has at most one call at work, so what a call found is still there when it saves. Two lemmas
about one more roll carry the argument: an SSR resets the count
(`ForcedOrNaturalSSR`), and a miss below the threshold leaves an SSR within every
window (`OneMoreMiss`).

`GatewayProofs` proves, for any requests, keys, TTL, token lifetime and resolution
of the clocks:

* of the middleware alone: `ReplaysMatchKeys` (`Spec => []ReplayMatchesKey`),
  `RerunsHaveCause` (`Spec => []RerunHasCause`), `FirstStoredStays`
  (`Spec => FirstStoredWins`)
* `GatewayImplementsIdempotency`: `GatewaySpec => Spec`, and so
  `GatewayIsIdempotent`: the same three with the real handlers
* of the handlers: `TokensKeepPromise`, `LoginsAreUsable`, `ProfilesAgree`,
  `GatewayTypeCorrect`

from `IdempotencyAssumption`, `GatewayAssumption`, `NoneIsNoRecord` (the null value
is no record) and, for `LoginsAreUsable`, `TokenOutlivesAnswer`. For
`RerunHasCause` the invariant has to say what an undisturbed key looks like between
the steps of a request (`UndisturbedInv`): at most one request of it is between
lookup and answer, one that missed knows that every earlier run is a TTL ago, and a
run within the last TTL is covered by a stored entry that lives as long. For the
handlers `GateInv` adds when an answer was given (`AnswerInv`), that an entry
outlives the run it comes from by at most a TTL and the stall before its save
(`LifeInv`), and that a `Get` that answered has found a profile (`ProfileInv`); `RoundingIsClose` is the arithmetic of a
`TIMESTAMP`.

`EventProofs` proves, for any callers, events, players, windows, reward lists and
deployments:

* `TiersAreTheWinners`: `Spec => []TiersOfWinner`
* `ViewsAreOrdered`: `Spec => []ViewIsOrdered`
* `WindowsAreKept`: `Spec => []WindowKept`
* `BoardAccounts`: `Spec => []BoardAccountsForScores`
* `EventTypeCorrect`: `Spec => []TypeOK`

from `EventAssumption`. `TierInv`: the caller that created an event is the only one
inserting its tiers, and what is stored followed by what it has still to insert is
what was asked for. `WindowInv`: what is stored is the rounded window, and rounding
never inverts it (`KeptIsMonotonic`). `ViewInv`: what `GetRewards` has read is a
lower bound of what is stored, because tiers are only added, points only grow and
an event that is over stays over; `ViewStays` says so once, for every step of
another caller. `BoardInv`: the books of every player in every event balance, and
with both stores in memory nothing is ever missed or doubled. What is pending is a
sum over the calls in flight, of which `EventAssumption` says that there are
finitely many; `PendingChange` is the one fact about it the steps need: a step of
one call changes the sum by what this call owes. That the sum exists
(`SumsExist`), is unique (`SameSums`) and does not depend on the order in which the
calls are taken (`TakeOut`) is proved by a least counterexample (`LeastNumber`)
instead of an induction, which the provers cannot instantiate.

`RankingProofs` proves, for any finite set of players, any readers, points, queries
and limits:

* `RankingBackendsAgree`: `Spec => []BackendsAgree`
* `RankingLabelsAreTrue`: `Spec => LabelsAreTrue`
* `RankingSelfMissingOnlyIfMoved`: `Spec => SelfMissingOnlyIfMoved`
* `RankingReadsNeverGoBack`: `Spec => ReadsNeverGoBack`
* `RankingType`: `Spec => []TypeOK`

from `RankingAssumption`. Of two ranked players one is ahead of the other, and the
players ahead of the first are ahead of the second too, so `Standing` gives the
ranked players the numbers from 1 to their count, each once. The players by their
standing are then a list in descending order and the only one; backwards it is the
only ascending one. So the sorted slice in memory and the sorted set read from its
end are the same list (`Order`), and what `Top`, `Rank` and `Around` return are
stretches of it (`Places`), with the same clamping at both ends. `RankInv` is the
inductive invariant of the calls (`RankInvHolds`): a position read by the first of
two Redis commands stays a position, since scores only grow and no player leaves the
ranking, and no response shows a score that its player has not reached.

`LifecycleProofs` proves, for any requests, delays, timeouts and probes:

* `NothingLeaks`: `Spec => []NothingLeftOpen`
* `CleanExit`: `Spec => []CleanExitCutsNothing`
* `DrainEnds`: `Spec => RefusalsEnd`
* `TypeCorrect`: `Spec => []TypeOK`

from `LifecycleAssumption` alone. The invariant relates the stack of deferred closes
and the handle that is being opened to what is open at every point of the start
(`StackInv`), the phase to the listener (`ListenerInv`), and measures the drain:
while a server that is stopping is still in rotation, it has been stopping no longer
than one probe period for each probe that has failed and the time since the last
(`DrainInv`). So it is out after `ProbePeriod * FailureThreshold` ticks, however
long it sleeps.

Every inductive invariant was also checked with TLC on the instances of section 3.

Only model-checked:

* the liveness properties (`ShutsDown`, `EveryCallReturns`, `ApplyReturns`,
  `MembersFade`): fairness and `ENABLED` are out of
  the prover's reach.

Every other property of the passing runs is also a theorem. The four runs that end
with a violation have none, by their nature.

## 6. Not modelled

* JSON, validation messages, logging, metrics, generated code, load tools: no
  behaviour of their own. Parsing of the environment: a setting is legal or not.
* Signatures of tokens: cryptography. A forged token is one that is refused.
* The area of interest filter: a pure function over floating point distances that
  only its tests call; its toggle is a flag that only the metrics read.
* The in-memory idempotency store of several pods: the code restricts it to one
  process.
* Floating point: totals in Redis beyond 2^53, fractions of a token, and the case
  that `rate.Limiter` is asked with a clock that goes back.
* The arithmetic of `WeightedPick`: a choice among the pool's cards.
* What the migrations contain.

Remarks met on the way, without a run of their own:

* `AddScore` compares the window with the clock before it stores the points, and
  the upsert has no such condition: a score can land after the end, although
  `docs/API.md` allows it only while the event is ongoing.
* `Create` is documented to register the event and its tiers at once, with the
  atomicity left to the repositories. They have no such transaction: a reader can
  see part of the tiers, and a failed `Create` leaves them and cannot be repeated.
* The `Store` comment says that `Around` includes the player. On Redis an
  overtaking between `ZREVRANK` and `ZREVRANGE` can move the player out of the
  window, and the handler then answers with rank 0 and score 0
  (`SelfMissingOnlyIfMoved`).
* `main.go` says that WebSocket connections are exempt from the request timeout.
  `ServeHTTP` reads with the request's context, to which `middleware.Timeout` has
  given a deadline, so a connection ends after `REQUEST_TIMEOUT` (`ReadFails`).
* The room's size counts players a connection has abandoned and the empty id, and
  omits evicted players until their next move; `docs/API.md` calls it the number
  of connected players.
* The comments at `persistence/inmem/leaderboard.go` (on `sortedLocked`) and
  `service/ranking/service.go` (on `Top`) describe ties in ascending order of the
  player id; the code, like Redis, sorts them descending.
* The in-memory `ListRollsByPlayer` promises the newest `pulled_at` first and
  lists by insertion; overlapping rolls can be saved in the other order.
  `HistoryNewestFirst` is therefore stated for players whose rolls do not overlap.
* At the instant `now = expiresAt` the in-memory `Get` still replays an entry that
  `Set` replaces. `FirstStoredWins` admits exactly this, and no removal.
* `Roll` reads the pity counter outside the transaction that saves it, as an
  absolute value. Overlapping rolls of one player count from the same value, so
  more than the threshold in a row can be without an SSR, against any reading of
  `docs/API.md:268`. `PityGuarantee` and `CounterIsExact` are therefore stated for
  players whose rolls do not overlap.
* Which roll is forced differs by one from what is written. The comment on
  `Pool.PityThreshold` (`domain/gacha/gacha.go:37`), `docs/API.md:268` and
  `CHANGELOG.md:119` say that after 80 rolls without an SSR the next one is an SSR,
  which is the 81st. `Roll` counts the roll before it compares (`pity++` and
  `pity >= PityThreshold`, `service/gacha/service.go:98` and `:103`), so the 80th
  is forced after 79 misses, and `TestRoll_PityTrigger` expects that.
  `PityGuarantee` states the code's rule exactly; the written rule is the faulty
  variant `AtThresholdLate`, which violates it.
* Probes pass the same rate limiter as the traffic, so a busy server can fail them
  (`ProbeAnswer`).
* `REQUEST_TIMEOUT` (30 s) may exceed `SHUTDOWN_TIMEOUT` (15 s): a request within its
  own limit can be cut, and `run()` then returns an error. `Shutdown` does not wait
  for WebSocket and h2c connections.
* A token is refused up to a second before the `expires_at` its owner was told
  (`TokenKeepsPromise`). A stored 401 is replayed until it expires, also to a
  request with a valid token. The configuration does not ensure that tokens outlive
  stored answers (`TokenOutlivesAnswer`).
* After a lost acknowledgement `Create` of a profile answers 500 although the row is
  there; the same key replays the 500, another gets 409.
* The in-memory `pityKey` joins player and pool with `/`: ids that contain a `/` can
  share a counter. Keys are atoms in `Gacha`.
* `SweepIsPatient` fails for very slow rates (0.01 per second with burst 20): a
  client then gets a new burst by waiting for the idle time.

## 7. Plan

Done: all modules of section 2, and proofs of every safety property the runs check.

Next: the promise of `TokenBucket` itself as a theorem of the abstract
specification.

Next modules: `IdempotentGacha`, the middleware in front of `Roll`, to see which
duplicate clicks reach the pity counter; `WeightedPick` as a function against its
reference.
