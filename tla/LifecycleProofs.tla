--------------------------- MODULE LifecycleProofs ---------------------------
(***************************************************************************)
(* What run() of main.go opens is closed again, a clean exit cuts no       *)
(* request and a drain refuses requests for no longer than the probes need *)
(* to notice it, for any number of requests and any delays.                *)
(*                                                                         *)
(* The invariant has three parts.  StackInv: each close is deferred once,  *)
(* and none before its resource is open.  ListenerInv: which phases of     *)
(* run() a listener, an exit code and a place in rotation belong to.       *)
(* DrainInv: a server that is still in rotation while it stops has been    *)
(* stopping for at most as long as the probes it has failed and the wait   *)
(* for the next one account for.                                           *)
(***************************************************************************)
EXTENDS Lifecycle, SequenceTheorems, TLAPS

Closes(s) == {s[k] : k \in DOMAIN s}

NoRepeat(s) == \A i, j \in DOMAIN s : s[i] = s[j] => i = j

\* The closes run() has not come to when it is at a phase.
ToCome ==
  /\ phase \in {"config", "mysql", "pingMySQL", "migrate"} => "db" \notin Closes(deferred)
  /\ phase \in Starting \ {"auth", "idempotency", "pingIdempotency", "limiter"} =>
        "leaderboard" \notin Closes(deferred)
  /\ phase \in Starting \ {"limiter"} => "idempotency" \notin Closes(deferred)
  /\ phase \in Starting => "sweeper" \notin Closes(deferred)

StackInv ==
  /\ NoRepeat(deferred)
  /\ phase \in {"config", "exited"} => deferred = <<>>
  /\ ToCome

ListenerInv ==
  /\ phase \in Starting => listener = "off"
  /\ listener \in {"starting", "listening"} => phase \in {"select", "sleep"}
  /\ exit = "ok" => phase \in {"unwind", "exited"} /\ ~Busy
  /\ inRotation => listener \in {"listening", "failed", "closed"}
  /\ listener = "closed" => phase \in Stopping

DrainInv ==
  /\ phase \in {"sleep", "shutdown"} => ~ready
  /\ inRotation => fails < FailureThreshold
  /\ phase \notin Stopping => leaving = 0
  /\ phase \in Stopping /\ inRotation /\ listener # "failed" =>
        leaving <= ProbePeriod * fails + sinceProbe

IInv == TypeOK /\ StackInv /\ ListenerInv /\ DrainInv

-----------------------------------------------------------------------------
(* The stack of deferred closes *)

\* Deferring the close of something new.
LEMMA Push ==
  ASSUME NEW s \in Seq(Resource), NEW r \in Resource \ Closes(s), NoRepeat(s)
  PROVE  /\ <<r>> \o s \in Seq(Resource)
         /\ Closes(<<r>> \o s) = Closes(s) \union {r}
         /\ NoRepeat(<<r>> \o s)
<1> DEFINE t == <<r>> \o s
<1>1. <<r>> \in Seq(Resource) /\ Len(<<r>>) = 1 /\ <<r>>[1] = r
  OBVIOUS
<1>2. /\ t \in Seq(Resource)
      /\ Len(t) = 1 + Len(s)
      /\ \A i \in 1..(1 + Len(s)) : t[i] = IF i <= 1 THEN <<r>>[i] ELSE s[i - 1]
  BY <1>1, ConcatProperties
<1>3. Len(s) \in Nat /\ DOMAIN s = 1..Len(s) /\ DOMAIN t = 1..(Len(s) + 1)
  BY <1>2, LenProperties
<1>4. t[1] = r /\ \A i \in DOMAIN s : i + 1 \in DOMAIN t /\ t[i + 1] = s[i]
  BY <1>1, <1>2, <1>3
<1>5. \A i \in DOMAIN t : i = 1 \/ (i - 1 \in DOMAIN s /\ t[i] = s[i - 1])
  BY <1>2, <1>3
<1> HIDE DEF t
<1>6. Closes(t) = Closes(s) \union {r}
  <2>1. Closes(t) \subseteq Closes(s) \union {r}
    BY <1>4, <1>5 DEF Closes
  <2>2. Closes(s) \union {r} \subseteq Closes(t)
    BY <1>3, <1>4 DEF Closes
  <2> QED  BY <2>1, <2>2
<1>7. NoRepeat(t)
  <2> SUFFICES ASSUME NEW i \in DOMAIN t, NEW j \in DOMAIN t, t[i] = t[j]
               PROVE  i = j
    BY DEF NoRepeat
  <2>1. CASE i = 1 /\ j = 1
    BY <2>1
  <2>2. CASE i = 1 /\ j # 1
    BY <2>2, <1>4, <1>5 DEF Closes
  <2>3. CASE i # 1 /\ j = 1
    BY <2>3, <1>4, <1>5 DEF Closes
  <2>4. CASE i # 1 /\ j # 1
    BY <2>4, <1>3, <1>5 DEF NoRepeat
  <2> QED  BY <2>1, <2>2, <2>3, <2>4
<1> QED  BY <1>2, <1>6, <1>7 DEF t

\* Running the last close deferred.
LEMMA Pop ==
  ASSUME NEW s \in Seq(Resource), s # <<>>, NoRepeat(s)
  PROVE  /\ Tail(s) \in Seq(Resource)
         /\ Closes(Tail(s)) = Closes(s) \ {Head(s)}
         /\ NoRepeat(Tail(s))
<1> DEFINE t == Tail(s)
<1>1. /\ t \in Seq(Resource)
      /\ Len(t) = Len(s) - 1
      /\ \A i \in 1..Len(t) : t[i] = s[i + 1]
  BY HeadTailProperties
<1>2. Len(s) \in Nat \ {0} /\ DOMAIN s = 1..Len(s) /\ DOMAIN t = 1..(Len(s) - 1)
  BY <1>1, EmptySeq, LenProperties
<1>3. Head(s) = s[1]
  OBVIOUS
<1>4. \A i \in DOMAIN t : i + 1 \in DOMAIN s /\ t[i] = s[i + 1] /\ i + 1 # 1
  BY <1>1, <1>2
<1>5. \A i \in DOMAIN s : i = 1 \/ (i - 1 \in DOMAIN t /\ s[i] = t[i - 1])
  BY <1>1, <1>2
<1>6. 1 \in DOMAIN s
  BY <1>2
<1> HIDE DEF t
<1>7. Closes(t) = Closes(s) \ {s[1]}
  <2>1. Closes(t) \subseteq Closes(s) \ {s[1]}
    BY <1>4, <1>6 DEF Closes, NoRepeat
  <2>2. Closes(s) \ {s[1]} \subseteq Closes(t)
    BY <1>5 DEF Closes
  <2> QED  BY <2>1, <2>2
<1>8. NoRepeat(t)
  BY <1>2, <1>4 DEF NoRepeat
<1> QED  BY <1>1, <1>3, <1>7, <1>8 DEF t
-----------------------------------------------------------------------------
(* run() up to the listening server *)

Exit == {"none", "ok", "error", "killed"}

ListenerState == {"off", "starting", "listening", "failed", "closed"}

LEMMA BoundsAreNat == Timeout \in Nat /\ ProbeLag \in Nat
BY LifecycleAssumption DEF Timeout, ProbeLag

LEMMA InitInv == Init => IInv
<1> SUFFICES ASSUME Init PROVE IInv
  OBVIOUS
<1>1. TypeOK
  <2>1. /\ timer \in 0..Timeout /\ leaving \in 0..(ProbeLag + 1)
        /\ fails \in 0..FailureThreshold /\ sinceProbe \in 0..ProbePeriod
    BY LifecycleAssumption, BoundsAreNat DEF Init
  <2>2. signalled \in BOOLEAN /\ ready \in BOOLEAN /\ inRotation \in BOOLEAN
    BY Zenon DEF Init
  <2>3. deferred \in Seq(Resource) /\ Closes(deferred) = {} /\ Held = {}
    BY DEF Init, Closes, Held
  <2>4. req \in [Request -> {"new", "http1", "hijacked", "served", "refused", "cut"}]
    BY DEF Init
  <2> QED
    BY <2>1, <2>2, <2>3, <2>4 DEF Init, TypeOK, Phase, Starting, Closes
<1>2. StackInv
  BY DEF Init, StackInv, ToCome, NoRepeat, Closes
<1>3. ListenerInv /\ DrainInv
  BY DEF Init, ListenerInv, DrainInv, Stopping
<1> QED  BY <1>1, <1>2, <1>3 DEF IInv

\* A step of run() before it serves keeps the invariant if it keeps the stack:
\* nothing listens yet, and the requests and the probes are left alone.
LEMMA StartupStep ==
  ASSUME IInv, Startup, phase \in Starting,
         phase' \in (Starting \ {"config"}) \union {"select", "unwind"},
         exit' \in {exit, "error"},
         listener' = IF phase' = "select" THEN "starting" ELSE listener,
         deferred' \in Seq(Resource), NoRepeat(deferred'), ToCome',
         open' = Closes(deferred') \union Held'
  PROVE  IInv'
<1>1. TypeOK'
  <2>1. phase' \in Phase /\ exit' \in Exit /\ listener' \in ListenerState
    BY DEF IInv, TypeOK, Phase, Starting, Stopping, Exit, ListenerState
  <2>2. UNCHANGED <<conf, signalled, ready, timer, leaving, req, inRotation, fails, sinceProbe>>
    BY DEF Startup
  <2>3. Closes(deferred') \subseteq Resource
    BY DEF Closes
  <2>4. Held' \subseteq Resource
    BY DEF Held, Resource
  <2>5. open' \subseteq Resource
    BY <2>3, <2>4
  <2> QED  BY <2>1, <2>2, <2>5 DEF IInv, TypeOK, Closes, Exit, ListenerState
<1>2. ListenerInv'
  BY DEF IInv, Startup, ListenerInv, Busy, Starting, Stopping
<1>3. DrainInv'
  BY DEF IInv, Startup, ListenerInv, DrainInv, Starting, Stopping
<1>4. StackInv'
  BY DEF StackInv, Starting
<1> QED  BY <1>1, <1>2, <1>3, <1>4 DEF IInv

LEMMA StackFacts ==
  ASSUME IInv
  PROVE  /\ deferred \in Seq(Resource) /\ NoRepeat(deferred)
         /\ open = Closes(deferred) \union Held /\ ToCome
BY DEF IInv, TypeOK, StackInv, Closes

\* A step that opens and closes nothing.
LEMMA QuietStep ==
  ASSUME IInv, Startup, phase \in Starting,
         phase' \in (Starting \ {"config"}) \union {"unwind"},
         exit' \in {exit, "error"}, UNCHANGED <<open, deferred, listener>>,
         Held' = Held, ToCome'
  PROVE  IInv'
BY StackFacts, StartupStep DEF Starting, Closes

\* A new handle is held by who opened it.
LEMMA ConnectStep ==
  ASSUME IInv, NEW r, NEW next \in Starting \ {"config"},
         phase \in Starting, Connect(r, next), Held = {}, Held' = {r}, ToCome'
  PROVE  IInv'
<1>1. Startup /\ open' = open \union {r} /\ phase' = next
      /\ UNCHANGED <<deferred, exit, listener>>
  BY DEF Connect
<1>2. open' = Closes(deferred') \union Held'
  BY <1>1, StackFacts DEF Closes
<1> QED  BY <1>1, <1>2, StackFacts, StartupStep DEF Starting

\* A handle that works is handed to run(), which defers its close.
LEMMA DeferStep ==
  ASSUME IInv, NEW r \in Resource, NEW next \in Starting \ {"config"},
         phase \in Starting, Defer(r, next), r \notin Closes(deferred),
         Held = {r}, Held' = {}, Closes(deferred') = Closes(deferred) \union {r} => ToCome'
  PROVE  IInv'
<1>1. Startup /\ UNCHANGED open /\ deferred' = <<r>> \o deferred
      /\ phase' = next /\ UNCHANGED <<exit, listener>>
  BY DEF Defer
<1>2. deferred' \in Seq(Resource) /\ Closes(deferred') = Closes(deferred) \union {r}
      /\ NoRepeat(deferred')
  BY <1>1, StackFacts, Push
<1>3. open' = Closes(deferred') \union Held'
  BY <1>1, <1>2, StackFacts
<1> QED  BY <1>1, <1>2, <1>3, StartupStep DEF Starting

\* One that does not is closed before run() returns.
LEMMA CloseStep ==
  ASSUME IInv, NEW r \in Resource, phase \in Starting, CloseAndReturn(r),
         r \notin Closes(deferred), Held = {r}
  PROVE  IInv'
<1>1. Startup /\ open' = open \ {r} /\ phase' = "unwind" /\ exit' = "error"
      /\ UNCHANGED <<deferred, listener>>
  BY DEF CloseAndReturn, Return
<1>2. Held' = {}
  BY <1>1 DEF Held
<1>3. open' = Closes(deferred') \union Held'
  BY <1>1, <1>2, StackFacts DEF Closes
<1>4. ToCome'
  BY <1>1 DEF ToCome, Starting
<1> QED  BY <1>1, <1>3, <1>4, StackFacts, StartupStep DEF Starting

LEMMA LoadConfigStep == IInv /\ LoadConfig => IInv'
<1> SUFFICES ASSUME IInv, LoadConfig PROVE IInv'
  OBVIOUS
<1>1. phase = "config" /\ phase' \in {"mysql", "unwind"} /\ exit' \in {exit, "error"}
      /\ UNCHANGED <<open, deferred, listener>> /\ Startup
  BY DEF LoadConfig, Return
<1>2. ToCome' /\ Held' = Held
  BY <1>1, StackFacts DEF ToCome, Starting, Held, Closes
<1> QED  BY <1>1, <1>2, QuietStep DEF Starting

LEMMA BuildAuthStep == IInv /\ buildAuth => IInv'
<1> SUFFICES ASSUME IInv, buildAuth PROVE IInv'
  OBVIOUS
<1>1. phase = "auth" /\ phase' \in {"idempotency", "unwind"} /\ exit' \in {exit, "error"}
      /\ UNCHANGED <<open, deferred, listener>> /\ Startup
  BY DEF buildAuth, Return
<1>2. ToCome' /\ Held' = Held
  BY <1>1, StackFacts DEF ToCome, Starting, Held, Closes
<1> QED  BY <1>1, <1>2, QuietStep DEF Starting

\* Skipping what is not configured, a DSN that is turned away, an answered ping.
LEMMA SkipStep ==
  ASSUME IInv, \/ phase = "mysql" /\ Skip("leaderboard")
               \/ /\ phase = "mysql" /\ Return("error")
                  /\ UNCHANGED <<open, deferred, listener>> /\ Startup
               \/ phase = "pingMySQL" /\ Skip("migrate")
               \/ phase = "leaderboard" /\ Skip("auth")
               \/ phase = "idempotency" /\ Skip("limiter")
  PROVE  IInv'
<1>1. /\ phase' \in {"leaderboard", "migrate", "auth", "limiter", "unwind"}
      /\ exit' \in {exit, "error"}
      /\ UNCHANGED <<open, deferred, listener>> /\ Startup
  BY DEF Skip, Return
<1>2. ToCome' /\ Held' = Held
  BY <1>1, StackFacts DEF ToCome, Starting, Held, Closes, Skip, Return
<1> QED  BY <1>1, <1>2, QuietStep DEF Starting

LEMMA MySQLStep == IInv /\ (openMaybeMySQL \/ PingMySQL \/ Migrate) => IInv'
<1> SUFFICES ASSUME IInv, openMaybeMySQL \/ PingMySQL \/ Migrate PROVE IInv'
  OBVIOUS
<1>1. "db" \in Resource
  BY DEF Resource
<1>2. CASE phase = "mysql" /\ Connect("db", "pingMySQL")
  <2>1. ToCome' /\ Held = {} /\ Held' = {"db"}
    BY <1>2, StackFacts DEF Connect, ToCome, Starting, Held, Closes
  <2> QED  BY <1>2, <2>1, ConnectStep DEF Starting
<1>3. CASE phase \in {"pingMySQL", "migrate"} /\ CloseAndReturn("db")
  <2>1. "db" \notin Closes(deferred) /\ Held = {"db"}
    BY <1>3, StackFacts DEF ToCome, Held
  <2> QED  BY <1>1, <1>3, <2>1, CloseStep DEF Starting
<1>4. CASE phase = "migrate" /\ Defer("db", "leaderboard")
  <2>1. /\ "db" \notin Closes(deferred) /\ Held = {"db"} /\ Held' = {}
        /\ Closes(deferred') = Closes(deferred) \union {"db"} => ToCome'
    BY <1>4, StackFacts DEF Defer, ToCome, Starting, Held, Closes
  <2> QED  BY <1>1, <1>4, <2>1, DeferStep DEF Starting
<1> QED  BY <1>2, <1>3, <1>4, SkipStep DEF openMaybeMySQL, PingMySQL, Migrate

LEMMA LeaderboardStep == IInv /\ (openLeaderboard \/ PingLeaderboard) => IInv'
<1> SUFFICES ASSUME IInv, openLeaderboard \/ PingLeaderboard PROVE IInv'
  OBVIOUS
<1>1. "leaderboard" \in Resource
  BY DEF Resource
<1>2. CASE phase = "leaderboard" /\ Connect("leaderboard", "pingLeaderboard")
  <2>1. ToCome' /\ Held = {} /\ Held' = {"leaderboard"}
    BY <1>2, StackFacts DEF Connect, ToCome, Starting, Held, Closes
  <2> QED  BY <1>2, <2>1, ConnectStep DEF Starting
<1>3. CASE phase = "pingLeaderboard" /\ CloseAndReturn("leaderboard")
  <2>1. "leaderboard" \notin Closes(deferred) /\ Held = {"leaderboard"}
    BY <1>3, StackFacts DEF ToCome, Starting, Held
  <2> QED  BY <1>1, <1>3, <2>1, CloseStep DEF Starting
<1>4. CASE phase = "pingLeaderboard" /\ Defer("leaderboard", "auth")
  <2>1. /\ "leaderboard" \notin Closes(deferred) /\ Held = {"leaderboard"} /\ Held' = {}
        /\ Closes(deferred') = Closes(deferred) \union {"leaderboard"} => ToCome'
    BY <1>4, StackFacts DEF Defer, ToCome, Starting, Held, Closes
  <2> QED  BY <1>1, <1>4, <2>1, DeferStep DEF Starting
<1> QED  BY <1>2, <1>3, <1>4, SkipStep DEF openLeaderboard, PingLeaderboard

LEMMA IdempotencyStoreStep == IInv /\ (openIdempotencyStore \/ PingIdempotency) => IInv'
<1> SUFFICES ASSUME IInv, openIdempotencyStore \/ PingIdempotency PROVE IInv'
  OBVIOUS
<1>1. "idempotency" \in Resource
  BY DEF Resource
<1>2. CASE phase = "idempotency" /\ Connect("idempotency", "pingIdempotency")
  <2>1. ToCome' /\ Held = {} /\ Held' = {"idempotency"}
    BY <1>2, StackFacts DEF Connect, ToCome, Starting, Held, Closes
  <2> QED  BY <1>2, <2>1, ConnectStep DEF Starting
<1>3. CASE phase = "pingIdempotency" /\ CloseAndReturn("idempotency")
  <2>1. "idempotency" \notin Closes(deferred) /\ Held = {"idempotency"}
    BY <1>3, StackFacts DEF ToCome, Starting, Held
  <2> QED  BY <1>1, <1>3, <2>1, CloseStep DEF Starting
<1>4. CASE phase = "pingIdempotency" /\ Defer("idempotency", "limiter")
  <2>1. /\ "idempotency" \notin Closes(deferred) /\ Held = {"idempotency"} /\ Held' = {}
        /\ Closes(deferred') = Closes(deferred) \union {"idempotency"} => ToCome'
    BY <1>4, StackFacts DEF Defer, ToCome, Starting, Held, Closes
  <2> QED  BY <1>1, <1>4, <2>1, DeferStep DEF Starting
<1> QED  BY <1>2, <1>3, <1>4, SkipStep DEF openIdempotencyStore, PingIdempotency

LEMMA ServeStep == IInv /\ Serve => IInv'
<1> SUFFICES ASSUME IInv, Serve PROVE IInv'
  OBVIOUS
<1>1. Held = {} /\ Held' = {} /\ ToCome' /\ "sweeper" \in Resource \ Closes(deferred)
  BY StackFacts DEF Serve, Held, ToCome, Starting, Resource
<1>2. deferred' \in Seq(Resource) /\ NoRepeat(deferred')
      /\ Closes(deferred') = Closes(deferred) \union {"sweeper"}
  BY <1>1, StackFacts, Push DEF Serve
<1>3. open' = Closes(deferred') \union Held'
  BY <1>1, <1>2, StackFacts DEF Serve
<1> QED  BY <1>1, <1>2, <1>3, StartupStep DEF Serve, Starting

-----------------------------------------------------------------------------
(* The server goroutine and the way out *)

ReqState == {"new", "http1", "hijacked", "served", "refused", "cut"}

\* A step that leaves run()'s stack and the phases before the select alone.
LEMMA StackKept ==
  ASSUME IInv, UNCHANGED <<conf, open, deferred>>,
         \/ phase' = phase
         \/ phase \in {"select", "sleep", "shutdown"} /\ phase' \in {"sleep", "shutdown", "unwind"}
  PROVE  /\ StackInv'
         /\ conf' \in Config /\ open' \subseteq Resource /\ deferred' \in Seq(Resource)
         /\ open' = {deferred'[k] : k \in DOMAIN deferred'} \union Held'
         /\ phase' \in Phase
<1>1. StackInv'
  BY DEF IInv, StackInv, ToCome, Starting, Closes
<1>2. phase' \in Phase
  BY DEF IInv, TypeOK, Phase, Stopping
<1>3. Held' = Held
  BY DEF Held
<1> QED  BY <1>1, <1>2, <1>3 DEF IInv, TypeOK

LEMMA ListenStep == IInv /\ Listen => IInv'
<1> SUFFICES ASSUME IInv, Listen PROVE IInv'
  OBVIOUS
<1>1. UNCHANGED <<mainVars, signalled, timer, leaving, req, lbVars>>
      /\ listener = "starting" /\ listener' = "listening"
  BY DEF Listen
<1>2. TypeOK' /\ StackInv'
  BY <1>1, StackKept DEF IInv, TypeOK, mainVars, lbVars
<1>3. ListenerInv' /\ DrainInv'
  BY <1>1 DEF IInv, ListenerInv, DrainInv, Stopping, Busy, mainVars, lbVars, Starting
<1> QED  BY <1>2, <1>3 DEF IInv

LEMMA ListenFailsStep == IInv /\ ListenFails => IInv'
<1> SUFFICES ASSUME IInv, ListenFails PROVE IInv'
  OBVIOUS
<1>1. UNCHANGED <<mainVars, signalled, timer, leaving, req, lbVars>>
      /\ listener \in {"starting", "listening"} /\ listener' = "failed"
  BY DEF ListenFails
<1>2. TypeOK' /\ StackInv'
  BY <1>1, StackKept DEF IInv, TypeOK, mainVars, lbVars
<1>3. ListenerInv' /\ DrainInv'
  BY <1>1 DEF IInv, ListenerInv, DrainInv, Stopping, Busy, mainVars, lbVars, Starting
<1> QED  BY <1>2, <1>3 DEF IInv

\* A signal before NotifyContext ends a process that has opened nothing.
LEMMA SignalStep == IInv /\ Signal => IInv'
<1> SUFFICES ASSUME IInv, Signal PROVE IInv'
  OBVIOUS
<1>1. UNCHANGED <<conf, open, deferred, ready, listener, timer, leaving, req, lbVars>>
      /\ signalled' = TRUE
      /\ \/ phase = "config" /\ phase' = "exited" /\ exit' = "killed"
         \/ phase' = phase /\ exit' = exit
  BY DEF Signal
<1>2. signalled' \in BOOLEAN
  BY <1>1, Zenon
<1>3. TypeOK'
  BY <1>1, <1>2 DEF IInv, TypeOK, lbVars, Phase, Stopping, Held
<1>4. StackInv'
  BY <1>1 DEF IInv, StackInv, ToCome, Starting, Closes
<1>5. ListenerInv' /\ DrainInv'
  BY <1>1 DEF IInv, ListenerInv, DrainInv, Stopping, Busy, lbVars, Starting
<1> QED  BY <1>3, <1>4, <1>5 DEF IInv

LEMMA SelectErrorStep == IInv /\ SelectError => IInv'
<1> SUFFICES ASSUME IInv, SelectError PROVE IInv'
  OBVIOUS
<1>1. UNCHANGED <<conf, open, deferred, signalled, ready, listener, timer, leaving, req, lbVars>>
      /\ phase = "select" /\ listener = "failed" /\ phase' = "unwind" /\ exit' = "error"
  BY DEF SelectError, Return
<1>2. TypeOK' /\ StackInv'
  BY <1>1, StackKept DEF IInv, TypeOK, lbVars
<1>3. ListenerInv' /\ DrainInv'
  BY <1>1 DEF IInv, ListenerInv, DrainInv, Stopping, Busy, lbVars, Starting
<1> QED  BY <1>2, <1>3 DEF IInv

-----------------------------------------------------------------------------
(* Draining *)

LEMMA OneMoreProbe ==
  ASSUME NEW f \in Nat
  PROVE  /\ ProbePeriod * f \in Nat
         /\ ProbePeriod * (f + 1) = ProbePeriod * f + ProbePeriod
BY LifecycleAssumption

\* The probes that have failed, and the wait for one more, fit in the lag.
LEMMA ProbesFit ==
  ASSUME NEW f \in Nat, f < FailureThreshold
  PROVE  ProbePeriod * f + ProbePeriod <= ProbeLag
<1>1. ProbePeriod * (f + 1) <= ProbePeriod * FailureThreshold
  <2>1. /\ ProbePeriod \in Nat /\ FailureThreshold - (f + 1) \in Nat
        /\ FailureThreshold \in Nat
    BY LifecycleAssumption
  <2>2. \A a, b, d \in Nat : a * (b + d) = a * b + a * d /\ a * d >= 0
    OBVIOUS
  <2> DEFINE d == FailureThreshold - (f + 1)
  <2>3. ProbePeriod * ((f + 1) + d) = ProbePeriod * (f + 1) + ProbePeriod * d
        /\ ProbePeriod * d >= 0
    BY <2>1, <2>2
  <2>4. (f + 1) + d = FailureThreshold
    BY <2>1
  <2>5. ProbePeriod * (f + 1) \in Int /\ ProbePeriod * d \in Int
    BY <2>1
  <2> QED  BY <2>3, <2>4, <2>5
<1>2. ProbePeriod * (f + 1) = ProbePeriod * f + ProbePeriod
  BY OneMoreProbe
<1> QED  BY <1>1, <1>2 DEF ProbeLag

\* A server that is still in rotation while it stops has not been stopping long.
LEMMA StoppingIsShort ==
  ASSUME IInv, phase \in Stopping, inRotation, listener # "failed"
  PROVE  leaving <= ProbeLag
<1>1. /\ fails \in Nat /\ fails < FailureThreshold
      /\ sinceProbe \in Nat /\ sinceProbe <= ProbePeriod
      /\ leaving \in Nat /\ leaving <= ProbePeriod * fails + sinceProbe
      /\ ProbePeriod \in Nat /\ ProbeLag \in Nat
  BY LifecycleAssumption, BoundsAreNat DEF IInv, TypeOK, DrainInv
<1>2. ProbePeriod * fails \in Nat /\ ProbePeriod * fails + ProbePeriod <= ProbeLag
  BY <1>1, OneMoreProbe, ProbesFit
<1> QED  BY <1>1, <1>2

LEMMA SetDrainingStep == IInv /\ SetDraining => IInv'
<1> SUFFICES ASSUME IInv, SetDraining PROVE IInv'
  OBVIOUS
<1>1. UNCHANGED <<conf, open, deferred, exit, signalled, listener, leaving, req, lbVars>>
      /\ phase = "select" /\ phase' = "sleep" /\ timer' = 0 /\ ready' = FALSE
  BY DEF SetDraining
<1>2. ready' \in BOOLEAN
  BY <1>1, Zenon
<1>3. timer' \in 0..Timeout
  BY <1>1, BoundsAreNat
<1>4. TypeOK' /\ StackInv'
  BY <1>1, <1>2, <1>3, StackKept DEF IInv, TypeOK, lbVars
<1>5. ListenerInv'
  BY <1>1 DEF IInv, ListenerInv, Busy, lbVars, Starting, Stopping
<1>6. DrainInv'
  <2>1. fails \in Nat /\ sinceProbe \in Nat /\ leaving = 0
    BY <1>1, LifecycleAssumption DEF IInv, TypeOK, DrainInv, Stopping
  <2>2. 0 <= ProbePeriod * fails + sinceProbe
    BY <2>1, OneMoreProbe
  <2> QED  BY <1>1, <2>1, <2>2 DEF IInv, DrainInv, lbVars
<1> QED  BY <1>4, <1>5, <1>6 DEF IInv

LEMMA ShutdownStep == IInv /\ Shutdown => IInv'
<1> SUFFICES ASSUME IInv, Shutdown PROVE IInv'
  OBVIOUS
<1>1. UNCHANGED <<conf, open, deferred, exit, signalled, ready, leaving, req, lbVars>>
      /\ phase = "sleep" /\ phase' = "shutdown" /\ timer' = 0
      /\ listener' = IF listener = "failed" THEN "failed" ELSE "closed"
  BY DEF Shutdown
<1>2. timer' \in 0..Timeout
  BY <1>1, BoundsAreNat
<1>3. TypeOK' /\ StackInv'
  BY <1>1, <1>2, StackKept DEF IInv, TypeOK, lbVars
<1>4. ListenerInv'
  BY <1>1 DEF IInv, ListenerInv, Busy, lbVars, Starting, Stopping
<1>5. DrainInv'
  BY <1>1 DEF IInv, DrainInv, lbVars, Stopping
<1> QED  BY <1>3, <1>4, <1>5 DEF IInv

\* Shutdown returns nil without an HTTP/1 request left, or an error.
LEMMA ShutdownReturnsStep == IInv /\ (ShutdownDone \/ ShutdownTimesOut) => IInv'
<1> SUFFICES ASSUME IInv, ShutdownDone \/ ShutdownTimesOut PROVE IInv'
  OBVIOUS
<1>1. UNCHANGED <<conf, open, deferred, signalled, ready, listener, timer, leaving, req, lbVars>>
      /\ phase = "shutdown" /\ phase' = "unwind"
      /\ (exit' = "error" \/ (exit' = "ok" /\ ~Busy))
  BY DEF ShutdownDone, ShutdownTimesOut, Return
<1>2. TypeOK' /\ StackInv'
  BY <1>1, StackKept DEF IInv, TypeOK, lbVars
<1>3. ListenerInv' /\ DrainInv'
  BY <1>1 DEF IInv, ListenerInv, DrainInv, Busy, lbVars, Starting, Stopping
<1> QED  BY <1>2, <1>3 DEF IInv

LEMMA UnwindStep == IInv /\ Unwind => IInv'
<1> SUFFICES ASSUME IInv, Unwind PROVE IInv'
  OBVIOUS
<1>1. UNCHANGED <<conf, exit, signalled, ready, listener, timer, leaving, lbVars>>
      /\ phase = "unwind"
  BY DEF Unwind
<1>2. open = Closes(deferred) /\ deferred \in Seq(Resource) /\ NoRepeat(deferred)
      /\ open \subseteq Resource
  BY <1>1, StackFacts DEF IInv, TypeOK, Held
<1>3. CASE deferred # <<>>
  <2>1. /\ open' = open \ {Head(deferred)} /\ deferred' = Tail(deferred)
        /\ UNCHANGED <<phase, req>>
    BY <1>3 DEF Unwind
  <2>2. deferred' \in Seq(Resource) /\ open' = Closes(deferred') /\ NoRepeat(deferred')
    BY <1>2, <1>3, <2>1, Pop
  <2>3. open' \subseteq Resource /\ Held' = {}
    BY <1>1, <1>2, <2>1 DEF Held
  <2>4. TypeOK'
    BY <1>1, <2>1, <2>2, <2>3 DEF IInv, TypeOK, Closes, lbVars
  <2>5. StackInv'
    BY <1>1, <2>1, <2>2 DEF StackInv, ToCome, Starting
  <2>6. ListenerInv' /\ DrainInv'
    BY <1>1, <2>1 DEF IInv, ListenerInv, DrainInv, Busy, lbVars, Starting, Stopping
  <2> QED  BY <2>4, <2>5, <2>6 DEF IInv
<1>4. CASE deferred = <<>>
  <2>1. /\ phase' = "exited" /\ UNCHANGED <<open, deferred>>
        /\ req' = [q \in Request |->
                     IF req[q] \in {"http1", "hijacked"} THEN "cut" ELSE req[q]]
    BY <1>4 DEF Unwind
  <2>2. req' \in [Request -> ReqState]
    BY <2>1 DEF IInv, TypeOK, ReqState
  <2>3. Held' = Held /\ phase' \in Phase
    BY <1>1, <2>1 DEF Held, Phase, Stopping
  <2>4. TypeOK'
    BY <1>1, <2>1, <2>2, <2>3 DEF IInv, TypeOK, lbVars, ReqState
  <2>5. StackInv'
    BY <1>2, <1>4, <2>1 DEF StackInv, ToCome, Starting
  <2>6. \A q \in Request : req'[q] # "http1"
    BY <2>1
  <2>7. ListenerInv' /\ DrainInv'
    BY <1>1, <2>1, <2>6 DEF IInv, ListenerInv, DrainInv, Busy, lbVars, Starting, Stopping
  <2> QED  BY <2>4, <2>5, <2>7 DEF IInv
<1> QED  BY <1>3, <1>4

-----------------------------------------------------------------------------
(* Requests, probes and time *)

LEMMA ArriveStep == ASSUME NEW q \in Request PROVE IInv /\ Arrive(q) => IInv'
<1> SUFFICES ASSUME IInv, Arrive(q) PROVE IInv'
  OBVIOUS
<1>1. UNCHANGED <<mainVars, signalled, listener, timer, leaving, lbVars>> /\ inRotation
  BY DEF Arrive
<1>2. PICK kind \in {"http1", "hijacked"} :
        req' = [req EXCEPT ![q] = IF Accepting THEN kind ELSE "refused"]
  BY DEF Arrive
<1>3. req \in [Request -> ReqState] /\ req' \in [Request -> ReqState]
  BY <1>2 DEF IInv, TypeOK, ReqState
<1>4. TypeOK' /\ StackInv'
  BY <1>1, <1>3, StackKept DEF IInv, TypeOK, mainVars, lbVars, ReqState
<1>5. exit = "ok" => ~(Busy')
  <2> SUFFICES ASSUME exit = "ok", NEW p \in Request, req'[p] = "http1" PROVE FALSE
    BY DEF Busy
  <2>1. phase \in {"unwind", "exited"} /\ ~Busy
    BY DEF IInv, ListenerInv
  <2>2. ~Accepting
    BY <2>1 DEF IInv, ListenerInv, Accepting
  <2> QED  BY <1>2, <1>3, <2>1, <2>2 DEF Busy
<1>6. ListenerInv' /\ DrainInv'
  BY <1>1, <1>5 DEF IInv, ListenerInv, DrainInv, mainVars, lbVars
<1> QED  BY <1>4, <1>6 DEF IInv

LEMMA RespondStep == ASSUME NEW q \in Request PROVE IInv /\ Respond(q) => IInv'
<1> SUFFICES ASSUME IInv, Respond(q) PROVE IInv'
  OBVIOUS
<1>1. UNCHANGED <<mainVars, signalled, listener, timer, leaving, lbVars>>
      /\ req' = [req EXCEPT ![q] = "served"]
  BY DEF Respond
<1>2. req \in [Request -> ReqState] /\ req' \in [Request -> ReqState]
  BY <1>1 DEF IInv, TypeOK, ReqState
<1>3. TypeOK' /\ StackInv'
  BY <1>1, <1>2, StackKept DEF IInv, TypeOK, mainVars, lbVars, ReqState
<1>4. \A p \in Request : req'[p] = "served" \/ req'[p] = req[p]
  BY <1>1, <1>2
<1>5. ListenerInv' /\ DrainInv'
  BY <1>1, <1>4 DEF IInv, ListenerInv, DrainInv, Busy, mainVars, lbVars
<1> QED  BY <1>3, <1>5 DEF IInv

\* A probe of a server that stops fails; it is due at most a period after the last.
LEMMA ProbeStep == IInv /\ Probe => IInv'
<1> SUFFICES ASSUME IInv, Probe PROVE IInv'
  OBVIOUS
<1>1. UNCHANGED <<mainVars, signalled, listener, timer, leaving, req>> /\ sinceProbe' = 0
  BY DEF Probe
<1>2. /\ fails \in Nat /\ fails <= FailureThreshold /\ inRotation \in BOOLEAN
      /\ sinceProbe \in Nat /\ sinceProbe <= ProbePeriod /\ leaving \in Nat
      /\ ProbePeriod \in Nat /\ FailureThreshold \in Nat \ {0}
  BY LifecycleAssumption, BoundsAreNat DEF IInv, TypeOK
<1>3. \/ inRotation' = TRUE /\ fails' = 0 /\ Accepting /\ ready
      \/ /\ fails' = IF fails < FailureThreshold THEN fails + 1 ELSE fails
         /\ inRotation' = (inRotation /\ fails' < FailureThreshold)
  BY DEF Probe, ProbeAnswer
<1>4. inRotation' \in BOOLEAN
  BY <1>3, Zenon
<1>5. fails' \in 0..FailureThreshold /\ sinceProbe' \in 0..ProbePeriod
  BY <1>1, <1>2, <1>3
<1>6. TypeOK' /\ StackInv'
  BY <1>1, <1>4, <1>5, StackKept DEF IInv, TypeOK, mainVars
<1>7. ListenerInv'
  BY <1>1, <1>3 DEF IInv, ListenerInv, Busy, mainVars, Accepting
<1>8. DrainInv'
  <2>1. (phase' \in {"sleep", "shutdown"} => ~ready') /\ (phase' \notin Stopping => leaving' = 0)
    BY <1>1 DEF IInv, DrainInv, mainVars
  <2>2. inRotation' => fails' < FailureThreshold
    <3>1. CASE fails' = 0
      BY <1>2, <3>1
    <3>2. CASE inRotation' = (inRotation /\ fails' < FailureThreshold)
      BY <3>2, Zenon
    <3> QED  BY <1>3, <3>1, <3>2
  <2>3. ASSUME phase' \in Stopping, inRotation', listener' # "failed"
        PROVE  leaving' <= ProbePeriod * fails' + sinceProbe'
    <3>1. phase \in Stopping /\ listener # "failed" /\ ~(Accepting /\ ready)
      BY <1>1, <2>3 DEF IInv, ListenerInv, DrainInv, mainVars, Accepting, Stopping
    <3>2. inRotation /\ fails' < FailureThreshold
          /\ fails' = IF fails < FailureThreshold THEN fails + 1 ELSE fails
      BY <1>3, <2>2, <2>3, <3>1
    <3>3. fails' = fails + 1
      BY <1>2, <3>2
    <3>4. leaving <= ProbePeriod * fails + sinceProbe
      BY <3>1, <3>2 DEF IInv, DrainInv
    <3>5. ProbePeriod * fails' = ProbePeriod * fails + ProbePeriod /\ ProbePeriod * fails \in Nat
      BY <1>2, <3>3, OneMoreProbe
    <3> QED  BY <1>1, <1>2, <3>4, <3>5
  <2> QED  BY <2>1, <2>2, <2>3 DEF DrainInv
<1> QED  BY <1>6, <1>7, <1>8 DEF IInv

LEMMA TickStep == IInv /\ Tick => IInv'
<1> SUFFICES ASSUME IInv, Tick PROVE IInv'
  OBVIOUS
<1>1. UNCHANGED <<mainVars, signalled, listener, req, inRotation, fails>>
      /\ sinceProbe < ProbePeriod /\ sinceProbe' = sinceProbe + 1
      /\ timer' = IF timer < Timeout THEN timer + 1 ELSE timer
  BY DEF Tick
<1>a. leaving' = leaving \/ (leaving <= ProbeLag /\ leaving' = leaving + 1)
  BY DEF Tick, Stopping
<1>b. phase \notin Stopping => leaving' = leaving
  BY DEF Tick, Stopping
<1>2. /\ fails \in Nat /\ sinceProbe \in Nat /\ timer \in Nat /\ timer <= Timeout
      /\ leaving \in Nat /\ leaving <= ProbeLag + 1
      /\ ProbePeriod \in Nat /\ Timeout \in Nat /\ ProbeLag \in Nat
  BY LifecycleAssumption, BoundsAreNat DEF IInv, TypeOK
<1>3. sinceProbe' \in 0..ProbePeriod /\ timer' \in 0..Timeout /\ leaving' \in 0..(ProbeLag + 1)
  BY <1>1, <1>2, <1>a
<1>4. TypeOK' /\ StackInv'
  BY <1>1, <1>3, StackKept DEF IInv, TypeOK, mainVars
<1>5. ListenerInv'
  BY <1>1 DEF IInv, ListenerInv, Busy, mainVars
<1>6. ProbePeriod * fails \in Nat
  BY <1>2, OneMoreProbe
<1>7. leaving <= ProbePeriod * fails + sinceProbe => leaving' <= ProbePeriod * fails + sinceProbe'
  BY <1>1, <1>2, <1>6, <1>a
<1>8. DrainInv'
  BY <1>1, <1>7, <1>b DEF IInv, DrainInv, mainVars, Stopping
<1> QED  BY <1>4, <1>5, <1>8 DEF IInv

LEMMA NextInv == IInv /\ [Next]_vars => IInv'
<1> SUFFICES ASSUME IInv, [Next]_vars PROVE IInv'
  OBVIOUS
<1>1. CASE Run
  BY <1>1, LoadConfigStep, MySQLStep, LeaderboardStep, BuildAuthStep,
     IdempotencyStoreStep, ServeStep, SelectErrorStep, SetDrainingStep, ShutdownStep,
     ShutdownReturnsStep, UnwindStep DEF Run
<1>2. CASE Listen \/ ListenFails \/ Signal \/ Probe \/ Tick
  BY <1>2, ListenStep, ListenFailsStep, SignalStep, ProbeStep, TickStep
<1>3. CASE \E q \in Request : Arrive(q) \/ Respond(q)
  BY <1>3, ArriveStep, RespondStep
<1>4. CASE UNCHANGED vars
  BY <1>4 DEF vars, IInv, TypeOK, Held, StackInv, ToCome, Closes, NoRepeat,
              ListenerInv, DrainInv, Busy
<1> QED  BY <1>1, <1>2, <1>3, <1>4 DEF Next

LEMMA Safety == Spec => []IInv
BY InitInv, NextInv, PTL DEF Spec

-----------------------------------------------------------------------------

\* The variables of the server process keep their types; what is open is what
\* run() has deferred the close of, and at most the one handle it is still opening.
THEOREM TypeCorrect == Spec => []TypeOK
<1>1. IInv => TypeOK
  BY DEF IInv
<1> QED  BY <1>1, Safety, PTL

\* However far the start came before it failed, and however the server ends, the
\* deferred closes of run() leave nothing open when the process exits.
THEOREM NothingLeaks == Spec => []NothingLeftOpen
<1>1. IInv => NothingLeftOpen
  <2> SUFFICES ASSUME IInv, phase = "exited" PROVE open = {}
    BY DEF NothingLeftOpen
  <2>1. deferred = <<>> /\ open = Closes(deferred) \union Held
    BY StackFacts DEF IInv, StackInv
  <2>2. Held = {} /\ Closes(<<>>) = {}
    BY DEF Held, Closes
  <2> QED  BY <2>1, <2>2
<1> QED  BY <1>1, Safety, PTL

\* When run() returns nil, "server stopped cleanly", no HTTP/1 request is running,
\* neither then nor while the deferred closes run.
THEOREM CleanExit == Spec => []CleanExitCutsNothing
<1>1. IInv => CleanExitCutsNothing
  BY DEF IInv, ListenerInv, CleanExitCutsNothing
<1> QED  BY <1>1, Safety, PTL

\* SetDraining and the sleep before Shutdown, for every delay and every setting of
\* the probe: unless its listener broke, the server refuses a request only after
\* Shutdown closed it, and only for as long after SetDraining as it takes
\* FailureThreshold probes to fail.
THEOREM DrainEnds == Spec => RefusalsEnd
<1> DEFINE Brief(q) == req[q] = "new" /\ req'[q] = "refused" =>
                          \/ listener = "failed"
                          \/ listener = "closed" /\ leaving <= ProbeLag
<1>1. ASSUME IInv, [Next]_vars PROVE [\A q \in Request : Brief(q)]_vars
  <2> SUFFICES ASSUME Next, NEW q \in Request, req[q] = "new", req'[q] = "refused",
                      listener # "failed"
               PROVE  listener = "closed" /\ leaving <= ProbeLag
    BY <1>1
  <2>t. req \in [Request -> ReqState]
    BY <1>1 DEF IInv, TypeOK, ReqState
  <2>1. inRotation /\ ~Accepting
    <3>1. CASE \E p \in Request : Arrive(p) \/ Respond(p)
      BY <2>t, <3>1 DEF Arrive, Respond
    <3>2. CASE Unwind
      BY <2>t, <3>2 DEF Unwind
    <3>3. CASE UNCHANGED req
      BY <2>t, <3>3
    <3> QED
      BY <3>1, <3>2, <3>3 DEF Next, Run, LoadConfig, openMaybeMySQL, PingMySQL, Migrate,
         openLeaderboard, PingLeaderboard, buildAuth, openIdempotencyStore, PingIdempotency,
         Serve, Skip, Connect, Defer, CloseAndReturn, Startup, SelectError, SetDraining,
         Shutdown, ShutdownDone, ShutdownTimesOut, Listen, ListenFails, Signal, Probe, Tick
  <2>2. listener = "closed" /\ phase \in Stopping
    BY <1>1, <2>1 DEF IInv, ListenerInv, Accepting
  <2> QED  BY <1>1, <2>1, <2>2, StoppingIsShort
<1>2. Spec => [][\A q \in Request : Brief(q)]_vars
  BY <1>1, Safety, PTL DEF Spec
<1> QED  BY <1>2 DEF RefusalsEnd
==============================================================================
