------------------------------ MODULE Lifecycle ------------------------------
(***************************************************************************)
(* The server process: run() opens its resources one after the other,      *)
(* starts the listener in a goroutine, waits for a signal or a listener    *)
(* error, drains, shuts the HTTP server down and closes what it opened in  *)
(* reverse order.  Around it are the kubelet's readiness probe, which      *)
(* decides whether requests are sent here, and the requests themselves.    *)
(*                                                                         *)
(* Shutdown waits for HTTP/1 requests only: a connection taken over by a   *)
(* handler (WebSocket, h2c) is not one of the server's any more.           *)
(***************************************************************************)
EXTENDS Integers, Sequences

CONSTANTS Request,          \* requests a client may send
          DrainDelay,       \* the sleep between SetDraining and Shutdown
          ShutdownTimeout,  \* SHUTDOWN_TIMEOUT
          ProbePeriod,      \* readinessProbe.periodSeconds
          FailureThreshold  \* readinessProbe.failureThreshold

ASSUME LifecycleAssumption ==
  /\ DrainDelay \in Nat /\ ShutdownTimeout \in Nat \ {0}
  /\ ProbePeriod \in Nat \ {0} /\ FailureThreshold \in Nat \ {0}

VARIABLES conf,       \* the environment's settings
          phase,      \* where run() is
          open,       \* what is open: resources and the sweeper
          deferred,   \* the deferred closes, last one first
          exit,       \* what run() returns
          signalled,  \* SIGINT or SIGTERM has come
          ready,      \* Readiness.ready
          listener,   \* the server goroutine
          timer,      \* ticks since the sleep or the shutdown began
          leaving,    \* history: ticks since run() began to stop, up to a bound
          req,        \* what has become of each request
          inRotation, \* requests are sent to this server
          fails,      \* failed probes in a row
          sinceProbe  \* ticks since the last probe

mainVars == <<conf, phase, open, deferred, exit, ready>>
lbVars == <<inRotation, fails, sinceProbe>>
vars == <<conf, phase, open, deferred, exit, signalled, ready, listener,
          timer, leaving, req, inRotation, fails, sinceProbe>>

\* Which backends are set, the token lifetime, and whether all else is legal.
Config == [mysql : BOOLEAN, redis : BOOLEAN, secret : BOOLEAN,
           tokenTTL : 0..1, others : BOOLEAN]
Resource == {"db", "leaderboard", "idempotency", "sweeper"}
Starting == {"config", "mysql", "pingMySQL", "migrate", "leaderboard",
             "pingLeaderboard", "auth", "idempotency", "pingIdempotency", "limiter"}
Stopping == {"sleep", "shutdown", "unwind", "exited"}
Phase == Starting \union {"select"} \union Stopping
Timeout == IF DrainDelay > ShutdownTimeout THEN DrainDelay ELSE ShutdownTimeout

\* The longest a server that fails its probes stays in rotation.
ProbeLag == ProbePeriod * FailureThreshold

\* What is open although run() has not deferred its close yet.
Held == CASE phase \in {"pingMySQL", "migrate"} -> {"db"}
          [] phase = "pingLeaderboard" -> {"leaderboard"}
          [] phase = "pingIdempotency" -> {"idempotency"}
          [] OTHER -> {}

TypeOK ==
  /\ conf \in Config /\ phase \in Phase
  /\ open \subseteq Resource /\ deferred \in Seq(Resource)
  /\ open = {deferred[k] : k \in DOMAIN deferred} \union Held
  /\ exit \in {"none", "ok", "error", "killed"}
  /\ signalled \in BOOLEAN /\ ready \in BOOLEAN
  /\ listener \in {"off", "starting", "listening", "failed", "closed"}
  /\ timer \in 0..Timeout /\ leaving \in 0..(ProbeLag + 1)
  /\ req \in [Request -> {"new", "http1", "hijacked", "served", "refused", "cut"}]
  /\ inRotation \in BOOLEAN
  /\ fails \in 0..FailureThreshold
  /\ sinceProbe \in 0..ProbePeriod

Init ==
  /\ conf \in Config
  /\ phase = "config"
  /\ open = {} /\ deferred = <<>>
  /\ exit = "none"
  /\ signalled = FALSE
  /\ ready = TRUE
  /\ listener = "off"
  /\ timer = 0 /\ leaving = 0
  /\ req = [q \in Request |-> "new"]
  /\ inRotation = FALSE /\ fails = 0 /\ sinceProbe = 0

-----------------------------------------------------------------------------
(* run(): from the environment to a listening server *)

Return(code) == phase' = "unwind" /\ exit' = code

\* A step of run() that leaves the rest of the process alone.
Startup == UNCHANGED <<conf, signalled, ready, timer, leaving, req, inRotation,
                       fails, sinceProbe>>

validate(c) == c.others /\ c.tokenTTL > 0

LoadConfig ==
  /\ phase = "config"
  /\ IF validate(conf) THEN phase' = "mysql" /\ UNCHANGED exit ELSE Return("error")
  /\ UNCHANGED <<open, deferred, listener>> /\ Startup

\* Opening r without an address is nothing to do; otherwise a handle is made,
\* which is open from then on, and then pinged.
Connect(r, next) ==
  /\ open' = open \union {r}
  /\ phase' = next
  /\ UNCHANGED <<deferred, exit, listener>> /\ Startup

Skip(next) == /\ phase' = next
              /\ UNCHANGED <<open, deferred, exit, listener>> /\ Startup

Defer(r, next) ==
  /\ deferred' = <<r>> \o deferred
  /\ phase' = next
  /\ UNCHANGED <<open, exit, listener>> /\ Startup

\* Faulty variant: the handle is not closed when the step on it fails.
CloseAndReturnLeaks(r) ==
  /\ Return("error")
  /\ UNCHANGED <<open, deferred, listener>> /\ Startup

\* A handle that run() has not been given yet is closed by who opened it.
CloseAndReturn(r) ==
  /\ open' = open \ {r}
  /\ Return("error")
  /\ UNCHANGED <<deferred, listener>> /\ Startup

\* sql.Open may turn the DSN away.
openMaybeMySQL ==
  /\ phase = "mysql"
  /\ \/ ~conf.mysql /\ Skip("leaderboard")
     \/ conf.mysql /\ Connect("db", "pingMySQL")
     \/ /\ conf.mysql /\ Return("error")
        /\ UNCHANGED <<open, deferred, listener>> /\ Startup

\* A ping is answered or not; never once the signal has ended its context.
PingMySQL ==
  /\ phase = "pingMySQL"
  /\ (~signalled /\ Skip("migrate")) \/ CloseAndReturn("db")

Migrate ==
  /\ phase = "migrate"
  /\ Defer("db", "leaderboard") \/ CloseAndReturn("db")

openLeaderboard ==
  /\ phase = "leaderboard"
  /\ \/ ~conf.redis /\ Skip("auth")
     \/ conf.redis /\ Connect("leaderboard", "pingLeaderboard")

PingLeaderboard ==
  /\ phase = "pingLeaderboard"
  /\ (~signalled /\ Defer("leaderboard", "auth")) \/ CloseAndReturn("leaderboard")

\* An issuer with a secret needs a positive lifetime.
buildAuth ==
  /\ phase = "auth"
  /\ IF conf.secret => conf.tokenTTL > 0 THEN phase' = "idempotency" /\ UNCHANGED exit
                                         ELSE Return("error")
  /\ UNCHANGED <<open, deferred, listener>> /\ Startup

openIdempotencyStore ==
  /\ phase = "idempotency"
  /\ \/ ~conf.redis /\ Skip("limiter")
     \/ conf.redis /\ Connect("idempotency", "pingIdempotency")

PingIdempotency ==
  /\ phase = "pingIdempotency"
  /\ (~signalled /\ Defer("idempotency", "limiter")) \/ CloseAndReturn("idempotency")

\* The sweeper is started, the routes are mounted and the goroutine is launched.
Serve ==
  /\ phase = "limiter"
  /\ open' = open \union {"sweeper"}
  /\ deferred' = <<"sweeper">> \o deferred
  /\ phase' = "select"
  /\ listener' = "starting"
  /\ UNCHANGED exit /\ Startup

-----------------------------------------------------------------------------
(* The server goroutine *)

Listen ==
  /\ listener = "starting" /\ phase # "exited"
  /\ listener' = "listening"
  /\ UNCHANGED <<mainVars, signalled, timer, leaving, req, lbVars>>

\* The address is taken, or accepting fails for good: the error is sent to a
\* channel with room for it, whether or not run() still reads it.
ListenFails ==
  /\ listener \in {"starting", "listening"} /\ phase # "exited"
  /\ listener' = "failed"
  /\ UNCHANGED <<mainVars, signalled, timer, leaving, req, lbVars>>

-----------------------------------------------------------------------------
(* run(): from the signal to the exit *)

\* The first signal ends the context, later ones are swallowed; before
\* NotifyContext a signal ends the process.
Signal ==
  /\ ~signalled /\ phase # "exited"
  /\ signalled' = TRUE
  /\ IF phase = "config" THEN phase' = "exited" /\ exit' = "killed"
                         ELSE UNCHANGED <<phase, exit>>
  /\ UNCHANGED <<conf, open, deferred, ready, listener, timer, leaving, req, lbVars>>

SelectError ==
  /\ phase = "select" /\ listener = "failed"
  /\ Return("error")
  /\ UNCHANGED <<conf, open, deferred, signalled, ready, listener, timer, leaving, req, lbVars>>

\* Faulty variant: the server stays ready while it waits.
SetDrainingForgotten ==
  /\ phase = "select" /\ signalled
  /\ phase' = "sleep"
  /\ timer' = 0
  /\ UNCHANGED <<conf, open, deferred, exit, signalled, ready, listener, leaving, req, lbVars>>

SetDraining ==
  /\ phase = "select" /\ signalled
  /\ ready' = FALSE
  /\ phase' = "sleep"
  /\ timer' = 0
  /\ UNCHANGED <<conf, open, deferred, exit, signalled, listener, leaving, req, lbVars>>

\* Shutdown closes the listener; one that has not listened yet never will.
Shutdown ==
  /\ phase = "sleep" /\ timer >= DrainDelay
  /\ phase' = "shutdown"
  /\ timer' = 0
  /\ listener' = IF listener = "failed" THEN "failed" ELSE "closed"
  /\ UNCHANGED <<conf, open, deferred, exit, signalled, ready, leaving, req, lbVars>>

Busy == \E q \in Request : req[q] = "http1"

\* Faulty variant: connections are closed without waiting for their requests.
ShutdownAtOnce ==
  /\ phase = "shutdown"
  /\ Return("ok")
  /\ UNCHANGED <<conf, open, deferred, signalled, ready, listener, timer, leaving, req, lbVars>>

ShutdownDone ==
  /\ phase = "shutdown" /\ ~Busy
  /\ Return("ok")
  /\ UNCHANGED <<conf, open, deferred, signalled, ready, listener, timer, leaving, req, lbVars>>

\* Faulty variant: Shutdown is given a context without a deadline.
ShutdownUnbounded ==
  /\ phase = "shutdown" /\ ~Busy /\ timer >= ShutdownTimeout
  /\ Return("error")
  /\ UNCHANGED <<conf, open, deferred, signalled, ready, listener, timer, leaving, req, lbVars>>

ShutdownTimesOut ==
  /\ phase = "shutdown" /\ Busy /\ timer >= ShutdownTimeout
  /\ Return("error")
  /\ UNCHANGED <<conf, open, deferred, signalled, ready, listener, timer, leaving, req, lbVars>>

\* The deferred closes run one by one; the process then ends and with it every
\* request still running.
Unwind ==
  /\ phase = "unwind"
  /\ IF deferred # <<>>
       THEN /\ open' = open \ {Head(deferred)}
            /\ deferred' = Tail(deferred)
            /\ UNCHANGED <<phase, req>>
       ELSE /\ phase' = "exited"
            /\ req' = [q \in Request |->
                         IF req[q] \in {"http1", "hijacked"} THEN "cut" ELSE req[q]]
            /\ UNCHANGED <<open, deferred>>
  /\ UNCHANGED <<conf, exit, signalled, ready, listener, timer, leaving, lbVars>>

-----------------------------------------------------------------------------
(* Requests, probes and time *)

Accepting == listener = "listening" /\ phase # "exited"

\* A request sent here is taken by the listener or refused a connection.
Arrive(q) ==
  /\ req[q] = "new" /\ inRotation
  /\ \E kind \in {"http1", "hijacked"} :
       req' = [req EXCEPT ![q] = IF Accepting THEN kind ELSE "refused"]
  /\ UNCHANGED <<mainVars, signalled, listener, timer, leaving, lbVars>>

Respond(q) ==
  /\ req[q] \in {"http1", "hijacked"}
  /\ req' = [req EXCEPT ![q] = "served"]
  /\ UNCHANGED <<mainVars, signalled, listener, timer, leaving, lbVars>>

\* HealthHandler.Ready, behind the rate limiter like every route.
ProbeAnswer(limited) == Accepting /\ ready /\ ~limited

Probe ==
  /\ \E limited \in BOOLEAN :
       IF ProbeAnswer(limited)
         THEN inRotation' = TRUE /\ fails' = 0
         ELSE /\ fails' = IF fails < FailureThreshold THEN fails + 1 ELSE fails
              /\ inRotation' = (inRotation /\ fails' < FailureThreshold)
  /\ sinceProbe' = 0
  /\ UNCHANGED <<mainVars, signalled, listener, timer, leaving, req>>

Tick ==
  /\ sinceProbe < ProbePeriod
  /\ sinceProbe' = sinceProbe + 1
  /\ timer' = IF timer < Timeout THEN timer + 1 ELSE timer
  /\ leaving' = IF phase \in Stopping /\ leaving <= ProbeLag THEN leaving + 1 ELSE leaving
  /\ UNCHANGED <<mainVars, signalled, listener, req, inRotation, fails>>

Run ==
  \/ LoadConfig \/ openMaybeMySQL \/ PingMySQL \/ Migrate
  \/ openLeaderboard \/ PingLeaderboard \/ buildAuth
  \/ openIdempotencyStore \/ PingIdempotency \/ Serve
  \/ SelectError \/ SetDraining \/ Shutdown \/ ShutdownDone \/ ShutdownTimesOut
  \/ Unwind

Next ==
  \/ Run
  \/ Listen \/ ListenFails \/ Signal
  \/ \E q \in Request : Arrive(q) \/ Respond(q)
  \/ Probe \/ Tick

\* run() never blocks for good and time passes; requests may hang for ever.
Spec == Init /\ [][Next]_vars /\ WF_vars(Run) /\ WF_vars(Probe) /\ WF_vars(Tick)

-----------------------------------------------------------------------------
(* Properties *)

\* However far the start came before it failed, and however the server ends,
\* what run() opened is closed again when the process exits.
NothingLeftOpen == phase = "exited" => open = {}

\* "server stopped cleanly": when run() returns nil, every HTTP/1 request it took
\* has been answered, before the first of its database and stores is closed.
CleanExitCutsNothing == exit = "ok" => ~Busy

\* The comments on the drain and the Deployment: the sleep after SetDraining gives
\* the load balancer the time to take the server out, so that, as long as the
\* listener does not break, no request is sent to a server that refuses it.
NoRefusal == (\E q \in Request : req[q] = "refused") => listener = "failed"

\* What SetDraining and the sleep do achieve, whatever the delay: unless the
\* listener breaks, nobody is refused before Shutdown has closed it, and nobody
\* once as many probes have failed as it takes, counted from SetDraining.
RefusalsEnd ==
  [][\A q \in Request : req[q] = "new" /\ req'[q] = "refused" =>
        \/ listener = "failed"
        \/ listener = "closed" /\ leaving <= ProbeLag]_vars

\* A signal or a broken listener ends the process, even with requests that never
\* finish and WebSockets that never close.
ShutsDown == (signalled \/ listener = "failed") ~> phase = "exited"
==============================================================================
