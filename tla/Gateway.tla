------------------------------- MODULE Gateway -------------------------------
(***************************************************************************)
(* The HTTP routes of login, profile and the protected gacha group behind  *)
(* the idempotency middleware, as main.go mounts them: Idempotency is      *)
(* outside RequireAuth and outside every handler, so whatever a handler or *)
(* RequireAuth answers is what is stored and replayed.                     *)
(*                                                                         *)
(* A token is identified by the instant it was issued at: its claims and   *)
(* the expires_at its owner is told follow from that.  One profile id is   *)
(* modelled; profiles of different ids do not meet.                        *)
(***************************************************************************)
EXTENDS Idempotency

CONSTANTS TokenTTL,  \* AUTH_TOKEN_TTL
          Second,    \* ticks in a second
          MaxStall,  \* longest time from a handler's answer to its being stored
          Databases, \* "inmem", "mysql"
          Keyless    \* routes that are also requested without a key

ASSUME GatewayAssumption ==
  /\ Second \in Nat \ {0} /\ MaxStall \in Nat /\ TokenTTL \in Nat
  /\ Databases \subseteq {"inmem", "mysql"}
  /\ Keyless \subseteq {"login", "create", "get", "roll"}

\* A token outlives, by the second its expiry is cut by, every stored answer.
ASSUME TokenOutlivesAnswer == TokenTTL >= TTL + MaxStall + Second

VARIABLES auth,    \* AUTH_SECRET is set
          db,      \* where profiles are kept
          route,   \* the route of a request
          bearer,  \* the token in its Authorization header, or None
          answer,  \* what the handler answered it: status, and an instant
          profile  \* the stored profile: who created it, created_at; or None

gatewayVars == <<auth, db, route, bearer, answer, profile>>

Route == {"login", "create", "get", "roll"}
Instant == 0..MaxClock
Status == {"ok", "created", "unauthorized", "missing", "conflict", "error"}
Answer == [status : Status,
           at : (0..(MaxClock + Second)) \union {None}]
Profile == [by : Request, at : 0..(MaxClock + Second)]

ASSUME NoneIsNoRecord == None \notin Answer /\ None \notin Profile

GatewayTypeOK ==
  /\ TypeOK
  /\ auth \in BOOLEAN /\ db \in Databases
  /\ route \in [Request -> Route]
  /\ bearer \in [Request -> Instant \union {None}]
  /\ answer \in [Request -> Answer \union {None}]
  /\ profile \in Profile \union {None}

GatewayInit ==
  /\ Init
  /\ auth \in BOOLEAN /\ db \in Databases
  /\ route = [r \in Request |-> "get"]
  /\ bearer = [r \in Request |-> None]
  /\ answer = [r \in Request |-> None]
  /\ profile = None

-----------------------------------------------------------------------------
(* Tokens *)

\* Faulty variant: instants are rounded up to the next second.
NumericDateUp(t) == ((t + Second - 1) \div Second) * Second

\* jwt.NewNumericDate cuts an instant to whole seconds.
NumericDate(t) == (t \div Second) * Second

\* Validate, for a token that Issue signed at t: jwt wants nbf <= now < exp.
Validate(t) == NumericDate(t) <= clock /\ clock < NumericDate(t + TokenTTL)

RequireAuth(r) == auth => bearer[r] # None /\ Validate(bearer[r])

-----------------------------------------------------------------------------
(* Handlers: what each answers, and what it stores *)

Says(r, status, at) ==
  /\ answer' = [answer EXCEPT ![r] = [status |-> status, at |-> at]]

\* A token whose claims and expires_at follow from now.
Issue(r) == Says(r, "ok", clock)

\* Without an issuer (500), or with a body that does not decode or validate
\* (400), there is no token.
Login(r) ==
  /\ Says(r, "error", None) \/ (auth /\ Issue(r))
  /\ UNCHANGED profile

\* A TIMESTAMP column keeps whole seconds and rounds to the nearest one.
Kept(t) == IF db = "mysql" THEN ((2 * t + Second) \div (2 * Second)) * Second ELSE t

\* Faulty variant: the insert replaces a row that is there.
InsertReplaces(r, at) == profile' = [by |-> r, at |-> Kept(at)]

\* One statement, which fails on a taken id.
Insert(r, at) == profile = None /\ profile' = [by |-> r, at |-> Kept(at)]

\* The service stamps the profile; what it stamped is what the client is told,
\* unless the database fails (500) after it has inserted.
CreateProfile(r) ==
  /\ Insert(r, clock)
  /\ Says(r, "created", clock) \/ (db = "mysql" /\ Says(r, "error", None))

\* A bad body is turned away (400); a database may fail (500); a taken id is a
\* conflict (409).
Create(r) ==
  \/ Says(r, "error", None) /\ UNCHANGED profile
  \/ profile # None /\ Says(r, "conflict", None) /\ UNCHANGED profile
  \/ CreateProfile(r)

GetProfile(r) == IF profile = None THEN Says(r, "missing", None)
                                   ELSE Says(r, "ok", profile.at)

Get(r) ==
  /\ GetProfile(r) \/ (db = "mysql" /\ Says(r, "error", None))
  /\ UNCHANGED profile

\* The gacha handlers stand behind RequireAuth; 200 is whatever they answer.
Roll(r) ==
  /\ IF RequireAuth(r) THEN Says(r, "ok", None) ELSE Says(r, "unauthorized", None)
  /\ UNCHANGED profile

Handle(r) ==
  /\ \/ route[r] = "login" /\ Login(r)
     \/ route[r] = "create" /\ Create(r)
     \/ route[r] = "get" /\ Get(r)
     \/ route[r] = "roll" /\ Roll(r)
  /\ UNCHANGED <<auth, db, route, bearer>>

-----------------------------------------------------------------------------
(* The middleware around them *)

Answered(r) == reply[r] \in Request

\* The tokens clients have been given, by a login or by the replay of one.
Received == {answer[reply[r]].at : r \in {q \in Request :
               /\ Answered(q) /\ route[reply[q]] = "login"
               /\ answer[reply[q]].status = "ok"}}

\* A GET is never looked up or stored.
Send(r) ==
  \E k \in ClientKey \union {NoKey}, rt \in Route, b \in Received \union {None} :
     /\ rt = "get" => k = NoKey
     /\ k = NoKey => rt \in Keyless
     /\ rt # "roll" => b = None
     /\ Arrive(r, k)
     /\ route' = [route EXCEPT ![r] = rt]
     /\ bearer' = [bearer EXCEPT ![r] = b]
     /\ UNCHANGED <<auth, db, answer, profile>>

Untouched == UNCHANGED gatewayVars

\* The answer of a finished handler is stored before MaxStall has passed.
Pass ==
  /\ \A r \in Request : phase[r] = "save" => clock - ranAt[r] < MaxStall
  /\ Tick
  /\ Untouched

GatewayNext ==
  \/ \E r \in Request : \/ Send(r)
                        \/ Bypass(r) /\ Handle(r)
                        \/ Replay(r) /\ Untouched
                        \/ Miss(r) /\ Untouched
                        \/ GetFails(r) /\ Untouched
                        \/ Run(r) /\ Handle(r)
                        \/ Panic(r) /\ Untouched
                        \/ Save(r) /\ Untouched
                        \/ SaveFails(r) /\ Untouched
  \/ Sweep /\ Untouched
  \/ Pass

allVars == <<vars, gatewayVars>>

GatewaySpec == GatewayInit /\ [][GatewayNext]_allVars

-----------------------------------------------------------------------------
(* Properties *)

\* What the validator does with a token is what its owner was told at login, cut
\* to the second: it is honoured from the moment it is issued, refused no more
\* than a second before expires_at, and never honoured from expires_at on.
TokenKeepsPromise ==
  \A r \in Request :
     auth /\ route[r] = "roll" /\ answer[r] # None /\ bearer[r] # None =>
        /\ answer[r].status = "unauthorized" => ranAt[r] > bearer[r] + TokenTTL - Second
        /\ answer[r].status = "ok" => ranAt[r] < bearer[r] + TokenTTL

\* A login that is answered with a token, by the handler or from the store, is
\* answered with one that still works.
LoginUsable ==
  [][\A r \in Request :
        ~Answered(r) /\ Answered(r)' /\ route[r] = "login" =>
           LET q == reply'[r]
           IN  route[q] = "login" /\ answer'[q].status = "ok"
                  => Validate(answer'[q].at)]_allVars

\* Creates of one id elect one creator: the request told 201 is the one whose
\* profile is stored, at the instant it was told give or take half a second, a
\* 409 is told only when there is one, and every Get agrees with it.
ProfileAgrees ==
  \A r \in Request : answer[r] # None =>
     /\ answer[r].status = "created" =>
           /\ profile # None /\ profile.by = r
           /\ 2 * profile.at - 2 * answer[r].at \in -Second..Second
     /\ answer[r].status = "conflict" => profile # None
     /\ route[r] = "get" /\ answer[r].status = "ok" => answer[r].at = profile.at
==============================================================================
