-------------------------------- MODULE Room --------------------------------
(***************************************************************************)
(* The room and the WebSocket handlers that feed it, one goroutine per     *)
(* connection.  A connection names its player in every move; when it ends  *)
(* it removes the player it named last.  The room does not know which      *)
(* connection a member belongs to.                                         *)
(*                                                                         *)
(* Frames that are not binary, do not parse or hold no move are skipped by *)
(* the loop and change nothing.                                            *)
(***************************************************************************)
EXTENDS Naturals

CONSTANTS Conn,      \* connections, each used once
          Player,    \* ids that are not empty
          Position,
          Empty,     \* the empty id: no move yet, or a move without an id
          Absent     \* not a member, or no position yet

ASSUME RoomAssumption == Empty \notin Player /\ Absent \notin Position

VARIABLES members,    \* Room.members: the position of every member
          state,      \* where ServeHTTP of a connection is
          playerID,   \* its local variable
          last,       \* history: the position the connection sent last
          abandoned,  \* history: players a connection has stopped naming
          evicted     \* history: players removed while another connection named them

vars == <<members, state, playerID, last, abandoned, evicted>>

Ids == Player \union {Empty}

TypeOK ==
  /\ members \in [Ids -> Position \union {Absent}]
  /\ state \in [Conn -> {"new", "reading", "ended", "closed"}]
  /\ playerID \in [Conn -> Ids]
  /\ last \in [Conn -> Position \union {Absent}]
  /\ abandoned \subseteq Player
  /\ evicted \subseteq Player

Init ==
  /\ members = [p \in Ids |-> Absent]
  /\ state = [c \in Conn |-> "new"]
  /\ playerID = [c \in Conn |-> Empty]
  /\ last = [c \in Conn |-> Absent]
  /\ abandoned = {} /\ evicted = {}

-----------------------------------------------------------------------------
\* The connections that count: accepted, and not yet done with Remove.
Live(c) == state[c] \in {"reading", "ended"}

Names(c, p) == Live(c) /\ playerID[c] = p

\* Faulty variant: a member is updated but never inserted.
ApplyMoveKnown(m, p, xy) == IF m[p] = Absent THEN m ELSE [m EXCEPT ![p] = xy]

ApplyMove(m, p, xy) == [m EXCEPT ![p] = xy]

Remove(m, p) == [m EXCEPT ![p] = Absent]

Accept(c) ==
  /\ state[c] = "new"
  /\ state' = [state EXCEPT ![c] = "reading"]
  /\ UNCHANGED <<members, playerID, last, abandoned, evicted>>

\* A move frame.  The connection may name another player than before.
Move(c, p, xy) ==
  /\ state[c] = "reading"
  /\ playerID' = [playerID EXCEPT ![c] = p]
  /\ members' = ApplyMove(members, p, xy)
  /\ last' = [last EXCEPT ![c] = xy]
  /\ abandoned' = (abandoned \union ({playerID[c]} \ {Empty})) \ {p}
  /\ evicted' = evicted \ {p}
  /\ UNCHANGED state

\* conn.Read fails: the client or the network ended the connection, or the
\* request's context did (middleware.Timeout gives it a deadline).
ReadFails(c) ==
  /\ state[c] = "reading"
  /\ state' = [state EXCEPT ![c] = "ended"]
  /\ UNCHANGED <<members, playerID, last, abandoned, evicted>>

\* Faulty variant: ServeHTTP returns from the loop, past the Remove.
LeaveEarly(c) ==
  /\ state[c] = "ended"
  /\ state' = [state EXCEPT ![c] = "closed"]
  /\ UNCHANGED <<members, playerID, last, abandoned, evicted>>

\* Faulty variant: Remove waits for a lock that is held while others read.
LeaveBlocked(c) ==
  LET p == playerID[c] IN
  /\ state[c] = "ended"
  /\ \A d \in Conn : state[d] # "reading"
  /\ state' = [state EXCEPT ![c] = "closed"]
  /\ members' = IF p = Empty THEN members ELSE Remove(members, p)
  /\ abandoned' = abandoned \ {p}
  /\ evicted' = IF p # Empty /\ \E d \in Conn \ {c} : Names(d, p)
                THEN evicted \union {p} ELSE evicted
  /\ UNCHANGED <<playerID, last>>

\* After the loop: the player named last is removed, whoever else names it.
Leave(c) ==
  LET p == playerID[c] IN
  /\ state[c] = "ended"
  /\ state' = [state EXCEPT ![c] = "closed"]
  /\ members' = IF p = Empty THEN members ELSE Remove(members, p)
  /\ abandoned' = abandoned \ {p}
  /\ evicted' = IF p # Empty /\ \E d \in Conn \ {c} : Names(d, p)
                THEN evicted \union {p} ELSE evicted
  /\ UNCHANGED <<playerID, last>>

ConnStep(c) ==
  \/ Accept(c) \/ ReadFails(c) \/ Leave(c)
  \/ \E p \in Ids, xy \in Position : Move(c, p, xy)

Next == \E c \in Conn : ConnStep(c)

Spec == Init /\ [][Next]_vars

\* A handler whose read has failed goes on to the end of ServeHTTP.
FairSpec == Spec /\ \A c \in Conn : WF_vars(Leave(c))

-----------------------------------------------------------------------------
(* Properties *)

\* Every member belongs to a connection that is still there and shows the
\* position that connection sent last, unless a connection stopped naming the
\* player.  So without such clients a closed connection leaves nobody behind.
MemberHasConnection ==
  \A p \in Player : members[p] # Absent /\ p \notin abandoned =>
     \E c \in Conn : Names(c, p) /\ last[c] = members[p]

\* A player some connection names is a member, unless another connection of
\* the same player (an old one after a reconnect) has removed it since its
\* last move.
ConnectedIsMember ==
  \A c \in Conn, p \in Player :
     Names(c, p) /\ p \notin evicted => members[p] # Absent

\* Once every connection that names a player has failed, the player leaves the
\* room, whatever the other connections do, unless one of its connections had
\* gone over to another player or a new one comes.
MembersFade ==
  \A p \in Player :
     (\A c \in Conn : playerID[c] = p => state[c] \in {"ended", "closed"})
       ~> (\/ members[p] = Absent
           \/ p \in abandoned
           \/ \E c \in Conn : playerID[c] = p /\ state[c] = "reading")
=============================================================================
