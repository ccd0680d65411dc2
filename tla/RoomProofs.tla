----------------------------- MODULE RoomProofs -----------------------------
(* Who is in the room and why, for any number of connections and players.   *)
EXTENDS Room, TLAPS

\* A connection that has not been accepted has named nobody.
NewNamesNobody == \A c \in Conn : state[c] = "new" => playerID[c] = Empty

\* The properties with what makes them inductive: Accept makes a connection
\* count, and must not make it count for a player.
RoomInv == TypeOK /\ NewNamesNobody /\ MemberHasConnection /\ ConnectedIsMember

\* The room and all histories are empty.
LEMMA RoomInitially == Init => RoomInv
BY RoomAssumption
   DEF Init, RoomInv, TypeOK, NewNamesNobody, MemberHasConnection,
       ConnectedIsMember, Ids, Names, Live

\* Accepting a connection and leaving its loop change neither the room nor
\* which connections name a player.
LEMMA QuietSteps ==
  ASSUME RoomInv, NEW c \in Conn, Accept(c) \/ ReadFails(c)
  PROVE  RoomInv'
<1>1. TypeOK' /\ NewNamesNobody'
  BY DEF RoomInv, TypeOK, NewNamesNobody, Accept, ReadFails
<1>2. \A d \in Conn, p \in Player : Names(d, p)' <=> Names(d, p)
  BY RoomAssumption DEF RoomInv, TypeOK, NewNamesNobody, Names, Live, Accept, ReadFails
<1>3. UNCHANGED <<members, last, abandoned, evicted>>
  BY DEF Accept, ReadFails
<1>4. MemberHasConnection'
  BY <1>2, <1>3 DEF RoomInv, MemberHasConnection
<1>5. ConnectedIsMember'
  BY <1>2, <1>3 DEF RoomInv, ConnectedIsMember
<1> QED
  BY <1>1, <1>4, <1>5 DEF RoomInv

\* A move: the mover vouches for the player it names; the player it named
\* before is abandoned.
LEMMA MoveKeepsRoomInv ==
  ASSUME RoomInv, NEW c \in Conn, NEW p \in Ids, NEW xy \in Position, Move(c, p, xy)
  PROVE  RoomInv'
<1> USE RoomAssumption
<1>1. TypeOK'
  BY DEF RoomInv, TypeOK, Move, ApplyMove, Ids
<1>2. NewNamesNobody'
  BY DEF RoomInv, TypeOK, NewNamesNobody, Move
<1>3. MemberHasConnection'
  <2> SUFFICES ASSUME NEW q \in Player, members'[q] # Absent, q \notin abandoned'
               PROVE  \E d \in Conn : Names(d, q)' /\ last'[d] = members'[q]
    BY DEF MemberHasConnection
  <2>1. CASE q = p
    <3>1. Names(c, q)' /\ last'[c] = members'[q]
      BY <2>1 DEF RoomInv, TypeOK, Move, ApplyMove, Names, Live, Ids
    <3> QED
      BY <3>1
  <2>2. CASE q # p
    <3>1. members'[q] = members[q] /\ q \notin abandoned /\ playerID[c] # q
      BY <2>2 DEF RoomInv, TypeOK, Move, ApplyMove, Ids
    <3>2. PICK d \in Conn : Names(d, q) /\ last[d] = members[q]
      BY <3>1 DEF RoomInv, MemberHasConnection
    <3>3. d # c
      BY <3>1, <3>2 DEF Names
    <3>4. Names(d, q)' /\ last'[d] = members'[q]
      BY <3>1, <3>2, <3>3 DEF RoomInv, TypeOK, Move, Names, Live
    <3> QED
      BY <3>4
  <2> QED
    BY <2>1, <2>2
<1>4. ConnectedIsMember'
  <2> SUFFICES ASSUME NEW d \in Conn, NEW q \in Player, Names(d, q)', q \notin evicted'
               PROVE  members'[q] # Absent
    BY DEF ConnectedIsMember
  <2>1. CASE q = p
    BY <2>1 DEF RoomInv, TypeOK, Move, ApplyMove, Ids
  <2>2. CASE q # p
    <3>1. Names(d, q) /\ q \notin evicted /\ members'[q] = members[q]
      BY <2>2 DEF RoomInv, TypeOK, Move, ApplyMove, Names, Live, Ids
    <3> QED
      BY <3>1 DEF RoomInv, ConnectedIsMember
  <2> QED
    BY <2>1, <2>2
<1> QED
  BY <1>1, <1>2, <1>3, <1>4 DEF RoomInv

\* Leaving: the player named last is no member any more, and evicted if
\* another connection names it; nobody else is touched.
LEMMA LeaveKeepsRoomInv ==
  ASSUME RoomInv, NEW c \in Conn, Leave(c)
  PROVE  RoomInv'
<1> USE RoomAssumption
<1> DEFINE p == playerID[c]
<1>1. TypeOK'
  BY DEF RoomInv, TypeOK, Leave, Remove, Ids
<1>2. NewNamesNobody'
  BY DEF RoomInv, TypeOK, NewNamesNobody, Leave
<1>3. \A d \in Conn, q \in Player : Names(d, q)' <=> d # c /\ Names(d, q)
  BY DEF RoomInv, TypeOK, Leave, Names, Live
<1>4. \A q \in Player : q # p => members'[q] = members[q]
  BY DEF RoomInv, TypeOK, Leave, Remove, Ids
<1>5. p \in Player => members'[p] = Absent
  BY DEF RoomInv, TypeOK, Leave, Remove, Ids
<1>6. MemberHasConnection'
  <2> SUFFICES ASSUME NEW q \in Player, members'[q] # Absent, q \notin abandoned'
               PROVE  \E d \in Conn : Names(d, q)' /\ last'[d] = members'[q]
    BY DEF MemberHasConnection
  <2>1. q # p
    BY <1>5
  <2>2. PICK d \in Conn : Names(d, q) /\ last[d] = members[q]
    BY <2>1, <1>4 DEF RoomInv, MemberHasConnection, Leave
  <2>3. d # c
    BY <2>1, <2>2 DEF Names
  <2> QED
    BY <2>1, <2>2, <2>3, <1>3, <1>4 DEF Leave
<1>7. ConnectedIsMember'
  <2> SUFFICES ASSUME NEW d \in Conn, NEW q \in Player, Names(d, q)', q \notin evicted'
               PROVE  members'[q] # Absent
    BY DEF ConnectedIsMember
  <2>1. d # c /\ Names(d, q)
    BY <1>3
  <2>2. CASE q = p
    BY <2>1, <2>2 DEF Leave
  <2>3. CASE q # p
    <3>1. q \notin evicted
      BY <2>3 DEF Leave
    <3> QED
      BY <2>1, <2>3, <3>1, <1>4 DEF RoomInv, ConnectedIsMember
  <2> QED
    BY <2>2, <2>3
<1> QED
  BY <1>1, <1>2, <1>6, <1>7 DEF RoomInv

\* RoomInv holds in every reachable state.
THEOREM RoomInvariant == Spec => []RoomInv
<1>1. RoomInv /\ [Next]_vars => RoomInv'
  <2> SUFFICES ASSUME RoomInv, [Next]_vars PROVE RoomInv'
    OBVIOUS
  <2>1. CASE UNCHANGED vars
    BY <2>1 DEF vars, RoomInv, TypeOK, NewNamesNobody, MemberHasConnection,
                ConnectedIsMember, Names, Live
  <2>2. ASSUME NEW c \in Conn, ConnStep(c) PROVE RoomInv'
    BY <2>2, QuietSteps, MoveKeepsRoomInv, LeaveKeepsRoomInv DEF ConnStep
  <2> QED
    BY <2>1, <2>2 DEF Next
<1> QED
  BY <1>1, RoomInitially, PTL DEF Spec

\* A member that no connection has abandoned has a live connection and shows
\* the position that connection sent last: closing connections leaves nobody
\* behind, in any order of moves, reconnects and failures.
THEOREM MembersAreConnected == Spec => []MemberHasConnection
BY RoomInvariant, PTL DEF RoomInv

\* A player named by a live connection is in the room, unless the end of
\* another connection of the same player has evicted it since.
THEOREM ConnectedAreMembers == Spec => []ConnectedIsMember
BY RoomInvariant, PTL DEF RoomInv
=============================================================================
