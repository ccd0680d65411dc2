SPECIFICATION FairSpec
CONSTANTS
  Conn = {c1, c2, c3}
  Player = {p1, p2}
  Position = {a, b}
  Empty = Empty
  Absent = Absent
INVARIANTS MemberHasConnection ConnectedIsMember
PROPERTY MembersFade
CHECK_DEADLOCK FALSE
