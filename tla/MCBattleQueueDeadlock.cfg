SPECIFICATION QueueSpec
CONSTANTS
  Req = {r1, r2, r3}
  Player = {1, 2}
  DamageInput = {3}
  InitialHP = 5
  MaxDamage = 3
  ResetValues = {}
  NoRow = NoRow
  Pod = {podA}
  QueueCapacity = 2
  NoReq = NoReq
SYMMETRY ReqSymmetry
INVARIANT NoDeadlock
CHECK_DEADLOCK FALSE
