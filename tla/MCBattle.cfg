SPECIFICATION MCSpec
CONSTANTS
  r1 = r1
  r2 = r2
  r3 = r3
  podA = podA
  Req = {r1, r2, r3}
  Player = {1, 2}
  DamageInput <- MCDamage
  InitialHP = 5
  MaxDamage = 3
  ResetValues = {5}
  NoRow = NoRow
  Pod = {podA, podB}
  QueueCapacity = 1
  NoReq = NoReq
INVARIANTS TypeOK NoLostDamage NoDuplicateInsert ServedInOrder NoRowLockWait ReplyIsTruthful
PROPERTIES ImplementsLedger ApplyReturns EveryCallReturns
CHECK_DEADLOCK FALSE
