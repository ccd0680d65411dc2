SPECIFICATION GatewaySpec
CONSTANTS
  Request = {r1, r2, r3}
  ClientKey = {k1, k2}
  NoKey = NoKey
  Anon = Anon
  Owner <- OnePlayer
  None = None
  Failed = Failed
  Backends = {"inmem", "redis"}
  TTL = 1
  MaxClock = 3
  TokenTTL = 3
  Second = 2
  MaxStall = 0
  Databases = {"mysql"}
  Keyless = {"get"}
SYMMETRY Symmetry
INVARIANTS ReplayMatchesKey RerunHasCause TokenKeepsPromise ProfileAgrees
PROPERTIES FirstStoredWins LoginUsable
CHECK_DEADLOCK FALSE
