SPECIFICATION Spec
CONSTANTS
  Request = {r1, r2}
  ClientKey = {k1}
  NoKey = NoKey
  Anon = Anon
  Owner <- OwnPlayer
  None = None
  Failed = Failed
  Backends = {"inmem", "redis"}
  TTL = 2
  MaxClock = 1
SYMMETRY Symmetry
INVARIANT ReplayStaysWithPlayer
CHECK_DEADLOCK FALSE
