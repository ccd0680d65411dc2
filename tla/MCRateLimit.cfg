SPECIFICATION Spec
CONSTANTS
  Call = {c1, c2}
  Address = {a1, a2}
  Limiter = {l1, l2, l3}
  None = None
  Burst = 2
  Cost = 2
  IdleTTL = 5
  MaxStall = 1
  MaxClock = 7
SYMMETRY Symmetry
INVARIANTS TypeOK NoOrphan WithinRate
PROPERTY ImplementsBucket
CHECK_DEADLOCK FALSE
