SPECIFICATION Spec
CONSTANTS
  Caller = {c1, c2}
  Key = {"mixed", "plain", "empty"}
  NoKey = NoKey
  Cards <- MCCards
  Threshold = 3
  Counts = {0, 1, 2, 4}
  MaxCount = 3
  MaxRolls = 5
  MaxClock = 1
SYMMETRY Symmetry
INVARIANTS TypeOK PityGuarantee CounterIsExact HistoryNewestFirst
CHECK_DEADLOCK FALSE
