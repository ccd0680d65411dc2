SPECIFICATION Spec
CONSTANTS
  Caller = {c1, c2}
  Id = {"e1"}
  Player = {p1, p2}
  Windows <- MCWindows
  Rewards <- MCRewards
  Deltas = {0, 1, 3}
  MaxDelta = 2
  Deployments <- MCDeployments
  Attempts = 2
  Second = 3
  None = None
  MaxClock = 5
  MaxPoints = 2
SYMMETRY Symmetry
INVARIANTS BoardAccountsForScores TiersOfWinner ViewIsOrdered WindowKept
CHECK_DEADLOCK FALSE
