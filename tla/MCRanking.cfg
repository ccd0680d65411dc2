SPECIFICATION Spec
CONSTANTS
  Player = {1, 2, 3}
  Reader = {r1}
  Deltas = {1, 2}
  Queries <- MCQueries
  DefaultTopN = 1
  MaxTopN = 2
  DefaultAroundRadius = 1
  MaxAroundRadius = 1
  None = None
  MaxScore = 3
INVARIANT BackendsAgree
PROPERTIES LabelsAreTrue SelfMissingOnlyIfMoved ReadsNeverGoBack
