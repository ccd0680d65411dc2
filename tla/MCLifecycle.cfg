SPECIFICATION Spec
CONSTANTS
  Request = {q1, q2}
  DrainDelay = 2
  ShutdownTimeout = 3
  ProbePeriod = 2
  FailureThreshold = 2
INVARIANTS NothingLeftOpen CleanExitCutsNothing
PROPERTIES RefusalsEnd ShutsDown
