SPECIFICATION Spec
CONSTANTS
  Request = {q1}
  DrainDelay = 5
  ShutdownTimeout = 15
  ProbePeriod = 5
  FailureThreshold = 2
INVARIANT NoRefusal
