CONSTANTS
  Samplers = {s1, s2, s3}
  SuspendDivergenceThreshold = 2
  Sleep = 2
  MaxDrift = 1  MaxSuspends = 1  MaxCalls = 4
SPECIFICATION Spec
INVARIANT SuspendCountedOnce
CHECK_DEADLOCK FALSE
