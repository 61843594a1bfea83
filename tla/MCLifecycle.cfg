CONSTANTS
  Samplers = {s1, s2, s3}
  SuspendDivergenceThreshold = 2
  Sleep = 2
  MaxDrift = 1  MaxSuspends = 1  MaxCalls = 4
  DegradedPersistCycles = 2  DegradedRecoverCycles = 2  ProbeConfirmCycles = 2
  Probes = TRUE  MaxConns = 2
  Calls = {c1, c2}  MaxDialed = 3  bootstrapMaxAttempts = 3
  Stoppers = {p1, p2}
SPECIFICATION MCSpec
INVARIANTS ConvictionsEarned ShutdownSound SuspendNoticed
PROPERTIES OpeningSound HealthDecides
CHECK_DEADLOCK FALSE
