CONSTANTS
  DegradedPersistCycles = 2  DegradedRecoverCycles = 2  ProbeConfirmCycles = 2
  Probes = TRUE  MaxConns = 2
SPECIFICATION Spec
INVARIANT ProbeVerdictOwn
