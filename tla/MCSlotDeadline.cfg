CONSTANTS
  Streams = {s1}
  Dialers = {d1}
  Sweepers = {}
  Health = {}
  Closers = {k1}
  MaxConns = 1
SPECIFICATION Spec
INVARIANT LiveConnHasDeadline
CHECK_DEADLOCK FALSE
