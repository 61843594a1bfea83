CONSTANTS
  Streams = {s1, s2}
  Dialers = {d1}
  Sweepers = {u1}
  Health = {h1}
  Closers = {k1}
  MaxConns = 2
SPECIFICATION MCSpec
INVARIANTS TypeOK ClaimedOnce HardClosedRetired IdentityOpen
PROPERTY OpenReturns
CHECK_DEADLOCK FALSE
