CONSTANTS
  None = None  Finisher = Finisher
  Down = 3  Up = 1  remotePrefetchFrames = 1  drainIdle = 1  idleTimeout = 2
  Senders = {s1, s2}
  Closers = {k1, k2}
  Pings = {p1, p2}  Targets = {g1, g2}  Numbers = {1}  Blocked = {g2}  Direct = {}  IDWidth = 4
  Relays = {r1, r2}  Ports = {a1, a2}
SPECIFICATION MCSpec
INVARIANTS StreamsSound AssociationsOwned
PROPERTY EverythingEnds
CHECK_DEADLOCK FALSE
