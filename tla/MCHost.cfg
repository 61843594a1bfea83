CONSTANTS
  Callers = {c1, c2}
  Stoppers = {s1, s2}
  Servers = {1, 2}
  MaxCores = 2
  MaxMgrs = 2
  MaxClicks = 2
  MaxSwitches = 1
  MaxHelpers = 2
  MaxCrashes = 1
  Phys = {p1, p2}
  Dials = {d1}
  MaxChanges = 1
  MaxIPs = 2
  Budget = 5
  serverIPDialTimeout = 2
  ProxyClicks = {k1}
  MaxProxySwitches = 1
  MaxTag = 2
  MaxChecks = 2
  Clicks = {m1, m2}
  cleanupRetries = 2
  Procs = {i1, i2, i3}
  MaxFiles = 3
SPECIFICATION FairSpec
INVARIANTS TypesOK TunLeavesNothing TunSessionSound CoreSound DesktopSound
PROPERTY EverythingEnds
CHECK_DEADLOCK FALSE
