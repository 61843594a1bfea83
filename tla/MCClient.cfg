CONSTANTS
  Hosts = {h1, i6}
  IsIP = {i6}
  IsIPV6 = {i6}
  LAN = {}
  NonRelayable = {}
  CNAddrs = {}
  DotCN = {h1}
  GeoDirect = {}
  GeoDirectWide = {}
  GeoBlock = {h1}
  ipv6Rule = "auto"
  Learnable = {h1}
  Callers = {c1, c2}
  MaxRuleChanges = 1
  maxUDPRouteCacheEntries = 1
  MaxQueries = 3
  MaxDup = 1
  Requests = {w1, w2}
  Addrs = {a1}
  localIPsCacheTTL = 2
  MaxAddrs = 1
  Queries = {q1, q2}
  listed = n
  learned = c
  ServerDomain = sd
  Dsts = {d1, d2}
  CustomDirect = {}
  CustomProxy = {n}
  MaxChanges = 1
  b1 = b1
  b2 = b2
  b3 = b3
  s1 = s1
  s2 = s2
  V4 = {b1, b3, s1, s2}
  Loopback = {s1}
  PreResolveTimeout = 8
  ResolveItemTimeout = 2
  MaxRuns = 2
  Lookups = {u1, u2}
  Networks = {n1, n2}
  Visible = {n1}
  builtinDNSCoolDown = 2
  systemDNSCacheTTL = 3
  systemDNSRediscoverInterval = 2
  MaxTime = 3
  Resolvers = {v1, v2}
SPECIFICATION FairSpec
INVARIANTS TypesOK EntrancesSound NamesSound
PROPERTY EverythingEnds
CHECK_DEADLOCK FALSE
