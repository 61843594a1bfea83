CONSTANTS
  IPs = {r1, r2, r3}
  handshakeRate = 1
  handshakeBurst = 3
  ipCleanupThreshold = 2
  ipCleanupInterval = 1
  ipCleanupTTL = 3
  ipHardCap = 2
  MaxTime = 6
  MaxConns = 2
  MaxFrames = 2
  MaxReplies = 1
  i1 = i1
  i2 = i2
  Learners = {l1, l2}
  maxLearnedEntries = 1
  Associations = {a}
  Requests = {q1, q2}
  Texts = {s1}
  Endpoints = {e1}
  Addrs4 = {a1, a2, l}
  Addrs6 = {b1}
  Lan = {l}
  MaxAddrs = 3
  Timeout = 5
  attemptMinBudget = 2
  Streams = {t1, t2}
  Names = {n1, n2}
  max = 1
  ttl = 1
  MaxTick = 3
  Visitors = {v1, v2}
  maxCachedFallbackPages = 1
SPECIFICATION FairSpec
INVARIANTS SweepForgetsNothing SessionsSound RequestsSound UpstreamSound AnswersOwn
PROPERTY EverythingEnds
CHECK_DEADLOCK FALSE
