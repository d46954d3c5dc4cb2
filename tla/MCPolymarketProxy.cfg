CONSTANTS
  r1 = r1
  r2 = r2
  k1 = k1
  k2 = k2
  Requests <- MCRequests
  Keys <- MCKeys
  FailureThreshold = 2
  RecoveryTimeout = 2
  HalfOpenCalls = 2
  MaxRetries = 2
  Interval = 1
  Delays <- MCDelays
  Timeout = 1
  CacheTTL = 1
  StaleThreshold = 1
  MaxSize = 2
  EvictMore = 1
SPECIFICATION FairSpec
INVARIANTS
  CacheKeepsUp
PROPERTIES
  Spaced
  ActsAsBreaker
  RequestsEnd
  CircuitRecovers
