SPECIFICATION Spec
CONSTANTS
  None = None
  Requests = {r1, r2, r3}
  Kids = {k1, k2}
  TTL = 4
  MinRefresh = 3
  FetchTimeout = 1
  Lag = 1
  Epoch = 4
  MaxClock = 9
SYMMETRY RequestSymmetry
INVARIANTS
  TypeOK
  SingleFlight
PROPERTIES
  RejectedAfterRefresh
  FetchesSpaced
  StaleOnlyIfRefreshing
  ImplementsKeyCache
