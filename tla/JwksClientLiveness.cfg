SPECIFICATION FairSpec
CONSTANTS
  None = None
  Requests = {r1, r2}
  Kids = {k1, k2}
  TTL = 4
  MinRefresh = 3
  FetchTimeout = 1
  Lag = 1
  Epoch = 4
  MaxClock = 8
PROPERTIES
  EveryCallReturns
