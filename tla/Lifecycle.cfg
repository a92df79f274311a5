SPECIFICATION FairSpec
CONSTANTS
  Conns = {c1, c2}
  MaxRequests = 3
  MaxSignals = 2
INVARIANTS
  TypeOK
  ZeroMeansServed
  StatusTellsFailure
PROPERTIES
  ShutdownEnds
