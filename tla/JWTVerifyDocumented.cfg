SPECIFICATION Spec
CONSTANTS
  Requests = {r1, r2}
  rsa1 = rsa1
  ec1 = ec1
  Kids <- MCKids
  Teams <- MCTeams
  KeyType <- MCKeyType
  None = None
  Forger = Forger
  Environments <- MCPaths
  Served <- MCPaths
  Flaws <- MCDocumented
  Leeway = 1
  MaxClock = 3
INVARIANTS
  OneStatementHolds
