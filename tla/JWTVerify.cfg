SPECIFICATION Spec
CONSTANTS
  Requests = {r1}
  rsa1 = rsa1
  ec1 = ec1
  Kids <- MCKids
  Teams <- MCTeams
  KeyType <- MCKeyType
  None = None
  Forger = Forger
  Environments <- MCEnvironments
  Served <- MCServed
  Flaws <- MCFlaws
  Leeway = 1
  MaxClock = 3
INVARIANTS
  TypeOK
  MissingFoundByLoad
  OwnSettingsReachVerifier
  AcceptedIsGenuine
  RolesAsClaimed
  RefusedForCause
  ReasonIsTrue
