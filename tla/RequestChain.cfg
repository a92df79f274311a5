SPECIFICATION Spec
CONSTANTS
  Requests = {i1, i2}
  Subjects = {admin, guest}
  Admins = {admin}
  Nobody = Nobody
  Endpoints <- AllEndpoints
  Burst = 1
  MaxRefills = 1
SYMMETRY ChainSymmetry
INVARIANTS
  TypeOK
  WrittenOnlyByAdmins
  WritesWithinBudget
  AnswerTellsOutcome
  AccountedAsAnswered
  MetricsAddUp
PROPERTIES
  ImplementsGuardedWrites
