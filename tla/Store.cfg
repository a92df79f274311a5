SPECIFICATION FairSpec
CONSTANTS
  Latest = 3
  Keys = {k1, k2}
  Clients = {c1, c2}
  MaxStarts = 5
  MaxWrites = 2
INVARIANTS
  TypeOK
  BodyOncePerRecord
  ServesOwnSchema
  NoMigrationSkipped
  ReportedSettingsSurvive
PROPERTIES
  OpenEnds
  RequestsAnswered
CHECK_DEADLOCK FALSE
