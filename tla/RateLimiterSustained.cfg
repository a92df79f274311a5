SPECIFICATION Spec
CONSTANTS
  Subjects = {s1, s2, s3}
  Watched = s1
  Rate = 2
  Burst = 2
  MaxBuckets = 2
  BucketTTL = 4
  CleanupInterval = 2
  Epoch = 4
  MaxClock = 11
  MaxEvictions = 1
SYMMETRY OtherSubjects
PROPERTIES
  SustainedRate
