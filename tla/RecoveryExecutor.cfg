CONSTANTS
  Minimum = 1
  Step = 1
  SnapshotAge = 1
  Lots = 2
  MaxRetries = 0
  MaxTime = 1
  MaxFaults = 1
SPECIFICATION Spec
INVARIANTS
  AttemptsBounded
  FlatMeansFlat
PROPERTIES
  RecoverySound
