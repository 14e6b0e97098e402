\* Two workers, with or without a listener and a cleaner; two rows and two faults.
CONSTANTS
  Workers = {w1, w2}
  BatchSize = 1
  PoolSize = 2
  MaxRows = 2
  MaxFaults = 2
SPECIFICATION Spec
INVARIANTS TypeOK ReturnsTruthfully
PROPERTIES CancelStops FailureStops EverythingDrains EverythingCleaned
CHECK_DEADLOCK FALSE
