SPECIFICATION Spec
CONSTANTS
  Pks <- ThreeRows
  Setups <- BatchSetups
  StatePeriod = 2
  BatchSize = 2
  MAX_SYNC_RETRIES = 2
  MaxChanges = 2
  MaxRuns = 2
  MaxFaults = 1
  LoseBuffered = TRUE
  Editable <- NotIncreasing
INVARIANTS HandoffNoMissing
CHECK_DEADLOCK FALSE
