SPECIFICATION Spec
CONSTANTS
  Pks <- TwoRows
  Setups <- ResumedFullSetups
  StatePeriod = 1
  BatchSize = 2
  MAX_SYNC_RETRIES = 2
  MaxChanges = 2
  MaxRuns = 2
  MaxFaults = 1
  LoseBuffered = FALSE
  Editable <- NotIncreasing
INVARIANTS FullTableIsCopy
CHECK_DEADLOCK FALSE
