SPECIFICATION FairSpec
CONSTANTS
  Pks <- ThreeRows
  Setups <- AllSetups
  StatePeriod = 2
  BatchSize = 2
  MAX_SYNC_RETRIES = 2
  MaxChanges = 2
  MaxRuns = 3
  MaxFaults = 2
  LoseBuffered = FALSE
  Editable <- NotIncreasing
INVARIANTS TypeOK HandoffNoMissing HandoffNoGhost ResumeCovers FullTableExact
PROPERTIES SnapshotKeepsPosition EventuallyHandedOff
CHECK_DEADLOCK FALSE
