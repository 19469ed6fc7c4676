SPECIFICATION FairSpec
CONSTANTS
  Pks <- TwoRows
  Keys <- UpdatedKey
  Modes <- AnyMode
  StatePeriod = 2
  BatchSize = 2
  MAX_SYNC_RETRIES = 2
  MaxChanges = 3
  MaxFaults = 2
  LoseBuffered = FALSE
  MayChangeKey = TRUE
INVARIANTS TypeOK NothingBehindBookmark CleanRunIsComplete
PROPERTIES HighWaterMark EventuallySynced
