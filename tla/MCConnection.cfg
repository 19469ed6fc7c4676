SPECIFICATION FairSpec
CONSTANTS
  Certificates = TRUE
  SessionSqls = 2
  MAX_TRIES = 5
  MaxUses = 2
CHECK_DEADLOCK FALSE
INVARIANTS TypeOK BlockIsConfigured NoSessionLeftOpen OnlyFailuresLeaveFiles
PROPERTIES EveryUseAnswered
