SPECIFICATION FairSpec
CONSTANTS
  A = A
  B = B
  NoTable = NoTable
  Streams <- TwoStreams
  UPDATE_BOOKMARK_PERIOD = 2
  Engine = "mysql"
  UseGtid = FALSE
  ReportsEnd = TRUE
  FirstFile = 1
  WrapFile = 10
  MaxFile = 2
  MaxTxns = 2
  MaxRowEvents = 1
  RowCounts <- OneRow
  MaxFaults = 1
  MayPurge = FALSE
  MayDeselect = FALSE
  MayToggleGtid = "never"
PROPERTIES CaughtUp EveryEventDelivered
