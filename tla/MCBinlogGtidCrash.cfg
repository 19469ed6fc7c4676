SPECIFICATION Spec
CONSTANTS
  A = A
  B = B
  NoTable = NoTable
  Streams <- OneStream
  UPDATE_BOOKMARK_PERIOD = 2
  Engine = "mysql"
  UseGtid = TRUE
  ReportsEnd = TRUE
  FirstFile = 1
  WrapFile = 10
  MaxFile = 1
  MaxTxns = 2
  MaxRowEvents = 2
  RowCounts <- OneOrTwoRows
  MaxFaults = 1
  MayPurge = FALSE
  MayDeselect = FALSE
  MayToggleGtid = "never"
INVARIANTS NoSkipAtRest
