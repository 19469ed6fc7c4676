SPECIFICATION Spec
CONSTANTS
  A = A
  B = B
  NoTable = NoTable
  Streams <- TwoStreams
  UPDATE_BOOKMARK_PERIOD = 2
  Engine = "mariadb"
  UseGtid = TRUE
  ReportsEnd = TRUE
  FirstFile = 1
  WrapFile = 10
  MaxFile = 2
  MaxTxns = 3
  MaxRowEvents = 1
  RowCounts <- OneRow
  MaxFaults = 0
  MayPurge = TRUE
  MayDeselect = FALSE
  MayToggleGtid = "together"
SYMMETRY Symmetry
INVARIANTS NoSkipAtRest
PROPERTIES CaughtUp
