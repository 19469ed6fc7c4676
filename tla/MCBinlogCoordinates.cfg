SPECIFICATION Spec
CONSTANTS
  A = A
  B = B
  NoTable = NoTable
  Streams <- TwoStreams
  UPDATE_BOOKMARK_PERIOD = 2
  Engine = "mysql"
  UseGtid = FALSE
  ReportsEnd = TRUE
  FirstFile = 1
  WrapFile = 10
  MaxFile = 2
  MaxTxns = 2
  MaxRowEvents = 2
  RowCounts <- OneRow
  MaxFaults = 1
  MayPurge = TRUE
  MayDeselect = TRUE
  MayToggleGtid = "never"
SYMMETRY Symmetry
INVARIANTS TypeOK NoSkip
PROPERTIES CleanExitReachesEnd ResumeNeverRegresses KeepsPromise
