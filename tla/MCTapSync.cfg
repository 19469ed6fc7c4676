SPECIFICATION FairSpec
CONSTANTS
  A = A
  B = B
  NoStream = NoStream
  Catalog <- TwoStreams
  Methods <- AllMethods
  MaxFaults = 2
  MayEdit = TRUE
INVARIANTS TypeOK BinlogListStillHolds
PROPERTIES InterruptedStreamFirst EveryStreamSynced
