SPECIFICATION FairSpec
CONSTANTS
  Tables = {"A", "B"}
  ColumnNames <- OwnNames
  Unnamed = Unnamed
  FirstName <- FirstNames
  FirstKinds <- AllKindsInA
  Namesakes <- OneDatabase
  MaxColumns = 3
  MaxChanges = 3
  MaxFaults = 1
  MayDropTable = TRUE
  MayChangeFormat = TRUE
  MayLackNames = TRUE
INVARIANTS TypeOK
PROPERTIES ValuesStayWithTheirColumns NoLiveValueLost NoRepeatedDiscovery RecordFitsSchema EveryRowEmitted
