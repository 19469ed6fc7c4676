SPECIFICATION Spec
CONSTANTS
  Tables = {"A", "B"}
  ColumnNames <- SharedNames
  Unnamed = Unnamed
  FirstName <- FirstNames
  FirstKinds <- AllSelected
  Namesakes <- OneDatabase
  MaxColumns = 3
  MaxChanges = 5
  MaxFaults = 0
  MayDropTable = FALSE
  MayChangeFormat = FALSE
  MayLackNames = FALSE
PROPERTIES NoLiveValueLost
