\* Deaths, failing queries and overlapping first starts.
SPECIFICATION BootSpec
CONSTANTS
  Node = {n1, n2}
  TableSeq <- MCTableSeq
  SnapCol <- MCSnapCol
  SnapRef <- MCSnapRef
  OldCol = {"name", "gone"}
  OldRef <- MCOldRef
  Junction = {"targets"}
  Unique = {"table", "route"}
  TableDef = "table"
  RecordSeq <- MCRecordSeq
  KindOf <- MCKindOf
  RefOf <- MCRefOf
  Unguarded = {"setting"}
  Critical = "main"
  MaxDeaths = 1
  MaxErrors = 1
  MaxEdits = 1
INVARIANTS
  BootTypeOK
  InitialisedIsComplete
PROPERTIES
  EditsSurviveStarts
  EventuallyInitialised
CHECK_DEADLOCK FALSE
