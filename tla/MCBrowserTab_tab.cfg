SPECIFICATION FairSpec
CONSTANTS
  NoEdit = NoEdit  NoChange = NoChange
  MaxWrites = 2  MaxFaults = 1  MaxMoves = 2
CHECK_DEADLOCK FALSE
INVARIANTS TypeOK StaleIsExplained EmptyIsKnown
PROPERTIES KeepsCopy NewsArrives PanelsFill
