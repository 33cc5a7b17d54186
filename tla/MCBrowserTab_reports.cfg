SPECIFICATION Spec
CONSTANTS
  NoEdit = NoEdit  NoChange = NoChange
  MaxWrites = 2  MaxFaults = 0  MaxMoves = 2
CHECK_DEADLOCK FALSE
PROPERTIES FailuresAreReal
