SPECIFICATION Spec
CONSTANTS
  daily = daily  import1 = import1  import2 = import2
  Runs = {daily, import1, import2}
  Possible <- Figures
  NoAlert = NoAlert
SYMMETRY Symmetry
CHECK_DEADLOCK FALSE
INVARIANTS TypeOK DuplicatesOverlap
PROPERTIES AlertsStand SeverityStands
