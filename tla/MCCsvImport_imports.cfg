SPECIFICATION Spec
CONSTANTS
  j1 = j1  j2 = j2  rent = rent  fees = fees  acme = acme
  Jobs = {j1, j2}
  Batches <- Uploads
  MaxChunks = 2
  OutboxFaults = TRUE
  NoCustomer = NoCustomer
SYMMETRY Symmetry
CHECK_DEADLOCK FALSE
INVARIANTS TypeOK ReportedIsStored NothingDropped
PROPERTIES ReimportAddsNothing
