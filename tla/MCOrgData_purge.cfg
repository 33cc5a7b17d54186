SPECIFICATION Spec
CONSTANTS
  a = a  b = b  c = c  job = job  acme = acme  aws = aws
  Sessions = {a, b, c}
  Jobs = {job}
  Name = acme
  Merchant = aws
  None = None
SYMMETRY Symmetry
CHECK_DEADLOCK FALSE
INVARIANTS TypeOK InvoicesKeepJobs
PROPERTIES PurgeEmptiesItsTables
