SPECIFICATION Spec
CONSTANTS
  request = request  import = import  reimport = reimport  api = api  worker = worker
  c1 = c1  c2 = c2  c3 = c3
  Txs = {import, reimport}
  ProcOf <- Placement
  Synchronous = {worker}
  Conns = {c1, c2}
  Faults = FALSE
  MaxEvents = 2
  MaxClock = 0
  MaxMounts = 1
  MaxBreaks = 1
  PageSize = 2
  None = None
CHECK_DEADLOCK FALSE
INVARIANTS NothingSkipped
