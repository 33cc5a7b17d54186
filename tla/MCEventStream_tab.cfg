SPECIFICATION FairSpec
CONSTANTS
  request = request  import = import  reimport = reimport  api = api  worker = worker
  c1 = c1  c2 = c2  c3 = c3
  Txs = {request, import}
  ProcOf <- Placement
  Synchronous = {worker}
  Conns = {c1, c2, c3}
  Faults = TRUE
  MaxEvents = 1
  MaxClock = 1
  MaxMounts = 2
  MaxBreaks = 2
  PageSize = 1
  None = None
CHECK_DEADLOCK FALSE
INVARIANTS TypeOK OneStream RepeatsExplained
PROPERTIES StreamBringsNews Reattaches
