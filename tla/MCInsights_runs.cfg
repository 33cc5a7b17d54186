SPECIFICATION Spec
CONSTANTS
  nightly = nightly  manual = manual
  Runs = {nightly, manual}
  Txns <- Ledger
  Opening <- OpeningRows
  Invoices <- Bills
  Commitments <- Subscriptions
  OpeningBalance = 100  Balances = {500}
  Outlooks = {3, 8}
  NoValue = NoValue
  Profile = 0
  WeekLength = 2  MonthLength = 4  CashDays = 6  VendorDays = 12
  MinBaselineMonths = 1  MinBaselineAmount = 100
  RenewalDays = 1  MinRenewal = 500  RunwayThreshold = 4  TopOutflows = 2
  LookbackWeeks = 2
  FirstDay = 10  LastDay = 12  MaxChanges = 2  MaxDismissed = 1
SYMMETRY Symmetry
CHECK_DEADLOCK FALSE
INVARIANTS TypeOK DuplicatesOverlap
PROPERTIES RerunAddsNothing DailyRunsMissNothing
