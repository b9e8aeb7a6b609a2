SPECIFICATION Spec
CONSTANTS
  Parts = {"journal"}
  f1 = f1
  f2 = f2
  Screens = {"journal", "history", "knowledge", "followed"}
  Filters <- FiltersV
  Scopes <- ScopesV
  MaxRows <- MaxRowsV
  MaxNow <- MaxNowV
  Companies = {TRUE}
  Line <- LineV
  Cases <- CasesV
  Offered <- OfferedV
  PageSize = 1
  PerMs = 2
  Batch = 2
  MaxEvents = 2
  l1 = l1
  l2 = l2
  MaxChanges = 1
  Refused = Refused
  Failed = Failed
  Accounts = {"admin", "operator"}
  MaxSessions = 2
  Waiting = Waiting
  Null = Null
CHECK_DEADLOCK FALSE
INVARIANT PagesSkipNothing
