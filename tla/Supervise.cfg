SPECIFICATION LiveSpec
CONSTANTS
  Contracts = {c1}
  Accounts = {a1}
  Processes = {p1}
  AccountsOnly = {}
  Broken = {c1}
  MaxTip = 2
  MaxFailures = 2
  None = None
  c1 = c1
  a1 = a1
  p1 = p1
INVARIANTS TypeOK WatchedSinceAdded OnceTellsAll
PROPERTIES AddedIsRead RemovedStops OnceReturns
