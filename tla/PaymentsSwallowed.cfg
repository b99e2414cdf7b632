SPECIFICATION Spec
CONSTANTS
  x1 = x1
  h1 = h1
  r1 = r1
  Txs = {x1}
  Wallets = {}
  Hooks = {h1}
  Reapers = {r1}
  MaxAttempts = 2
  MaxReports = 1
  MaxStrays = 0
  MaxWaiting = 1
  MaxFaults = 0
  MaxSwallows = 1
INVARIANTS
  ReportsHandled
CONSTRAINT
  SavedFirst
\* Every bill of the instance ends and the queue runs empty.
CHECK_DEADLOCK FALSE
