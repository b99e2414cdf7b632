SPECIFICATION FairSpec
CONSTANTS
  x1 = x1
  h1 = h1
  r1 = r1
  Txs = {x1}
  Wallets = {}
  Hooks = {h1}
  Reapers = {r1}
  MaxAttempts = 2
  MaxReports = 2
  MaxStrays = 1
  MaxWaiting = 1
  MaxFaults = 2
  MaxSwallows = 2
INVARIANTS
  TypeOK
  PaidIsReported
  PaidNotForgotten
PROPERTIES
  ReopenedByStray
  PendingEnds
\* Every bill of the instance ends and the queue runs empty.
CHECK_DEADLOCK FALSE
