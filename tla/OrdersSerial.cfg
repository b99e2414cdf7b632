SPECIFICATION Spec
CONSTANTS
  a = a
  b = b
  o1 = o1
  o2 = o2
  Tickets <- TwoTickets
  Orders <- TwoOrders
  Quota <- QuotaTwo
  Items <- ItemsTwo
  Workers = {w1, w2}
  Ops = {"create", "paid", "expired", "failed", "cancel", "cron"}
  Overlap = FALSE
  MaxFaults = 2
INVARIANTS
  CounterHonest
  SoldIsPaid
  OnlyOverdueLeak
  PaidHasTickets
PROPERTIES
  ImplementsOrderBook
SYMMETRY Symmetry
\* Every order of the instance ends and nothing is left to do.
CHECK_DEADLOCK FALSE
