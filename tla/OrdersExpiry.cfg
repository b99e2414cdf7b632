SPECIFICATION FairSpec
CONSTANTS
  a = a
  b = b
  o1 = o1
  o2 = o2
  Tickets <- OneTicket
  Orders <- OneOrder
  Quota <- QuotaOne
  Items <- ItemsLone
  Workers = {w1, w2}
  Ops = {"create", "paid", "expired", "failed", "cancel", "cron"}
  Overlap = TRUE
  MaxFaults = 2
PROPERTIES
  PendingEnds
\* Every order of the instance ends and nothing is left to do.
CHECK_DEADLOCK FALSE
