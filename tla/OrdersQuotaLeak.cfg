SPECIFICATION Spec
CONSTANTS
  a = a
  b = b
  o1 = o1
  o2 = o2
  Tickets <- OneTicket
  Orders <- OneOrder
  Quota <- QuotaOne
  Items <- ItemsLone
  Workers = {w1}
  Ops = {"create", "cron"}
  Overlap = FALSE
  MaxFaults = 0
INVARIANTS
  QuotaRestored
\* Every order of the instance ends and nothing is left to do.
CHECK_DEADLOCK FALSE
