SPECIFICATION Spec
CONSTANTS
  a = a
  b = b
  o1 = o1
  o2 = o2
  Tickets <- OneTicket
  Orders <- TwoOrders
  Quota <- QuotaOne
  Items <- ItemsOne
  Workers = {w1, w2}
  Ops = {"create", "paid", "cancel", "cron"}
  Overlap = TRUE
  MaxFaults = 1
INVARIANTS
  TypeOK
  NoOversell
  IssuedAreSold
  SoldCoversPaid
PROPERTIES
  SoldNeverFalls
  EndedStaysEnded
SYMMETRY Symmetry
\* Every order of the instance ends and nothing is left to do.
CHECK_DEADLOCK FALSE
