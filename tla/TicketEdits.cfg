SPECIFICATION EditsSpec
CONSTANTS
  a = a
  b = b
  o1 = o1
  o2 = o2
  Tickets = {a, b}
  Orders = {o1, o2}
  Quota <- QuotaHere
  Demand <- DemandHere
  Edits = {e1, e2}
  NewQuotas = {1, 4}
INVARIANTS
  TypeOK
  SalesSurviveEdits
SYMMETRY Symmetry
\* Nothing is left to do when every order has ended and every ticket is removed.
CHECK_DEADLOCK FALSE
