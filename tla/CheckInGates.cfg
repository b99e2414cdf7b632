SPECIFICATION Spec
CONSTANTS
  p1 = p1
  p2 = p2
  g1 = g1
  g2 = g2
  t1 = t1
  t2 = t2
  e1 = e1
  e2 = e2
  n1 = n1
  Procs = {p1, p2}
  Gates = {g1, g2}
  Tickets = {t1, t2}
  Events = {e1, e2}
  EventOf <- OneEvent
  Nonces = {n1}
INVARIANTS
  TypeOK
  AdmittedOnce
  OnlyGenuine
PROPERTIES
  RevokedRefused
SYMMETRY Symmetry
