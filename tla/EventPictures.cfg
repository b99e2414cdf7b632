SPECIFICATION Spec
CONSTANTS
  Media = {m1, m2}
  Events = {e1}
  Calls = {c1, c2}
  MaxAttempts = 2
  MaxFaults = 2
INVARIANTS
  TypeOK
  OneBanner
  OrphansExcused
  PicturesKept
SYMMETRY Symmetry
CHECK_DEADLOCK FALSE
