SPECIFICATION Spec
CONSTANTS
  Keys <- SomeKeys
  KeySets <- OneKeyEach
  Operations <- OneKeyOperations
  Readers = {r1, r2}
  Writers = {w1, w2}
  Stamps = {s1, s2}
  MaxMutations = 2
  MaxFaults = 1
  None = None
  Gone = Gone
INVARIANTS
  TypeOK
  HoldersAlone
  StaleExcused
  AsWanted
SYMMETRY Symmetry
CHECK_DEADLOCK FALSE
