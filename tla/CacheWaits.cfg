SPECIFICATION FairSpec
CONSTANTS
  Keys <- RoleKeys
  KeySets <- ByNameOrPattern
  Operations <- RoleKeyOperations
  Readers = {r1, r2}
  Writers = {w1}
  Stamps = {1}
  MaxMutations = 1
  MaxFaults = 1
  None = None
  Gone = Gone
PROPERTIES
  ReadersReturn
  StaleGoes
CHECK_DEADLOCK FALSE
