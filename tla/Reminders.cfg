SPECIFICATION Spec
CONSTANTS
  soon = soon
  own = own
  Ids = {r1, r2}
  Plans <- AllPlans
  ChannelsOf <- Channel
  PlanLists <- OneList
  Calls = {c1, c2}
  MaxRetries = 1
  MaxFaults = 2
  NoId = NoId
INVARIANTS
  TypeOK
  OneRowEach
  DuplicatesExcused
  RetriesUsedUp
PROPERTIES
  SentIsDelivered
  EndedRests
SYMMETRY Symmetry
