SPECIFICATION FairSpec
CONSTANTS
  Users = {u1}
  Workers = {w1}
  NoUser = NoUser
  MaxDay = 1
  MaxRequests = 1
  MaxFaults = 1
  MaxTracks = 2
  MaxPages = 0
  GlobalCap = 4
  UserCap = 3
  CreateCap = 1
  InsertCost = 2
  ListCost = 1
  MaxRetries = 0
  Validate = TRUE
  PerCall = 1
INVARIANT LedgerCoversCalls
INVARIANT GoneLeavesNoRows
INVARIANT CapOvershoot
INVARIANT BillBounded
PROPERTY ImplementsBudget
PROPERTY RestoresWindDown
PROPERTY RestoresEnd
CHECK_DEADLOCK FALSE
