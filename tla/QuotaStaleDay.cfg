SPECIFICATION Spec
CONSTANTS
  Users = {u1}
  Workers = {w1}
  NoUser = NoUser
  MaxDay = 1
  MaxRequests = 2
  MaxFaults = 0
  MaxTracks = 4
  MaxPages = 0
  GlobalCap = 5
  UserCap = 4
  CreateCap = 1
  InsertCost = 2
  ListCost = 1
  MaxRetries = 2
  Validate = FALSE
  PerCall = 1
INVARIANT CapHoldsAcrossMidnight
SYMMETRY Symmetry
CHECK_DEADLOCK FALSE
