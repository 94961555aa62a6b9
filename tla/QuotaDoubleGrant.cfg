SPECIFICATION Spec
CONSTANTS
  Users = {u1}
  Workers = {w1, w2}
  NoUser = NoUser
  MaxDay = 0
  MaxRequests = 2
  MaxFaults = 0
  MaxTracks = 1
  MaxPages = 0
  GlobalCap = 5
  UserCap = 4
  CreateCap = 1
  InsertCost = 2
  ListCost = 1
  MaxRetries = 2
  Validate = FALSE
  PerCall = 1
INVARIANT NoDoubleGrant
SYMMETRY Symmetry
CHECK_DEADLOCK FALSE
