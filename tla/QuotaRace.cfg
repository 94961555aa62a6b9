SPECIFICATION Spec
CONSTANTS
  Users = {u1, u2}
  Workers = {w1, w2}
  NoUser = NoUser
  MaxDay = 0
  MaxRequests = 2
  MaxFaults = 0
  MaxTracks = 1
  MaxPages = 0
  GlobalCap = 7
  UserCap = 6
  CreateCap = 1
  InsertCost = 2
  ListCost = 1
  MaxRetries = 0
  Validate = FALSE
  PerCall = 1
INVARIANT TypeOK
INVARIANT CapOvershoot
INVARIANT GlobalOvershoot
INVARIANT CreatesOvershoot
SYMMETRY Symmetry
CHECK_DEADLOCK FALSE
