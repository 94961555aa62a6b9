SPECIFICATION Spec
CONSTANTS
  Googles = {g1, g2}
  Workers = {w1, w2}
  None = None
  MaxUsers = 2
  MaxTokens = 2
  MaxSnapshots = 1
  MaxFaults = 1
  MaxTime = 3
  Lifetime = 2
  Retention = 0
INVARIANT TypeOK
INVARIANT OneAccountEach
INVARIANT SessionsStayOwn
INVARIANT GoneLeavesNothing
PROPERTY LoggedOutRejected
PROPERTY OnlyOwnersRemove
SYMMETRY Symmetry
CHECK_DEADLOCK FALSE
