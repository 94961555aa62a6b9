SPECIFICATION FairSpec
CONSTANTS
  Workers = {w1, w2, w3}
  Nobody = Nobody
  MaxGrants = 2
  Renewable = {1}
  MaxRequests = 4
  MaxFaults = 1
INVARIANT TypeOK
INVARIANT RefreshExclusive
INVARIANT MissingIsFlagged
PROPERTY WipesOnlyRejected
PROPERTY DeletedIsRevoked
PROPERTY RequestsEnd
CHECK_DEADLOCK FALSE
