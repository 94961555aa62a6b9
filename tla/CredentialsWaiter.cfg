SPECIFICATION Spec
CONSTANTS
  Workers = {w1, w2}
  Nobody = Nobody
  MaxGrants = 1
  Renewable = {1}
  MaxRequests = 2
  MaxFaults = 0
INVARIANT WaitersAreServed
CHECK_DEADLOCK FALSE
