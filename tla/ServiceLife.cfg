SPECIFICATION FairSpec
CONSTANTS
  Dialects = {"postgresql", "sqlite"}
  MaxStarts = 3
  MaxFaults = 1
  KeyIds = {"k1", "k2", "k3"}
  MaxKeys = 3
  Garbled = Garbled
  Bare = Bare
  Environments <- MCEnvironments
  Workers = {w1, w2}
INVARIANTS TypeOK KeptKeysOpen AccessRewraps RetireSafe
PROPERTIES UpgradesInOrder UnreadableIsKept StartupEnds
CHECK_DEADLOCK FALSE
