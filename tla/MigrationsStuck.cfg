SPECIFICATION SchemaSpec
CONSTANTS
  Dialects = {"postgresql", "sqlite"}
  MaxStarts = 1
  MaxFaults = 0
INVARIANT UpgradedInPlace
CHECK_DEADLOCK FALSE
