SPECIFICATION MCFairSpec
CONSTANTS
  Items = {1, 2}
  Library = {}
  LookAlike <- NoLookAlikes
  BatchSize = 1
  CopyConcurrency = 1
  Move = TRUE
  Local = FALSE
  MaxScans = 2
  MaxDisturbances = 3
  MaxFaults = 1
PROPERTIES
  TaskEndsAgain ImplementsLedger
CHECK_DEADLOCK FALSE
