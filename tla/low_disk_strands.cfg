SPECIFICATION MCSpec
CONSTANTS
  Items = {1, 2}
  Library = {}
  LookAlike <- NoLookAlikes
  BatchSize = 1
  CopyConcurrency = 1
  Move = FALSE
  Local = TRUE
  MaxScans = 1
  MaxDisturbances = 1
  MaxFaults = 1
INVARIANT
  PausedIsResumable
CHECK_DEADLOCK FALSE
