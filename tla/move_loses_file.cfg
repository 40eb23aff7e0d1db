SPECIFICATION MCSpec
CONSTANTS
  Items = {1, 2}
  Library = {}
  LookAlike <- NoLookAlikes
  BatchSize = 2
  CopyConcurrency = 1
  Move = TRUE
  Local = TRUE
  MaxScans = 1
  MaxDisturbances = 3
  MaxFaults = 1
INVARIANT
  NoFileLost
CHECK_DEADLOCK FALSE
