SPECIFICATION MCSpec
CONSTANTS
  Items = {1, 2}
  Library = {}
  LookAlike <- NoLookAlikes
  BatchSize = 2
  CopyConcurrency = 1
  Move = FALSE
  Local = TRUE
  MaxScans = 1
  MaxDisturbances = 2
  MaxFaults = 0
PROPERTY
  SkippedIsNotImported
CHECK_DEADLOCK FALSE
