SPECIFICATION MCSpec
CONSTANTS
  Items = {1, 2, 3}
  Library = {101}
  LookAlike <- SomeLookAlikes
  BatchSize = 2
  CopyConcurrency = 2
  Move = TRUE
  Local = TRUE
  MaxScans = 2
  MaxDisturbances = 3
  MaxFaults = 1
INVARIANTS
  NoLoss
PROPERTIES
  VerifiedStays UnlinkAfterCommit CacheGoesLast
CHECK_DEADLOCK FALSE
