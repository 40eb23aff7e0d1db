SPECIFICATION MCSpec
CONSTANTS
  Items = {1, 2, 3}
  Library = {}
  LookAlike <- NoLookAlikes
  BatchSize = 2
  CopyConcurrency = 2
  Move = FALSE
  Local = TRUE
  MaxScans = 2
  MaxDisturbances = 3
  MaxFaults = 2
INVARIANTS
  TypeOK CompletedInVault CachedIsHashed InterruptedIsResumed
PROPERTIES
  CompletedMeansAll EndedStaysEnded
CHECK_DEADLOCK FALSE
