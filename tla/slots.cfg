SPECIFICATION FairSpec
CONSTANTS
  Items = {1, 2, 3}
  Name <- OneName
  Content <- TwoContents
  LastSlot = 3
  Occupied <- NameTaken
  Sampled = {1}
  Workers = 2
  MaxAttempts = 2
  MaxRuns = 2
INVARIANTS
  TypeOK ClaimIsExclusiveUntilRejected CompletedHasFile NoSecondCopy
PROPERTIES
  FilesStay ImportEnds
CHECK_DEADLOCK FALSE
