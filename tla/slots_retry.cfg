SPECIFICATION Spec
CONSTANTS
  Items = {1, 2}
  Name <- OneName
  Content <- TwoContents
  LastSlot = 3
  Occupied <- NameTaken
  Sampled = {1}
  Workers = 2
  MaxAttempts = 2
  MaxRuns = 1
INVARIANT
  ClaimIsExclusive
CHECK_DEADLOCK FALSE
