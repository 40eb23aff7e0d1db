SPECIFICATION ServicesSpec
CONSTANTS
  Parts = {"tasks", "cutoff", "tiers", "afc", "bridge", "setup", "listing",
           "thumbs", "library", "feed", "view", "curation"}
  c1 = c1
  c2 = c2
  grid = grid
  date = date
  name = name
  Clients = {c1, c2}
  LastTask = 2
  LastRequest = 2
  Files = {1, 2, 3}
  Mtime <- FileTimes
  Taken <- CaptureTimes
  Imports = {1, 2}
  Overlap = 1
  DeviceClients = {c1, c2}
  LastCall = 2
  Threshold = 2
  OneShots = {"wpd"}
  Callers = {c1, c2}
  PoolSize = 1
  LastCancel = 1
  TrustTtl = 1
  ReadyWindow = 1
  Starters = {1}
  Dogs = {2, 3}
  MaxStarts = 3
  Setups = {1, 2}
  Distros = {"ubuntu", "debian"}
  Phones = {1}
  Viewers = {1}
  Sorts = {date, name}
  LastChange = 1
  Foreground = {"viewer"}
  LastVersion = 2
  SizeOf <- VersionSizes
  Undecodable = {2}
  Grids = {grid}
  LastRegen = 1
  LastOwner = 2
  Sockets = {1, 2}
  LastEvent = 2
  LastRound = 2
  SessionIds = {1, 2}
  LastClick = 3
  LibraryItems = {1, 2, 3}
  PhotoOf <- Photos
  NameOf <- PhotoNames
  Look <- PhotoLooks
  SessionOf <- PhotoSessions
  Hashless = {3}
INVARIANTS
  OneTaskRuns StoppedTaskIsSignalled RunningHasTask NonePassedOver
  FailsAfterAllTiers OneThreadPerSession SessionsAccounted
  WatchdogIsRegistered BridgeIsWatched StartsWherePrepared ReuseIsFresh
  DiskThumbNotStale RefusedIsUndecodable ThumbIsOfItem FailureIsRetried
  ListenersHear PongDecides ShownEndIsReal EndIsShownInFull WaitingCanStart
  OthersKeepTheirFile
PROPERTIES
  RecoveredDriverIsUsed
CONSTRAINT InScope
CHECK_DEADLOCK FALSE
