SPECIFICATION FairSpec
CONSTANTS
  NFiles = 2
  Guids = {1, 2, 3, 4}
  Digests = {1, 2}
  FileOf <- CrossedFileOf
  AssetOf <- CrossedAssetOf
  SourceOf <- MCSourceOf
  BatchSize = 1
  OverlapMin = 1
  Ahead = 2
  Workers = 2
  OwnRun = TRUE
  Modes = {"replace"}
  Forces = {FALSE}
  MaxPushes = 2
  MaxFaults = 1
  MaxCrashes = 0
  NoAsset = NoAsset
INVARIANTS
  DoneMeansAll
  OkMeansStored
PROPERTIES
  CancelledIsJournalled
  PushEnds
CHECK_DEADLOCK FALSE
