SPECIFICATION Spec
CONSTANTS
  NFiles = 3
  Guids = {1, 2, 3, 4, 5}
  Digests = {1, 2}
  FileOf <- MCFileOf
  AssetOf <- MCAssetOf
  SourceOf <- MCSourceOf
  BatchSize = 2
  OverlapMin = 2
  Ahead = 2
  Workers = 2
  OwnRun = FALSE
  Modes = {"append"}
  Forces = {TRUE, FALSE}
  MaxPushes = 2
  MaxFaults = 1
  MaxCrashes = 1
  NoAsset = NoAsset
INVARIANTS
  ClaimsExact
  StoredWithFile
  JournalTrue
  UndisturbedPushSucceeds
PROPERTIES
  SendsOnlyUnlisted
CHECK_DEADLOCK FALSE
