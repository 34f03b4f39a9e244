\* The requests of a small instance run out, and then nothing is left to do.
CHECK_DEADLOCK FALSE
SPECIFICATION FairSpec
CONSTANTS
  r1 = r1  r2 = r2
  g1 = g1  g2 = g2
  x1 = x1  x2 = x2
  c1 = c1  c2 = c2
  s1 = s1
  Runs = {r1, r2}
  CliRuns = {}
  Guids = {g1}
  Assets = {x1}
  Convs = {c1}
  Sources = {s1}
  Stages = {parse}
  Outcomes = {}
  Batches = {b1, b2}
  ConvDeletes = {}
  AllDeletes = {a1}
  Droppable = {a1}
  RunMode <- MCRunMode
  RunSource <- MCRunSource
  SourceOf <- MCSourceOf
  ConvOf <- MCConvOf
  AssetOf <- MCSharedAssetOf
  StrayUploads = FALSE
  MaxCrashes = 0
  MaxImports = 1
  PoolSize = 2
  NoRun = NoRun  NoStage = NoStage  Nobody = Nobody
PROPERTIES UpToDateSpareNamed EveryRequestAnswered
