SPECIFICATION Spec
CONSTANTS
  r1 = r1  r2 = r2
  g1 = g1  g2 = g2
  x1 = x1  x2 = x2
  c1 = c1  c2 = c2
  s1 = s1
  Runs = {r1, r2}
  CliRuns = {r1}
  Guids = {g1, g2}
  Assets = {x1}
  Convs = {c1, c2}
  Sources = {s1}
  Stages = {parse}
  Outcomes = {"completed"}
  Batches = {b1, b2}
  ConvDeletes = {d1}
  AllDeletes = {}
  Droppable = {}
  RunMode <- MCRunMode
  RunSource <- MCRunSource
  SourceOf <- MCSourceOf
  ConvOf <- MCConvOf
  AssetOf <- MCSharedAssetOf
  StrayUploads = TRUE
  MaxCrashes = 1
  MaxImports = 2
  PoolSize = 2
  NoRun = NoRun  NoStage = NoStage  Nobody = Nobody
SYMMETRY SmallSymmetry
INVARIANTS SweepSparesNamed NothingLeftBehind
PROPERTIES LandsAsPromised OnlyReplaceRewrites
