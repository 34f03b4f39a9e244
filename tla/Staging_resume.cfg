SPECIFICATION FairSpec
CONSTANTS
  o1 = o1  o2 = o2
  w1 = w1  w2 = w2
  NoDoc = NoDoc  NoFile = NoFile  NoOriginal = NoOriginal
  NDocs = 2
  Originals = {o1, o2}
  AttsOf <- MCAttsOf
  Workers = {w1, w2}
  VerdictsOf <- MCVerdictsOf
  DiskFails = TRUE
  FfmpegFails = TRUE
  MaxRuns = 3
  MaxStops = 1
INVARIANTS NothingLost ResumedLikeFresh
PROPERTIES RunEnds
\* The runs of a small instance run out.
CHECK_DEADLOCK FALSE
