\* Pulls run out.
CHECK_DEADLOCK FALSE
SPECIFICATION FairSpec
CONSTANTS
  c1 = c1  c2 = c2
  s1 = s1  s2 = s2
  p1 = p1  p2 = p2  p3 = p3
  Msgs = {1, 2, 3, 4, 5}
  Later = {2}
  InTrash = {5}
  Shas = {s1, s2}
  Paths = {p1, p2, p3}
  Parts = {"1.part", "2.part", "3.part"}
  Convs = {c1, c2}
  ConvOf <- MCConvOf
  ShaOf <- MCShaOf
  SentPath <- MCSentPath
  OwnPath <- MCOwnPath
  PartOf <- Apart
  Runs = {1, 2}
  Limit = 2
  Workers = 2
  MaxRetries = 1
  MaxPulls = 2
  MaxChanges = 1
  MaxStops = 1
  NoSha = NoSha  NoPath = NoPath  NoFile = NoFile  NoRun = NoRun
INVARIANTS OkMeansWhole NothingUnrecorded
PROPERTIES PullEnds
