CONSTANTS
  Rows = {r1, r2}
  MaxStarts = 5
  MaxFaults = 1
  MaxRenameFaults = 2
  MaxKills = 2
  CommandsRace = FALSE
  DeletesRace = FALSE
  RecordFails = FALSE
  FreshResets = FALSE
  NoDb = NoDb

SPECIFICATION Spec

INVARIANTS
  OthersKept
  ReadyTrue
  DemoWhole
PROPERTIES
  BuildEnds

CHECK_DEADLOCK FALSE
