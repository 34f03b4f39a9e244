SPECIFICATION FairSpec
CONSTANTS
  Windows = {w1}
  Jobs = {j1, j2}
  LockedOutProbes = 2
  MaxInputs = 3
  MaxJobs = 3
  MaxCrashes = 1
  MaxForeign = 1
CHECK_DEADLOCK FALSE
INVARIANTS WaitsAttended ServerAccounted
PROPERTIES RestartSparesJobs StartSettles SettingApplied
