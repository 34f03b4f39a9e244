SPECIFICATION Spec
CONSTANTS
  Slots = {r1, r2, r3}
  Ups = {u1}
  Sent = {}
  Parts = {"part 1", "part 2"}
  Kinds = {"start", "part", "complete", "abort"}
  Bodies = {TRUE}
  MaxRequests = 5
  MaxCrashes = 1
  MaxAges = 1
  MaxHarms = 0
  NoUp = NoUp
  NoPart = NoPart
  Nobody = Nobody
SYMMETRY Alike
CHECK_DEADLOCK FALSE
INVARIANTS
  AckedPartsKept
  AbortedIsGone
