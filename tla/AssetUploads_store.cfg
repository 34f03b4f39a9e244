SPECIFICATION FairSpec
CONSTANTS
  Slots = {r1, r2}
  Ups = {u1, u2, u3}
  Sent = {u1, u2}
  Parts = {"part 1"}
  Kinds = {"put", "start", "complete"}
  Bodies = {TRUE, FALSE}
  MaxRequests = 3
  MaxCrashes = 0
  MaxAges = 0
  MaxHarms = 1
  NoUp = NoUp
  NoPart = NoPart
  Nobody = Nobody
CHECK_DEADLOCK FALSE
INVARIANTS
  AnsweredMeansStored
  CreatedOnce
PROPERTIES
  EveryRequestEnds
  OnlyRightBytes
