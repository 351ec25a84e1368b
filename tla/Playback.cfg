CONSTANTS
  GapThreshold = 1
  Starts = {1, 4}
  Tos = {0, 4}
  MaxClock = 5
  MaxSegs = 3
  MaxLost = 2
  MaxEvents = 1
SPECIFICATION Spec
INVARIANTS PlayedInOrder NothingPassedOver LaterGapsReported
PROPERTIES BufferTakesOver FollowCatchesUp RequestSettles
CHECK_DEADLOCK FALSE
