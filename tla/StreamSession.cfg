CONSTANTS
  MaxClock = 3
  MaxCmds = 4
  MaxSeq = 2
  Offsets <- OffsetsUsed
  PlaysOnce = TRUE
SPECIFICATION EndpointSpec
INVARIANTS NothingLeft OnePipeline
PROPERTIES AnswersAdvance RequestEnds
CHECK_DEADLOCK FALSE
