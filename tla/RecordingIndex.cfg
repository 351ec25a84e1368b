CONSTANTS
  k1 = k1  k2 = k2  ch1 = ch1  ch2 = ch2
  Channels = {ch1, ch2}
  Callers = {k1, k2}
  Threshold = 1
  MaxIdle = 0
  MaxClock = 2
  MaxOpens = 2
  MaxCloses = 1
SPECIFICATION Spec
SYMMETRY Symmetry
INVARIANT MapMatchesOpen
PROPERTY ThresholdHolds
CHECK_DEADLOCK FALSE
