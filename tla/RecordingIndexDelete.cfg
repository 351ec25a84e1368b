CONSTANTS
  k1 = k1  k2 = k2  ch1 = ch1  ch2 = ch2
  Channels = {ch1, ch2}
  Callers = {k1, k2}
  Threshold = 1
  MaxIdle = 1
  MaxClock = 3
  MaxOpens = 2
  MaxCloses = 0
SPECIFICATION Spec
SYMMETRY Symmetry
PROPERTY DeleteMarks
CHECK_DEADLOCK FALSE
