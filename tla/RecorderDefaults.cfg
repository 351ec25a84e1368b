CONSTANTS
  c1 = c1  e1 = e1  d1 = d1  d2 = d2
  Main = Main  NoCons = NoCons  NoSeg = NoSeg
  Channels = {c1}
  Explicit = {e1}
  ChannelOf <- OneChannelOf
  Storage <- OneStorage
  Timed = {c1}
  Sized = {e1}
  Retaining = {e1}
  LowFree = {e1}
  MinFree = {e1}
  SegmentTime = 1
  Batch = 1
  MaxClock = 2
  MaxFaults = 1
  MaxCrashes = 0
SPECIFICATION Spec
PROPERTY UncoveredKeepsRecording
CHECK_DEADLOCK FALSE
