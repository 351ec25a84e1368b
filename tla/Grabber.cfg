CONSTANTS
  Second = 5
  VideoClk = 3
  AudioClk = 2
  NominalDur = 2
  Width = 256
  MaxTicks = 3
  MaxFrames = 5
  Versions = {2, 3}
SPECIFICATION Spec
INVARIANTS KeyDecodable LateAudioAnnounced SampleWhole
PROPERTIES DTSAdvances ReaderReturns
CHECK_DEADLOCK FALSE
