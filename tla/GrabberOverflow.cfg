CONSTANTS
  Second = 5
  VideoClk = 3
  AudioClk = 2
  NominalDur = 2
  Width = 32
  MaxTicks = 4
  MaxFrames = 5
  Versions = {2, 3}
SPECIFICATION Spec
PROPERTY DTSAdvances
CHECK_DEADLOCK FALSE
