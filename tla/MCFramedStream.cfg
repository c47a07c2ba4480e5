SPECIFICATION Spec
CONSTANTS
  Blank = Blank
  NoId = NoId
  MaxFrames = 3
  MaxFaults = 3
  MaxRestarts = 1
  MaxWire = 2
INVARIANTS
  FrameIdentity
  MissingIsLost
CHECK_DEADLOCK FALSE
