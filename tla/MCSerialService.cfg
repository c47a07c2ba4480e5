SPECIFICATION FairSpec
CONSTANTS
  MaxLosses = 2
  MaxTimeouts = 1
  MaxQueue = 3
  MaxChunks = 2
INVARIANTS
  StateMatchesSource
  LiveFrameOwned
PROPERTIES
  LossNoticed
  Reconnects
  StoppedFrameSettles
CHECK_DEADLOCK FALSE
