SPECIFICATION Spec
CONSTANTS
  WordBits = 3
  SubframeCount = 2
  DigitBits = 2
  Base = 3
  Wps = 2
  SyncWord = 5
  Received = {7}
  Parameters <- Pairs
  Values <- SomeValues
  None = None
INVARIANTS
  ClosedLoop
  LiveAgrees
