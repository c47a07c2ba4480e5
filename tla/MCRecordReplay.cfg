SPECIFICATION Spec
CONSTANTS
  Payload = {p1}
  Blank = Blank
  NoId = NoId
  FrameIds = {NoId, 1}
  MaxSubframes = 4
  Damage = {}
INVARIANTS
  ReplayRepeats
  ReplayInventsNothing
CHECK_DEADLOCK FALSE
