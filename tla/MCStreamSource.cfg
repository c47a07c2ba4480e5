SPECIFICATION Spec
CONSTANTS
  Payload = {p1}
  Blank = Blank
  NoId = NoId
  FrameIds = {NoId, 0, 1, 2}
  MaxSubframes = 4
  Damage = {}
INVARIANTS
  TypeOK
  SlotsContiguous
  SlotsAccounted
  UnmarkedOnlyAfterRestart
  DiagnosticsAgree
CHECK_DEADLOCK FALSE
