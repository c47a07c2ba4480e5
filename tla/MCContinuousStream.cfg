SPECIFICATION Spec
CONSTANTS
  WPS = 2
  StandardWps = {3}
  Blank = Blank
  NoId = NoId
  MaxSubframes = 11
  MaxFaults = 2
  MaxRestarts = 1
  MaxWire = 2
INVARIANTS
  DamageConfined
  FramesNotMixed
  Relocked
  ShownLockIsReal
CHECK_DEADLOCK FALSE
