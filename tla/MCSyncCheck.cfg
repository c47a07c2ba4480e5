SPECIFICATION Spec
CONSTANTS
  WPS = 2
  StandardWps = {3}
  Looks = {1, 2, 4}
  StreamLen = 9
INVARIANTS
  DeliversTheReference
CHECK_DEADLOCK FALSE
