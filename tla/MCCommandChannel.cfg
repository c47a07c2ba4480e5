SPECIFICATION FairSpec
CONSTANTS
  Subframes = 2
  MaxOps = 3
  MaxUploads = 3
  MaxTimeouts = 1
  MaxLine = 2
  MaxArrivals = 1
INVARIANTS
  ReplyIsOwnWhenQuiet
  FrameSentWhole
PROPERTIES
  RequestsAnswered
CHECK_DEADLOCK FALSE
