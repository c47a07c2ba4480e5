SPECIFICATION Spec
CONSTANTS
  Subframes = {1, 2}
  Dataframes <- MCDataframes
  FirstDataframe <- MCFirstDataframe
  MaxSamples = 3
  MaxSeconds = 2
  WindowSeconds = 2
  MaxTime = 6
  MaxChanges = 2
INVARIANTS
  StaticViewDecoded
  TableAgreesWithFrame
  NoGapInHistory
  HistoryBounded
  AxisOneUnit
PROPERTIES
  SelectionFollowsSample
  GraphCatchesUp
CHECK_DEADLOCK FALSE
