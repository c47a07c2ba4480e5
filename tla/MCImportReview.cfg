SPECIFICATION Spec
CONSTANTS
  SubframeCount = 2
  LocationSlots = 4
  StateSlots = 3
  NoWeight = NoWeight
  WordBits = 3
  MinLayoutEvidence = 2
  Documents <- MCDocuments
  FirstProfile <- MCFirstProfile
  FirstWps = 4
  Profiles <- MCProfiles
  Rates = {4, 2}
  MaxImports = 2
  MaxSteps = 2
INVARIANTS
  AutoMeansUnambiguous
  IssuesCurrent
  PublishedWithoutErrors
  SeenOrClean
PROPERTY
  ImportReported
CHECK_DEADLOCK FALSE
