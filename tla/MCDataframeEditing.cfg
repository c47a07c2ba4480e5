SPECIFICATION Spec
CONSTANTS
  SubframeCount = 2
  LocationSlots = 4
  StateSlots = 3
  NoWeight = NoWeight
  WordBits = 3
  MaxDocuments = 2
  Paths = {"vendor", "export"}
  FirstFiles <- MCFirstFiles
  Rates = {4, 3}
  Names = {"digits"}
  Sources = {"Discrete"}
  Words = {0, 3}
  Labels = {"set"}
  Imported <- MCImported
  MaxSteps = 2
INVARIANTS
  CleanMeansWritten
  OthersVerbatim
  ReadableExport
  StoredAsGiven
CHECK_DEADLOCK FALSE
