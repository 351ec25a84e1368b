CONSTANTS
  a = a
  b = b
  Cams = {a, b}
  w1 = w1
  w2 = w2
  Workers = {w1, w2}
  NoOne = NoOne
  Names = {1, 2}
  Files <- FilesUsed
  Imports <- ImportsUsed
  Limit = 1
  MaxRequests = 2
  MaxRuns = 2
SPECIFICATION AppSpec
INVARIANTS TornOnlyByFaults ListedAsStored PagesCover UsersStopFirst
PROPERTIES ImplementsStore NoFalseAbsence RequestsAnswered TerminationEnds
CHECK_DEADLOCK FALSE
