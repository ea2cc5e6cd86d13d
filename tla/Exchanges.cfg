SPECIFICATION FairSpec
CONSTANTS
  w1 = w1
  w2 = w2
  a1 = a1
  a2 = a2
  n1 = n1
  n2 = n2
  Lines = 2
  PipeSize = 1
  CallsFail = TRUE
  MapWriters = {w1, w2}
  MaxId = 2
  MaxMessages = 3
  Askers = {a1, a2}
  Nobody = Nobody
  MaxQuestions = 2
  BufferSize = 1
  MaxStarts = 4
  Depth = 1
  Paths <- SomePaths
  FirstNames <- TwoFiles
  MaxMoves = 2
INVARIANTS TypeOK ReadsWhatWasWritten KilledForAReason
PROPERTY NobodyWaitsForEver
CHECK_DEADLOCK FALSE
