SPECIFICATION FairSpec
CONSTANTS
  c1 = c1
  c2 = c2
  Clients = {c1}
  Stream <- OneHeader
  Cuts <- BetweenLines
  MaxSize = 2
  MaxFds = 1
  Closers = {c1}
  BufferFills = FALSE
  FilesVanish = FALSE
PROPERTY ReadErrorEnds
CHECK_DEADLOCK FALSE
