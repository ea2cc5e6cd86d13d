SPECIFICATION Spec
CONSTANTS
  c1 = c1
  c2 = c2
  Clients = {c1}
  Stream <- OneHeader
  Cuts <- BetweenLines
  MaxSize = 2
  MaxFds = 1
  Closers = {}
  BufferFills = TRUE
  FilesVanish = FALSE
INVARIANT LengthExact
CHECK_DEADLOCK FALSE
