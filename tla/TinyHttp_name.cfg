SPECIFICATION Spec
CONSTANTS
  c1 = c1
  c2 = c2
  Clients = {c1}
  Stream <- OneHeader
  Cuts <- InsideLines
  MaxSize = 2
  MaxFds = 1
  Closers = {}
  BufferFills = FALSE
  FilesVanish = FALSE
INVARIANT AnswersWhatWasAsked
CHECK_DEADLOCK FALSE
