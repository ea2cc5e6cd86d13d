SPECIFICATION FairSpec
CONSTANTS
  c1 = c1
  c2 = c2
  Clients = {c1, c2}
  Stream <- TwoRequests
  Cuts <- MixedCuts
  MaxSize = 1
  MaxFds = 2
  Closers = {c1}
  BufferFills = TRUE
  FilesVanish = TRUE
INVARIANTS TypeOK DisconnectsOnlyClosed NothingForgotten DiesForAReason
INVARIANTS LengthAccounted BlankLineUnlessTorn NameUnlessTorn
PROPERTY RequestAnswered
CHECK_DEADLOCK FALSE
