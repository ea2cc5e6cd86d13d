SPECIFICATION FairSpec
CONSTANTS
  c1 = c1
  c2 = c2
  c3 = c3
  None = None
  Clients = {c1, c2, c3}
  MaxFds = 2
  MaxSegments = 2
  MaySend <- SomeMaySend
  MaxCalls = 1
  MayEnd <- SomeMayEnd
  FD_SETSIZE = 2
  OPEN_MAX = 3
  TsSize = 2
INVARIANTS TypeOK NeverBlocks WatchesAll EndsForAReason
PROPERTIES NothingCutShort Echoed
CHECK_DEADLOCK FALSE
