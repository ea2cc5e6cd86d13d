SPECIFICATION FairSpec
CONSTANTS
  N = 5
  BlockFirst = FALSE
PROPERTY AllReaped
CHECK_DEADLOCK FALSE
