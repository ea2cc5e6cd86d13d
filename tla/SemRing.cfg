SPECIFICATION FairSpec
CONSTANTS
  NUM = 5
  NumItems = 12
INVARIANTS CellsAccounted RingConsistent NoCellClash
PROPERTIES ImplementsQueue AllConsumed
CHECK_DEADLOCK FALSE
