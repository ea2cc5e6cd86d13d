SPECIFICATION FairSpec
CONSTANTS
  Producers = {p1, p2}
  Consumers = {c1, c2}
  Nodes = {n1, n2, n3}
  NULL = NULL
INVARIANTS OneOwner NoStrandedMessage
PROPERTY MessagesTaken
