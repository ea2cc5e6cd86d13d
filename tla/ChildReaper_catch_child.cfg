SPECIFICATION FairSpec
CONSTANTS
  N = 5
  BlockFirst = TRUE
INVARIANT NoForgottenZombie
PROPERTY AllReaped
CHECK_DEADLOCK FALSE
