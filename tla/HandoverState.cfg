SPECIFICATION FairSpec
CONSTANTS
  NMargins = 3
  PIECES = 4
  TCP_SND_BUF = 3
INVARIANT StartsWithState
CHECK_DEADLOCK FALSE
