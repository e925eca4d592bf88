SPECIFICATION FairSpec
CONSTANTS
  NMargins = 6
  PIECES = 7
  TCP_SND_BUF = 4
INVARIANTS
  StartsWithMargins
  MarginsBeforeCopy
PROPERTY HandoverEnds
CHECK_DEADLOCK FALSE
