SPECIFICATION FairSpec
CONSTANTS
  NCpus = 2
  MAXNUM_OF_THREADS = 4
  NStacks = 3
  Builds = {TRUE, FALSE}
INVARIANTS
  OneProcessor
  InOnePlace
  StackInUse
  NoStackLost
  NoBadState
PROPERTY EveryThreadRuns
CHECK_DEADLOCK FALSE
