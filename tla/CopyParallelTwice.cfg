SPECIFICATION Spec
CONSTANTS
  NUnits = 2
  BATCH_SIZE = 2
  TCP_SND_BUF = 2
  MaxWriteFailures = 0
  ParallelThreads = TRUE
INVARIANT NotSentTwice
CHECK_DEADLOCK FALSE
