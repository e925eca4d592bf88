SPECIFICATION FairSpec
CONSTANTS
  NUnits = 2
  BATCH_SIZE = 2
  TCP_SND_BUF = 2
  MaxWriteFailures = 0
  ParallelThreads = FALSE
PROPERTIES
  FaultServed
  MigrationEnds
CHECK_DEADLOCK FALSE
