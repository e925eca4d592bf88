SPECIFICATION Spec
CONSTANTS
  NUnits = 3
  BATCH_SIZE = 2
  TCP_SND_BUF = 2
  MaxWriteFailures = 0
  ParallelThreads = FALSE
INVARIANTS
  TypeOK
  GuestMemorySafe
  DoneIsComplete
  OneSender
  RoomToWrite
  MarkedIsSent
  ReceivedIsComplete
  NotSentTwice
PROPERTY PagingSpec
CHECK_DEADLOCK FALSE
