SPECIFICATION FairSpec
CONSTANTS
  NCpus = 3
  TicketBits = 2
  RwBits = 3
INVARIANT WordsCount
PROPERTIES
  PromiseSpec
  EveryoneServed
CHECK_DEADLOCK FALSE
