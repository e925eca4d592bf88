SPECIFICATION Spec
CONSTANTS
  RwBits = 3
  NCpus = 2
  NHandles = 3
  NPages = 3
  PhysBits = 2
  LargeShift = 1
  BucketShift = 0
  LastBucket = 1
  MaxLen = 2
  McfgPage = 2
INVARIANTS
  NothingFreedIsUsed
  NeverMapped
  RangeFinds
  RemovedLater
CHECK_DEADLOCK FALSE
