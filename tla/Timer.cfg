SPECIFICATION Spec
CONSTANTS
  MAX_TIMER = 3
  TimeBits = 3
  MaxInterval = 2
  MaxTime = 4
INVARIANTS
  InOneList
  Sorted
PROPERTY DueIsCalled
CHECK_DEADLOCK FALSE
