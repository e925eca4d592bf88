SPECIFICATION Spec
CONSTANTS
  EPT_LEVELS = 3
  NUM_OF_EPTBL = 5
  Vmm = {2, 3}
  Uneven = {0}
  ForceMap <- MCForceMap
  Areas = {{4}, {5, 6}}
  LowPages = 2
INVARIANTS
  WalkIsTrue
  MappedRightly
  FaultResolved
  RangesFit
PROPERTY ForcedKept
