SPECIFICATION Spec
CONSTANTS
  Pages = {0, 1, 2, 3}
  FrameCounts = {1, 2, 3}
  MAX_FRAMES = 3
  MAX_TRACE = 7
INVARIANTS
  SlotsAgree
  CountsAreOfThisStay
PROPERTIES
  EvictsLeastUsed
  RefinesDemandPaging
