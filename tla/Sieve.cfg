SPECIFICATION SieveSpec
CONSTANTS
  Pages = {0, 1, 2, 3, 4}
  FrameCounts = {1, 2, 3}
  MAX_FRAMES = 3
INVARIANTS
  FramesAgree
PROPERTIES
  ScanEnds
  RefinesSecondChance
  SieveRefinesDemandPaging
