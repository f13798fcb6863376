SPECIFICATION Spec
CONSTANTS
  Pages = {p1, p2, p3, p4, p5}
  FrameCounts = {1, 2, 3}
INVARIANTS MapMatchesList ListIsRecentPrefix
PROPERTIES RefinesDemandPaging
