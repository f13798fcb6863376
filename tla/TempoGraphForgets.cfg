SPECIFICATION Spec
CONSTANTS
  Pages = {0, 1, 2, 3, 4}
  FrameCounts = {2}
  WindowSizes = {2}
  MAX_FRAMES = 3
  MAX_UNIQUE = 4
  MAX_EDGES_PER_NODE = 2
  SAMPLE_SIZE = 2
  MAX_WINDOW = 2
  DEFAULT_WINDOW = 1
  DECAY_INTERVAL = 3
  DECAY_DIV = 2
  MAX_WEIGHT = 2
  MAX_TRACE = 7
INVARIANTS
  GraphWellFormed
  WeightsCountPairs
PROPERTIES
  EdgesLeaveOnlyByOverflow
