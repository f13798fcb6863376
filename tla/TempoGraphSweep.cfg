SPECIFICATION Spec
CONSTANTS
  Pages = {1, 2, 3, 4}
  FrameCounts = {2, 3}
  WindowSizes = {0, 2}
  MAX_FRAMES = 3
  MAX_UNIQUE = 4
  MAX_EDGES_PER_NODE = 3
  SAMPLE_SIZE = 2
  MAX_WINDOW = 2
  DEFAULT_WINDOW = 1
  DECAY_INTERVAL = 3
  DECAY_DIV = 64
  MAX_WEIGHT = 65535
  MAX_TRACE = 4
PROPERTIES
  SweepWeakensEdges
