SPECIFICATION Spec
CONSTANTS
  Pages = {0, 1, 2}
  FrameCounts = {1, 2, 3}
  WindowSizes = {1, 2}
  Choices = {"all", "tempograph"}
  MAX_TRACE = 6
  MAX_FRAMES = 3
  MAX_UNIQUE = 4
  MAX_EDGES_PER_NODE = 3
  SAMPLE_SIZE = 3
  MAX_WINDOW = 2
  DEFAULT_WINDOW = 1
  DECAY_INTERVAL = 2000
  DECAY_DIV = 64
  MAX_WEIGHT = 65535
INVARIANTS
  RowsMatchReferences
  ScanDefeatsTheOthers
  TempoGraphKeepsSome
PROPERTIES
  EveryRowPrinted
