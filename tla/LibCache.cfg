SPECIFICATION Spec
CONSTANTS
  Objs = {0, 1, 2, 4}
  Algos = {"FIFO", "LRU", "Clock", "Sieve", "Tempograph"}
  Sizes = {1, 2}
  CacheSizes = {1, 3}
  CLOCK_MAX_FREQ = 3
  MAX_UNIQUE_NODES = 4
  DST_RANGE = 2
  SAMPLE_SIZE = 2
  DEFAULT_WINDOW = 2
  DECAY_INTERVAL = 2
  MAX_REQ = 4
  MAX_EDGES_PER_NODE = 2
  DECAY_DIV = 2
  MAX_WEIGHT = 65535
INVARIANTS
  QueueMatchesTable
  QueueInOrder
  WeightsCountCongruentPairs
PROPERTIES
  EvictsTheCandidate
  RequestsServed
