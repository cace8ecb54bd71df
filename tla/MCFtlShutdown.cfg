SPECIFICATION Spec
CONSTANTS
  NUM_CHANNELS = 2
  DIES_PER_CHANNEL = 1
  PLANES_PER_DIE = 2
  BLOCKS_PER_PLANE = 2
  PAGES_PER_BLOCK = 3
  LOGICAL_PAGES = 2
  MDTS_PAGES = 2
  RPP_MAP_TABLES = 2
  MaxStores = 1
  UNMAPPED = UNMAPPED
  FREE_PPA = FREE_PPA
  INVALID_PPA = INVALID_PPA
  RESERVED_PPA = RESERVED_PPA
INVARIANT
  DataSurvivesShutdown
