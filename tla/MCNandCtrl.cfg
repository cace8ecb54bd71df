CONSTANTS
  CHIPS = 2
  BLOCKS = 2
  PAGES = 1
  MAX_PAGES = 3
  MAX_OPS = 2
  ROOM_SIZE = 8
  IMG_WRAP = 8
  MaxOps = 3
  Batches <- MCBatches
SPECIFICATION Spec
INVARIANTS
  TypeOK
  ActiveExact
  NobodySleeps
  ReadPoolExact
PROPERTIES
  ImplementsOps
  OpsEnd
