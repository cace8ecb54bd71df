CONSTANTS
  QUEUE_SIZE = 3
  O_SIZE = 10
  MAX_TX_SIZE = 4
  PAGE_SIZE = 2
  BUFFER_SIZE = 4
  MaxExec = 3
  HostSlow = TRUE
  Applets <- MCApplets
CHECK_DEADLOCK FALSE
SPECIFICATION Spec
INVARIANTS
  DoneBeforeReturn
