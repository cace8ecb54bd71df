CONSTANTS
  MAX_IO_SQCQ_PAIRS = 2
  ASQ_SIZE = 2
  ACQ_SIZE = 2
  SQ_SIZE = 2
  CQ_SIZE = 2
  CODE_PIECES = 1
  MiscCmds <- MCMiscCmds
  MaxQueueCmds = 6
  MaxMisc = 2
  MaxIo = 3
SPECIFICATION Spec
INVARIANTS
  TypeOK
  EveryCommandOnce
PROPERTIES
  IoComplete
