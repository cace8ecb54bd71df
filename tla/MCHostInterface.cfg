CONSTANTS
  PAGE = 2
  MSG_SIZE = 3
  DB_SIZE = 5
  SQ_SIZE = 3
  SQ_BASE = 2
  CQ_BASE = 6
  BUF_SIZE = 7
  MaxCmds = 3
  HostMem <- MCHostMem
  Cmds <- MCCmds
SPECIFICATION Spec
INVARIANTS
  TypeOK
  TransferExact
PROPERTIES
  ImplementsDma
  CommandsEnd
