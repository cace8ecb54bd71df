SPECIFICATION Spec
CONSTANTS
  SQ_SIZE = 3
  CQ_SIZE = 3
  NSZE = 2
  MDTS_PAGES = 2
  HostCmds <- AnyCmds
  MaxCmds = 2
PROPERTY
  DoorbellsChecked
CHECK_DEADLOCK FALSE
