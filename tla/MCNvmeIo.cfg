SPECIFICATION Spec
CONSTANTS
  SQ_SIZE = 3
  CQ_SIZE = 3
  NSZE = 2
  MDTS_PAGES = 2
  HostCmds <- InRangeCmds
  MaxCmds = 4
INVARIANTS
  TypeOK
  TokenConserved
  ReadsSeeWrites
  CompletionsExact
  ShutdownStoresAll
PROPERTIES
  FlushDurable
  AllComplete
