SPECIFICATION Spec
CONSTANTS
  size = 3
  Msg = {a, b}
  NULL = NULL
  MaxSent = 7
INVARIANTS
  TypeOK
  RingInv
PROPERTIES
  ImplementsFifo
  AllDelivered
CHECK_DEADLOCK FALSE
