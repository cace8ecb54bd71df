SPECIFICATION Spec
CONSTANTS
  MSG_Q_SIZE = 3
  Obj = {a, b}
  NoObj = NoObj
  MaxSent = 6
  HandlersOutlast = TRUE
INVARIANTS
  TypeOK
  NotTorn
PROPERTIES
  ImplementsFifo
  AllHandled
CHECK_DEADLOCK FALSE
