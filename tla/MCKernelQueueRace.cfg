SPECIFICATION Spec
CONSTANTS
  MSG_Q_SIZE = 3
  Obj = {a, b}
  NoObj = NoObj
  MaxSent = 6
  HandlersOutlast = FALSE
INVARIANT
  HandledInOrder
CHECK_DEADLOCK FALSE
