SPECIFICATION Spec
CONSTANTS
  Task = {t1}
  MaxSize = 1
  ConnectAttempts = 2
INVARIANT
  ClosedIsEmpty
CHECK_DEADLOCK FALSE
