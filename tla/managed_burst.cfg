SPECIFICATION Spec
CONSTANTS
  Task = {t1, t2, t3}
  Modes = {"Write"}
  RETRY_ATTEMPTS = 1
  Cap = 2
  MaxLog = 3
INVARIANT
  CausalRead
CHECK_DEADLOCK FALSE
