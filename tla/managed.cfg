SPECIFICATION FairSpec
CONSTANTS
  Task = {t1, t2}
  Modes = {"Read", "Write"}
  RETRY_ATTEMPTS = 2
  Cap = 2
  MaxLog = 3
INVARIANTS
  TypeOK
  CausalRead
  OnceUnlessLost
PROPERTY ExecuteEnds
CHECK_DEADLOCK FALSE
