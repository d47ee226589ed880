SPECIFICATION FairSpec
CONSTANTS
  Base = 2
  MAX_MESSAGE = 4
  Message <- Bodies
  MaxSent = 2
  MaxPipe = 4
INVARIANTS
  TypeOK
  BrokenForCause
PROPERTIES
  ImplementsQueue
  Delivered
CHECK_DEADLOCK FALSE
