SPECIFICATION FairSpec
CONSTANTS
  Task = {t1, t2, t3}
  MaxSize = 2
  ConnectAttempts = 2
INVARIANTS
  TypeOK
  PermitsConserved
  SizeBound
  IdleIsReusable
PROPERTIES
  CloseFailsWaiters
  CheckoutEnds
  WaitersServed
CHECK_DEADLOCK FALSE
