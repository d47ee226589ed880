SPECIFICATION FairSpec
CONSTANTS
  Task = {t1, t2}
  Calls = {"Write", "table", "refresh"}
  MayClose = TRUE
  srvA = srvA
  srvB = srvB
  Addr = {srvA}
  Seeds <- OneSeed
  Answers <- OneAnswer
  MaxPerHost = 1
  MaxPools = 4
  RRModulus = 1
PROPERTIES
  AcquireEnds
  CloseQuiesces
CHECK_DEADLOCK FALSE
