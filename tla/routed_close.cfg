SPECIFICATION Spec
CONSTANTS
  Task = {t1, t2}
  Calls = {"Read"}
  MayClose = TRUE
  srvA = srvA
  srvB = srvB
  Addr = {srvA, srvB}
  Seeds <- OneSeed
  Answers <- TwoAnswers
  MaxPerHost = 1
  MaxPools = 4
  RRModulus = 2
SYMMETRY Symmetry
INVARIANT
  CloseClosesAll
CHECK_DEADLOCK FALSE
