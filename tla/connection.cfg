SPECIFICATION LiveSpec
CONSTANTS
  Batches <- MCBatches
  MaxRows = 2
  MaxOwed = 3
INVARIANTS
  TypeOK
  PendingCountsOwed
  DrainEndsAtReset
  ReplyIsOwn
  ReadyMeansReady
  TxIsLive
  RowsInOrder
PROPERTIES
  BrokenIsFinal
  OperationsEnd
