SPECIFICATION Spec
CONSTANTS
  Batches <- MCBatches
  MaxRows = 2
  MaxOwed = 4
INVARIANT
  EveryReplyIsOwn
