CONSTANTS
  main = main
  other = other
  third = third
  Tasks = {main, other}
  Main = main
  NumBufs = 2
  MaxMsgs = 2
  RingSize = 2
  EarlySize = 2
  MaxRecords = 3
  MaxIdleFiles = 1
  MaxRequests = 1
SPECIFICATION FairSpec
CHECK_DEADLOCK FALSE
INVARIANTS LoggingTypeOK Exclusive NoLeak NeverBlocks InOrder
PROPERTIES ReachesDisk
