CONSTANTS
  v1 = v1
  v2 = v2
  broken = broken
  Versions = {v1, v2, broken}
  Bad = {broken}
  Small = {}
  NumSlices = 2
  NoFile = NoFile
  NoDB = NoDB
  Faults = {"open"}
  MaxCrashes = 0
  SlowHandshake = TRUE
  MaxPublish = 3
  MaxDisconnects = 2
  SubscribeFails = FALSE
SPECIFICATION DLFairSpec
CHECK_DEADLOCK FALSE
INVARIANT FreshCopyAsked
