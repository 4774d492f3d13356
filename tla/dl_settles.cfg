CONSTANTS
  v1 = v1
  v2 = v2
  broken = broken
  Versions = {v1, v2, broken}
  Bad = {broken}
  Small = {v2, broken}
  NumSlices = 2
  NoFile = NoFile
  NoDB = NoDB
  Faults = {"create", "write", "marker", "open"}
  MaxCrashes = 1
  SlowHandshake = TRUE
  MaxPublish = 3
  MaxDisconnects = 2
  SubscribeFails = FALSE
SPECIFICATION DLFairSpec
CHECK_DEADLOCK FALSE
INVARIANTS DLTypeOK NothingMissed NoUsableSlotWasted
PROPERTIES OpenFileUntouched LastVersionSettles
