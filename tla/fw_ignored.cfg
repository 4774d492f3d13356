CONSTANTS
  v1 = v1
  v2 = v2
  faulty = faulty
  corrupt = corrupt
  Images = {v1, v2, faulty, corrupt}
  First = v1
  Corrupt = {corrupt}
  Faulty = {faulty}
  NumSlices = 2
  Faults = {}
  MaxPublish = 2
  MaxDisconnects = 0
  MaxRestarts = 0
  MaxRollbacks = 0
  BeginForgets = TRUE
SPECIFICATION Spec
CHECK_DEADLOCK FALSE
INVARIANT EveryUpdateTried
