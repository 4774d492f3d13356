CONSTANTS
  v1 = v1
  v2 = v2
  faulty = faulty
  corrupt = corrupt
  Images = {v1, v2, faulty, corrupt}
  First = v1
  Corrupt = {corrupt}
  Faulty = {faulty}
  NumSlices = 2
  Faults = {"begin", "write", "boot"}
  MaxPublish = 3
  MaxDisconnects = 1
  MaxRestarts = 1
  MaxRollbacks = 1
  BeginForgets = TRUE
SPECIFICATION FairSpec
CHECK_DEADLOCK FALSE
INVARIANTS TypeOK TrialHasFallback ConnectedIsConfirmed WholeImageWritten
PROPERTY NotStranded
