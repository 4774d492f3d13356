CONSTANTS
  LineEnds <- MCLineEnds
  BlockSize = 4
  OutIDs = 6
  InIDs = {20}
  MaxFiles = 3
  MaxDisconnects = 0
  MaxFailures = 0
  MaxIncoming = 5
  MaxCrashes = 0
  OpenFails = FALSE
  ExpiresOnline = FALSE
SPECIFICATION Spec
CHECK_DEADLOCK FALSE
INVARIANT ListNeverOverrun
