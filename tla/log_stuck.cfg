CONSTANTS
  LineEnds <- MCLineEnds
  BlockSize = 4
  OutIDs = 5
  InIDs = {20}
  MaxFiles = 2
  MaxDisconnects = 0
  MaxFailures = 0
  MaxIncoming = 0
  MaxCrashes = 0
  OpenFails = FALSE
  ExpiresOnline = FALSE
SPECIFICATION FairSpec
CHECK_DEADLOCK FALSE
PROPERTY EveryLogSent
