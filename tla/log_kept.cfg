CONSTANTS
  LineEnds <- MCLineEnds
  BlockSize = 4
  OutIDs = 3
  InIDs = {1, 20}
  MaxFiles = 2
  MaxDisconnects = 1
  MaxFailures = 1
  MaxIncoming = 1
  MaxCrashes = 1
  OpenFails = TRUE
  ExpiresOnline = TRUE
SPECIFICATION FairSpec
CHECK_DEADLOCK FALSE
INVARIANTS TypeOK NoLogLost
PROPERTY SentOrStuck
