CONSTANTS
  ann = ann
  bob = bob
  key = key
  v1 = v1
  v2 = v2
  broken = broken
  Cards = {ann, bob, key}
  Masters = {key}
  Versions = {v1, v2, broken}
  Auth <- MCAuth
  Bad = {broken}
  MaxSwipes = 2
  MaxOpens = 3
  MaxCommands = 1
  MaxCrashes = 1
SPECIFICATION FairSpec
CHECK_DEADLOCK FALSE
INVARIANTS TypeOK OpensOnlyAuthorized DeniesWithReason
PROPERTY KeepsPolling
