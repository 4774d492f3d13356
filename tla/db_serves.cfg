CONSTANTS
  v1 = v1
  v2 = v2
  broken = broken
  Versions = {v1, v2, broken}
  Bad = {broken}
  Small = {v2}
  NumSlices = 2
  NoFile = NoFile
  NoDB = NoDB
  Faults = {"create", "write"}
  MaxCrashes = 2
  SlowHandshake = TRUE
SPECIFICATION FairSpec
INVARIANTS TypeOK NoMixedFiles ServesInstalled
PROPERTIES ImplementsAtomicDB DatabaseGetsServed DownloadGetsServed
