SPECIFICATION FairSpec
CONSTANTS
  f1 = f1
  Files = {f1}
  Capacity = 1
  Packets = 1
  Configurations <- MCConfigurations
INVARIANTS
  ResourcesOutlive
  FilesKept
CHECK_DEADLOCK FALSE
PROPERTIES
  Settles
  DeadNotReady
