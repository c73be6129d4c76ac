SPECIFICATION FairBackupSpec
CONSTANTS
  Script = Script
  Bridge = Bridge
  None = None
  MaxName = 3
  Keep = 2
  MaxFaults = 2
INVARIANTS
  ArchivesSound
  PublishedWhole
PROPERTIES
  BridgeReturns
