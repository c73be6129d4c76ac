SPECIFICATION FairSpec
CONSTANTS
  r1 = r1
  r2 = r2
  r3 = r3
  c1 = c1
  c2 = c2
  Requests <- MCRequests
  Chats = {c1, c2}
  ChatOf <- MCChatOf
  Quoting = {r2}
  Ids = {i1, i2, i3}
  MaxRows = 2
  None = None
INVARIANTS
  SpoolAccounted
PROPERTIES
  DeliversInOrder
  EvidenceReleases
