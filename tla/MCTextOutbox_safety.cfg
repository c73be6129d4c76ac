SPECIFICATION Spec
CONSTANTS
  r1 = r1
  r2 = r2
  r3 = r3
  c1 = c1
  c2 = c2
  Requests <- MCRequests
  Chats <- MCChats
  ChatOf <- MCChatOf
  Source <- MCSource
  Ids = {i1, i2}
  None = None
SYMMETRY MCSymmetry
INVARIANTS
  OwnedBeforeNative
  NoDuplicateProjection
  AttemptOrder
PROPERTIES
  ClaimsInSourceOrder
  DeliversAtMostOnce
