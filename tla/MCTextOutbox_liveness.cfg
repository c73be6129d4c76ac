SPECIFICATION FairSpec
CONSTANTS
  r1 = r1
  r2 = r2
  r3 = r3
  c1 = c1
  c2 = c2
  Requests <- LiveRequests
  Chats <- LiveChats
  ChatOf <- LiveChatOf
  Source <- LiveSource
  Ids = {i1}
  None = None
PROPERTIES
  PreparedProceeds
  EvidenceSettles
