SPECIFICATION FairSpec
CONSTANTS
  c1 = c1
  c2 = c2
  None = None
  Chats = {c1}
  NumMessages = 2
  ChatOf <- OneChat
  Contents = {1, 2}
  Retained = {1}
  PageSize = 1
  QueueLimit = 1
  BufferLimit = 1
  MaxMoves = 2
INVARIANTS
  LiveRecorded
  NothingSkipped
  RoomsFollow
PROPERTIES
  Converges
