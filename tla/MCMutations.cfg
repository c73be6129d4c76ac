SPECIFICATION FairSpec
CONSTANTS
  e1 = e1
  d1 = d1
  m1 = m1
  c1 = c1
  A = A
  B = B
  D = D
  Edits = {e1}
  Deletes = {d1}
  Messages = {m1}
  Chats = {c1}
  ChatOf <- MCChatOf
  MessageOf <- MCMessageOf
  Texts = {A, B, D}
  TextOf <- MCTextOf
  Original <- MCOriginal
  MaxMoves = 1
  None = None
PROPERTIES
  ChangesSettle
INVARIANTS
 CarriedOnce
 OwnersLastWord
 QuietAgrees
 NothingLeft
