SPECIFICATION Spec
CONSTANTS
  a1 = a1
  a2 = a2
  w1 = w1
  p = p
  q = q
  c = c
  Applies = {a1, a2}
  Withdraws = {w1}
  TargetOf <- MCTargetOf
  Spots = {p}
  Rank <- MCRank
  Covers <- MCCovers
  Chats = {c}
  ChatOf <- MCChatOf
  Position <- MCPosition
  MaxMoves = 2
  None = None
INVARIANTS
  ReferencesDecide
  QuietAgrees
