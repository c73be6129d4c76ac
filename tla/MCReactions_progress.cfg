SPECIFICATION FairSpec
CONSTANTS
  a1 = a1
  a2 = a2
  w1 = w1
  p = p
  q = q
  c = c
  Applies = {a1}
  Withdraws = {}
  TargetOf <- NoTarget
  Spots = {p, q}
  Rank <- PairRank
  Covers <- PairCovers
  Chats = {c}
  ChatOf <- PairChatOf
  Position <- PairPosition
  MaxMoves = 2
  None = None
PROPERTIES
  UncertainSettles
  AbsentRetires
