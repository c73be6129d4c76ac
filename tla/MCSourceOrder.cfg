SPECIFICATION FairSpec
CONSTANTS
  t1 = t1
  t2 = t2
  t3 = t3
  w = w
  x = x
  y = y
  z = z
  room = room
  elsewhere = elsewhere
  Transactions <- MCTransactions
  Events <- MCEvents
  EventsOf <- MCEventsOf
  KeysIn <- MCKeysIn
  Plain <- MCPlain
  RoomOf <- MCRoomOf
  KindOf <- MCKindOf
  TargetOf <- MCTargetOf
  None = None
  Limit = 1
  MaxAttempts = 1
INVARIANTS
  AttemptedInOrder
  NoUnclassifiedAck
  NothingLost
PROPERTIES
  EventsSettle
  DecodedInTheEnd
