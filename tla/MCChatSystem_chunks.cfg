SPECIFICATION Spec
CONSTANTS
  c1 = c1
  c2 = c2
  c3 = c3
  a = a
  b = b
  d = d
  Empty = Empty
  Clients <- Two
  LegalNames <- ab
  EmptyName = Empty
  ArgvHandle <- Pair
  NoClient = NoClient
  MaxFd = 6
  SockBuf = 2
  Garbage <- Zeroed
  INIT_TABLE_SIZE = 1
  MaxChunks = 2
  MaxDsts = 2
  Budget <- TwoAndOne
CHECK_DEADLOCK FALSE
INVARIANTS
  OrderedDelivery
PROPERTIES
  ImplementsChatRoom
