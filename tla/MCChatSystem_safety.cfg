SPECIFICATION Spec
CONSTANTS
  c1 = c1
  c2 = c2
  c3 = c3
  a = a
  b = b
  d = d
  Empty = Empty
  Clients <- Three
  LegalNames <- ab
  EmptyName = Empty
  ArgvHandle <- Rivals
  NoClient = NoClient
  MaxFd = 5
  SockBuf = 4
  Garbage <- Zeroed
  INIT_TABLE_SIZE = 1
  MaxChunks = 1
  MaxDsts = 2
  Budget <- OneEach
SYMMETRY RivalSymmetry
CHECK_DEADLOCK FALSE
INVARIANTS
  TypeOK
  NoStaleEntry
  LoggedInIsRegistered
  PollMatchesOpen
  StreamGrammar
  NoMisdelivery
PROPERTIES
  ImplementsChatRoom
