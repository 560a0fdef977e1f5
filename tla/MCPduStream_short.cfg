SPECIFICATION Spec
CONSTANTS
  LegalNames <- MCLegalNames
  EmptyName = EmptyName
  Base = 16
  HANDLE_NAME_MAX = 2
  TEXT_LEN_MAX = 4
  Pdus <- MCPdus
  MaxPdus = 2
  SockBytes = 6
  bufferSize = 17
INVARIANTS
  ZeroIfCutShort
CHECK_DEADLOCK FALSE
