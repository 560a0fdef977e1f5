SPECIFICATION FairSpec
CONSTANTS
  LegalNames = {}
  EmptyName = EmptyName
  HANDLE_NAME_MAX = 2
  TEXT_DATA_CHUNK = 2
  COUNT_LEN_MAX = 2
  myHandle = myHandle
  LineMax = 26
  StdioMax = 6
  Inputs <- MCInputs
INVARIANTS
  TypeOK
  CharsAccounted
  LinesSent
PROPERTIES
  LinesTaken
CHECK_DEADLOCK FALSE
