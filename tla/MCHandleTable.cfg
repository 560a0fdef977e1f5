SPECIFICATION Spec
CONSTANTS
  n1 = n1
  n2 = n2
  n3 = n3
  Empty = Empty
  TooLong = TooLong
  Names <- MCNames
  LegalNames <- MCLegalNames
  EmptyName = Empty
  Sockets = {4, 5}
  Garbage <- MCGarbage
  INIT_TABLE_SIZE = 1
INVARIANTS
  TypeOK
  UniqueNames
  CountExact
PROPERTIES
  StableSlots
  ImplementsHandleMap
