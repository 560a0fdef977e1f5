SPECIFICATION FairSpec
CONSTANTS
  POLL_SET_SIZE = 2
  MaxFd = 6
INVARIANTS
  TypeOK
  NoneMissed
PROPERTIES
  ImplementsPolledSet
  QuietBelowServed
CHECK_DEADLOCK FALSE
