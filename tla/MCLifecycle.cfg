\* Two workers, three messages.
CONSTANTS
  NWorkers = 2
  MaxId = 2
  ClientIds <- MCClientIds
  TestMsgsId = 0
  MaxMsgs = 3
SPECIFICATION FairSpec
\* The process ends, or dies.
CHECK_DEADLOCK FALSE
INVARIANTS
  TestMsgRegistered
  PureCallOnlyAtExit
PROPERTIES
  ExitEnds
