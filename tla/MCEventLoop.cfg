SPECIFICATION FairSpec
CONSTANTS
  Peers = {r, s}
  Readers = {r}
  Capacity = 2
  Requests <- MCRequests
\* The requests are used up, or the process has died.
CHECK_DEADLOCK FALSE
INVARIANTS
  EachAnsweredOnce
  NeverWaitsForFew
PROPERTIES
  ServiceSpec
  ReadersServed
  HangUpNoticed
