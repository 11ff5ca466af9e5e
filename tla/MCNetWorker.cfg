\* Three connections over two workers, three read callbacks.
CONSTANTS
  NWorkers = 2
  ConnIds <- MCConnIds
  MaxMsgs = 2
  MaxReads = 3
SPECIFICATION FairSpec
\* The program ends when every worker was joined.
CHECK_DEADLOCK FALSE
INVARIANTS
  InOrder
  NothingLost
  CountIsLength
  NoUseAfterDelete
PROPERTIES
  QueuesSpec
  EveryMessageHandled
  ExitEnds
