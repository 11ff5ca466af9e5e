\* Three connections, two descriptors, two messages.
CONSTANTS
  Fds <- MCFds
  Addrs <- MCAddrs
  Workers <- MCWorkers
  WorkerOf <- MCWorkerOf
  MaxConns = 3
  MaxMsgs = 2
  Null = Null
  a1 = a1
  a2 = a2
SPECIFICATION Spec
\* The bounds are used up, or the process has died.
CHECK_DEADLOCK FALSE
SYMMETRY Symmetric
INVARIANTS
  TablesAgree
  LookupStaysGood
  ReleaseDeletesAll
  DeafBehindErased
PROPERTIES
  RepliesOfLiveOnes
  OnlyErasedDisturb
