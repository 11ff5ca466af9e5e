\* The comment on the private constructor of TcpHandler.
CONSTANTS
  Fds <- MCFds
  Addrs <- MCAddrs
  Workers <- MCWorkers
  WorkerOf <- MCWorkerOf
  MaxConns = 3
  MaxMsgs = 2
  Null = Null
  a1 = a1
  a2 = a2
SPECIFICATION Spec
CHECK_DEADLOCK FALSE
PROPERTY OneHandlerPerBufferevent
