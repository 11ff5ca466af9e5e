\* The messages of the test clients.
CONSTANTS
  NWorkers = 2
  MaxId = 2
  ClientIds <- MCClientIds
  TestMsgsId = 0
  MaxMsgs = 3
SPECIFICATION Spec
CHECK_DEADLOCK FALSE
INVARIANTS
  ClientMsgsHandled
