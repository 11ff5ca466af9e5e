SPECIFICATION Spec
CONSTANTS
  UIntMod <- MCUIntMod
  MsgId = 3
  Null = Null
\* The message has been handled, or the process has died.
CHECK_DEADLOCK FALSE
INVARIANTS
  TypeOK
  OneOwner
  FaultsOnlyThen
  HandledWholeOrEmpty
