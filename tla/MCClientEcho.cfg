SPECIFICATION Spec
CONSTANTS
  INT = 4
  Payload <- MCPayload
  Replies = 3
INVARIANTS
  TypeOK
  InStep
  RightIfInOnePiece
PROPERTIES
  EveryReplyCounted
