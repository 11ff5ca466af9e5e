SPECIFICATION FairSpec
CONSTANTS
  Absent = Absent
  RecursionLimit = 2
  Sent <- MCSent
  Payloads <- MCPayloads
INVARIANTS TypeOK NeverAltered RefusedForZeroOnly SizeAgrees ReplyReadable
PROPERTIES ParserReturns
CHECK_DEADLOCK FALSE
