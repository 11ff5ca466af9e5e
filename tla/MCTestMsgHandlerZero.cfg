SPECIFICATION Spec
CONSTANTS
  Absent = Absent
  RecursionLimit = 2
  Sent <- MCSent
  Payloads <- MCPayloads
INVARIANTS LegalAnswered
CHECK_DEADLOCK FALSE
