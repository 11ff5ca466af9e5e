\* The comment on m_pLastNode against a stream with an empty packet.
CONSTANTS
  PACKETHEADLEN = 2
  MAXMESSAGEID = 1024
  StreamLen = 11
  Wires <- MCWires
SPECIFICATION FairSpec
CHECK_DEADLOCK FALSE
INVARIANT TestsLiveNode
