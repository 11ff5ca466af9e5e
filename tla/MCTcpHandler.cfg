\* Every stream of up to three packets, every segmentation of it.
CONSTANTS
  PACKETHEADLEN = 2
  MAXMESSAGEID = 1024
  StreamLen = 11
  Wires <- MCWires
SPECIFICATION FairSpec
\* A connection that was erased takes no more steps.
CHECK_DEADLOCK FALSE
INVARIANTS
  Reassembly
  Drained
  FreedAfterEmptyOnly
PROPERTIES
  FramesSpec
  FrameHandedOver
