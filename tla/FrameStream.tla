----------------------------- MODULE FrameStream -----------------------------
(***************************************************************************)
(* What the receiving side of one connection promises, whatever the way    *)
(* the bytes are cut into TCP segments: the messages it hands over are the *)
(* consecutive frames of the byte stream, each complete and in order, until *)
(* the connection is closed.                                               *)
(***************************************************************************)
EXTENDS Packets

VARIABLES
  wire,       \* the stream the peer sends
  cursor,     \* position of the head of the next frame
  delivered,  \* messages handed over so far
  open        \* whether the connection still hands over messages

vars == <<wire, cursor, delivered, open>>

Init ==
  /\ wire \in Wires
  /\ cursor = 0
  /\ delivered = <<>>
  /\ open = TRUE

\* The next frame of the stream, whole and with a valid identifier, is
\* handed over.
Deliver ==
  /\ open
  /\ FrameEnd(cursor, 0) <= StreamLen
  /\ LET h == wire[cursor] IN
       /\ ValidId(h)
       /\ FrameEnd(cursor, h.packetLen) <= StreamLen
       /\ delivered' = Append(delivered,
                         [at     |-> cursor,
                          msgId  |-> h.packetID,
                          msgLen |-> h.packetLen,
                          data   |-> Bytes(FrameEnd(cursor, 0), h.packetLen)])
       /\ cursor' = FrameEnd(cursor, h.packetLen)
  /\ UNCHANGED <<wire, open>>

Close ==
  /\ open
  /\ open' = FALSE
  /\ UNCHANGED <<wire, cursor, delivered>>

Next == Deliver \/ Close

Spec == Init /\ [][Next]_vars
==============================================================================
