---------------------------- MODULE MCTcpHandler ----------------------------
(* The streams TLC explores: three packets whose identifiers lie on both     *)
(* sides of the limits of dealReadEvent and whose payloads are empty, one    *)
(* byte or longer than a packet head. Positions that are not the start of a  *)
(* packet decode to an identifier that is refused, so that a reader that     *)
(* loses its place is noticed at once.                                       *)
EXTENDS TcpHandler

Packet(id, len) == [packetID |-> id, packetLen |-> len]

Garbage == Packet(-1, 0)

\* The stream that starts with the packets a, b and c.
WireOf(a, b, c) ==
  LET second == FrameEnd(0, a.packetLen)
      third  == FrameEnd(second, b.packetLen)
  IN [p \in 0..StreamLen |-> CASE p = 0      -> a
                               [] p = second -> b
                               [] p = third  -> c
                               [] OTHER      -> Garbage]

MCPackets == {Packet(0, 0), Packet(1024, 1), Packet(1, 3), Packet(1025, 0)}

MCWires == {WireOf(a, b, c) : a, b, c \in MCPackets}
=============================================================================
