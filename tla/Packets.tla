------------------------------- MODULE Packets -------------------------------
(***************************************************************************)
(* The byte stream of one connection and the packets it is made of. A      *)
(* stream is given by what its bytes decode to: wire[p] is the PacketHead  *)
(* made of the PACKETHEADLEN bytes that follow position p. Payload bytes   *)
(* are identified by their position, so a message that mixes, repeats or   *)
(* misses bytes differs from the frame that was sent.                      *)
(***************************************************************************)
EXTENDS Integers, Sequences

CONSTANTS
  PACKETHEADLEN, \* bytes of a packet head (8 in the code)
  MAXMESSAGEID,  \* largest packetID accepted (1024 in the code)
  StreamLen,     \* bound: bytes the peer sends before it stops
  Wires          \* the byte streams considered, functions on 0..StreamLen

\* struct PacketHead. A packetLen is the length of a payload: the wrap-around
\* of a negative length is outside this module.
PacketHead == [packetID : Int, packetLen : Nat]

\* The test of TcpHandler::dealReadEvent on the identifier of a packet.
ValidId(h) == 0 <= h.packetID /\ h.packetID <= MAXMESSAGEID

\* A message as its receiver sees it. at is the position of its head in the
\* stream: the program does not keep it, the properties need it.
MsgNode == [at : Nat, msgId : Int, msgLen : Nat, data : Seq(Nat)]

\* The n bytes of the stream that follow position p.
Bytes(p, n) == [j \in 1..n |-> p + j]

\* The position that follows the frame whose head is at position p.
FrameEnd(p, len) == p + PACKETHEADLEN + len

ASSUME HeadLen == PACKETHEADLEN \in Nat \ {0}
ASSUME Bound == StreamLen \in Nat
ASSUME MaxId == MAXMESSAGEID \in Nat
ASSUME Streams == Wires \subseteq [0..StreamLen -> PacketHead]
==============================================================================
