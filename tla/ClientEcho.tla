------------------------------ MODULE ClientEcho ------------------------------
(***************************************************************************)
(* The thread recvf of the test client src/testfiles/client5.cpp, which    *)
(* reads the replies of the server. The client sends one and the same      *)
(* message again and again, so the replies are equal: a head, which is the *)
(* identifier 0 and the length of the payload as little-endian integers,   *)
(* and the payload.                                                        *)
(*                                                                         *)
(* The loops that read the rest of a head or of a payload pass the start   *)
(* of the buffer to recv again, and the head is an array that is declared  *)
(* before the loop: what a piece does not overwrite stays from the pieces, *)
(* and from the heads, before it. A byte of a payload is identified by its *)
(* position in the stream; the bytes of a head have their values.          *)
(***************************************************************************)
EXTENDS Integers, Sequences

CONSTANTS
  INT,      \* bytes of an int: a head is two of them
  Payload,  \* the payload of a reply; its bytes are less than 128
  Replies   \* bound: replies the server sends

ASSUME Widths == INT \in Nat \ {0} /\ Replies \in Nat
ASSUME Bytes == Payload \in Seq(0..127) /\ Len(Payload) \in 1..127

HeadLen == 2 * INT

VARIABLES
  total,      \* bytes the server sends before the connection ends
  taken,      \* bytes recv has returned
  head,       \* the array packethead
  packetLen,  \* packetHead.packetLen
  data,       \* the cells of recvData that are written: their positions
  offset,     \* the local variable
  count,      \* recvCount
  ended,      \* recv has returned -1
  pieces,     \* the sizes of the pieces of the current head (history)
  lost,       \* the replies whose heads came in pieces that do not leave the
              \* length intact, by the count before them (history)
  pc

vars == <<total, taken, head, packetLen, data, offset, count, ended, pieces,
          lost, pc>>
------------------------------------------------------------------------------
\* An int as memcpy puts it at the start or at the middle of the head.
IntBytes(n) == [i \in 1..INT |-> IF i = 1 THEN n ELSE 0]

Reply == IntBytes(0) \o IntBytes(Len(Payload)) \o Payload

FrameLen == Len(Reply)

\* The byte at a position of the stream of replies.
StreamByte(p) == Reply[((p - 1) % FrameLen) + 1]

\* The numbers that the last 0, 1, ... bytes of the array packethead make.
Numbers(cells) ==
  LET number[i \in 0..INT] ==
        IF i = 0 THEN 0 ELSE cells[HeadLen + 1 - i] + 256 * number[i - 1]
  IN number

\* The second int of the array packethead.
LengthIn(cells) == Numbers(cells)[INT]

\* What recv may return when it is asked for some bytes: a part of them, 0 at
\* the end of the stream, or -1, once, when the connection was reset.
RecvReturns(asked) ==
  {n \in 1..(total - taken) : n <= asked}
    \cup (IF asked = 0 \/ taken = total THEN {0} ELSE {})
    \cup (IF taken = total /\ ~ended THEN {-1} ELSE {})

\* The n bytes recv returns are written from the first cell on.
Overwrite(cells, n) ==
  [i \in 1..HeadLen |-> IF i <= n THEN StreamByte(taken + i) ELSE cells[i]]

OverwriteData(n) ==
  [i \in DOMAIN data \cup 1..n |-> IF i <= n THEN taken + i ELSE data[i]]

\* The length is intact unless a piece other than the first is longer than an
\* int and so reaches the length's cells, or the array holds no length of an
\* earlier head and the first piece does not bring one.
LengthIntact(sizes) ==
  /\ \A i \in 2..Len(sizes) : sizes[i] <= INT
  /\ count > 0 \/ sizes[1] > INT
------------------------------------------------------------------------------
Init ==
  /\ total \in 0..(Replies * FrameLen)
  /\ taken = 0
  /\ head = [i \in 1..HeadLen |-> 0]
  /\ packetLen = 0
  /\ data = <<>>
  /\ offset = 0
  /\ count = 0
  /\ ended = FALSE
  /\ pieces = <<>>
  /\ lost = {}
  /\ pc = "head"

Received(n) ==
  /\ taken' = IF n > 0 THEN taken + n ELSE taken
  /\ ended' = (ended \/ n = -1)

\* Mutant of Short: the loops go on when the rest came in one piece.
ShortOrEqual(n, whole, from) == n <= whole - from

\* The condition of both loops.
Short(n, whole, from) == n < whole - from

\* Mutant of OldHead: the array is cleared for every head.
ClearedHead == [i \in 1..HeadLen |-> IF pc = "head" THEN 0 ELSE head[i]]

\* What the array holds when recv is called: it is cleared only once.
OldHead == head

\* A piece of the head: the loop goes on, or the head is decoded and the
\* buffer for the payload allocated.
HeadPiece(n) ==
  /\ head' = Overwrite(OldHead, n)
  /\ pieces' = IF n > 0 THEN Append(pieces, n) ELSE pieces
  /\ IF Short(n, HeadLen, offset)
       THEN /\ offset' = offset + n
            /\ pc' = "headrest"
            /\ UNCHANGED <<packetLen, data, lost>>
       ELSE /\ packetLen' = LengthIn(head')
            /\ lost' = IF LengthIntact(pieces') THEN lost ELSE lost \cup {count}
            /\ data' = <<>>
            /\ offset' = 0
            /\ pc' = "payload"
  /\ UNCHANGED <<total, count>>

\* The first recv of the loop; an error starts the loop again.
RecvHead ==
  /\ pc = "head"
  /\ \E n \in RecvReturns(HeadLen) :
       /\ Received(n)
       /\ IF n < 0
            THEN UNCHANGED <<total, head, packetLen, data, offset, count,
                             pieces, lost, pc>>
            ELSE HeadPiece(n)

\* Mutant of Rest: the follow-up calls ask for the whole again.
RestWhole(whole) == whole

\* What the follow-up calls ask for.
Rest(whole) == whole - offset

RecvHeadRest ==
  /\ pc = "headrest"
  /\ \E n \in RecvReturns(Rest(HeadLen)) : Received(n) /\ HeadPiece(n)

PayloadPiece(n) ==
  /\ data' = OverwriteData(n)
  /\ IF Short(n, packetLen, offset)
       THEN offset' = offset + n /\ pc' = "payloadrest"
       ELSE pc' = "parse" /\ UNCHANGED offset
  /\ UNCHANGED <<total, head, packetLen, count, pieces, lost>>

\* The first recv for the payload is repeated after an error.
RecvPayload ==
  /\ pc = "payload"
  /\ \E n \in RecvReturns(packetLen) :
       /\ Received(n)
       /\ IF n < 0
            THEN UNCHANGED <<total, head, packetLen, data, offset, count,
                             pieces, lost, pc>>
            ELSE PayloadPiece(n)

RecvPayloadRest ==
  /\ pc = "payloadrest"
  /\ \E n \in RecvReturns(Rest(packetLen)) : Received(n) /\ PayloadPiece(n)

\* The message is parsed and printed; offset is 0 when the loop starts again.
CountReply ==
  /\ pc = "parse"
  /\ count' = count + 1
  /\ offset' = 0
  /\ pieces' = <<>>
  /\ pc' = "head"
  /\ UNCHANGED <<total, taken, head, packetLen, data, ended, lost>>

Next ==
  RecvHead \/ RecvHeadRest \/ RecvPayload \/ RecvPayloadRest \/ CountReply

\* The thread runs, and recv returns when there is something to return.
Spec == Init /\ [][Next]_vars /\ WF_vars(Next)
------------------------------------------------------------------------------
TypeOK ==
  /\ total \in 0..(Replies * FrameLen)
  /\ taken \in 0..total
  /\ head \in [1..HeadLen -> 0..127]
  /\ packetLen \in Nat
  /\ DOMAIN data \in {1..n : n \in 0..total}
  /\ \A i \in DOMAIN data : data[i] \in 1..total
  /\ offset \in CASE pc = "headrest"    -> -1..(HeadLen - 1)
                  [] pc = "payloadrest" -> -1..(packetLen - 1)
                  [] pc = "parse"       -> 0..packetLen
                  [] OTHER              -> {0}
  /\ count \in 0..Replies * FrameLen
  /\ ended \in BOOLEAN
  /\ pieces \in Seq(1..HeadLen)
  /\ lost \subseteq 0..count
  /\ pc \in {"head", "headrest", "payload", "payloadrest", "parse"}

Start == count * FrameLen

\* The client stays in step with the replies although it reads heads that
\* came in pieces wrongly: as long as each of them left the length in its
\* cells, every reply is taken from its first byte to its last, and recvCount
\* is the number of replies taken. Whether a head leaves the length depends on
\* nothing but where it was cut, and the first that does not is read wrongly
\* whatever the length is.
InStep ==
  /\ lost = {} =>
       /\ pc = "head" => taken = Start
       /\ pc = "headrest" /\ ~ended => taken = Start + offset
       /\ pc = "payload" => taken = Start + HeadLen
       /\ pc = "payloadrest" /\ ~ended => taken = Start + HeadLen + offset
       /\ pc = "parse" => taken = Start + FrameLen
       /\ pc \in {"payload", "payloadrest", "parse"} => packetLen = Len(Payload)
  /\ pc = "payload" /\ lost = {count} => packetLen # Len(Payload)

\* A reply that is taken in step is handed to the parser as it was sent if and
\* only if its payload came in one piece: a payload in two pieces is never
\* right, and never spoils the one that follows it.
RightIfInOnePiece ==
  pc = "parse" /\ lost = {} =>
    (data = [i \in 1..Len(Payload) |-> Start + HeadLen + i] <=> offset = 0)

\* Every reply that was sent whole is counted in the end, even if recv
\* returns an error or 0 in between, or the client loses its place.
EveryReplyCounted == <>(lost # {} \/ count = total \div FrameLen)
==============================================================================
