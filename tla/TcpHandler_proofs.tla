--------------------------- MODULE TcpHandler_proofs ---------------------------
(***************************************************************************)
(* Theorems about TcpHandler: its invariants for every head length, every  *)
(* limit on the identifiers, every stream and every segmentation, and that *)
(* it implements FrameStream.                                              *)
(***************************************************************************)
EXTENDS TcpHandler, SequenceTheorems, TLAPS

USE HeadLen, Bound, MaxId, Streams

\* What m_listMsgs holds: the frames that follow those handed over, all of
\* them received except perhaps the last.
ListInv ==
  /\ listMsgs # <<>> => listMsgs[1].at = Cursor
  /\ Adjacent(listMsgs)
  /\ \A i \in 1..Len(listMsgs) :
       Faithful(wire, listMsgs[i]) /\ ValidId(wire[listMsgs[i].at])
  /\ \A i \in 1..(Len(listMsgs) - 1) : isReceived(listMsgs[i])

\* The place of the reader in the stream is that of the node at hand.
PlaceInv ==
  /\ ~Stopped => taken = IF listMsgs = <<>> THEN Cursor
                         ELSE Back.at + PACKETHEADLEN + Len(Back.data)
  /\ pc \in {"while", "read"} => inputLen = arrived - taken
  /\ pc = "read" => lastNode = "back"

\* What m_pLastNode says of the list.
PointerInv ==
  /\ lastNode = "back" => /\ listMsgs # <<>>
                          /\ isReceived(Back) => Back.msgLen = 0
  /\ lastNode = "null" /\ listMsgs # <<>> => isReceived(Back)
  /\ FreedAfterEmptyOnly

\* Once the loop of dealReadEvent has ended the buffer holds no whole head,
\* and nothing at all if the last node is partial.
QuietInv ==
  /\ pc \in {"push", "dispatch"} =>
       /\ arrived - taken < PACKETHEADLEN
       /\ listMsgs # <<>> /\ ~isReceived(Back) => arrived = taken
  /\ pc = "dispatch" /\ listMsgs # <<>> => ~isReceived(Head(listMsgs))

IInv == TypeOK /\ Reassembly /\ ListInv /\ PlaceInv /\ PointerInv /\ QuietInv
------------------------------------------------------------------------------
LEMMA WireType ==
  ASSUME wire \in Wires, NEW p \in 0..StreamLen
  PROVE  wire[p].packetID \in Int /\ wire[p].packetLen \in Nat
BY DEF PacketHead

LEMMA BytesType ==
  ASSUME NEW p \in Nat, NEW n \in Nat
  PROVE  /\ Bytes(p, n) \in Seq(Nat)
         /\ Len(Bytes(p, n)) = n
         /\ \A j \in 1..n : Bytes(p, n)[j] = p + j
<1>1. \A j \in 1..n : p + j \in Nat
  OBVIOUS
<1>2. Bytes(p, n) \in Seq(Nat)
  BY <1>1 DEF Bytes
<1>3. QED
  BY <1>2 DEF Bytes

\* Consecutive bytes of the stream followed by the ones after them.
LEMMA ConcatBytes ==
  ASSUME NEW s \in Seq(Nat), NEW t \in Seq(Nat), NEW p \in Nat,
         \A j \in 1..Len(s) : s[j] = p + j,
         \A j \in 1..Len(t) : t[j] = p + Len(s) + j
  PROVE  /\ s \o t \in Seq(Nat)
         /\ Len(s \o t) = Len(s) + Len(t)
         /\ \A j \in 1..Len(s \o t) : (s \o t)[j] = p + j
<1>1. /\ s \o t \in Seq(Nat)
      /\ Len(s \o t) = Len(s) + Len(t)
  OBVIOUS
<1>2. ASSUME NEW j \in 1..Len(s \o t)
      PROVE  (s \o t)[j] = p + j
  <2>1. CASE j <= Len(s)
    BY <1>1, <2>1
  <2>2. CASE j > Len(s)
    <3>1. /\ j - Len(s) \in 1..Len(t)
          /\ (s \o t)[j] = t[j - Len(s)]
      BY <1>1, <2>2
    <3>2. t[j - Len(s)] = p + Len(s) + (j - Len(s))
      BY <3>1
    <3>3. QED
      BY <3>1, <3>2
  <2>3. QED
    BY <1>1, <2>1, <2>2
<1>3. QED
  BY <1>1, <1>2

\* The node that tcpRead leaves in place of the back node.
LEMMA FilledNode ==
  ASSUME TypeOK, NEW node \in MsgNode, Faithful(wire, node),
         taken = node.at + PACKETHEADLEN + Len(node.data)
  PROVE  LET r == ReadLen(node)
             f == Filled(node, ReadLen(node))
         IN /\ r \in 0..(arrived - taken)
            /\ f \in MsgNode
            /\ f.at = node.at /\ f.msgId = node.msgId /\ f.msgLen = node.msgLen
            /\ Len(f.data) = Len(node.data) + r
            /\ Faithful(wire, f)
            /\ ~isReceived(f) => r = arrived - taken
<1> DEFINE r == ReadLen(node)
           f == Filled(node, ReadLen(node))
           b == Bytes(taken, r)
<1>1. /\ node.data \in Seq(Nat) /\ Len(node.data) \in Nat
      /\ node.msgLen \in Nat /\ node.at \in Nat /\ taken \in Nat
      /\ Len(node.data) <= node.msgLen
  BY DEF TypeOK, MsgNode, Faithful
<1>2. /\ r \in 0..(arrived - taken) /\ r \in Nat
      /\ r <= node.msgLen - Len(node.data)
      /\ r = node.msgLen - Len(node.data) \/ r = arrived - taken
  <2> DEFINE remainLen == node.msgLen - Len(node.data)
             buffered  == arrived - taken
  <2>1. remainLen \in Nat
    BY <1>1
  <2>2. buffered \in Nat
    BY DEF TypeOK
  <2>3. r = IF remainLen <= buffered THEN remainLen ELSE buffered
    BY DEF ReadLen
  <2> HIDE DEF remainLen, buffered, r
  <2>4. r \in 0..buffered /\ r <= remainLen /\ (r = remainLen \/ r = buffered)
    BY <2>1, <2>2, <2>3
  <2>5. QED
    BY <2>4 DEF remainLen, buffered
<1> HIDE DEF r
<1>3. b \in Seq(Nat) /\ Len(b) = r /\ \A j \in 1..r : b[j] = taken + j
  BY <1>1, <1>2, BytesType
<1> HIDE DEF b
<1>4. f = [node EXCEPT !.data = node.data \o b]
  BY DEF Filled, r, b
<1>5. /\ node.data \o b \in Seq(Nat)
      /\ Len(node.data \o b) = Len(node.data) + r
      /\ \A j \in 1..Len(node.data \o b) :
           (node.data \o b)[j] = node.at + PACKETHEADLEN + j
  <2>1. \A j \in 1..Len(b) :
          b[j] = node.at + PACKETHEADLEN + Len(node.data) + j
    BY <1>3
  <2>2. node.at + PACKETHEADLEN \in Nat
    BY <1>1
  <2>3. \A j \in 1..Len(node.data) : node.data[j] = node.at + PACKETHEADLEN + j
    BY DEF Faithful
  <2>4. QED
    BY <1>1, <1>3, <2>1, <2>2, <2>3, ConcatBytes
<1>6. /\ f \in MsgNode
      /\ f.at = node.at /\ f.msgId = node.msgId /\ f.msgLen = node.msgLen
      /\ f.data = node.data \o b
  BY <1>4, <1>5 DEF MsgNode
<1> HIDE DEF f
<1>7. Faithful(wire, f)
  BY <1>1, <1>2, <1>5, <1>6 DEF Faithful
<1>8. ~isReceived(f) => r = arrived - taken
  BY <1>1, <1>2, <1>5, <1>6 DEF isReceived
<1>9. QED
  BY <1>2, <1>5, <1>6, <1>7, <1>8 DEF r, f
------------------------------------------------------------------------------
LEMMA InitIInv == Init => IInv
<1> SUFFICES ASSUME Init PROVE IInv
  OBVIOUS
<1>1. TypeOK
  BY DEF Init, TypeOK, PC
<1>2. Reassembly /\ ListInv
  BY DEF Init, Reassembly, ListInv, Adjacent
<1>3. PlaceInv /\ PointerInv /\ QuietInv
  BY DEF Init, PlaceInv, PointerInv, QuietInv, FreedAfterEmptyOnly, Cursor,
         Stopped
<1>4. QED
  BY <1>1, <1>2, <1>3 DEF IInv

\* The steps that leave every node where it is.
LEMMA NodesKept ==
  ASSUME Reassembly, ListInv, UNCHANGED <<wire, inStream, listMsgs>>
  PROVE  Reassembly' /\ ListInv'
BY DEF Reassembly, ListInv, Adjacent, Faithful, isReceived, Cursor

\* The steps that delete the nodes of the list.
LEMMA NodesErased ==
  ASSUME IInv, Erase, UNCHANGED <<wire, inStream>>
  PROVE  Reassembly' /\ ListInv' /\ PlaceInv' /\ PointerInv' /\ QuietInv'
<1>1. Reassembly'
  BY DEF IInv, Erase, Reassembly, Adjacent, Faithful, isReceived
<1>2. ListInv'
  BY DEF Erase, ListInv, Adjacent
<1>3. PlaceInv' /\ PointerInv' /\ QuietInv'
  BY DEF Erase, PlaceInv, PointerInv, QuietInv, FreedAfterEmptyOnly, Stopped
<1>4. QED
  BY <1>1, <1>2, <1>3

\* The last node of a list that is not empty.
LEMMA BackNode ==
  ASSUME IInv, listMsgs # <<>>
  PROVE  /\ Len(listMsgs) \in Nat \ {0}
         /\ Back \in MsgNode
         /\ Back.at \in 0..StreamLen /\ Back.msgLen \in Nat
         /\ Len(Back.data) \in Nat /\ Len(Back.data) <= Back.msgLen
         /\ Faithful(wire, Back)
<1>1. Len(listMsgs) \in Nat \ {0}
  BY DEF IInv, TypeOK
<1>2. Back \in MsgNode /\ Faithful(wire, Back)
  BY <1>1 DEF IInv, TypeOK, ListInv, Back
<1>3. QED
  BY <1>1, <1>2 DEF MsgNode, Faithful

LEMMA CursorNat ==
  ASSUME IInv
  PROVE  Cursor \in Nat
<1>1. CASE inStream = <<>>
  BY <1>1 DEF Cursor
<1>2. CASE inStream # <<>>
  <2>1. inStream[Len(inStream)] \in MsgNode
    BY <1>2 DEF IInv, TypeOK
  <2>2. QED
    BY <1>2, <2>1 DEF Cursor, MsgNode
<1>3. QED
  BY <1>1, <1>2

LEMMA ReadEventStep ==
  ASSUME IInv, NEW n \in 1..StreamLen, ReadEvent(n)
  PROVE  IInv'
<1>1. TypeOK'
  BY DEF IInv, TypeOK, ReadEvent, PC
<1>2. Reassembly' /\ ListInv'
  BY NodesKept DEF IInv, ReadEvent
<1>3. PlaceInv' /\ PointerInv' /\ QuietInv'
  BY DEF IInv, TypeOK, ReadEvent, PlaceInv, PointerInv, QuietInv, Stopped,
         FreedAfterEmptyOnly, Back, Cursor, isReceived
<1>4. QED
  BY <1>1, <1>2, <1>3 DEF IInv

LEMMA EndLoopStep ==
  ASSUME IInv, EndLoop
  PROVE  IInv'
<1>1. TypeOK'
  BY DEF IInv, TypeOK, EndLoop, PC
<1>2. Reassembly' /\ ListInv'
  BY NodesKept DEF IInv, EndLoop
<1>3. PlaceInv' /\ PointerInv'
  BY DEF IInv, EndLoop, PlaceInv, PointerInv, Stopped,
         FreedAfterEmptyOnly, Back, Cursor, isReceived
<1>4. QuietInv'
  <2>1. inputLen = arrived - taken /\ arrived \in Nat /\ taken \in Nat
    BY DEF IInv, TypeOK, EndLoop, PlaceInv
  <2>2. CASE inputLen = 0
    BY <2>1, <2>2 DEF EndLoop, QuietInv
  <2>3. CASE NeedsNode /\ inputLen < PACKETHEADLEN
    <3>1. listMsgs # <<>> => isReceived(Back)
      BY <2>3 DEF IInv, PointerInv, NeedsNode, FreedAfterEmptyOnly, TypeOK
    <3>2. QED
      BY <2>1, <2>3, <3>1 DEF EndLoop, QuietInv, Back, isReceived
  <2>4. QED
    BY <2>2, <2>3 DEF EndLoop
<1>5. QED
  BY <1>1, <1>2, <1>3, <1>4 DEF IInv

LEMMA RejectHeadStep ==
  ASSUME IInv, RejectHead
  PROVE  IInv'
<1>1. TypeOK'
  BY DEF IInv, TypeOK, PlaceInv, RejectHead, HeadAvailable, Erase, PC
<1>2. QED
  BY <1>1, NodesErased DEF RejectHead, IInv

LEMMA ErrorEventStep ==
  ASSUME IInv, ErrorEvent
  PROVE  IInv'
<1>1. TypeOK'
  BY DEF IInv, TypeOK, ErrorEvent, Erase, PC
<1>2. QED
  BY <1>1, NodesErased DEF ErrorEvent, IInv

LEMMA ReadIntoFreedStep ==
  ASSUME IInv, ReadIntoFreed
  PROVE  IInv'
<1>1. TypeOK'
  BY DEF IInv, TypeOK, ReadIntoFreed, PC
<1>2. Reassembly' /\ ListInv'
  BY NodesKept DEF IInv, ReadIntoFreed
<1>3. PlaceInv' /\ PointerInv' /\ QuietInv'
  BY DEF IInv, ReadIntoFreed, PlaceInv, PointerInv, QuietInv, Stopped,
         FreedAfterEmptyOnly, Back, Cursor, isReceived
<1>4. QED
  BY <1>1, <1>2, <1>3 DEF IInv

LEMMA PushEndStep ==
  ASSUME IInv, PushEnd
  PROVE  IInv'
<1>1. TypeOK'
  BY DEF IInv, TypeOK, PushEnd, PC
<1>2. Reassembly' /\ ListInv'
  BY NodesKept DEF IInv, PushEnd
<1>3. PlaceInv' /\ PointerInv' /\ QuietInv'
  BY DEF IInv, PushEnd, PlaceInv, PointerInv, QuietInv, Stopped,
         FreedAfterEmptyOnly, Back, Cursor, isReceived
<1>4. QED
  BY <1>1, <1>2, <1>3 DEF IInv

\* A list loses its front node, or gains one at its back.
LEMMA TailNodes ==
  ASSUME NEW s \in Seq(MsgNode), s # <<>>
  PROVE  /\ Tail(s) \in Seq(MsgNode)
         /\ Head(s) = s[1] /\ Head(s) \in MsgNode
         /\ Len(s) \in Nat \ {0} /\ Len(Tail(s)) = Len(s) - 1
         /\ \A i \in 1..Len(Tail(s)) : Tail(s)[i] = s[i + 1]
OBVIOUS

LEMMA AppendNode ==
  ASSUME NEW s \in Seq(MsgNode), NEW m \in MsgNode
  PROVE  /\ Append(s, m) \in Seq(MsgNode)
         /\ Append(s, m) # <<>>
         /\ Len(s) \in Nat /\ Len(Append(s, m)) = Len(s) + 1
         /\ Append(s, m)[Len(s) + 1] = m
         /\ \A i \in 1..Len(s) : Append(s, m)[i] = s[i]
OBVIOUS

\* The message that PushNode hands over is the frame at the cursor.
LEMMA FrontNode ==
  ASSUME IInv, listMsgs # <<>>, isReceived(Head(listMsgs))
  PROVE  LET m == Head(listMsgs)
         IN /\ m \in MsgNode /\ m = listMsgs[1]
            /\ m.at = Cursor
            /\ Faithful(wire, m) /\ ValidId(wire[m.at])
            /\ Len(m.data) = m.msgLen
<1>1. Head(listMsgs) \in MsgNode /\ Head(listMsgs) = listMsgs[1]
      /\ 1 \in 1..Len(listMsgs)
  BY TailNodes DEF IInv, TypeOK
<1>2. Faithful(wire, Head(listMsgs)) /\ Head(listMsgs).at = Cursor
      /\ ValidId(wire[Head(listMsgs).at])
  BY <1>1 DEF IInv, ListInv
<1>3. Len(Head(listMsgs).data) = Head(listMsgs).msgLen
  BY <1>1, <1>2 DEF Faithful, isReceived, MsgNode
<1>4. QED
  BY <1>1, <1>2, <1>3

LEMMA PushNodeStep ==
  ASSUME IInv, PushNode
  PROVE  IInv'
<1> DEFINE m == Head(listMsgs)
<1>1. /\ m \in MsgNode /\ m = listMsgs[1]
      /\ m.at = Cursor
      /\ Faithful(wire, m) /\ ValidId(wire[m.at])
      /\ Len(m.data) = m.msgLen /\ isReceived(m)
  BY FrontNode DEF PushNode
<1>2. /\ listMsgs' \in Seq(MsgNode)
      /\ Len(listMsgs) \in Nat \ {0} /\ Len(listMsgs') = Len(listMsgs) - 1
      /\ \A i \in 1..Len(listMsgs') : listMsgs'[i] = listMsgs[i + 1]
  BY TailNodes DEF PushNode, IInv, TypeOK
<1>3. /\ inStream' \in Seq(MsgNode) /\ inStream' # <<>>
      /\ Len(inStream) \in Nat /\ Len(inStream') = Len(inStream) + 1
      /\ inStream'[Len(inStream) + 1] = m
      /\ \A i \in 1..Len(inStream) : inStream'[i] = inStream[i]
  BY <1>1, AppendNode DEF PushNode, IInv, TypeOK
<1>4. Cursor' = m.at + PACKETHEADLEN + m.msgLen
  BY <1>3 DEF Cursor
<1>5. wire' = wire /\ taken' = taken /\ arrived' = arrived
      /\ pc = "push" /\ pc' = "push" /\ listMsgs # <<>>
  BY DEF PushNode
<1> HIDE DEF m
<1>6. TypeOK'
  BY <1>2, <1>3 DEF IInv, TypeOK, PushNode
<1>7. Reassembly'
  <2>1. inStream'[1].at = 0
    <3>1. CASE inStream = <<>>
      BY <1>1, <1>3, <3>1 DEF Cursor
    <3>2. CASE inStream # <<>>
      BY <1>3, <3>2 DEF IInv, Reassembly, TypeOK
    <3>3. QED
      BY <3>1, <3>2
  <2>2. Adjacent(inStream')
    <3> SUFFICES ASSUME NEW i \in 1..Len(inStream)
                 PROVE  inStream'[i + 1].at =
                          inStream'[i].at + PACKETHEADLEN + inStream'[i].msgLen
      BY <1>3 DEF Adjacent
    <3>1. CASE i = Len(inStream)
      BY <1>1, <1>3, <3>1 DEF Cursor
    <3>2. CASE i # Len(inStream)
      <4>1. i \in 1..(Len(inStream) - 1) /\ i + 1 \in 1..Len(inStream)
        BY <1>3, <3>2
      <4>2. QED
        BY <1>3, <4>1 DEF IInv, Reassembly, Adjacent
    <3>3. QED
      BY <3>1, <3>2
  <2>3. ASSUME NEW i \in 1..Len(inStream')
        PROVE  /\ Faithful(wire', inStream'[i])
               /\ Len(inStream'[i].data) = inStream'[i].msgLen
               /\ ValidId(wire'[inStream'[i].at])
    <3>1. CASE i \in 1..Len(inStream)
      BY <1>3, <1>5, <3>1 DEF IInv, Reassembly
    <3>2. CASE i = Len(inStream) + 1
      BY <1>1, <1>3, <1>5, <3>2
    <3>3. QED
      BY <1>3, <3>1, <3>2
  <2>4. QED
    BY <2>1, <2>2, <2>3 DEF Reassembly, Adjacent, isReceived
<1>8. ListInv'
  <2>1. Adjacent(listMsgs) /\ Len(listMsgs') > 0 =>
          listMsgs'[1].at = Cursor'
    BY <1>1, <1>2, <1>4 DEF Adjacent
  <2>2. ASSUME NEW i \in 1..(Len(listMsgs') - 1)
        PROVE  /\ listMsgs'[i + 1].at =
                     listMsgs'[i].at + PACKETHEADLEN + listMsgs'[i].msgLen
               /\ isReceived(listMsgs'[i])
    <3>1. /\ i \in 1..Len(listMsgs') /\ i + 1 \in 1..Len(listMsgs')
          /\ i + 1 \in 1..(Len(listMsgs) - 1)
      BY <1>2
    <3>2. /\ listMsgs'[i] = listMsgs[i + 1]
          /\ listMsgs'[i + 1] = listMsgs[(i + 1) + 1]
      BY <1>2, <3>1
    <3>3. QED
      BY <3>1, <3>2 DEF IInv, ListInv, Adjacent
  <2>3. ASSUME NEW i \in 1..Len(listMsgs')
        PROVE  Faithful(wire', listMsgs'[i]) /\ ValidId(wire'[listMsgs'[i].at])
    <3>1. i + 1 \in 1..Len(listMsgs) /\ listMsgs'[i] = listMsgs[i + 1]
      BY <1>2
    <3>2. QED
      BY <1>5, <3>1 DEF IInv, ListInv
  <2>4. listMsgs' # <<>> => Len(listMsgs') > 0
    BY <1>2
  <2>5. QED
    BY <2>1, <2>2, <2>3, <2>4 DEF IInv, ListInv, Adjacent, isReceived
<1>9. /\ listMsgs' # <<>> => Back' = Back /\ Len(listMsgs) # 1
      /\ listMsgs' = <<>> => Back = m /\ Len(listMsgs) = 1
  <2>1. CASE Len(listMsgs) = 1
    BY <1>1, <1>2, <2>1 DEF Back
  <2>2. CASE Len(listMsgs) # 1
    <3>1. Len(listMsgs') \in 1..Len(listMsgs') /\ listMsgs' # <<>>
      BY <1>2, <2>2
    <3>2. listMsgs'[Len(listMsgs')] = listMsgs[Len(listMsgs') + 1]
      BY <1>2, <3>1
    <3>3. QED
      BY <1>2, <2>2, <3>1, <3>2 DEF Back
  <2>3. QED
    BY <2>1, <2>2
<1>10. PlaceInv'
  BY <1>1, <1>4, <1>5, <1>9 DEF IInv, PlaceInv, Stopped
<1>11. PointerInv'
  <2>1. inStream'[Len(inStream')] = m
    BY <1>3
  <2>2. lastNode # "freed"
    BY <1>5 DEF IInv, PointerInv, FreedAfterEmptyOnly
  <2>3. CASE listMsgs' = <<>>
    <3>1. lastNode = "back" => m.msgLen = 0 /\ lastNode' = "freed"
      BY <1>1, <1>9, <2>3 DEF IInv, PointerInv, PushNode
    <3>2. lastNode # "back" => lastNode' = "null"
      BY <2>2 DEF PushNode, IInv, TypeOK
    <3>3. taken' = Cursor'
      BY <1>10, <1>5, <2>3 DEF PlaceInv, Stopped
    <3>4. QED
      BY <1>3, <2>1, <2>3, <3>1, <3>2, <3>3
         DEF PointerInv, FreedAfterEmptyOnly
  <2>4. CASE listMsgs' # <<>>
    BY <1>5, <1>9, <2>2, <2>4
       DEF IInv, PointerInv, PushNode, isReceived, FreedAfterEmptyOnly
  <2>5. QED
    BY <2>3, <2>4
<1>12. QuietInv'
  BY <1>5, <1>9 DEF IInv, QuietInv, isReceived
<1>13. QED
  BY <1>6, <1>7, <1>8, <1>10, <1>11, <1>12 DEF IInv

\* A list gets another node at its back.
LEMMA SetBack ==
  ASSUME NEW s \in Seq(MsgNode), s # <<>>, NEW m \in MsgNode
  PROVE  LET t == [s EXCEPT ![Len(s)] = m]
         IN /\ t \in Seq(MsgNode)
            /\ t # <<>>
            /\ Len(s) \in Nat \ {0} /\ Len(t) = Len(s)
            /\ t[Len(t)] = m
            /\ \A i \in 1..(Len(s) - 1) : t[i] = s[i]
<1> DEFINE t == [s EXCEPT ![Len(s)] = m]
<1>1. Len(s) \in Nat \ {0} /\ Len(s) \in 1..Len(s)
  OBVIOUS
<1>2. t \in Seq(MsgNode) /\ Len(t) = Len(s) /\ t[Len(s)] = m
      /\ \A i \in 1..(Len(s) - 1) : t[i] = s[i]
  BY <1>1
<1>3. t # <<>>
  BY <1>1, <1>2
<1>4. QED
  BY <1>1, <1>2, <1>3

\* A head is read at the end of the last frame that has a node.
LEMMA NextFrame ==
  ASSUME IInv, pc = "while", NeedsNode
  PROVE  /\ listMsgs # <<>> => /\ isReceived(Back)
                               /\ taken = Back.at + PACKETHEADLEN + Back.msgLen
         /\ listMsgs = <<>> => taken = Cursor
<1>1. listMsgs = <<>> => taken = Cursor
  BY DEF IInv, PlaceInv, Stopped
<1>2. ASSUME listMsgs # <<>>
      PROVE  isReceived(Back) /\ taken = Back.at + PACKETHEADLEN + Back.msgLen
  <2>1. isReceived(Back)
    BY <1>2 DEF IInv, TypeOK, PointerInv, FreedAfterEmptyOnly, NeedsNode
  <2>2. Len(Back.data) = Back.msgLen
    BY <1>2, <2>1, BackNode DEF isReceived
  <2>3. QED
    BY <1>2, <2>1, <2>2 DEF IInv, PlaceInv, Stopped
<1>3. QED
  BY <1>1, <1>2

LEMMA OpenNodeStep ==
  ASSUME IInv, OpenNode
  PROVE  IInv'
<1> DEFINE m == [at |-> taken, msgId |-> wire[taken].packetID,
                 msgLen |-> wire[taken].packetLen, data |-> <<>>]
<1>1. /\ taken \in 0..StreamLen /\ arrived \in 0..StreamLen
      /\ inputLen = arrived - taken /\ inputLen >= PACKETHEADLEN
      /\ wire' = wire /\ arrived' = arrived /\ inStream' = inStream
      /\ taken' = taken + PACKETHEADLEN /\ inputLen' = arrived' - taken'
      /\ lastNode' = "back" /\ ValidId(wire[taken])
      /\ pc = "while" /\ pc' = IF inputLen' = 0 THEN "push" ELSE "read"
  BY DEF IInv, TypeOK, PlaceInv, OpenNode, HeadAvailable
<1>2. /\ listMsgs # <<>> => /\ isReceived(Back)
                            /\ taken = Back.at + PACKETHEADLEN + Back.msgLen
      /\ listMsgs = <<>> => taken = Cursor
  BY NextFrame DEF OpenNode, HeadAvailable
<1>3. /\ m \in MsgNode
      /\ m.at = taken /\ m.msgLen \in Nat /\ Len(m.data) = 0
      /\ Faithful(wire, m)
  <2>1. wire[taken].packetID \in Int /\ wire[taken].packetLen \in Nat
    BY <1>1, WireType DEF IInv, TypeOK
  <2>2. <<>> \in Seq(Nat) /\ Len(<<>>) = 0
    OBVIOUS
  <2>3. QED
    BY <1>1, <2>1, <2>2 DEF MsgNode, Faithful
<1>4. /\ listMsgs' \in Seq(MsgNode) /\ listMsgs' # <<>>
      /\ Len(listMsgs) \in Nat /\ Len(listMsgs') = Len(listMsgs) + 1
      /\ listMsgs'[Len(listMsgs) + 1] = m
      /\ \A i \in 1..Len(listMsgs) : listMsgs'[i] = listMsgs[i]
  <2>1. listMsgs' = Append(listMsgs, m)
    BY DEF OpenNode
  <2> HIDE DEF m
  <2>2. QED
    BY <1>3, <2>1, AppendNode DEF IInv, TypeOK
<1> HIDE DEF m
<1>5. Cursor' = Cursor /\ Back' = m
  BY <1>1, <1>4 DEF Cursor, Back
<1>6. TypeOK'
  BY <1>1, <1>4 DEF IInv, TypeOK, PC
<1>7. Reassembly'
  BY <1>1 DEF IInv, Reassembly, Adjacent, isReceived
<1>8. ListInv'
  <2>1. listMsgs'[1].at = Cursor
    <3>1. CASE listMsgs = <<>>
      BY <1>2, <1>3, <1>4, <3>1
    <3>2. CASE listMsgs # <<>>
      BY <1>4, <3>2 DEF IInv, ListInv, TypeOK
    <3>3. QED
      BY <3>1, <3>2
  <2>2. ASSUME NEW i \in 1..Len(listMsgs)
        PROVE  /\ listMsgs'[i + 1].at =
                     listMsgs'[i].at + PACKETHEADLEN + listMsgs'[i].msgLen
               /\ isReceived(listMsgs'[i])
    <3>1. CASE i = Len(listMsgs)
      BY <1>2, <1>3, <1>4, <3>1 DEF Back
    <3>2. CASE i # Len(listMsgs)
      <4>1. i \in 1..(Len(listMsgs) - 1) /\ i + 1 \in 1..Len(listMsgs)
        BY <1>4, <3>2
      <4>2. QED
        BY <1>4, <4>1 DEF IInv, ListInv, Adjacent
    <3>3. QED
      BY <3>1, <3>2
  <2>3. ASSUME NEW i \in 1..Len(listMsgs')
        PROVE  /\ Faithful(wire', listMsgs'[i])
               /\ ValidId(wire'[listMsgs'[i].at])
    <3>1. CASE i \in 1..Len(listMsgs)
      BY <1>1, <1>4, <3>1 DEF IInv, ListInv
    <3>2. CASE i = Len(listMsgs) + 1
      BY <1>1, <1>3, <1>4, <3>2
    <3>3. QED
      BY <1>4, <3>1, <3>2
  <2>4. Len(listMsgs') - 1 = Len(listMsgs)
    BY <1>4
  <2>5. Adjacent(listMsgs)' /\ \A i \in 1..(Len(listMsgs') - 1) :
                                 isReceived(listMsgs'[i])
    BY <2>2, <2>4 DEF Adjacent
  <2>6. QED
    BY <1>5, <2>1, <2>3, <2>5 DEF ListInv, isReceived
<1>9. PlaceInv'
  BY <1>1, <1>3, <1>4, <1>5 DEF PlaceInv, Stopped
<1>10. PointerInv'
  <2>1. isReceived(m) => m.msgLen = 0
    BY <1>3 DEF isReceived
  <2>2. QED
    BY <1>1, <1>4, <1>5, <2>1 DEF PointerInv, FreedAfterEmptyOnly, isReceived
<1>11. QuietInv'
  BY <1>1 DEF QuietInv
<1>12. QED
  BY <1>6, <1>7, <1>8, <1>9, <1>10, <1>11 DEF IInv

LEMMA TcpReadStep ==
  ASSUME IInv, tcpRead
  PROVE  IInv'
<1> DEFINE r == ReadLen(Back)
           f == Filled(Back, ReadLen(Back))
<1>1. /\ lastNode = "back" /\ listMsgs # <<>>
      /\ pc \in {"read", "while"} /\ pc' = "while"
      /\ taken = Back.at + PACKETHEADLEN + Len(Back.data)
      /\ inputLen = arrived - taken
      /\ taken \in 0..arrived /\ arrived \in 0..StreamLen
      /\ wire' = wire /\ arrived' = arrived /\ inStream' = inStream
      /\ taken' = taken + r /\ inputLen' = inputLen - r
      /\ lastNode' = IF isReceived(f) THEN "null" ELSE "back"
  BY DEF IInv, TypeOK, PlaceInv, PointerInv, tcpRead, AfterRead, Stopped
<1>2. /\ Back \in MsgNode /\ Faithful(wire, Back)
      /\ Back.at \in Nat /\ Len(Back.data) \in Nat
  BY <1>1, BackNode
<1>3. /\ r \in 0..(arrived - taken)
      /\ f \in MsgNode
      /\ f.at = Back.at /\ f.msgLen = Back.msgLen
      /\ Len(f.data) = Len(Back.data) + r
      /\ Faithful(wire, f)
  BY <1>1, <1>2, FilledNode DEF IInv
<1>4. listMsgs' = [listMsgs EXCEPT ![Len(listMsgs)] = f]
  BY DEF tcpRead
<1> HIDE DEF r, f
<1>5. /\ listMsgs' \in Seq(MsgNode) /\ listMsgs' # <<>>
      /\ Len(listMsgs) \in Nat \ {0} /\ Len(listMsgs') = Len(listMsgs)
      /\ listMsgs'[Len(listMsgs')] = f
      /\ \A i \in 1..(Len(listMsgs) - 1) : listMsgs'[i] = listMsgs[i]
  BY <1>1, <1>3, <1>4, SetBack DEF IInv, TypeOK
<1>6. Cursor' = Cursor /\ Back' = f
  BY <1>1, <1>5 DEF Cursor, Back
<1>7. /\ taken' \in 0..arrived' /\ inputLen' = arrived' - taken'
      /\ inputLen' \in Nat
      /\ taken' = f.at + PACKETHEADLEN + Len(f.data)
  <2>1. taken \in Nat /\ arrived \in Nat /\ r \in Nat /\ r <= arrived - taken
    BY <1>1, <1>3
  <2>2. /\ taken' = taken + r /\ arrived' = arrived
        /\ inputLen' = (arrived - taken) - r
    BY <1>1
  <2>3. Back.at \in Nat /\ Len(Back.data) \in Nat /\ PACKETHEADLEN \in Nat
    BY <1>2
  <2>4. /\ taken = Back.at + PACKETHEADLEN + Len(Back.data)
        /\ f.at = Back.at /\ Len(f.data) = Len(Back.data) + r
    BY <1>1, <1>3
  <2>5. taken' = f.at + PACKETHEADLEN + Len(f.data)
    <3>1. \A a, h, l, q \in Nat : (a + h + l) + q = a + h + (l + q)
      OBVIOUS
    <3>2. taken' = (Back.at + PACKETHEADLEN + Len(Back.data)) + r
      BY <2>2, <2>4
    <3>3. taken' = Back.at + PACKETHEADLEN + (Len(Back.data) + r)
      BY <2>1, <2>3, <3>1, <3>2
    <3>4. QED
      BY <2>4, <3>3
  <2>6. taken' \in 0..arrived' /\ inputLen' = arrived' - taken' /\ inputLen' \in Nat
    BY <2>1, <2>2
  <2>7. QED
    BY <2>5, <2>6
<1>8. TypeOK'
  BY <1>1, <1>5, <1>7 DEF IInv, TypeOK, PC
<1>9. Reassembly'
  BY <1>1 DEF IInv, Reassembly, Adjacent, isReceived
<1>10. ListInv'
  <2>1. \A i \in 1..Len(listMsgs) : /\ listMsgs'[i].at = listMsgs[i].at
                                    /\ listMsgs'[i].msgLen = listMsgs[i].msgLen
    <3> SUFFICES ASSUME NEW i \in 1..Len(listMsgs)
                 PROVE  /\ listMsgs'[i].at = listMsgs[i].at
                        /\ listMsgs'[i].msgLen = listMsgs[i].msgLen
      OBVIOUS
    <3>1. CASE i = Len(listMsgs)
      BY <1>3, <1>5, <3>1 DEF Back
    <3>2. CASE i # Len(listMsgs)
      BY <1>5, <3>2
    <3>3. QED
      BY <3>1, <3>2
  <2>2. listMsgs'[1].at = Cursor
    BY <1>1, <1>5, <2>1 DEF IInv, ListInv
  <2>3. ASSUME NEW i \in 1..(Len(listMsgs) - 1)
        PROVE  /\ listMsgs'[i + 1].at =
                     listMsgs'[i].at + PACKETHEADLEN + listMsgs'[i].msgLen
               /\ isReceived(listMsgs'[i])
    <3>1. i \in 1..Len(listMsgs) /\ i + 1 \in 1..Len(listMsgs)
      BY <1>5
    <3>2. QED
      BY <1>5, <2>1, <3>1 DEF IInv, ListInv, Adjacent
  <2>4. ASSUME NEW i \in 1..Len(listMsgs)
        PROVE  /\ Faithful(wire', listMsgs'[i])
               /\ ValidId(wire'[listMsgs'[i].at])
    <3>1. ValidId(wire'[listMsgs'[i].at])
      BY <1>1, <2>1 DEF IInv, ListInv
    <3>2. Faithful(wire', listMsgs'[i])
      <4>1. CASE i = Len(listMsgs)
        BY <1>1, <1>3, <1>5, <4>1
      <4>2. CASE i # Len(listMsgs)
        BY <1>1, <1>5, <4>2 DEF IInv, ListInv
      <4>3. QED
        BY <4>1, <4>2
    <3>3. QED
      BY <3>1, <3>2
  <2>5. QED
    BY <1>5, <1>6, <2>2, <2>3, <2>4 DEF ListInv, Adjacent, isReceived
<1>11. PlaceInv'
  BY <1>1, <1>5, <1>6, <1>7 DEF PlaceInv, Stopped
<1>12. PointerInv'
  BY <1>1, <1>5, <1>6 DEF PointerInv, FreedAfterEmptyOnly, isReceived
<1>13. QuietInv'
  BY <1>1 DEF QuietInv
<1>14. QED
  BY <1>8, <1>9, <1>10, <1>11, <1>12, <1>13 DEF IInv

LEMMA NextStep == IInv /\ [Next]_vars => IInv'
<1> SUFFICES ASSUME IInv, [Next]_vars PROVE IInv'
  OBVIOUS
<1>1. ASSUME NEW n \in 1..StreamLen, ReadEvent(n) PROVE IInv'
  BY <1>1, ReadEventStep
<1>2. CASE ErrorEvent
  BY <1>2, ErrorEventStep
<1>3. CASE EndLoop
  BY <1>3, EndLoopStep
<1>4. CASE RejectHead
  BY <1>4, RejectHeadStep
<1>5. CASE OpenNode
  BY <1>5, OpenNodeStep
<1>6. CASE tcpRead
  BY <1>6, TcpReadStep
<1>7. CASE ReadIntoFreed
  BY <1>7, ReadIntoFreedStep
<1>8. CASE PushNode
  BY <1>8, PushNodeStep
<1>9. CASE PushEnd
  BY <1>9, PushEndStep
<1>10. CASE UNCHANGED vars
  <2>1. TypeOK'
    BY <1>10 DEF IInv, TypeOK, vars
  <2>2. Reassembly' /\ ListInv'
    BY <1>10, NodesKept DEF IInv, vars
  <2>3. PlaceInv' /\ PointerInv' /\ QuietInv'
    BY <1>10 DEF IInv, vars, PlaceInv, PointerInv, QuietInv, Stopped,
                 FreedAfterEmptyOnly, Back, Cursor, isReceived
  <2>4. QED
    BY <2>1, <2>2, <2>3 DEF IInv
<1>11. QED
  BY <1>1, <1>2, <1>3, <1>4, <1>5, <1>6, <1>7, <1>8, <1>9, <1>10
     DEF Next, Callback

LEMMA Invariance == Spec => []IInv
BY InitIInv, NextStep, PTL DEF Spec
------------------------------------------------------------------------------
\* The variables keep their types: what was read never exceeds what arrived,
\* and inputLen, which the code subtracts from, never goes below zero.
THEOREM TypeCorrect == Spec => []TypeOK
<1>1. IInv => TypeOK
  BY DEF IInv
<1>2. QED
  BY <1>1, Invariance, PTL

\* For every segmentation of every stream, the messages handed over are the
\* frames of the stream from its first byte on, complete and in order.
THEOREM ReassemblyCorrect == Spec => []Reassembly
<1>1. IInv => Reassembly
  BY DEF IInv
<1>2. QED
  BY <1>1, Invariance, PTL

\* When a read callback has returned, nothing that could be handed over is
\* left in the buffer or in m_listMsgs.
THEOREM DrainedCorrect == Spec => []Drained
<1>1. IInv => Drained
  <2> SUFFICES ASSUME IInv, pc = "dispatch" PROVE Drained
    BY DEF Drained
  <2>1. CASE listMsgs = <<>>
    BY <2>1 DEF IInv, QuietInv, Drained
  <2>2. CASE listMsgs # <<>>
    <3>1. Len(listMsgs) \in Nat \ {0} /\ Head(listMsgs) = listMsgs[1]
      BY <2>2 DEF IInv, TypeOK
    <3>2. ~isReceived(listMsgs[1])
      BY <2>2, <3>1 DEF IInv, QuietInv
    <3>3. Len(listMsgs) = 1
      <4>1. Len(listMsgs) # 1 => 1 \in 1..(Len(listMsgs) - 1)
        BY <3>1
      <4>2. QED
        BY <3>2, <4>1 DEF IInv, ListInv
    <3>4. ~isReceived(Back)
      BY <3>2, <3>3 DEF Back
    <3>5. QED
      BY <2>2, <3>3, <3>4 DEF IInv, QuietInv, Drained
  <2>3. QED
    BY <2>1, <2>2
<1>2. QED
  BY <1>1, Invariance, PTL

\* m_pLastNode dangles only after an empty message whose head was the end of
\* the input.
THEOREM FreedCorrect == Spec => []FreedAfterEmptyOnly
<1>1. IInv => FreedAfterEmptyOnly
  BY DEF IInv, PointerInv
<1>2. QED
  BY <1>1, Invariance, PTL
------------------------------------------------------------------------------
LEMMA InitFrames == Init => Frames!Init
BY DEF Init, Frames!Init, Cursor, Stopped

\* PushNode hands over the frame at the cursor, whole.
LEMMA PushNodeDelivers ==
  ASSUME IInv, PushNode
  PROVE  Frames!Deliver
<1> DEFINE m == Head(listMsgs)
           h == wire[Cursor]
<1>1. /\ m \in MsgNode /\ m = listMsgs[1]
      /\ m.at = Cursor
      /\ Faithful(wire, m) /\ ValidId(wire[m.at])
      /\ Len(m.data) = m.msgLen
  BY FrontNode DEF PushNode
<1>2. /\ listMsgs # <<>> /\ pc = "push" /\ pc' = pc /\ wire' = wire
      /\ inStream' = Append(inStream, m)
  BY DEF PushNode
<1>3. Len(listMsgs) \in Nat \ {0}
  BY <1>2 DEF IInv, TypeOK
<1> HIDE DEF m
<1>4. /\ m.msgId = h.packetID /\ m.msgLen = h.packetLen
      /\ m.at \in Nat /\ m.msgLen \in Nat /\ m.data \in Seq(Nat)
  BY <1>1 DEF Faithful, MsgNode
<1>5. m.at + PACKETHEADLEN + m.msgLen <= StreamLen
  <2>1. CASE Len(listMsgs) = 1
    <3>1. taken = m.at + PACKETHEADLEN + Len(m.data)
      BY <1>1, <1>2, <2>1 DEF IInv, PlaceInv, Stopped, Back
    <3>2. QED
      BY <1>1, <1>4, <3>1 DEF IInv, TypeOK
  <2>2. CASE Len(listMsgs) # 1
    <3>1. 1 \in 1..(Len(listMsgs) - 1) /\ 2 \in 1..Len(listMsgs)
      BY <1>3, <2>2
    <3>2. listMsgs[2].at = m.at + PACKETHEADLEN + m.msgLen
      BY <1>1, <3>1 DEF IInv, ListInv, Adjacent
    <3>3. listMsgs[2].at \in 0..StreamLen
      BY <3>1 DEF IInv, ListInv, Faithful
    <3>4. QED
      BY <3>2, <3>3
  <2>3. QED
    BY <2>1, <2>2
<1>6. Cursor' = m.at + PACKETHEADLEN + m.msgLen
  <2>1. inStream' # <<>> /\ inStream'[Len(inStream')] = m
    BY <1>1, <1>2, AppendNode DEF IInv, TypeOK
  <2>2. QED
    BY <2>1 DEF Cursor
<1>7. m = [at     |-> Cursor,
           msgId  |-> h.packetID,
           msgLen |-> h.packetLen,
           data   |-> Bytes(FrameEnd(Cursor, 0), h.packetLen)]
  <2> DEFINE p == m.at + PACKETHEADLEN
             b == Bytes(p, m.msgLen)
  <2>1. FrameEnd(Cursor, 0) = p /\ p \in Nat
    BY <1>1, <1>4 DEF FrameEnd
  <2> HIDE DEF p
  <2>2. /\ b \in Seq(Nat) /\ Len(b) = m.msgLen
        /\ \A j \in 1..Len(b) : b[j] = p + j
    BY <1>4, <2>1, BytesType
  <2> HIDE DEF b
  <2>3. m.data = b
    <3>1. \A j \in 1..Len(m.data) : m.data[j] = b[j]
      BY <1>1, <2>2 DEF Faithful, p
    <3>2. QED
      BY <1>1, <1>4, <2>2, <3>1, SeqEqual
  <2>4. m = [at |-> m.at, msgId |-> m.msgId, msgLen |-> m.msgLen, data |-> m.data]
    BY <1>1 DEF MsgNode
  <2>5. QED
    BY <1>1, <1>4, <2>1, <2>3, <2>4 DEF b
<1>8. FrameEnd(Cursor, 0) <= StreamLen
      /\ FrameEnd(Cursor, h.packetLen) <= StreamLen
      /\ Cursor' = FrameEnd(Cursor, h.packetLen)
  BY <1>1, <1>4, <1>5, <1>6 DEF FrameEnd
<1>9. ~Stopped /\ ~Stopped'
  BY <1>2 DEF Stopped
<1>10. QED
  BY <1>1, <1>2, <1>7, <1>8, <1>9
     DEF Frames!Deliver, Frames!FrameEnd, Frames!ValidId, Frames!Bytes,
         FrameEnd, ValidId, Bytes

LEMMA StepFrames == IInv /\ [Next]_vars => [Frames!Next]_(Frames!vars)
<1> SUFFICES ASSUME IInv, [Next]_vars PROVE [Frames!Next]_(Frames!vars)
  OBVIOUS
<1>1. CASE PushNode
  BY <1>1, PushNodeDelivers DEF Frames!Next
<1>2. CASE ErrorEvent \/ RejectHead \/ ReadIntoFreed
  BY <1>2 DEF ErrorEvent, RejectHead, ReadIntoFreed, HeadAvailable, Erase,
              Frames!Next, Frames!Close, Cursor, Stopped
<1>3. CASE UNCHANGED <<wire, inStream, Stopped>>
  BY <1>3 DEF Frames!vars, Cursor
<1>4. ASSUME \/ \E n \in 1..StreamLen : ReadEvent(n)
             \/ EndLoop \/ OpenNode \/ tcpRead \/ PushEnd \/ UNCHANGED vars
      PROVE  UNCHANGED <<wire, inStream, Stopped>>
  BY <1>4 DEF ReadEvent, EndLoop, OpenNode, tcpRead, PushEnd, vars, Stopped,
              HeadAvailable
<1>5. QED
  BY <1>1, <1>2, <1>3, <1>4 DEF Next, Callback

\* The connection implements FrameStream: each message handed over is the next
\* frame of the stream, and none is handed over once the connection is erased.
THEOREM Refinement == Spec => FramesSpec
<1>1. Spec => Frames!Init /\ [][Frames!Next]_(Frames!vars)
  BY InitFrames, StepFrames, Invariance, PTL DEF Spec
<1>2. QED
  BY <1>1 DEF FramesSpec, Frames!Spec
------------------------------------------------------------------------------
\* A bound on the steps that are left of a callback: each head and each piece of
\* a payload takes bytes out of the buffer, but for the piece of an empty one.
Waiting == Len(listMsgs)
StepsLeft ==
  CASE pc = "while" -> 4 * inputLen + Waiting + 2
    [] pc = "read"  -> 4 * inputLen + Waiting + 3
    [] pc = "push"  -> Waiting + 1
    [] OTHER        -> 0

LEMMA StepsLeftNat ==
  ASSUME IInv
  PROVE  /\ inputLen \in Nat /\ Waiting \in Nat /\ StepsLeft \in Nat
         /\ pc \in {"while", "read", "push"} => StepsLeft > 0
<1>1. inputLen \in Nat /\ Waiting \in Nat
  BY DEF IInv, TypeOK, Waiting
<1>2. /\ pc = "while" => StepsLeft = 4 * inputLen + Waiting + 2
      /\ pc = "read" => StepsLeft = 4 * inputLen + Waiting + 3
      /\ pc = "push" => StepsLeft = Waiting + 1
      /\ pc \notin {"while", "read", "push"} => StepsLeft = 0
  BY DEF StepsLeft
<1>3. QED
  BY <1>1, <1>2

LEMMA OpenNodeAdvances ==
  ASSUME IInv, OpenNode
  PROVE  StepsLeft' < StepsLeft
<1>1. inputLen \in Nat /\ Waiting \in Nat /\ PACKETHEADLEN \in Nat /\ PACKETHEADLEN >= 1
  BY StepsLeftNat
<1>2. /\ inputLen >= PACKETHEADLEN /\ inputLen' = inputLen - PACKETHEADLEN
      /\ pc = "while" /\ pc' = IF inputLen' = 0 THEN "push" ELSE "read"
  BY DEF OpenNode, HeadAvailable
<1>3. Waiting' = Waiting + 1
  BY DEF IInv, TypeOK, OpenNode, Waiting, PlaceInv
<1>4. StepsLeft = 4 * inputLen + Waiting + 2
  BY <1>2 DEF StepsLeft
<1>5. CASE inputLen' = 0
  <2>1. StepsLeft' = Waiting' + 1
    BY <1>2, <1>5 DEF StepsLeft
  <2>2. QED
    BY <1>1, <1>2, <1>3, <1>4, <1>5, <2>1
<1>6. CASE inputLen' # 0
  <2>1. StepsLeft' = 4 * inputLen' + Waiting' + 3
    BY <1>2, <1>6 DEF StepsLeft
  <2>2. inputLen' \in Nat /\ inputLen' <= inputLen - 1
    BY <1>1, <1>2
  <2>3. \A a, b, w \in Nat : b <= a - 1 => 4 * b + (w + 1) + 3 < 4 * a + w + 2
    OBVIOUS
  <2>4. QED
    BY <1>1, <1>3, <1>4, <2>1, <2>2, <2>3
<1>7. QED
  BY <1>5, <1>6

LEMMA TcpReadAdvances ==
  ASSUME IInv, tcpRead
  PROVE  StepsLeft' < StepsLeft
<1> DEFINE r == ReadLen(Back)
           f == Filled(Back, ReadLen(Back))
<1>1. /\ lastNode = "back" /\ listMsgs # <<>> /\ inputLen = arrived - taken
      /\ taken \in Nat /\ arrived \in Nat /\ inputLen' = inputLen - r
      /\ pc' = "while"
      /\ pc = "read" \/ (pc = "while" /\ inputLen > 0 /\ ~isReceived(Back))
  BY DEF IInv, TypeOK, PlaceInv, PointerInv, tcpRead, HasPartial
<1>2. /\ Back \in MsgNode /\ Faithful(wire, Back) /\ Back.msgLen \in Nat
      /\ Len(Back.data) \in Nat /\ Len(Back.data) <= Back.msgLen
      /\ Len(listMsgs) \in Nat \ {0}
  BY <1>1, BackNode
<1>3. inputLen \in Nat /\ Waiting \in Nat
  BY StepsLeftNat
<1>4. r \in 0..inputLen /\ (inputLen > 0 /\ ~isReceived(Back) => r >= 1)
  BY <1>1, <1>2, <1>3 DEF ReadLen, isReceived
<1>5. Waiting' = Waiting
  <2>1. listMsgs' = [listMsgs EXCEPT ![Len(listMsgs)] = f]
    BY DEF tcpRead
  <2> HIDE DEF f
  <2>2. QED
    BY <2>1 DEF IInv, TypeOK, Waiting
<1> HIDE DEF r
<1>6. StepsLeft' = 4 * (inputLen - r) + Waiting + 2
  BY <1>1, <1>5 DEF StepsLeft
<1>7. CASE pc = "read"
  <2>1. StepsLeft = 4 * inputLen + Waiting + 3
    BY <1>7 DEF StepsLeft
  <2>2. QED
    BY <1>3, <1>4, <1>6, <2>1
<1>8. CASE pc = "while" /\ inputLen > 0 /\ ~isReceived(Back)
  <2>1. StepsLeft = 4 * inputLen + Waiting + 2
    BY <1>8 DEF StepsLeft
  <2>2. QED
    BY <1>3, <1>4, <1>6, <1>8, <2>1
<1>9. QED
  BY <1>1, <1>7, <1>8

LEMMA CallbackStep ==
  ASSUME IInv, Callback
  PROVE  StepsLeft' < StepsLeft
<1>1. inputLen \in Nat /\ Waiting \in Nat /\ StepsLeft \in Nat
  BY StepsLeftNat
<1>2. CASE EndLoop
  <2>1. /\ StepsLeft = 4 * inputLen + Waiting + 2 /\ StepsLeft' = Waiting' + 1
        /\ Waiting' = Waiting
    BY <1>2 DEF EndLoop, StepsLeft, Waiting
  <2>2. QED
    BY <1>1, <2>1
<1>3. CASE RejectHead \/ ReadIntoFreed
  <2>1. pc = "while" /\ StepsLeft' = 0
    BY <1>3 DEF RejectHead, HeadAvailable, Erase, ReadIntoFreed, StepsLeft
  <2>2. QED
    BY <2>1, StepsLeftNat
<1>4. CASE PushNode
  <2>1. pc = "push" /\ pc' = "push" /\ listMsgs # <<>> /\ listMsgs' = Tail(listMsgs)
    BY <1>4 DEF PushNode
  <2>2. Waiting' = Waiting - 1
    BY <2>1 DEF IInv, TypeOK, Waiting
  <2>3. StepsLeft = Waiting + 1 /\ StepsLeft' = Waiting' + 1
    BY <2>1 DEF StepsLeft
  <2>4. QED
    BY <1>1, <2>2, <2>3
<1>5. CASE PushEnd
  <2>1. pc = "push" /\ StepsLeft' = 0
    BY <1>5 DEF PushEnd, StepsLeft
  <2>2. QED
    BY <2>1, StepsLeftNat
<1>6. QED
  BY <1>2, <1>3, <1>4, <1>5, OpenNodeAdvances, TcpReadAdvances DEF Callback

\* A read callback ends: in the loops of dealReadEvent and pushNodeInStream each
\* step leaves fewer to come, whatever the packets are, empty ones included.
\* What FrameHandedOver adds to this is that the thread runs.
THEOREM CallbackAdvances ==
  Spec => [](StepsLeft \in Nat) /\ [][Callback => StepsLeft' < StepsLeft]_vars
<1>1. IInv => StepsLeft \in Nat
  BY StepsLeftNat
<1>2. IInv /\ [Next]_vars => [Callback => StepsLeft' < StepsLeft]_vars
  BY CallbackStep
<1>3. QED
  BY <1>1, <1>2, Invariance, PTL DEF Spec
================================================================================
