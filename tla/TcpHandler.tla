------------------------------ MODULE TcpHandler ------------------------------
(***************************************************************************)
(* One connection on the thread of the event loop: the bytes that libevent *)
(* has put in the input buffer of its bufferevent, the loop of             *)
(* TcpHandler::dealReadEvent that cuts them into MsgNodes, and the loop of *)
(* NetWorker::pushNodeInStream that hands the received nodes over.         *)
(*                                                                         *)
(* The event loop is a single thread and everything here belongs to it, so *)
(* each iteration of a loop is one action and pc tells which comes next.   *)
(* m_pLastNode is the only pointer that outlives a call. It is "null", or  *)
(* it points to the "back" node of m_listMsgs (insertNode sets it to the   *)
(* node it appends), or that node has been deleted by pushNodeInStream and *)
(* the pointer is left "freed".                                            *)
(***************************************************************************)
EXTENDS Packets

VARIABLES
  wire,      \* the stream the peer sends, see FrameStream
  arrived,   \* bytes libevent has moved to the input buffer since the start
  taken,     \* bytes bufferevent_read has removed from that buffer
  inputLen,  \* the local variable of dealReadEvent
  listMsgs,  \* m_listMsgs
  lastNode,  \* m_pLastNode
  inStream,  \* copies handed to the worker, never removed here (history)
  pc         \* where the event loop is

vars == <<wire, arrived, taken, inputLen, listMsgs, lastNode, inStream, pc>>

\* The end of the last message handed over.
Cursor == IF inStream = <<>> THEN 0
          ELSE LET m == inStream[Len(inStream)]
               IN m.at + PACKETHEADLEN + m.msgLen

Stopped == pc \in {"erased", "fault"}

PC == {"dispatch", "while", "read", "push", "erased", "fault"}
------------------------------------------------------------------------------
Init ==
  /\ wire \in Wires
  /\ arrived = 0
  /\ taken = 0
  /\ inputLen = 0
  /\ listMsgs = <<>>
  /\ lastNode = "null"
  /\ inStream = <<>>
  /\ pc = "dispatch"

Back == listMsgs[Len(listMsgs)]

\* Mutants of isReceived: off by one in either direction.
isReceivedEarly(node) == Len(node.data) + 1 >= node.msgLen
isReceivedLate(node)  == Len(node.data) > node.msgLen

\* MsgNode::isReceived. m_nOffSet counts the bytes copied to m_pMsg, which
\* is the length of data.
isReceived(node) == Len(node.data) >= node.msgLen

\* The two outcomes of the test "!m_pLastNode || m_nMsgLen <= m_nOffSet".
\* Reading them in a node that was deleted may yield either.
NeedsNode  == lastNode = "back" => isReceived(Back)
HasPartial == \/ lastNode = "freed"
              \/ lastNode = "back" /\ ~isReceived(Back)

\* libevent reads n more bytes from the socket and calls tcpread_cb.
ReadEvent(n) ==
  /\ pc = "dispatch"
  /\ arrived + n <= StreamLen
  /\ arrived' = arrived + n
  /\ inputLen' = arrived + n - taken
  /\ pc' = "while"
  /\ UNCHANGED <<wire, taken, listMsgs, lastNode, inStream>>

\* The loop ends: the input is used up, or too short for a packet head.
EndLoop ==
  /\ pc = "while"
  /\ \/ inputLen = 0
     \/ NeedsNode /\ inputLen < PACKETHEADLEN
  /\ pc' = "push"
  /\ UNCHANGED <<wire, arrived, taken, inputLen, listMsgs, lastNode, inStream>>

\* The head of the next packet is in the input and a node is needed for it.
HeadAvailable ==
  /\ pc = "while"
  /\ NeedsNode
  /\ inputLen >= PACKETHEADLEN

\* ~TcpHandler deletes the nodes; the handler is not used any more.
Erase ==
  /\ listMsgs' = <<>>
  /\ lastNode' = "null"
  /\ pc' = "erased"

\* Mutant of RejectHead: the head is skipped and the connection kept.
SkipHead ==
  /\ HeadAvailable
  /\ ~ValidId(wire[taken])
  /\ taken' = taken + PACKETHEADLEN
  /\ inputLen' = inputLen - PACKETHEADLEN
  /\ UNCHANGED <<wire, arrived, listMsgs, lastNode, inStream, pc>>

\* The identifier is out of range: dealReadEvent fails and the caller erases
\* the connection without handing over what m_listMsgs holds.
RejectHead ==
  /\ HeadAvailable
  /\ ~ValidId(wire[taken])
  /\ taken' = taken + PACKETHEADLEN
  /\ Erase
  /\ UNCHANGED <<wire, arrived, inputLen, inStream>>

\* insertNode. When the head was all the input held, the loop breaks and
\* m_pLastNode keeps pointing to the new node, even if its length is zero.
OpenNode ==
  /\ HeadAvailable
  /\ ValidId(wire[taken])
  /\ taken' = taken + PACKETHEADLEN
  /\ listMsgs' = Append(listMsgs, [at     |-> taken,
                                   msgId  |-> wire[taken].packetID,
                                   msgLen |-> wire[taken].packetLen,
                                   data   |-> <<>>])
  /\ lastNode' = "back"
  /\ inputLen' = inputLen - PACKETHEADLEN
  /\ pc' = IF inputLen' = 0 THEN "push" ELSE "read"
  /\ UNCHANGED <<wire, arrived, inStream>>

\* bufferevent_read returns what is asked for or what the buffer holds.
ReadLen(node) ==
  LET remainLen == node.msgLen - Len(node.data)
      buffered  == arrived - taken
  IN IF remainLen <= buffered THEN remainLen ELSE buffered

\* The back node once readLen more bytes of the stream are copied to it.
Filled(node, readLen) ==
  [node EXCEPT !.data = @ \o Bytes(taken, readLen)]

\* Mutant of AfterRead: the pointer is not reset.
KeepPointer(node) == "back"

\* m_pLastNode after node, the back node, was read into.
AfterRead(node) == IF isReceived(node) THEN "null" ELSE "back"

\* tcpRead, either right after insertNode or to go on with a partial node.
tcpRead ==
  /\ \/ pc = "read"
     \/ pc = "while" /\ inputLen > 0 /\ lastNode = "back" /\ HasPartial
  /\ LET readLen == ReadLen(Back)
         filled  == Filled(Back, readLen)
     IN /\ listMsgs' = [listMsgs EXCEPT ![Len(listMsgs)] = filled]
        /\ lastNode' = AfterRead(filled)
        /\ taken' = taken + readLen
        /\ inputLen' = inputLen - readLen
  /\ pc' = "while"
  /\ UNCHANGED <<wire, arrived, inStream>>

\* tcpRead writes through the fields of a deleted node: the process dies.
ReadIntoFreed ==
  /\ pc = "while"
  /\ inputLen > 0
  /\ lastNode = "freed"
  /\ pc' = "fault"
  /\ UNCHANGED <<wire, arrived, taken, inputLen, listMsgs, lastNode, inStream>>

\* One iteration of pushNodeInStream: the front node is copied and deleted.
PushNode ==
  /\ pc = "push"
  /\ listMsgs # <<>>
  /\ isReceived(Head(listMsgs))
  /\ inStream' = Append(inStream, Head(listMsgs))
  /\ listMsgs' = Tail(listMsgs)
  /\ lastNode' = IF lastNode = "back" /\ Len(listMsgs) = 1
                 THEN "freed" ELSE lastNode
  /\ UNCHANGED <<wire, arrived, taken, inputLen, pc>>

\* Mutant of PushEnd: the loop gives up while messages are left.
PushEndEarly ==
  /\ pc = "push"
  /\ pc' = "dispatch"
  /\ UNCHANGED <<wire, arrived, taken, inputLen, listMsgs, lastNode, inStream>>

\* The list is used up or its front node is still partial.
PushEnd ==
  /\ pc = "push"
  /\ listMsgs # <<>> => ~isReceived(Head(listMsgs))
  /\ pc' = "dispatch"
  /\ UNCHANGED <<wire, arrived, taken, inputLen, listMsgs, lastNode, inStream>>

\* tcperror_cb: end of file or an error on the socket.
ErrorEvent ==
  /\ pc = "dispatch"
  /\ Erase
  /\ UNCHANGED <<wire, arrived, taken, inputLen, inStream>>

\* What the thread of the event loop does on its own once a callback began.
Callback ==
  EndLoop \/ RejectHead \/ OpenNode \/ tcpRead \/ ReadIntoFreed
    \/ PushNode \/ PushEnd

Next ==
  \/ \E n \in 1..StreamLen : ReadEvent(n)
  \/ ErrorEvent
  \/ Callback

Spec == Init /\ [][Next]_vars

\* A thread that runs does not stop in the middle of a callback. Nothing is
\* assumed of the peer or of the network.
FairSpec == Spec /\ WF_vars(Callback)
------------------------------------------------------------------------------
TypeOK ==
  /\ wire \in Wires
  /\ arrived \in 0..StreamLen
  /\ taken \in 0..arrived
  /\ inputLen \in Nat
  /\ listMsgs \in Seq(MsgNode)
  /\ lastNode \in {"null", "back", "freed"}
  /\ inStream \in Seq(MsgNode)
  /\ pc \in PC

\* A node holds the first bytes of the payload of the frame it was made for.
Faithful(stream, node) ==
  /\ node.at \in 0..StreamLen
  /\ stream[node.at].packetID = node.msgId
  /\ stream[node.at].packetLen = node.msgLen
  /\ Len(node.data) <= node.msgLen
  /\ \A j \in 1..Len(node.data) : node.data[j] = node.at + PACKETHEADLEN + j

\* The nodes of s are those of adjacent frames.
Adjacent(s) ==
  \A i \in 1..(Len(s) - 1) :
    s[i + 1].at = s[i].at + PACKETHEADLEN + s[i].msgLen

\* The messages handed to the workers are the frames of the stream, from its
\* first byte on, each with all of its payload and nothing else, however
\* dealReadEvent was interrupted by the ends of the segments.
Reassembly ==
  /\ inStream # <<>> => inStream[1].at = 0
  /\ Adjacent(inStream)
  /\ \A i \in 1..Len(inStream) :
       /\ Faithful(wire, inStream[i])
       /\ Len(inStream[i].data) = inStream[i].msgLen
       /\ ValidId(wire[inStream[i].at])

\* When a read callback has returned it has left nothing behind that it could
\* have handed over: m_listMsgs holds at most one node, still partial, and
\* then the buffer is empty; without a node the buffer is too short for a
\* head. A frame would otherwise wait for bytes that may never come.
Drained ==
  pc = "dispatch" =>
    IF listMsgs = <<>> THEN arrived - taken < PACKETHEADLEN
    ELSE Len(listMsgs) = 1 /\ ~isReceived(Back) /\ arrived = taken

\* m_pLastNode is left pointing to a deleted node in one case only: the last
\* message handed over was empty, its head was the end of the input, and no
\* byte has been taken since.
FreedAfterEmptyOnly ==
  lastNode = "freed" =>
    /\ inStream # <<>>
    /\ inStream[Len(inStream)].msgLen = 0
    /\ listMsgs = <<>>
    /\ taken = Cursor

\* The comment of dealReadEvent on its test: a node is opened for the first
\* message, or when the node at hand has received its message. It presumes
\* that m_pLastNode, if set, is a node that still exists.
TestsLiveNode == pc = "while" /\ inputLen > 0 => lastNode # "freed"

\* The abstract specification of the connection, whatever the segments.
Frames == INSTANCE FrameStream
            WITH cursor <- Cursor, delivered <- inStream, open <- ~Stopped

FramesSpec == Frames!Spec

\* A frame that has arrived whole, after all those before it were handed
\* over, is handed over too, unless the connection ends first.
FrameHandedOver ==
  \A p \in 0..StreamLen :
    /\ Cursor = p
    /\ ValidId(wire[p])
    /\ arrived >= FrameEnd(p, wire[p].packetLen)
    ~> Cursor > p \/ Stopped
==============================================================================
