-------------------------------- MODULE MsgNode --------------------------------
(***************************************************************************)
(* The memory of one message, from the node dealReadEvent opens for it to  *)
(* the local variable of the worker that handles it. On that way it is     *)
(* copied five times and every copy has a block of its own:                *)
(*                                                                         *)
(*   1  the node of m_listMsgs          4  msgNode in popMsgFromInStream   *)
(*   2  conMsgNode in pushNodeInStream  5  the element of the local stream *)
(*   3  the element of the in-stream    6  msgNode in threadWorkFunc       *)
(*                                                                         *)
(* Lengths and offsets are unsigned integers that wrap, also in the size   *)
(* that is passed to malloc; any malloc may fail. The bytes of the payload *)
(* are identified by their positions 1, 2, ...; none of them is zero here. *)
(***************************************************************************)
EXTENDS Integers, Sequences

CONSTANTS
  UIntMod,  \* one more than the largest UInt32
  MsgId,    \* the identifier of the message
  Null      \* a null pointer, a node that does not exist, a freed block

ASSUME Width == UIntMod \in Nat /\ UIntMod > 2
ASSUME Identifier == MsgId \in 0..(UIntMod - 1)

UInt32 == 0..(UIntMod - 1)
Last == 6
Holders == 1..Last

MsgNodes == [len : UInt32, id : UInt32, off : UInt32, ptr : Holders \cup {Null}]

ASSUME NullIsNothing == Null \notin Holders \cup MsgNodes \cup Seq(Int)

VARIABLES
  packetLen, \* the length in the packet head, as a UInt32
  heap,      \* the bytes of the block malloc gave to a holder
  node,      \* the MsgNode of a holder
  current,   \* the holder the message is with
  failed,    \* the holders whose malloc failed (history)
  pc

vars == <<packetLen, heap, node, current, failed, pc>>

\* A block is a sequence of bytes: positions of the payload, Zero or, where
\* nothing was written, Junk.
Zero == 0
Junk == -1

Init ==
  /\ packetLen \in UInt32
  /\ heap = [h \in Holders |-> Null]
  /\ node = [h \in Holders |-> Null]
  /\ current = 1
  /\ failed = {}
  /\ pc = "construct"
------------------------------------------------------------------------------
\* Mutant of Size: the size is computed without wrapping.
WideSize(len) == len + 1

\* Mutant of Size: no byte for the terminator.
BareSize(len) == len

\* sizeof(char) * (len + 1), where the sum is a UInt32.
Size(len) == (len + 1) % UIntMod

\* The members are left as they are when malloc fails.
Fail(h) == failed' = failed \cup {h}

Fault ==
  /\ pc' = "fault"
  /\ UNCHANGED <<packetLen, heap, node, current, failed>>

\* MsgNode(msgId, msgLen): memset clears as much as malloc was asked for.
Construct ==
  /\ pc = "construct"
  /\ pc' = "opened"
  /\ \/ /\ heap' = [heap EXCEPT ![1] = [i \in 1..Size(packetLen) |-> Zero]]
        /\ node' = [node EXCEPT ![1] = [len |-> packetLen, id |-> MsgId,
                                        off |-> 0, ptr |-> 1]]
        /\ UNCHANGED failed
     \/ /\ \E len, off, id \in UInt32 :
             node' = [node EXCEPT ![1] = [len |-> len, id |-> id, off |-> off,
                                          ptr |-> Null]]
        /\ Fail(1)
        /\ UNCHANGED heap
  /\ UNCHANGED <<packetLen, current>>

isReceived(n) == n.off >= n.len

\* The input ends with the head, or with a part of the payload.
WaitForInput ==
  /\ pc = "opened"
  /\ ~isReceived(node[1])
  /\ pc' = "receive"
  /\ UNCHANGED <<packetLen, heap, node, current, failed>>

\* The bytes that tcpRead copies, and the terminator once all are copied.
WithRead(cells, from, n, len) ==
  [i \in DOMAIN cells |->
     IF from < i /\ i <= from + n THEN i
     ELSE IF from + n >= len /\ i = len + 1 THEN Zero ELSE cells[i]]

\* tcpRead, called after insertNode if there is more input, or for a node that
\* is not complete. Its assertion fails if the offset is beyond the length.
tcpRead ==
  LET nd == node[1] IN
  /\ pc = "opened" \/ (pc = "receive" /\ ~isReceived(nd))
  /\ nd.off <= nd.len
  /\ \E n \in (IF nd.off = nd.len THEN {0} ELSE 1..(nd.len - nd.off)) :
       LET written == IF nd.off + n >= nd.len THEN nd.len + 1 ELSE nd.off + n
       IN IF nd.ptr = Null \/ written > Len(heap[1])
          THEN Fault
          ELSE /\ heap' = [heap EXCEPT ![1] = WithRead(@, nd.off, n, nd.len)]
               /\ node' = [node EXCEPT ![1].off = @ + n]
               /\ pc' = "receive"
               /\ UNCHANGED <<packetLen, current, failed>>

AssertFails ==
  /\ pc = "opened"
  /\ node[1].off > node[1].len
  /\ pc' = "aborted"
  /\ UNCHANGED <<packetLen, heap, node, current, failed>>

\* pushNodeInStream finds the node complete.
Push ==
  /\ pc \in {"opened", "receive"}
  /\ isReceived(node[1])
  /\ pc' = "copy"
  /\ UNCHANGED <<packetLen, heap, node, current, failed>>

\* Mutant of Copied: the terminator is forgotten.
CopiedUnended(cells, len) ==
  [i \in 1..Size(len) |-> IF i <= len THEN cells[i] ELSE Junk]

\* What memcpy and the assignment of the terminator make of a new block.
Copied(cells, len) ==
  [i \in 1..Size(len) |-> IF i <= len THEN cells[i] ELSE Zero]

\* Mutant of CopyTo: the block is shared.
ShareBlock(h) ==
  /\ node' = [node EXCEPT ![h] = node[current]]
  /\ pc' = "destroy"
  /\ UNCHANGED <<packetLen, heap, current, failed>>

\* MsgNode::operator = on a new MsgNode h.
CopyTo(h) ==
  LET nd == node[current]
      readable == IF nd.ptr = Null THEN 0 ELSE Len(heap[nd.ptr])
  IN \/ /\ nd.len > readable \/ nd.len + 1 > Size(nd.len)
        /\ Fault
     \/ /\ nd.len <= readable /\ nd.len + 1 <= Size(nd.len)
        /\ heap' = [heap EXCEPT ![h] = Copied(heap[current], nd.len)]
        /\ node' = [node EXCEPT ![h] = [nd EXCEPT !.ptr = h]]
        /\ pc' = "destroy"
        /\ UNCHANGED <<packetLen, current, failed>>
     \/ /\ node' = [node EXCEPT ![h] = [len |-> 0, id |-> 0, off |-> 0, ptr |-> Null]]
        /\ Fail(h)
        /\ pc' = "destroy"
        /\ UNCHANGED <<packetLen, heap, current>>

Copy ==
  /\ pc = "copy"
  /\ CopyTo(current + 1)

\* ~MsgNode of holder h.
Free(h) ==
  /\ heap' = IF node[h].ptr = Null THEN heap ELSE [heap EXCEPT ![node[h].ptr] = Null]
  /\ node' = [node EXCEPT ![h] = Null]

\* The holder the message was copied from is deleted, taken out of its list,
\* or a local variable whose block ends.
Destroy ==
  /\ pc = "destroy"
  /\ Free(current)
  /\ current' = current + 1
  /\ pc' = IF current' = Last THEN "handle" ELSE "copy"
  /\ UNCHANGED <<packetLen, failed>>

\* getMsgData: the string up to the first zero byte. A string made of a null
\* pointer is an exception that nobody catches.
HandleMsg ==
  /\ pc = "handle"
  /\ IF node[Last].ptr = Null
       THEN Fault
       ELSE /\ pc' = "done"
            /\ Free(Last)
            /\ UNCHANGED <<packetLen, current, failed>>

Next == Construct \/ WaitForInput \/ tcpRead \/ AssertFails \/ Push \/ Copy
          \/ Destroy \/ HandleMsg

Spec == Init /\ [][Next]_vars
------------------------------------------------------------------------------
TypeOK ==
  /\ packetLen \in UInt32
  /\ heap \in [Holders -> Seq(Int) \cup {Null}]
  /\ \A h \in Holders : heap[h] # Null => Len(heap[h]) \in UInt32
  /\ node \in [Holders -> MsgNodes \cup {Null}]
  /\ current \in Holders
  /\ failed \subseteq Holders
  /\ pc \in {"construct", "opened", "receive", "copy", "destroy", "handle", "done",
             "fault", "aborted"}

\* A block belongs to one node: none is freed twice, used after it was freed,
\* or left when the message has been handled.
OneOwner ==
  /\ \A h \in Holders : node[h] # Null /\ node[h].ptr # Null =>
       /\ heap[node[h].ptr] # Null
       /\ \A g \in Holders \ {h} : node[g] # Null => node[g].ptr # node[h].ptr
  /\ \A b \in Holders : heap[b] # Null =>
       \E h \in Holders : node[h] # Null /\ node[h].ptr = b

\* Every byte that is written or read is inside a block, at each of the five
\* copies and however the payload arrives, with two exceptions. The process may
\* die with the message in its first node if the malloc of that node failed, or
\* if the length is the one to which no terminator can be added; and it dies in
\* handleMsg if the last malloc failed. No other malloc that fails is fatal.
FaultsOnlyThen ==
  pc \in {"fault", "aborted"} =>
    \/ current = 1 /\ (1 \in failed \/ packetLen = UIntMod - 1)
    \/ current = Last /\ Last \in failed

\* What is handled, whichever mallocs failed on the way, is either all that was
\* sent, followed by a zero byte, or nothing of it: a message of length 0. Such
\* a message has the identifier 0, which a copy that failed leaves in the new
\* node, unless the malloc of the first node alone failed: then identifier and
\* length are what the memory of that node held before, and a node whose length
\* happens to be 0 is handled with an identifier nobody sent.
HandledWholeOrEmpty ==
  pc = "handle" =>
    LET nd == node[Last] IN
    IF failed = {}
    THEN /\ nd.id = MsgId /\ nd.len = packetLen
         /\ heap[nd.ptr] = [i \in 1..(packetLen + 1) |->
                              IF i <= packetLen THEN i ELSE Zero]
    ELSE /\ nd.len = 0
         /\ nd.id = 0 \/ failed = {1}
         /\ nd.ptr # Null => heap[nd.ptr] = <<Zero>>
         /\ nd.ptr = Null <=> Last \in failed
==============================================================================
