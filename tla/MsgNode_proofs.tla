---------------------------- MODULE MsgNode_proofs ----------------------------
(***************************************************************************)
(* The safety of a message's memory for every width of the unsigned        *)
(* integers, every length, every cut of the payload and every failing      *)
(* malloc.                                                                 *)
(***************************************************************************)
EXTENDS MsgNode, TLAPS

Held(h) == node[h] # Null

\* A holder owns its own block or none. Only the holder the message is with has
\* a node or, between a copy and the end of its source, that one and the next.
Place ==
  /\ \A h \in Holders : Held(h) => node[h].ptr \in {h, Null}
  /\ \A h \in Holders : heap[h] # Null <=> Held(h) /\ node[h].ptr = h
  /\ \A h \in Holders : Held(h) => h = current \/ (pc = "destroy" /\ h = current + 1)
  /\ pc = "construct" => current = 1 /\ ~Held(1) /\ failed = {}
  /\ pc \in {"opened", "receive"} => current = 1
  /\ current = 1 /\ pc \in {"opened", "receive", "copy"} => failed \subseteq {1}
  /\ current = 1 /\ 1 \in failed => heap[1] = Null
  /\ pc \in {"opened", "receive", "copy", "destroy", "handle"} => Held(current)
  /\ pc \in {"copy", "destroy"} => current < Last
  /\ pc = "destroy" => Held(current + 1)
  /\ pc = "handle" => current = Last

\* A block in which n bytes of the payload have arrived.
Payload(n, size) == [i \in 1..size |-> IF i <= n THEN i ELSE Zero]

\* While the payload arrives, its first off bytes are in their places and the
\* rest is as memset left it.
Filled ==
  pc \in {"opened", "receive"} /\ 1 \notin failed =>
    /\ failed = {}
    /\ node[1].len = packetLen /\ node[1].id = MsgId /\ node[1].ptr = 1
    /\ node[1].off <= packetLen
    /\ packetLen = UIntMod - 1 => node[1].off = 0
    /\ heap[1] = Payload(node[1].off, Size(packetLen))

\* Holder h has the whole message or, after a malloc that failed, an empty one,
\* whose identifier is known unless that malloc was the first and the only one.
Message(h) ==
  /\ failed \subseteq 1..h
  /\ IF failed = {}
     THEN /\ packetLen < UIntMod - 1
          /\ node[h].len = packetLen /\ node[h].id = MsgId /\ node[h].ptr = h
          /\ heap[h] = Payload(packetLen, packetLen + 1)
     ELSE /\ node[h].len = 0
          /\ node[h].id = 0 \/ failed = {1}
          /\ node[h].ptr = Null <=> h \in failed
          /\ node[h].ptr # Null => heap[h] = <<Zero>>

\* The first node, when its malloc has failed, is no message: it may have any
\* length. A copy of it that does not fault has length 0.
Arrives ==
  /\ pc \in {"copy", "handle"} /\ (current = 1 => 1 \notin failed) => Message(current)
  /\ pc = "destroy" => Message(current + 1)

IInv == TypeOK /\ Place /\ Filled /\ Arrives /\ FaultsOnlyThen
------------------------------------------------------------------------------
\* The size wraps for one length only.
LEMMA SizeValue ==
  ASSUME NEW len \in UInt32
  PROVE  Size(len) = IF len = UIntMod - 1 THEN 0 ELSE len + 1
<1>1. CASE len = UIntMod - 1
  BY <1>1, Width DEF UInt32, Size
<1>2. CASE len # UIntMod - 1
  BY <1>2, Width DEF UInt32, Size
<1> QED
  BY <1>1, <1>2

\* A block of some size, given by an expression for each byte, is a sequence.
LEMMA PayloadType ==
  ASSUME NEW n \in Int, NEW size \in UInt32
  PROVE  Payload(n, size) \in Seq(Int) /\ Len(Payload(n, size)) = size
  BY Width DEF Payload, Zero, UInt32

LEMMA CopiedType ==
  ASSUME NEW cells \in Seq(Int) \cup {Null}, NEW len \in UInt32,
         len <= (IF cells = Null THEN 0 ELSE Len(cells))
  PROVE  /\ Copied(cells, len) \in Seq(Int)
         /\ Len(Copied(cells, len)) = Size(len)
         /\ Size(len) \in UInt32
<1>1. Size(len) \in UInt32 /\ Size(len) \in Nat
  BY SizeValue, Width DEF UInt32
<1>2. \A i \in 1..Size(len) : i <= len => cells[i] \in Int
  BY <1>1, NullIsNothing, Width DEF UInt32
<1>3. Copied(cells, len) \in [1..Size(len) -> Int]
  BY <1>1, <1>2 DEF Copied, Zero, UInt32
<1> QED
  BY <1>1, <1>3

\* A whole message is copied whole, an empty one stays empty.
LEMMA CopiedValue ==
  ASSUME NEW len \in UInt32, len # UIntMod - 1
  PROVE  /\ Copied(Payload(len, len + 1), len) = Payload(len, len + 1)
         /\ \A cells : Copied(cells, 0) = <<Zero>>
<1>1. Size(len) = len + 1 /\ len \in Int
  BY SizeValue DEF UInt32
<1>2. \A i \in 1..(len + 1) : i <= len => Payload(len, len + 1)[i] = i
  BY <1>1 DEF Payload
<1>3. Copied(Payload(len, len + 1), len) = Payload(len, len + 1)
  BY <1>1, <1>2 DEF Copied, Payload
<1>4. 0 \in UInt32 /\ Size(0) = 1
  BY SizeValue, Width DEF UInt32
<1>5. ASSUME NEW cells PROVE Copied(cells, 0) = <<Zero>>
  <2>1. Copied(cells, 0) = [i \in 1..1 |-> Zero]
    BY <1>4 DEF Copied
  <2> QED
    BY <2>1
<1> QED
  BY <1>3, <1>5

LEMMA ReadType ==
  ASSUME NEW cells \in Seq(Int), NEW from \in Nat, NEW n \in Nat, NEW len \in Nat
  PROVE  /\ WithRead(cells, from, n, len) \in Seq(Int)
         /\ Len(WithRead(cells, from, n, len)) = Len(cells)
  BY DEF WithRead, Zero

\* Reading goes on where it has stopped.
LEMMA ReadValue ==
  ASSUME NEW from \in Nat, NEW n \in Nat, NEW len \in Nat, from + n <= len
  PROVE  WithRead(Payload(from, len + 1), from, n, len) = Payload(from + n, len + 1)
<1> DEFINE p == Payload(from, len + 1)
<1>1. DOMAIN p = 1..(len + 1)
  BY DEF Payload
<1>2. \A i \in 1..(len + 1) : p[i] = IF i <= from THEN i ELSE Zero
  BY DEF Payload
<1> HIDE DEF p
<1>3. WithRead(p, from, n, len) = Payload(from + n, len + 1)
  BY <1>1, <1>2 DEF WithRead, Payload, Zero
<1> QED
  BY <1>3 DEF p
------------------------------------------------------------------------------
PCs == {"construct", "opened", "receive", "copy", "destroy", "handle", "done",
        "fault", "aborted"}

LEMMA InitInv == Init => IInv
<1> SUFFICES ASSUME Init PROVE IInv
  OBVIOUS
<1>1. TypeOK
  BY Width DEF Init, TypeOK, Holders, Last
<1>2. Place
  BY DEF Init, Place, Held, Holders, Last
<1> QED
  BY <1>1, <1>2 DEF Init, IInv, Filled, Arrives, FaultsOnlyThen

\* What a record of the right fields is, and that it is not Null.
LEMMA NodeType ==
  ASSUME NEW len \in UInt32, NEW id \in UInt32, NEW off \in UInt32,
         NEW ptr \in Holders \cup {Null}
  PROVE  /\ [len |-> len, id |-> id, off |-> off, ptr |-> ptr] \in MsgNodes
         /\ [len |-> len, id |-> id, off |-> off, ptr |-> ptr] # Null
  BY NullIsNothing DEF MsgNodes

LEMMA HeldType ==
  ASSUME TypeOK, NEW h \in Holders, Held(h)
  PROVE  /\ node[h] \in MsgNodes
         /\ node[h].len \in UInt32 /\ node[h].id \in UInt32 /\ node[h].off \in UInt32
         /\ node[h].ptr \in Holders \cup {Null}
  BY DEF TypeOK, Held, MsgNodes

\* Nothing changes but where the program is: it ends, waits or goes on.
LEMMA SameMemory ==
  ASSUME IInv, UNCHANGED <<packetLen, heap, node, current, failed>>, pc' \in PCs,
         Place', Filled', Arrives', FaultsOnlyThen'
  PROVE  IInv'
  BY DEF IInv, TypeOK, PCs

LEMMA FaultStep ==
  ASSUME IInv, Fault, pc # "destroy",
         \/ current = 1 /\ (1 \in failed \/ packetLen = UIntMod - 1)
         \/ current = Last /\ Last \in failed
  PROVE  IInv'
<1>1. Place'
  BY DEF IInv, Fault, Place, Held
<1>2. Filled' /\ Arrives' /\ FaultsOnlyThen'
  BY DEF Fault, Filled, Arrives, FaultsOnlyThen
<1> QED
  BY <1>1, <1>2, SameMemory DEF Fault, PCs

LEMMA ConstructStep == IInv /\ Construct => IInv'
<1> SUFFICES ASSUME IInv, Construct PROVE IInv'
  OBVIOUS
<1> USE DEF Holders, Last
<1>1. /\ packetLen \in UInt32 /\ Size(packetLen) \in UInt32
      /\ heap \in [Holders -> Seq(Int) \cup {Null}]
      /\ node \in [Holders -> MsgNodes \cup {Null}]
      /\ 1 \in Holders /\ 0 \in UInt32 /\ MsgId \in UInt32
  BY SizeValue, Width, Identifier DEF IInv, TypeOK, UInt32
<1>2. current = 1 /\ failed = {} /\ \A h \in Holders : node[h] = Null /\ heap[h] = Null
  BY DEF IInv, Place, Held, Construct
<1>3. ASSUME heap' = [heap EXCEPT ![1] = [i \in 1..Size(packetLen) |-> Zero]],
             node' = [node EXCEPT ![1] = [len |-> packetLen, id |-> MsgId,
                                          off |-> 0, ptr |-> 1]],
             UNCHANGED failed
      PROVE  IInv'
  <2> DEFINE block == Payload(0, Size(packetLen))
  <2>1. heap' = [heap EXCEPT ![1] = block]
    <3>1. \A i \in 1..Size(packetLen) : ~(i <= 0)
      BY <1>1 DEF UInt32
    <3> QED
      BY <3>1, <1>3 DEF Payload
  <2>2. block \in Seq(Int) /\ Len(block) = Size(packetLen) /\ block # Null
    BY <1>1, PayloadType, NullIsNothing
  <2> HIDE DEF block
  <2>3. node'[1] \in MsgNodes /\ node'[1] # Null
    BY <1>1, <1>3, NodeType
  <2>4. \A h \in Holders \ {1} : node'[h] = Null /\ heap'[h] = Null
    BY <1>1, <1>2, <1>3, <2>1
  <2>5. node'[1].len = packetLen /\ node'[1].id = MsgId /\ node'[1].ptr = 1
          /\ node'[1].off = 0 /\ heap'[1] = block
    BY <1>1, <1>3, <2>1
  <2>6. TypeOK'
    BY <1>1, <1>2, <1>3, <2>1, <2>2, <2>3, <2>4, <2>5 DEF IInv, TypeOK, Construct
  <2>7. Place'
    BY <1>2, <2>2, <2>3, <2>4, <2>5 DEF Place, Held, Construct
  <2>8. Filled'
    BY <1>1, <1>2, <1>3, <2>5 DEF Filled, Construct, block, UInt32, Size
  <2> QED
    BY <2>6, <2>7, <2>8 DEF IInv, Arrives, FaultsOnlyThen, Construct
<1>4. ASSUME NEW len \in UInt32, NEW off \in UInt32, NEW id \in UInt32,
             node' = [node EXCEPT ![1] = [len |-> len, id |-> id, off |-> off,
                                          ptr |-> Null]],
             Fail(1), UNCHANGED heap
      PROVE  IInv'
  <2>1. node'[1] \in MsgNodes /\ node'[1] # Null /\ node'[1].ptr = Null
    BY <1>1, <1>4, NodeType
  <2>2. \A h \in Holders \ {1} : node'[h] = Null
    BY <1>1, <1>2, <1>4
  <2>3. failed' = {1}
    BY <1>2, <1>4 DEF Fail
  <2>4. TypeOK'
    BY <1>1, <1>2, <1>4, <2>1, <2>2, <2>3 DEF IInv, TypeOK, Construct
  <2>5. Place'
    BY <1>2, <1>4, <2>1, <2>2, <2>3, NullIsNothing DEF Place, Held, Construct
  <2> QED
    BY <2>3, <2>4, <2>5 DEF IInv, Filled, Arrives, FaultsOnlyThen, Construct
<1> QED
  BY <1>3, <1>4 DEF Construct
\* While the payload arrives the message is with the first holder alone.
LEMMA FirstAlone ==
  ASSUME IInv, pc \in {"opened", "receive"}
  PROVE  /\ current = 1 /\ Held(1) /\ node[1] \in MsgNodes
         /\ node[1].off \in UInt32 /\ node[1].len \in UInt32
         /\ \A h \in Holders \ {1} : ~Held(h)
         /\ 1 \in failed => node[1].ptr \in {1, Null}
  BY HeldType DEF IInv, Place, Held, Holders, Last

LEMMA WaitStep == IInv /\ WaitForInput => IInv'
<1> SUFFICES ASSUME IInv, WaitForInput PROVE IInv'
  OBVIOUS
<1>1. Place'
  BY DEF IInv, Place, Held, WaitForInput
<1>2. Filled' /\ Arrives' /\ FaultsOnlyThen'
  BY DEF IInv, Filled, Arrives, FaultsOnlyThen, WaitForInput
<1> QED
  BY <1>1, <1>2, SameMemory DEF WaitForInput, PCs

LEMMA AssertStep == IInv /\ AssertFails => IInv'
<1> SUFFICES ASSUME IInv, AssertFails PROVE IInv'
  OBVIOUS
<1>1. 1 \in failed /\ current = 1
  BY FirstAlone DEF IInv, Filled, AssertFails, UInt32, TypeOK
<1>2. Place'
  BY DEF IInv, Place, Held, AssertFails
<1>3. Filled' /\ Arrives' /\ FaultsOnlyThen'
  BY <1>1 DEF Filled, Arrives, FaultsOnlyThen, AssertFails
<1> QED
  BY <1>2, <1>3, SameMemory DEF AssertFails, PCs

LEMMA PushStep == IInv /\ Push => IInv'
<1> SUFFICES ASSUME IInv, Push PROVE IInv'
  OBVIOUS
<1>1. current = 1 /\ Held(1) /\ node[1].off \in UInt32 /\ node[1].len \in UInt32
        /\ packetLen \in UInt32
  BY FirstAlone DEF Push, IInv, TypeOK
<1>2. Place'
  BY <1>1 DEF IInv, Place, Held, Push, Last
<1>3. ASSUME 1 \notin failed PROVE Message(1)
  <2>1. /\ failed = {} /\ node[1].len = packetLen /\ node[1].id = MsgId
        /\ node[1].ptr = 1 /\ node[1].off <= packetLen
        /\ packetLen = UIntMod - 1 => node[1].off = 0
        /\ heap[1] = Payload(node[1].off, Size(packetLen))
    BY <1>3 DEF IInv, Filled, Push
  <2>2. node[1].off = packetLen
    BY <1>1, <2>1 DEF Push, isReceived, UInt32
  <2>3. packetLen < UIntMod - 1
    BY <1>1, <2>1, <2>2, Width DEF UInt32
  <2>4. Size(packetLen) = packetLen + 1
    BY <1>1, <2>3, SizeValue, Width DEF UInt32
  <2> QED
    BY <2>1, <2>2, <2>3, <2>4 DEF Message
<1>4. Filled' /\ Arrives' /\ FaultsOnlyThen'
  BY <1>1, <1>3 DEF Filled, Arrives, FaultsOnlyThen, Push, Message
<1> QED
  BY <1>2, <1>4, SameMemory DEF Push, PCs

LEMMA ReadStep == IInv /\ tcpRead => IInv'
<1> DEFINE nd == node[1]
<1> SUFFICES ASSUME IInv, tcpRead,
                    NEW n \in (IF nd.off = nd.len THEN {0} ELSE 1..(nd.len - nd.off)),
                    LET written == IF nd.off + n >= nd.len THEN nd.len + 1 ELSE nd.off + n
                    IN IF nd.ptr = Null \/ written > Len(heap[1])
                       THEN Fault
                       ELSE /\ heap' = [heap EXCEPT ![1] = WithRead(@, nd.off, n, nd.len)]
                            /\ node' = [node EXCEPT ![1].off = @ + n]
                            /\ pc' = "receive"
                            /\ UNCHANGED <<packetLen, current, failed>>
             PROVE  IInv'
  BY DEF tcpRead
<1>1. /\ pc \in {"opened", "receive"} /\ nd.off <= nd.len
      /\ current = 1 /\ nd \in MsgNodes /\ nd # Null
      /\ nd.off \in Nat /\ nd.len \in Nat /\ nd.len \in UInt32
      /\ \A h \in Holders \ {1} : ~Held(h)
  BY FirstAlone, Width DEF tcpRead, UInt32, Held
<1>2. n \in Nat /\ nd.off + n <= nd.len /\ (n = 0 => nd.off = nd.len)
  BY <1>1
<1>3. packetLen \in UInt32 /\ 1 \in Holders /\ Null \notin Holders
        /\ heap \in [Holders -> Seq(Int) \cup {Null}]
        /\ node \in [Holders -> MsgNodes \cup {Null}]
  BY NullIsNothing DEF IInv, TypeOK, Holders, Last
<1>4. ASSUME 1 \notin failed
      PROVE  /\ failed = {} /\ nd.len = packetLen /\ nd.id = MsgId /\ nd.ptr = 1
             /\ packetLen = UIntMod - 1 => nd.off = 0
             /\ heap[1] = Payload(nd.off, Size(packetLen))
             /\ Len(heap[1]) = Size(packetLen)
  <2>1. /\ failed = {} /\ nd.len = packetLen /\ nd.id = MsgId /\ nd.ptr = 1
        /\ packetLen = UIntMod - 1 => nd.off = 0
        /\ heap[1] = Payload(nd.off, Size(packetLen))
    BY <1>1, <1>4 DEF IInv, Filled
  <2>2. Size(packetLen) \in UInt32 /\ nd.off \in Int
    BY <1>1, <1>3, SizeValue, Width DEF UInt32
  <2> QED
    BY <2>1, <2>2, PayloadType
<1> DEFINE written == IF nd.off + n >= nd.len THEN nd.len + 1 ELSE nd.off + n
<1>5. CASE nd.ptr = Null \/ written > Len(heap[1])
  <2>1. 1 \in failed \/ packetLen = UIntMod - 1
    <3> SUFFICES ASSUME 1 \notin failed, packetLen # UIntMod - 1 PROVE FALSE
      OBVIOUS
    <3>1. Len(heap[1]) = nd.len + 1 /\ nd.ptr = 1
      BY <1>3, <1>4, SizeValue
    <3> QED
      BY <1>1, <1>2, <1>3, <1>5, <3>1
  <2> QED
    BY <1>1, <1>5, <2>1, FaultStep
<1>6. CASE ~(nd.ptr = Null \/ written > Len(heap[1]))
  <2> DEFINE block == WithRead(heap[1], nd.off, n, nd.len)
  <2>1. /\ heap' = [heap EXCEPT ![1] = block]
        /\ node' = [node EXCEPT ![1].off = @ + n]
        /\ pc' = "receive" /\ UNCHANGED <<packetLen, current, failed>>
    BY <1>6
  <2>2. nd.ptr = 1 /\ heap[1] # Null /\ heap[1] \in Seq(Int) /\ Len(heap[1]) \in UInt32
    BY <1>1, <1>3, <1>6 DEF IInv, Place, TypeOK, Held
  <2>3. block \in Seq(Int) /\ Len(block) = Len(heap[1]) /\ block # Null
    <3>1. block \in Seq(Int) /\ Len(block) = Len(heap[1])
      <4>1. heap[1] \in Seq(Int) /\ nd.off \in Nat /\ n \in Nat /\ nd.len \in Nat
        BY <1>1, <1>2, <2>2
      <4> QED
        BY <4>1, ReadType, Zenon
    <3> QED
      BY <3>1, NullIsNothing
  <2>4. 1 \notin failed => block = Payload(nd.off + n, Size(packetLen))
                             /\ (packetLen = UIntMod - 1 => nd.off + n = 0)
    <3> SUFFICES ASSUME 1 \notin failed
                 PROVE  block = Payload(nd.off + n, Size(packetLen))
                          /\ (packetLen = UIntMod - 1 => nd.off + n = 0)
      OBVIOUS
    <3>1. packetLen # UIntMod - 1
      <4> SUFFICES ASSUME packetLen = UIntMod - 1 PROVE FALSE
        OBVIOUS
      <4>1. Len(heap[1]) = 0 /\ nd.len = UIntMod - 1 /\ nd.off = 0
        BY <1>3, <1>4, SizeValue
      <4> QED
        BY <4>1, <1>2, <1>6, Width
    <3>2. heap[1] = Payload(nd.off, nd.len + 1) /\ Size(packetLen) = nd.len + 1
      BY <1>3, <1>4, <3>1, SizeValue
    <3> QED
      BY <1>1, <1>2, <3>1, <3>2, ReadValue
  <2> HIDE DEF block
  <2>5. nd.off + n \in UInt32
    BY <1>1, <1>2, Width DEF UInt32
  <2>6. node' = [node EXCEPT ![1] = [nd EXCEPT !.off = nd.off + n]]
    BY <2>1
  <2>7. /\ node'[1].off = nd.off + n /\ node'[1].len = nd.len
        /\ node'[1].id = nd.id /\ node'[1].ptr = nd.ptr
        /\ node'[1] \in MsgNodes /\ node'[1] # Null
        /\ node' \in [Holders -> MsgNodes \cup {Null}]
        /\ \A h \in Holders \ {1} : node'[h] = node[h]
    <3>1. [nd EXCEPT !.off = nd.off + n] \in MsgNodes
      BY <1>1, <2>5 DEF MsgNodes
    <3> QED
      BY <1>1, <1>3, <2>6, <3>1, NullIsNothing DEF MsgNodes
  <2>8. /\ heap'[1] = block /\ heap' \in [Holders -> Seq(Int) \cup {Null}]
        /\ \A h \in Holders \ {1} : heap'[h] = heap[h]
    BY <1>3, <2>1, <2>3
  <2>9. TypeOK'
    BY <2>1, <2>2, <2>3, <2>7, <2>8 DEF IInv, TypeOK
  <2>10. Place'
    BY <1>1, <2>1, <2>2, <2>3, <2>7, <2>8 DEF IInv, Place, Held, Last
  <2>11. Filled'
    BY <1>1, <1>2, <1>4, <2>1, <2>4, <2>7, <2>8 DEF Filled
  <2> QED
    BY <2>1, <2>9, <2>10, <2>11 DEF IInv, Arrives, FaultsOnlyThen
<1> QED
  BY <1>5, <1>6
\* The message is with the current holder: its block is its own, or it has none.
LEMMA WithCurrent ==
  ASSUME IInv, pc \in {"copy", "destroy", "handle"}
  PROVE  /\ current \in Holders /\ Held(current) /\ node[current] \in MsgNodes
         /\ node[current].len \in UInt32 /\ node[current].off \in UInt32
         /\ node[current].ptr \in {current, Null} /\ current # Null
         /\ heap[current] \in Seq(Int) \cup {Null}
         /\ heap[current] # Null <=> node[current].ptr = current
         /\ node[current].ptr = Null <=> heap[current] = Null
<1>1. current \in Holders /\ Held(current)
  BY DEF IInv, TypeOK, Place
<1>2. heap[current] \in Seq(Int) \cup {Null}
  BY <1>1 DEF IInv, TypeOK
<1>3. node[current].ptr \in {current, Null} /\ current # Null
        /\ (heap[current] # Null <=> node[current].ptr = current)
  BY <1>1, NullIsNothing DEF IInv, Place
<1> QED
  BY <1>1, <1>2, <1>3, HeldType DEF IInv

LEMMA CopyStep == IInv /\ Copy => IInv'
<1> DEFINE h == current + 1
           nd == node[current]
           readable == IF nd.ptr = Null THEN 0 ELSE Len(heap[nd.ptr])
<1> SUFFICES ASSUME IInv, Copy PROVE IInv'
  OBVIOUS
<1>1. /\ current \in Holders /\ Held(current) /\ nd \in MsgNodes
      /\ nd.len \in UInt32 /\ nd.off \in UInt32
      /\ nd.ptr \in {current, Null} /\ current # Null
      /\ heap[current] \in Seq(Int) \cup {Null}
      /\ heap[current] # Null <=> nd.ptr = current
      /\ nd.ptr = Null <=> heap[current] = Null
  BY WithCurrent DEF Copy
<1>2. /\ pc = "copy" /\ h \in Holders /\ h # current /\ h # 1 /\ current \in 1..5 /\ h \in 2..6
      /\ \A g \in Holders \ {current} : ~Held(g) /\ heap[g] = Null
  BY <1>1 DEF IInv, Place, Copy, Holders, Last
<1>3. readable = IF heap[current] = Null THEN 0 ELSE Len(heap[current])
  BY <1>1
<1>4. /\ packetLen \in UInt32 /\ Null \notin Holders /\ failed \subseteq Holders
      /\ heap \in [Holders -> Seq(Int) \cup {Null}]
      /\ node \in [Holders -> MsgNodes \cup {Null}]
      /\ 0 \in UInt32 /\ 0 # UIntMod - 1
      /\ \A g \in Holders : heap[g] # Null => Len(heap[g]) \in UInt32
  BY NullIsNothing, Width DEF IInv, TypeOK, UInt32
<1>5. (current = 1 => 1 \notin failed) => Message(current)
  BY <1>2 DEF IInv, Arrives
<1>0. ASSUME current = 1, 1 \in failed
      PROVE  failed = {1} /\ readable = 0
  BY <1>0, <1>1, <1>2, <1>3 DEF IInv, Place
<1>6. ASSUME nd.len > readable \/ nd.len + 1 > Size(nd.len), Fault
      PROVE  IInv'
  <2>1. current = 1 /\ 1 \in failed
    <3> SUFFICES ASSUME Message(current) PROVE FALSE
      BY <1>5
    <3>2. CASE failed = {}
      <4>0. packetLen # UIntMod - 1 /\ packetLen \in Int
        BY <1>4, <3>2, Width DEF Message, UInt32
      <4>1. nd.len = packetLen /\ heap[current] = Payload(packetLen, packetLen + 1)
              /\ heap[current] # Null
        BY <1>1, <3>2 DEF Message
      <4>2. Size(packetLen) = packetLen + 1 /\ packetLen + 1 \in UInt32
        BY <1>4, <3>2, <4>0, SizeValue, Width DEF Message, UInt32
      <4>3. Len(heap[current]) = packetLen + 1
        BY <4>0, <4>1, <4>2, PayloadType
      <4> QED
        BY <1>3, <1>6, <4>0, <4>1, <4>2, <4>3
    <3>3. CASE failed # {}
      <4>1. nd.len = 0 /\ Size(0) = 1
        <5>1. nd.len = 0
          BY <3>3 DEF Message
        <5>2. Size(0) = 1
          BY SizeValue, Width DEF UInt32
        <5> QED
          BY <5>1, <5>2
      <4>2. readable >= 0
        BY <1>1, <1>3, <1>4 DEF UInt32
      <4> QED
        BY <1>6, <4>1, <4>2
    <3> QED
      BY <3>2, <3>3
  <2> QED
    BY <1>2, <1>6, <2>1, FaultStep
<1>7. ASSUME nd.len <= readable, nd.len + 1 <= Size(nd.len),
             heap' = [heap EXCEPT ![h] = Copied(heap[current], nd.len)],
             node' = [node EXCEPT ![h] = [nd EXCEPT !.ptr = h]],
             pc' = "destroy", UNCHANGED <<packetLen, current, failed>>
      PROVE  IInv'
  <2> DEFINE block == Copied(heap[current], nd.len)
  <2>1. block \in Seq(Int) /\ Len(block) \in UInt32 /\ block # Null
    <3>1. nd.len <= (IF heap[current] = Null THEN 0 ELSE Len(heap[current]))
      BY <1>3, <1>7
    <3>2. block \in Seq(Int) /\ Len(block) \in UInt32
      BY <1>1, <3>1, CopiedType
    <3> QED
      BY <3>2, NullIsNothing
  <2>2. IF failed = {} THEN /\ block = Payload(packetLen, packetLen + 1)
                            /\ nd.len = packetLen
                       ELSE block = <<Zero>> /\ nd.len = 0
    <3>2. CASE failed = {}
      <4>0. packetLen # UIntMod - 1
        BY <1>4, <1>5, <3>2, Width DEF Message, UInt32
      <4>1. heap[current] = Payload(packetLen, packetLen + 1) /\ nd.len = packetLen
        BY <1>5, <3>2 DEF Message
      <4> QED
        BY <1>4, <3>2, <4>0, <4>1, CopiedValue
    <3>3. CASE failed # {}
      <4>1. nd.len = 0
        <5>1. CASE current = 1 /\ 1 \in failed
          BY <1>0, <1>1, <1>7, <5>1 DEF UInt32
        <5>2. CASE current = 1 => 1 \notin failed
          BY <1>5, <3>3, <5>2 DEF Message
        <5> QED
          BY <5>1, <5>2
      <4> QED
        BY <1>4, <3>3, <4>1, CopiedValue
    <3> QED
      BY <3>2, <3>3
  <2>3. heap' = [heap EXCEPT ![h] = block]
    BY <1>7
  <2> HIDE DEF block
  <2>4. /\ [nd EXCEPT !.ptr = h] \in MsgNodes
        /\ [nd EXCEPT !.ptr = h].ptr = h
        /\ [nd EXCEPT !.ptr = h].len = nd.len
        /\ [nd EXCEPT !.ptr = h].id = nd.id
    BY <1>1, <1>2 DEF MsgNodes
  <2>5. /\ node'[h] \in MsgNodes /\ node'[h] # Null /\ node'[h].ptr = h
        /\ node'[h].len = nd.len /\ node'[h].id = nd.id
        /\ node' \in [Holders -> MsgNodes \cup {Null}]
        /\ \A g \in Holders \ {h} : node'[g] = node[g]
    BY <1>2, <1>4, <1>7, <2>4, NullIsNothing
  <2>6. /\ heap'[h] = block /\ heap' \in [Holders -> Seq(Int) \cup {Null}]
        /\ \A g \in Holders \ {h} : heap'[g] = heap[g]
    BY <1>2, <1>4, <2>1, <2>3
  <2>7. TypeOK'
    BY <1>4, <1>7, <2>1, <2>5, <2>6 DEF IInv, TypeOK
  <2>8. Place'
    BY <1>1, <1>2, <1>7, <2>1, <2>5, <2>6 DEF IInv, Place, Held, Last
  <2>9. Message(h)'
    <3>1. failed \subseteq 1..current
      BY <1>0, <1>5 DEF Message
    <3>2. failed \subseteq 1..h /\ h \notin failed
      BY <1>2, <3>1
    <3>3. nd.id = (IF failed = {} THEN MsgId ELSE 0) \/ failed = {1}
      BY <1>0, <1>5 DEF Message
    <3>4. failed = {} => packetLen < UIntMod - 1
      BY <1>5 DEF Message
    <3>5. h # Null
      BY <1>2, <1>4
    <3> QED
      BY <1>4, <1>7, <2>2, <2>5, <2>6, <3>2, <3>3, <3>4, <3>5 DEF Message
  <2> QED
    BY <1>7, <2>7, <2>8, <2>9 DEF IInv, Filled, Arrives, FaultsOnlyThen
<1>8. ASSUME node' = [node EXCEPT ![h] = [len |-> 0, id |-> 0, off |-> 0, ptr |-> Null]],
             Fail(h), pc' = "destroy", UNCHANGED <<packetLen, heap, current>>
      PROVE  IInv'
  <2>1. /\ node'[h] \in MsgNodes /\ node'[h] # Null /\ node'[h].ptr = Null
        /\ node'[h].len = 0 /\ node'[h].id = 0
        /\ node' \in [Holders -> MsgNodes \cup {Null}]
        /\ \A g \in Holders \ {h} : node'[g] = node[g]
    <3>1. [len |-> 0, id |-> 0, off |-> 0, ptr |-> Null] \in MsgNodes
      BY <1>4, NodeType
    <3> QED
      BY <1>2, <1>4, <1>8, <3>1, NullIsNothing
  <2>2. failed' = failed \cup {h}
    BY <1>8 DEF Fail
  <2>3. TypeOK'
    BY <1>2, <1>4, <1>8, <2>1, <2>2 DEF IInv, TypeOK
  <2>4. Place'
    BY <1>1, <1>2, <1>4, <1>8, <2>1, <2>2 DEF IInv, Place, Held, Last
  <2>5. Message(h)'
    <3>1. failed \subseteq 1..current
      BY <1>0, <1>5 DEF Message
    <3>2. failed' \subseteq 1..h /\ h \in failed'
      BY <1>2, <2>2, <3>1
    <3> QED
      BY <1>8, <2>1, <2>2, <3>1, <3>2 DEF Message
  <2> QED
    BY <1>2, <1>8, <2>2, <2>3, <2>4, <2>5 DEF IInv, Filled, Arrives, FaultsOnlyThen
<1> QED
  BY <1>6, <1>7, <1>8 DEF Copy, CopyTo

\* Deleting the node of the current holder gives its block back and no other.
LEMMA FreeCurrent ==
  ASSUME IInv, pc \in {"destroy", "handle"}, Free(current)
  PROVE  /\ node' \in [Holders -> MsgNodes \cup {Null}]
         /\ heap' \in [Holders -> Seq(Int) \cup {Null}]
         /\ node'[current] = Null /\ heap'[current] = Null
         /\ \A g \in Holders \ {current} : node'[g] = node[g] /\ heap'[g] = heap[g]
<1>1. /\ current \in Holders
      /\ node[current].ptr \in {current, Null} /\ current # Null
      /\ node[current].ptr = Null <=> heap[current] = Null
      /\ heap \in [Holders -> Seq(Int) \cup {Null}]
      /\ node \in [Holders -> MsgNodes \cup {Null}]
  BY WithCurrent DEF IInv, TypeOK
<1> QED
  BY <1>1 DEF Free

LEMMA DestroyStep == IInv /\ Destroy => IInv'
<1> SUFFICES ASSUME IInv, Destroy PROVE IInv'
  OBVIOUS
<1>1. /\ pc = "destroy" /\ current \in 1..5 /\ current + 1 \in Holders
      /\ current \in Holders /\ current + 1 # current
      /\ current' = current + 1 /\ UNCHANGED <<packetLen, failed>>
      /\ pc' = IF current + 1 = Last THEN "handle" ELSE "copy"
  BY DEF Destroy, IInv, TypeOK, Place, Holders, Last
<1>2. /\ node' \in [Holders -> MsgNodes \cup {Null}]
      /\ heap' \in [Holders -> Seq(Int) \cup {Null}]
      /\ node'[current] = Null /\ heap'[current] = Null
      /\ \A g \in Holders \ {current} : node'[g] = node[g] /\ heap'[g] = heap[g]
  BY <1>1, FreeCurrent DEF Destroy
<1>3. TypeOK'
  BY <1>1, <1>2 DEF IInv, TypeOK
<1>4. Place'
  <2>1. (\A h \in Holders : Held(h) => node[h].ptr \in {h, Null})'
    BY <1>2 DEF IInv, Place, Held
  <2>2. (\A h \in Holders : heap[h] # Null <=> Held(h) /\ node[h].ptr = h)'
    BY <1>2 DEF IInv, Place, Held
  <2>3. (\A h \in Holders : Held(h) => h = current)'
    BY <1>1, <1>2 DEF IInv, Place, Held
  <2>4. Held(current)'
    BY <1>1, <1>2 DEF IInv, Place, Held
  <2>5. current' \in Holders /\ current' <= Last
    BY <1>1 DEF Last
  <2> QED
    BY <1>1, <2>1, <2>2, <2>3, <2>4, <2>5 DEF Place, Holders, Last
<1>5. Message(current)'
  BY <1>1, <1>2 DEF IInv, Arrives, Message
<1> QED
  BY <1>1, <1>3, <1>4, <1>5 DEF IInv, Filled, Arrives, FaultsOnlyThen

LEMMA HandleStep == IInv /\ HandleMsg => IInv'
<1> SUFFICES ASSUME IInv, HandleMsg PROVE IInv'
  OBVIOUS
<1>1. pc = "handle" /\ current = Last /\ current \in Holders
  BY DEF IInv, Place, TypeOK, HandleMsg
<1>2. CASE node[Last].ptr = Null
  <2>1. Last \in failed
    <3>1. Message(Last)
      BY <1>1 DEF IInv, Arrives, Last
    <3> QED
      BY <1>2, <3>1, NullIsNothing DEF Message, Holders, Last
  <2> QED
    BY <1>1, <1>2, <2>1, FaultStep DEF HandleMsg
<1>3. CASE node[Last].ptr # Null
  <2>1. /\ node' \in [Holders -> MsgNodes \cup {Null}]
        /\ heap' \in [Holders -> Seq(Int) \cup {Null}]
        /\ node'[current] = Null /\ heap'[current] = Null
        /\ \A g \in Holders \ {current} : node'[g] = node[g] /\ heap'[g] = heap[g]
        /\ pc' = "done" /\ UNCHANGED <<packetLen, current, failed>>
    BY <1>1, <1>3, FreeCurrent DEF HandleMsg
  <2>2. TypeOK'
    BY <1>1, <2>1 DEF IInv, TypeOK
  <2>3. Place'
    BY <1>1, <2>1 DEF IInv, Place, Held
  <2> QED
    BY <2>1, <2>2, <2>3 DEF IInv, Filled, Arrives, FaultsOnlyThen
<1> QED
  BY <1>2, <1>3

LEMMA Stutter == IInv /\ UNCHANGED vars => IInv'
<1> SUFFICES ASSUME IInv, UNCHANGED vars PROVE IInv'
  OBVIOUS
<1>1. TypeOK' /\ Place'
  BY DEF IInv, vars, TypeOK, Place, Held
<1> QED
  BY <1>1 DEF IInv, vars, Filled, Arrives, FaultsOnlyThen, Message

LEMMA Invariance == Spec => []IInv
<1>1. IInv /\ [Next]_vars => IInv'
  BY ConstructStep, WaitStep, ReadStep, AssertStep, PushStep, CopyStep, DestroyStep,
     HandleStep, Stutter DEF Next
<1> QED
  BY InitInv, <1>1, PTL DEF Spec
------------------------------------------------------------------------------
\* Lengths and offsets are unsigned integers and blocks have the sizes malloc
\* was asked for, on every path.
THEOREM TypeCorrect == Spec => []TypeOK
<1>1. IInv => TypeOK
  BY DEF IInv
<1> QED
  BY Invariance, <1>1, PTL

\* No block of a message has two owners, none has none, none is used after it
\* was freed, however the five copies and their mallocs go.
THEOREM OwnerCorrect == Spec => []OneOwner
<1>1. IInv => OneOwner
  BY NullIsNothing DEF IInv, Place, OneOwner, Held
<1> QED
  BY Invariance, <1>1, PTL

\* No byte outside a block is read or written, except in the first node, when its
\* malloc has failed or the length is the largest unsigned integer, and in
\* handleMsg, when the last malloc has failed.
THEOREM FaultsCorrect == Spec => []FaultsOnlyThen
<1>1. IInv => FaultsOnlyThen
  BY DEF IInv
<1> QED
  BY Invariance, <1>1, PTL

\* For every set of mallocs that fail, the worker handles either all the bytes that
\* were sent or a message of length 0. The identifier of that one is 0 unless the
\* malloc of the first node is the only one that failed: then it is arbitrary.
THEOREM HandledCorrect == Spec => []HandledWholeOrEmpty
<1>1. ASSUME IInv, pc = "handle"
      PROVE  LET nd == node[Last] IN
             IF failed = {}
             THEN /\ nd.id = MsgId /\ nd.len = packetLen
                  /\ heap[nd.ptr] = [i \in 1..(packetLen + 1) |->
                                       IF i <= packetLen THEN i ELSE Zero]
             ELSE /\ nd.len = 0
                  /\ nd.id = 0 \/ failed = {1}
                  /\ nd.ptr # Null => heap[nd.ptr] = <<Zero>>
                  /\ nd.ptr = Null <=> Last \in failed
  <2>1. current = Last /\ Message(Last) /\ node[Last].ptr \in {Last, Null}
    BY <1>1, WithCurrent DEF IInv, Place, Arrives, Last
  <2> QED
    BY <2>1 DEF Message, Payload
<1>2. IInv => HandledWholeOrEmpty
  BY <1>1 DEF HandledWholeOrEmpty
<1> QED
  BY Invariance, <1>2, PTL
===============================================================================
