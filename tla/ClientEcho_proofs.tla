--------------------------- MODULE ClientEcho_proofs ---------------------------
(***************************************************************************)
(* The client's place in the stream of replies, for every width of an int, *)
(* every payload, every number of replies and every way recv cuts them.    *)
(***************************************************************************)
EXTENDS ClientEcho, NaturalsInduction, WellFoundedInduction, SequenceTheorems, TLAPS

\* Induction in the form of a least counterexample.
LEMMA LeastNatural ==
  ASSUME NEW T \in SUBSET Nat, T # {}
  PROVE  \E n \in T : n = 0 \/ n - 1 \notin T
<1> DEFINE R == OpToRel(<, Nat)
<1>1. \E n \in T : \A m \in T : ~(<<m, n>> \in R)
  BY WFMin, NatLessThanWellFounded, Zenon
<1>2. \A x, y \in Nat : x < y => <<x, y>> \in R
  BY Zenon DEF OpToRel
<1> HIDE DEF R
<1>3. PICK n \in T : \A m \in T : ~(<<m, n>> \in R)
  BY <1>1
<1>4. ASSUME n # 0 PROVE n - 1 \notin T
  <2>1. n - 1 \in Nat /\ n - 1 < n
    BY <1>4
  <2> QED
    BY <1>2, <1>3, <2>1
<1> QED
  BY <1>4

\* The recursion of Numbers defines a function.
LEMMA NumbersDef ==
  ASSUME NEW cells
  PROVE  Numbers(cells) =
           [i \in 0..INT |-> IF i = 0 THEN 0
                             ELSE cells[HeadLen + 1 - i] + 256 * Numbers(cells)[i - 1]]
<1> DEFINE Value(f, i) == IF i = 0 THEN 0 ELSE cells[HeadLen + 1 - i] + 256 * f[i - 1]
           Solves(f, n) == f = [i \in 0..n |-> Value(f, i)]
           T == {n \in Nat : ~\E f : Solves(f, n)}
<1>1. T = {}
  <2> SUFFICES ASSUME T # {} PROVE FALSE
    OBVIOUS
  <2>1. PICK n \in T : n = 0 \/ n - 1 \notin T
    BY LeastNatural
  <2>2. CASE n = 0
    <3> DEFINE f == [i \in 0..0 |-> 0]
    <3>1. Solves(f, 0)
      OBVIOUS
    <3> QED
      BY <2>2, <3>1
  <2>3. CASE n # 0
    <3>1. n - 1 \in Nat /\ n \in Nat
      BY <2>3
    <3>2. \E g : Solves(g, n - 1)
      BY <2>1, <2>3, <3>1
    <3>3. PICK g : Solves(g, n - 1)
      BY <3>2
    <3> DEFINE f == [i \in 0..n |-> IF i = n THEN Value(g, n) ELSE g[i]]
    <3>4. ASSUME NEW i \in 0..n PROVE f[i] = Value(f, i)
      <4>1. CASE i = n
        BY <2>3, <3>1, <4>1
      <4>2. CASE i # n
        <5>1. i \in 0..(n - 1) /\ (i # 0 => i - 1 \in 0..n /\ i - 1 # n)
          BY <3>1, <4>2
        <5>2. g[i] = Value(g, i)
          BY <3>3, <5>1
        <5> QED
          BY <4>2, <5>1, <5>2
      <4> QED
        BY <4>1, <4>2
    <3>5. f = [i \in 0..n |-> f[i]]
      OBVIOUS
    <3> HIDE DEF f
    <3>6. f = [i \in 0..n |-> Value(f, i)]
      BY <3>4, <3>5
    <3> QED
      BY <3>6
  <2> QED
    BY <2>2, <2>3
<1>2. INT \in Nat
  BY Widths
<1>3. Numbers(cells) = CHOOSE f : Solves(f, INT)
  BY DEF Numbers
<1> HIDE DEF Solves
<1>4. \E f : Solves(f, INT)
  BY <1>1, <1>2
<1>5. Solves(Numbers(cells), INT)
  BY <1>3, <1>4
<1> QED
  BY <1>5 DEF Solves
Cells == [1..HeadLen -> 0..127]

LEMMA Sizes == INT \in Nat /\ INT >= 1 /\ HeadLen \in Nat /\ HeadLen = INT + INT
  BY Widths DEF HeadLen

LEMMA PayloadLength == Len(Payload) \in Nat /\ Len(Payload) >= 1 /\ 1 \in 1..Len(Payload)
<1>1. \A n \in 1..127 : n \in Nat /\ n >= 1 /\ 1 \in 1..n
  OBVIOUS
<1> QED
  BY <1>1, Bytes, Zenon

LEMMA NumbersType ==
  ASSUME NEW cells \in Cells
  PROVE  \A i \in 0..INT : Numbers(cells)[i] \in Nat
<1> DEFINE T == {n \in Nat : n <= INT /\ Numbers(cells)[n] \notin Nat}
<1>1. T = {}
  <2> SUFFICES ASSUME T # {} PROVE FALSE
    OBVIOUS
  <2>1. PICK n \in T : n = 0 \/ n - 1 \notin T
    BY LeastNatural
  <2>2. n \in 0..INT /\ n \in Nat /\ (n # 0 => HeadLen + 1 - n \in 1..HeadLen)
    BY <2>1, Sizes
  <2>3. Numbers(cells)[n] = IF n = 0 THEN 0
                            ELSE cells[HeadLen + 1 - n] + 256 * Numbers(cells)[n - 1]
    BY <2>1, NumbersDef, Sizes
  <2>4. CASE n = 0
    BY <2>1, <2>3, <2>4
  <2>5. CASE n # 0
    <3>1. Numbers(cells)[n - 1] \in Nat
      BY <2>1, <2>5, Sizes
    <3>2. cells[HeadLen + 1 - n] \in 0..127
      BY <2>2, <2>5 DEF Cells
    <3> QED
      BY <2>1, <2>3, <2>5, <3>1, <3>2
  <2> QED
    BY <2>4, <2>5
<1> QED
  BY <1>1, Sizes

\* The length in a head decides on its lowest byte: if that is zero it is not the
\* length of a payload, and the other bytes must be zero.
LEMMA LengthInCells ==
  ASSUME NEW cells \in Cells
  PROVE  /\ LengthIn(cells) \in Nat
         /\ cells[INT + 1] = 0 => LengthIn(cells) \notin 1..127
         /\ (\A j \in (INT + 2)..HeadLen : cells[j] = 0) => LengthIn(cells) = cells[INT + 1]
<1>1. LengthIn(cells) \in Nat
  BY NumbersType, Sizes DEF LengthIn
<1>2. LengthIn(cells) = cells[INT + 1] + 256 * Numbers(cells)[INT - 1]
  <2>1. INT \in 0..INT /\ INT # 0 /\ HeadLen + 1 - INT = INT + 1
    BY Sizes
  <2> QED
    BY <2>1, NumbersDef DEF LengthIn
<1>3. cells[INT + 1] \in 0..127 /\ Numbers(cells)[INT - 1] \in Nat
  BY NumbersType, Sizes DEF Cells
<1>4. ASSUME \A j \in (INT + 2)..HeadLen : cells[j] = 0
      PROVE  Numbers(cells)[INT - 1] = 0
  <2> DEFINE T == {n \in Nat : n < INT /\ Numbers(cells)[n] # 0}
  <2>1. T = {}
    <3> SUFFICES ASSUME T # {} PROVE FALSE
      OBVIOUS
    <3>1. PICK n \in T : n = 0 \/ n - 1 \notin T
      BY LeastNatural
    <3>2. n \in 0..INT /\ n \in Nat
      BY <3>1, Sizes
    <3>3. Numbers(cells)[n] = IF n = 0 THEN 0
                              ELSE cells[HeadLen + 1 - n] + 256 * Numbers(cells)[n - 1]
      BY <3>1, NumbersDef, Sizes
    <3>4. CASE n = 0
      BY <3>1, <3>3, <3>4
    <3>5. CASE n # 0
      <4>1. Numbers(cells)[n - 1] = 0
        BY <3>1, <3>5, Sizes
      <4>2. HeadLen + 1 - n \in (INT + 2)..HeadLen
        BY <3>1, <3>2, <3>5, Sizes
      <4> QED
        BY <1>4, <3>1, <3>3, <3>5, <4>1, <4>2
    <3> QED
      BY <3>4, <3>5
  <2> QED
    BY <2>1, Sizes
<1>5. ASSUME NEW k \in Nat PROVE 256 * k \notin 1..127
  OBVIOUS
<1>6. cells[INT + 1] = 0 => LengthIn(cells) = 256 * Numbers(cells)[INT - 1]
  BY <1>2, <1>3
<1>7. Numbers(cells)[INT - 1] = 0 => LengthIn(cells) = cells[INT + 1]
  BY <1>2, <1>3
<1> QED
  BY <1>1, <1>3, <1>4, <1>5, <1>6, <1>7

LEMMA ReplyBytes ==
  /\ Len(Payload) \in 1..127
  /\ Reply \in Seq(0..127)
  /\ FrameLen \in Nat /\ FrameLen = HeadLen + Len(Payload)
  /\ Reply[INT + 1] = Len(Payload)
  /\ \A j \in (INT + 2)..HeadLen : Reply[j] = 0
<1>1. INT \in Nat /\ INT >= 1 /\ Payload \in Seq(0..127) /\ Len(Payload) \in 1..127
  BY Sizes, Bytes
<1>2. ASSUME NEW n \in 0..127
      PROVE  /\ IntBytes(n) \in Seq(0..127) /\ Len(IntBytes(n)) = INT
             /\ IntBytes(n)[1] = n /\ \A i \in 2..INT : IntBytes(n)[i] = 0
  <2> DEFINE f == [i \in 1..INT |-> IF i = 1 THEN n ELSE 0]
  <2>1. f \in [1..INT -> 0..127]
    OBVIOUS
  <2>2. f[1] = n /\ \A i \in 2..INT : f[i] = 0
    <3>1. 1 \in 1..INT /\ \A i \in 2..INT : i \in 1..INT /\ i # 1
      BY <1>1
    <3> QED
      BY <3>1
  <2>3. IntBytes(n) = f
    BY DEF IntBytes
  <2> HIDE DEF f
  <2>4. f \in Seq(0..127) /\ Len(f) = INT
    BY <1>1, <2>1
  <2> QED
    BY <2>2, <2>3, <2>4
<1> DEFINE a == IntBytes(0)
           b == IntBytes(Len(Payload))
<1>3. /\ a \in Seq(0..127) /\ Len(a) = INT
      /\ b \in Seq(0..127) /\ Len(b) = INT
      /\ b[1] = Len(Payload) /\ \A i \in 2..INT : b[i] = 0
  <2>1. 0 \in 0..127 /\ Len(Payload) \in 0..127
    BY <1>1
  <2> HIDE DEF a, b
  <2>2. a \in Seq(0..127) /\ Len(a) = INT
    BY <1>2, <2>1 DEF a
  <2>3. /\ b \in Seq(0..127) /\ Len(b) = INT
        /\ b[1] = Len(Payload) /\ \A i \in 2..INT : b[i] = 0
    BY <1>2, <2>1 DEF b
  <2> QED
    BY <2>2, <2>3
<1> HIDE DEF a, b
<1>4. (a \o b) \o Payload \in Seq(0..127) /\ Len((a \o b) \o Payload) = HeadLen + Len(Payload)
  <2>1. a \o b \in Seq(0..127) /\ Len(a \o b) = HeadLen
    BY <1>3, Sizes
  <2> QED
    BY <1>1, <2>1, ConcatProperties
<1>5. \A i \in 1..INT : ((a \o b) \o Payload)[INT + i] = b[i]
  BY <1>1, <1>3, Sizes
<1>6. Reply = (a \o b) \o Payload
  BY DEF Reply, a, b
<1>7. \A j \in (INT + 2)..HeadLen : Reply[j] = 0
  <2> SUFFICES ASSUME NEW j \in (INT + 2)..HeadLen PROVE Reply[j] = 0
    OBVIOUS
  <2>1. j - INT \in 2..INT /\ j - INT \in 1..INT /\ INT + (j - INT) = j
    BY Sizes
  <2> QED
    BY <1>3, <1>5, <1>6, <2>1
<1>8. Reply[INT + 1] = Len(Payload)
  BY <1>1, <1>3, <1>5, <1>6
<1>9. Reply \in Seq(0..127) /\ Len(Reply) = HeadLen + Len(Payload)
  BY <1>4, <1>6
<1> QED
  BY <1>1, <1>7, <1>8, <1>9, Sizes DEF FrameLen

LEMMA Remainder ==
  ASSUME NEW F \in Nat \ {0}
  PROVE  /\ \A a \in Int : a % F \in 0..(F - 1)
         /\ \A c \in Nat, k \in 0..(F - 1) : (c * F + k) % F = k
  OBVIOUS

LEMMA StreamBytes ==
  /\ \A p \in Int : StreamByte(p) \in 0..127
  /\ \A c \in Nat, k \in 1..FrameLen : StreamByte(c * FrameLen + k) = Reply[k]
<1>1. FrameLen \in Nat \ {0} /\ FrameLen = Len(Reply) /\ Reply \in Seq(0..127)
  BY ReplyBytes, Sizes DEF FrameLen
<1>2. ASSUME NEW p \in Int PROVE StreamByte(p) \in 0..127
  <2> DEFINE r == (p - 1) % FrameLen
  <2>1. r \in 0..(FrameLen - 1)
    <3>1. p - 1 \in Int
      OBVIOUS
    <3> QED
      BY <1>1, <3>1, Remainder, Zenon
  <2>2. StreamByte(p) = Reply[r + 1]
    BY DEF StreamByte
  <2> HIDE DEF r
  <2>3. r + 1 \in 1..Len(Reply)
    BY <1>1, <2>1
  <2> QED
    <3>1. \A i \in 1..Len(Reply) : Reply[i] \in 0..127
      BY <1>1
    <3> QED
      BY <2>2, <2>3, <3>1
<1>3. ASSUME NEW c \in Nat, NEW k \in 1..FrameLen
      PROVE  StreamByte(c * FrameLen + k) = Reply[k]
  <2> DEFINE j == k - 1
  <2>1. j \in 0..(FrameLen - 1) /\ c * FrameLen \in Nat
    BY <1>1
  <2>2. (c * FrameLen + j) % FrameLen = j
    BY <1>1, <2>1, Remainder
  <2>3. (c * FrameLen + k) - 1 = c * FrameLen + j
    BY <1>1, <2>1
  <2> QED
    BY <2>2, <2>3 DEF StreamByte
<1> QED
  BY <1>2, <1>3
------------------------------------------------------------------------------
InHead == pc \in {"head", "headrest"}

\* The end of the stream is reached for good, and only there recv returns no byte.
Ends ==
  /\ ended => taken = total
  /\ offset < 0 => ended
  /\ pc \in {"headrest", "payloadrest"} /\ taken < total => offset > 0
  /\ pc = "headrest" /\ taken < total => pieces # <<>>
  /\ pc = "head" => pieces = <<>>
  /\ pc = "payload" => data = <<>>

\* Every reply takes a byte at least, and only heads that were read can be lost.
Progress ==
  /\ count <= taken
  /\ InHead => lost \subseteq 0..(count - 1)
  /\ ~InHead => count + 1 <= taken

\* The cells of the length hold that of a reply.
InPlace ==
  /\ head[INT + 1] = Len(Payload)
  /\ \A j \in (INT + 2)..HeadLen : head[j] = 0

\* What the array packethead holds of the length, from one head to the next and
\* between the pieces of one.
LengthKept ==
  lost = {} =>
    /\ pc = "head" /\ count = 0 => \A j \in 1..HeadLen : head[j] = 0
    /\ pc = "head" /\ count > 0 => InPlace
    /\ pc = "headrest" /\ pieces # <<>> =>
         IF LengthIntact(pieces) THEN InPlace ELSE head[INT + 1] = 0
    /\ ~InHead => InPlace

\* What the buffer holds behind the loops that fill it.
DataKept ==
  pc = "parse" /\ lost = {} =>
    IF offset = 0 THEN data = [i \in 1..Len(Payload) |-> Start + HeadLen + i]
                  ELSE data[1] # Start + HeadLen + 1

IInv == TypeOK /\ InStep /\ Ends /\ Progress /\ LengthKept /\ DataKept
------------------------------------------------------------------------------
LEMMA Constant ==
  /\ INT \in Nat /\ INT >= 1 /\ HeadLen \in Nat /\ HeadLen = INT + INT
  /\ Len(Payload) \in 1..127 /\ FrameLen \in Nat /\ FrameLen = HeadLen + Len(Payload)
  /\ Replies * FrameLen \in Nat
  BY Sizes, ReplyBytes, Widths

LEMMA Numerals ==
  ASSUME TypeOK
  PROVE  /\ total \in Nat /\ taken \in Nat /\ taken <= total /\ count \in Nat
         /\ total <= Replies * FrameLen
         /\ Start \in Nat /\ (count + 1) * FrameLen = Start + FrameLen
         /\ offset \in Int /\ packetLen \in Nat
         /\ head \in Cells /\ pieces \in Seq(1..HeadLen)
<1>1. /\ total \in Nat /\ taken \in Nat /\ taken <= total /\ count \in Nat
      /\ total <= Replies * FrameLen /\ packetLen \in Nat
      /\ head \in Cells /\ pieces \in Seq(1..HeadLen)
  BY Constant DEF TypeOK, Cells
<1>2. Start \in Nat /\ (count + 1) * FrameLen = Start + FrameLen
  BY <1>1, Constant DEF Start
<1>3. offset \in Int
  BY <1>1, Constant DEF TypeOK
<1> QED
  BY <1>1, <1>2, <1>3

LEMMA InitInv == Init => IInv
<1> SUFFICES ASSUME Init PROVE IInv
  OBVIOUS
<1>1. /\ total \in 0..(Replies * FrameLen) /\ taken = 0 /\ packetLen = 0 /\ data = <<>>
      /\ head = [i \in 1..HeadLen |-> 0]
      /\ offset = 0 /\ count = 0 /\ ended = FALSE /\ pieces = <<>> /\ lost = {} /\ pc = "head"
  BY DEF Init
<1>2. TypeOK
  <2>1. DOMAIN data \in {1..n : n \in 0..total} /\ \A i \in DOMAIN data : data[i] \in 1..total
    <3>1. DOMAIN data = 1..0 /\ 0 \in 0..total
      BY <1>1, Constant
    <3> QED
      BY <3>1
  <2>2. head \in [1..HeadLen -> 0..127]
    BY <1>1
  <2>3. offset \in CASE pc = "headrest"    -> -1..(HeadLen - 1)
                     [] pc = "payloadrest" -> -1..(packetLen - 1)
                     [] pc = "parse"       -> 0..packetLen
                     [] OTHER              -> {0}
    BY <1>1
  <2>4. 0 \in Nat /\ 0 \in 0..total /\ 0 \in 0..Replies * FrameLen
    BY <1>1, Constant
  <2>5. <<>> \in Seq(1..HeadLen) /\ {} \subseteq 0..0
    OBVIOUS
  <2> QED
    BY <1>1, <2>1, <2>2, <2>3, <2>4, <2>5 DEF TypeOK
<1>3. InStep /\ Ends /\ Progress /\ DataKept
  BY <1>1, Constant DEF InStep, Start, Ends, Progress, InHead, DataKept
<1>4. LengthKept
  BY <1>1 DEF LengthKept, InHead
<1> QED
  BY <1>2, <1>3, <1>4 DEF IInv

\* What recv has returned when it was asked for at least one byte.
LEMMA Returned ==
  ASSUME TypeOK, NEW asked \in Nat, asked > 0, NEW n \in RecvReturns(asked), Received(n)
  PROVE  /\ n \in Int /\ n >= -1
         /\ n > 0 => /\ n <= asked /\ taken + n <= total /\ taken' = taken + n
                     /\ taken < total /\ ended' = ended
         /\ n <= 0 => /\ taken = total /\ taken' = taken
         /\ n = 0 => ended' = ended
         /\ n = -1 => ~ended /\ ended'
<1>1. total \in Nat /\ taken \in Nat /\ taken <= total /\ ended \in BOOLEAN
  BY Numerals DEF TypeOK
<1>2. \/ n \in 1..(total - taken) /\ n <= asked
      \/ n = 0 /\ taken = total
      \/ n = -1 /\ taken = total /\ ~ended
  BY <1>1 DEF RecvReturns
<1>3. taken' = (IF n > 0 THEN taken + n ELSE taken) /\ ended' = (ended \/ n = -1)
  BY DEF Received
<1>4. n # -1 => ended' = ended
  BY <1>1, <1>3
<1>5. n = -1 => ended'
  BY <1>3
<1> QED
  BY <1>1, <1>2, <1>3, <1>4, <1>5

\* A byte in the head of the next reply.
LEMMA ByteAt ==
  ASSUME TypeOK, NEW k \in 1..FrameLen
  PROVE  StreamByte(Start + k) = Reply[k]
  BY Numerals, StreamBytes DEF Start

\* A piece of the head leaves the length in its cells or, from then on, a byte
\* that is zero where the length of a payload is not.
LEMMA PieceOfHead ==
  ASSUME IInv, InHead, lost = {}, NEW n \in Nat, n > 0, n <= HeadLen - offset,
         taken < total, UNCHANGED count,
         head' = Overwrite(head, n), pieces' = Append(pieces, n)
  PROVE  IF LengthIntact(pieces') THEN InPlace' ELSE head'[INT + 1] = 0
<1>1. /\ INT \in Nat /\ INT >= 1 /\ HeadLen = INT + INT /\ HeadLen \in Nat
      /\ FrameLen \in Nat /\ FrameLen >= HeadLen /\ Len(Payload) \in 1..127
  BY Constant
<1>2. /\ TypeOK /\ offset \in Int /\ taken \in Nat /\ count \in Nat /\ Start \in Nat
      /\ head \in Cells /\ pieces \in Seq(1..HeadLen)
      /\ pc = "head" => offset = 0 /\ pieces = <<>>
      /\ pc = "headrest" => offset > 0 /\ pieces # <<>>
      /\ pc = "head" \/ pc = "headrest"
      /\ ~ended
  <2>1. /\ TypeOK /\ offset \in Int /\ taken \in Nat /\ count \in Nat /\ Start \in Nat
        /\ head \in Cells /\ pieces \in Seq(1..HeadLen)
    BY Numerals DEF IInv
  <2>2. pc = "head" => offset = 0
    BY DEF IInv, TypeOK
  <2>3. /\ pc = "head" => pieces = <<>>
        /\ pc = "headrest" => offset > 0 /\ pieces # <<>>
        /\ ended => taken = total
    BY DEF IInv, Ends
  <2>4. total \in Nat
    BY Numerals DEF IInv
  <2> QED
    BY <2>1, <2>2, <2>3, <2>4 DEF InHead
<1>3. taken = Start + offset
  BY <1>2 DEF IInv, InStep
<1>4. ASSUME NEW i \in 1..HeadLen
      PROVE  head'[i] = IF i <= n THEN Reply[offset + i] ELSE head[i]
  <2>1. head'[i] = IF i <= n THEN StreamByte(taken + i) ELSE head[i]
    BY DEF Overwrite
  <2>2. CASE i <= n
    <3>1. offset + i \in 1..FrameLen /\ taken + i = Start + (offset + i)
      BY <1>1, <1>2, <1>3, <2>2
    <3> QED
      BY <1>2, <2>1, <2>2, <3>1, ByteAt
  <2>3. CASE ~(i <= n)
    BY <2>1, <2>3
  <2> QED
    BY <2>2, <2>3
<1>5. INT + 1 \in 1..HeadLen /\ \A j \in (INT + 2)..HeadLen : j \in 1..HeadLen
  BY <1>1
<1>6. Reply[INT + 1] = Len(Payload) /\ \A j \in (INT + 2)..HeadLen : Reply[j] = 0
  BY ReplyBytes
<1>7. n <= INT => \A j \in (INT + 1)..HeadLen : head'[j] = head[j]
  BY <1>1, <1>4
<1>8. CASE pc = "head"
  <2>1. LengthIntact(pieces') <=> count > 0 \/ n > INT
    <3>1. pieces' = <<n>>
      BY <1>2, <1>8
    <3> QED
      BY <3>1 DEF LengthIntact
  <2>2. \A j \in (INT + 2)..HeadLen : head[j] = 0
    BY <1>2, <1>5, <1>8 DEF IInv, LengthKept, InPlace
  <2>3. CASE n > INT
    <3>1. head'[INT + 1] = Len(Payload)
      BY <1>1, <1>2, <1>4, <1>5, <1>6, <1>8, <2>3
    <3>2. \A j \in (INT + 2)..HeadLen : head'[j] = 0
      BY <1>1, <1>2, <1>4, <1>5, <1>6, <1>8, <2>2
    <3> QED
      BY <2>1, <2>3, <3>1, <3>2 DEF InPlace
  <2>4. CASE n <= INT
    <3>1. \A j \in (INT + 1)..HeadLen : head'[j] = head[j]
      BY <1>7, <2>4
    <3>2. INT + 1 \in (INT + 1)..HeadLen /\ \A j \in (INT + 2)..HeadLen : j \in (INT + 1)..HeadLen
      BY <1>1
    <3>3. CASE count = 0
      BY <1>1, <1>5, <1>8, <2>1, <2>4, <3>1, <3>2, <3>3 DEF IInv, LengthKept
    <3>4. CASE count > 0
      BY <1>8, <2>1, <3>1, <3>2, <3>4 DEF IInv, LengthKept, InPlace
    <3> QED
      BY <1>2, <3>3, <3>4
  <2> QED
    BY <1>1, <2>3, <2>4
<1>9. CASE pc = "headrest"
  <2>1. LengthIntact(pieces') <=> LengthIntact(pieces) /\ n <= INT
    <3>1. /\ Len(pieces') = Len(pieces) + 1 /\ Len(pieces) >= 1 /\ Len(pieces) \in Nat
          /\ pieces'[Len(pieces) + 1] = n
          /\ \A i \in 1..Len(pieces) : pieces'[i] = pieces[i]
      BY <1>1, <1>2, <1>9
    <3> QED
      BY <3>1 DEF LengthIntact
  <2>2. IF LengthIntact(pieces) THEN InPlace ELSE head[INT + 1] = 0
    BY <1>2, <1>9 DEF IInv, LengthKept
  <2>3. CASE n <= INT
    <3>1. \A j \in (INT + 1)..HeadLen : head'[j] = head[j]
      BY <1>7, <2>3
    <3>2. INT + 1 \in (INT + 1)..HeadLen /\ \A j \in (INT + 2)..HeadLen : j \in (INT + 1)..HeadLen
      BY <1>1
    <3> QED
      BY <2>1, <2>2, <2>3, <3>1, <3>2 DEF InPlace
  <2>4. CASE n > INT
    <3>1. offset + (INT + 1) \in (INT + 2)..HeadLen
      BY <1>1, <1>2, <1>9, <2>4
    <3>2. head'[INT + 1] = Reply[offset + (INT + 1)]
      BY <1>1, <1>4, <1>5, <2>4
    <3> QED
      BY <1>1, <1>6, <2>1, <2>4, <3>1, <3>2
  <2> QED
    BY <1>1, <2>3, <2>4
<1> QED
  BY <1>2, <1>8, <1>9
\* The offset and what the invariants say of it, in each state.
LEMMA Offset ==
  ASSUME TypeOK
  PROVE  /\ pc \in {"head", "payload"} => offset = 0
         /\ pc = "headrest" => offset \in -1..(HeadLen - 1)
         /\ pc = "payloadrest" => offset \in -1..(packetLen - 1)
         /\ pc = "parse" => offset \in 0..packetLen
  BY DEF TypeOK

LEMMA HeadTypes ==
  ASSUME TypeOK, NEW n \in Int
  PROVE  Overwrite(head, n) \in Cells
<1>1. \A i \in 1..HeadLen : head[i] \in 0..127 /\ taken + i \in Int
  <2>1. head \in Cells /\ taken \in Nat
    BY Numerals
  <2>2. \A i \in 1..HeadLen : head[i] \in 0..127
    BY <2>1 DEF Cells
  <2> QED
    BY <2>1, <2>2
<1>2. \A i \in 1..HeadLen : (IF i <= n THEN StreamByte(taken + i) ELSE head[i]) \in 0..127
  BY <1>1, StreamBytes
<1> QED
  BY <1>2 DEF Overwrite, Cells

\* Nothing comes while a head is read: the client waits for the end.
LEMMA NoPieceOfHead ==
  ASSUME IInv, InHead, NEW n \in Int, n \in {0, -1}, HeadPiece(n),
         taken = total, taken' = taken, n = 0 => ended' = ended, n = -1 => ~ended /\ ended'
  PROVE  IInv'
<1>1. /\ TypeOK /\ offset \in Int /\ INT \in Nat /\ HeadLen \in Nat
      /\ offset <= HeadLen - 1 /\ (offset < 0 => ended) /\ offset >= -1
      /\ head \in Cells /\ ended \in BOOLEAN
  <2>1. HeadLen >= 1
    BY Constant
  <2>2. TypeOK /\ offset \in Int /\ head \in Cells
    BY Numerals DEF IInv
  <2>3. (offset < 0 => ended) /\ ended \in BOOLEAN
    BY DEF IInv, Ends, TypeOK
  <2>4. offset = 0 \/ offset \in -1..(HeadLen - 1)
    BY <2>2, Offset DEF InHead
  <2> QED
    BY <2>1, <2>2, <2>3, <2>4, Constant
<1>2. /\ pc' = "headrest" /\ offset' = offset + n
      /\ UNCHANGED <<total, count, packetLen, data, lost, pieces>>
      /\ head' = Overwrite(head, n)
  BY <1>1 DEF HeadPiece, Short, OldHead
<1>3. head' = head
  <2>1. \A i \in 1..HeadLen : ~(i <= n)
    BY <1>1
  <2>2. head' = [i \in 1..HeadLen |-> head[i]]
    BY <1>2, <2>1 DEF Overwrite
  <2> QED
    BY <1>1, <2>2 DEF Cells
<1>4. offset' \in -1..(HeadLen - 1) /\ (offset' < 0 => ended')
  BY <1>1, <1>2
<1>5. TypeOK'
  BY <1>1, <1>2, <1>3, <1>4 DEF TypeOK
<1>6. InStep'
  <2>1. ~ended' => n = 0 /\ ~ended
    BY <1>1
  <2>2. lost = {} /\ ~ended' => taken = Start + offset'
    <3>1. pc = "head" => offset = 0
      BY <1>1, Offset
    <3>2. lost = {} /\ ~ended => taken = Start + offset
      BY <3>1, Numerals, <1>1 DEF IInv, InStep, InHead
    <3> QED
      BY <1>1, <1>2, <2>1, <3>2
  <2> QED
    BY <1>2, <2>2 DEF InStep, Start
<1>7. Ends' /\ Progress' /\ DataKept'
  <2>1. Ends'
    BY <1>1, <1>2, <1>4 DEF IInv, Ends, InHead, TypeOK
  <2>2. Progress'
    BY <1>2 DEF IInv, Progress, InHead
  <2> QED
    BY <1>2, <2>1, <2>2 DEF DataKept
<1>8. LengthKept'
  BY <1>2, <1>3 DEF IInv, LengthKept, InHead, InPlace, LengthIntact, Ends
<1> QED
  BY <1>5, <1>6, <1>7, <1>8 DEF IInv

LEMMA SomePieceOfHead ==
  ASSUME IInv, InHead, NEW n \in Int, n > 0, n <= HeadLen - offset, HeadPiece(n),
         taken + n <= total, taken' = taken + n, taken < total, ended' = ended
  PROVE  IInv'
<1>1. /\ TypeOK /\ offset \in Int /\ offset >= 0 /\ n \in Nat
      /\ INT \in Nat /\ INT >= 1 /\ HeadLen \in Nat /\ HeadLen = INT + INT
      /\ total \in Nat /\ taken \in Nat /\ count \in Nat /\ Start \in Nat
      /\ pieces \in Seq(1..HeadLen) /\ ~ended
      /\ Replies * FrameLen \in Nat /\ total <= Replies * FrameLen
  <2>1. /\ TypeOK /\ total \in Nat /\ taken \in Nat /\ count \in Nat /\ Start \in Nat
        /\ offset \in Int /\ pieces \in Seq(1..HeadLen) /\ total <= Replies * FrameLen
    BY Numerals DEF IInv
  <2>2. (pc = "headrest" => offset > 0) /\ (ended => taken = total)
    BY DEF IInv, Ends
  <2>3. pc = "head" => offset = 0
    BY <2>1, Offset
  <2>4. offset >= 0 /\ ~ended
    BY <2>1, <2>2, <2>3 DEF InHead
  <2> QED
    BY <2>1, <2>4, Constant
<1>2. /\ UNCHANGED <<total, count>> /\ head' = Overwrite(head, n)
      /\ pieces' = Append(pieces, n)
  BY DEF HeadPiece, OldHead
<1>3. head' \in Cells /\ pieces' \in Seq(1..HeadLen) /\ pieces' # <<>>
  BY <1>1, <1>2, HeadTypes
<1>4. lost = {} => IF LengthIntact(pieces') THEN InPlace' ELSE head'[INT + 1] = 0
  BY <1>1, <1>2, PieceOfHead
<1>5. lost = {} => taken = Start + offset
  BY <1>1, Offset DEF IInv, InStep, InHead
<1>6. LengthIntact(pieces') <=> LengthIntact(pieces)'
  BY <1>2 DEF LengthIntact
<1>7. count <= taken /\ lost \subseteq 0..(count - 1)
  BY DEF IInv, Progress
<1>8. CASE Short(n, HeadLen, offset)
  <2>1. /\ pc' = "headrest" /\ offset' = offset + n /\ offset + n < HeadLen
        /\ UNCHANGED <<packetLen, data, lost>>
    BY <1>1, <1>8 DEF HeadPiece, Short
  <2>2. TypeOK'
    <3>1. offset' \in -1..(HeadLen - 1) /\ taken' \in 0..total
      BY <1>1, <2>1
    <3> QED
      BY <1>1, <1>2, <1>3, <2>1, <3>1 DEF TypeOK, Cells
  <2>3. InStep'
    <3>1. lost' = {} => taken' = Start' + offset'
      BY <1>1, <1>2, <1>5, <2>1 DEF Start
    <3> QED
      BY <2>1, <3>1 DEF InStep
  <2>4. Ends' /\ Progress' /\ DataKept'
    BY <1>1, <1>2, <1>3, <1>7, <2>1 DEF Ends, Progress, InHead, DataKept
  <2>5. LengthKept'
    BY <1>2, <1>4, <1>6, <2>1 DEF LengthKept, InHead
  <2> QED
    BY <2>2, <2>3, <2>4, <2>5 DEF IInv
<1>9. CASE ~Short(n, HeadLen, offset)
  <2>1. /\ pc' = "payload" /\ offset' = 0 /\ data' = <<>> /\ n = HeadLen - offset
        /\ packetLen' = LengthIn(head')
        /\ lost' = IF LengthIntact(pieces') THEN lost ELSE lost \cup {count}
    BY <1>1, <1>9 DEF HeadPiece, Short
  <2>2. packetLen' \in Nat /\ lost' \subseteq 0..count
    <3>1. lost \subseteq 0..count
      BY <1>1, <1>7
    <3> QED
      BY <1>1, <1>3, <2>1, <3>1, LengthInCells
  <2>3. TypeOK'
    <3>1. DOMAIN data' \in {1..m : m \in 0..total} /\ \A i \in DOMAIN data' : FALSE
      <4>1. DOMAIN data' = 1..0 /\ 0 \in 0..total
        BY <1>1, <2>1
      <4> QED
        BY <4>1
    <3>2. taken' \in 0..total
      BY <1>1
    <3> QED
      BY <1>1, <1>2, <1>3, <2>1, <2>2, <3>1, <3>2 DEF TypeOK, Cells
  <2>4. lost = {} => (packetLen' = Len(Payload) <=> LengthIntact(pieces'))
    <3>1. LengthIntact(pieces') /\ lost = {} => packetLen' = Len(Payload)
      BY <1>3, <1>4, <2>1, LengthInCells DEF InPlace
    <3>2. ~LengthIntact(pieces') /\ lost = {} => packetLen' # Len(Payload)
      BY <1>3, <1>4, <2>1, LengthInCells, Constant
    <3> QED
      BY <3>1, <3>2
  <2>5. lost' = {} => lost = {} /\ LengthIntact(pieces')
    BY <2>1
  <2>6. lost' = {count} => lost = {} /\ ~LengthIntact(pieces')
    BY <1>1, <1>7, <2>1
  <2>7. InStep'
    <3>1. lost' = {} => taken' = Start' + HeadLen
      <4>1. Start' = Start
        BY <1>2 DEF Start
      <4> QED
        BY <1>1, <1>5, <2>1, <2>5, <4>1
    <3> QED
      BY <1>2, <2>1, <2>4, <2>5, <2>6, <3>1 DEF InStep
  <2>8. Ends' /\ Progress' /\ DataKept'
    BY <1>1, <1>2, <1>7, <2>1 DEF Ends, Progress, InHead, DataKept
  <2>9. LengthKept'
    BY <1>4, <2>1, <2>5 DEF LengthKept, InHead
  <2> QED
    BY <2>3, <2>7, <2>8, <2>9 DEF IInv
<1> QED
  BY <1>8, <1>9

LEMMA HeadStep == IInv /\ (RecvHead \/ RecvHeadRest) => IInv'
<1> SUFFICES ASSUME IInv, RecvHead \/ RecvHeadRest PROVE IInv'
  OBVIOUS
<1>1. /\ TypeOK /\ HeadLen \in Nat /\ HeadLen >= 1 /\ offset \in Int /\ InHead
      /\ pc = "head" => offset = 0
      /\ offset <= HeadLen - 1 /\ offset >= -1
  <2>1. TypeOK /\ offset \in Int /\ HeadLen \in Nat /\ HeadLen >= 1
    BY Numerals, Constant DEF IInv
  <2>2. pc = "head" \/ pc = "headrest"
    BY DEF RecvHead, RecvHeadRest
  <2>3. /\ pc = "head" => offset = 0
        /\ pc = "headrest" => offset \in -1..(HeadLen - 1)
    BY <2>1, Offset
  <2> QED
    BY <2>1, <2>2, <2>3 DEF InHead
<1>2. ASSUME NEW n \in RecvReturns(HeadLen - offset), Received(n), HeadPiece(n)
      PROVE  IInv'
  <2>1. HeadLen - offset \in Nat /\ HeadLen - offset > 0
    BY <1>1
  <2>2. /\ n \in Int /\ n >= -1
        /\ n > 0 => /\ n <= HeadLen - offset /\ taken + n <= total /\ taken' = taken + n
                    /\ taken < total /\ ended' = ended
        /\ n <= 0 => /\ taken = total /\ taken' = taken
        /\ n = 0 => ended' = ended
        /\ n = -1 => ~ended /\ ended'
    BY <1>1, <1>2, <2>1, Returned
  <2>3. CASE n > 0
    BY <1>1, <1>2, <2>2, <2>3, SomePieceOfHead
  <2>4. CASE ~(n > 0)
    <3>1. n \in {0, -1}
      BY <2>2, <2>4
    <3> QED
      BY <1>1, <1>2, <2>2, <2>4, <3>1, NoPieceOfHead
  <2> QED
    BY <2>3, <2>4
<1>3. ASSUME NEW n \in RecvReturns(HeadLen), Received(n), n < 0,
             UNCHANGED <<total, head, packetLen, data, offset, count, pieces, lost, pc>>
      PROVE  IInv'
  <2>1. taken = total /\ taken' = taken /\ ended' /\ ~ended
    <3>1. n \in Int /\ n >= -1 /\ (n <= 0 => taken = total /\ taken' = taken)
            /\ (n = -1 => ~ended /\ ended')
      BY <1>1, <1>3, Returned
    <3> QED
      BY <1>3, <3>1
  <2>2. TypeOK'
    BY <1>3, <2>1 DEF IInv, TypeOK, Received
  <2>3. InStep' /\ Ends' /\ Progress' /\ DataKept'
    BY <1>3, <2>1 DEF IInv, InStep, Start, Ends, Progress, InHead, DataKept
  <2>4. LengthKept'
    BY <1>3 DEF IInv, LengthKept, InHead, InPlace, LengthIntact
  <2> QED
    BY <2>2, <2>3, <2>4 DEF IInv
<1>4. CASE RecvHead
  <2>1. PICK n \in RecvReturns(HeadLen) :
          /\ Received(n)
          /\ IF n < 0
               THEN UNCHANGED <<total, head, packetLen, data, offset, count,
                                pieces, lost, pc>>
               ELSE HeadPiece(n)
    BY <1>4 DEF RecvHead
  <2>2. offset = 0 /\ HeadLen - offset = HeadLen
    BY <1>1, <1>4 DEF RecvHead
  <2> QED
    BY <1>2, <1>3, <2>1, <2>2
<1>5. CASE RecvHeadRest
  BY <1>2, <1>5 DEF RecvHeadRest, Rest
<1> QED
  BY <1>4, <1>5
\* The buffer is filled from its first cell on, whatever it holds.
LEMMA DataTypes ==
  ASSUME TypeOK, NEW n \in Int, taken + n <= total, data' = OverwriteData(n), UNCHANGED total
  PROVE  /\ DOMAIN data' \in {1..m : m \in 0..total'}
         /\ \A i \in DOMAIN data' : data'[i] \in 1..total'
<1>1. total \in Nat /\ taken \in Nat
  BY Numerals
<1>2. PICK k \in 0..total : DOMAIN data = 1..k
  BY DEF TypeOK
<1>3. \A i \in 1..k : data[i] \in 1..total
  BY <1>2 DEF TypeOK
<1>4. data' = [i \in 1..k \cup 1..n |-> IF i <= n THEN taken + i ELSE data[i]]
  BY <1>2 DEF OverwriteData
<1>5. \E m \in 0..total : 1..k \cup 1..n = 1..m
  <2>1. CASE n <= k
    <3>1. 1..k \cup 1..n = 1..k
      BY <2>1
    <3> QED
      BY <3>1
  <2>2. CASE n > k
    <3>1. 1..k \cup 1..n = 1..n /\ n \in 0..total
      BY <1>1, <2>2
    <3> QED
      BY <3>1
  <2> QED
    BY <1>1, <2>1, <2>2
<1>6. ASSUME NEW i \in 1..k \cup 1..n PROVE data'[i] \in 1..total
  <2>1. data'[i] = IF i <= n THEN taken + i ELSE data[i]
    BY <1>4
  <2>2. i \in Int /\ i >= 1 /\ (~(i <= n) => i \in 1..k)
    OBVIOUS
  <2> QED
    BY <1>1, <1>3, <2>1, <2>2
<1>7. DOMAIN data' = 1..k \cup 1..n
  BY <1>4
<1> QED
  BY <1>5, <1>6, <1>7

LEMMA PieceOfPayload ==
  ASSUME IInv, pc \in {"payload", "payloadrest"}, NEW n \in Int, n >= -1,
         n <= packetLen - offset, PayloadPiece(n), taken + n <= total, ended \in BOOLEAN,
         n > 0 => taken' = taken + n /\ taken < total /\ ended' = ended,
         n <= 0 => taken' = taken /\ (taken = total \/ (packetLen = 0 /\ n = 0)),
         n = 0 => ended' = ended, n = -1 => ~ended /\ ended'
  PROVE  IInv'
<1>1. /\ TypeOK /\ offset \in Int /\ packetLen \in Nat /\ HeadLen \in Nat
      /\ total \in Nat /\ taken \in Nat /\ count \in Nat /\ Start \in Nat /\ taken <= total
  BY Numerals, Constant DEF IInv
<1>2. /\ pc = "payload" => offset = 0 /\ data = <<>>
      /\ pc = "payloadrest" => offset \in -1..(packetLen - 1) /\ (taken < total => offset > 0)
      /\ offset < 0 => ended
      /\ ended => taken = total
  BY <1>1, Offset DEF IInv, Ends
<1>3. /\ UNCHANGED <<total, head, packetLen, count, pieces, lost>> /\ data' = OverwriteData(n)
      /\ Start' = Start
  BY DEF PayloadPiece, Start
<1>4. /\ DOMAIN data' \in {1..m : m \in 0..total'}
      /\ \A i \in DOMAIN data' : data'[i] \in 1..total'
      /\ taken' \in 0..total' /\ ended' \in BOOLEAN
  <2>1. n = 0 \/ n = -1 \/ n > 0
    BY <1>1
  <2> QED
    <3>1. ended' \in BOOLEAN
      BY <2>1, Zenon
    <3>2. taken' \in 0..total
      BY <1>1, <2>1
    <3>3. total' = total
      BY <1>3
    <3> QED
      BY <1>1, <1>3, <3>1, <3>2, <3>3, DataTypes
<1>5. count + 1 <= taken /\ taken <= taken'
  <2>1. count + 1 <= taken
    BY DEF IInv, Progress, InHead
  <2> QED
    BY <1>1, <2>1
<1>6. lost = {} => /\ packetLen = Len(Payload)
                   /\ ~ended => taken = Start + HeadLen + offset
  BY <1>1, <1>2 DEF IInv, InStep
<1>7. lost = {} => InPlace
  BY DEF IInv, LengthKept, InHead
<1>8. InPlace' <=> InPlace
  BY <1>3 DEF InPlace
<1>9. CASE Short(n, packetLen, offset)
  <2>1. pc' = "payloadrest" /\ offset' = offset + n /\ n < packetLen - offset
    BY <1>9 DEF PayloadPiece, Short
  <2>2. offset' < 0 => ended'
    BY <1>1, <1>2, <2>1
  <2>3. offset' \in -1..(packetLen' - 1)
    BY <1>1, <1>2, <1>3, <2>1
  <2>4. TypeOK'
    BY <1>1, <1>3, <1>4, <2>1, <2>3 DEF TypeOK
  <2>5. taken' < total' => offset' > 0
    BY <1>1, <1>2, <1>3, <2>1
  <2>6. lost' = {} /\ ~ended' => taken' = Start' + HeadLen + offset'
    BY <1>1, <1>2, <1>3, <1>6, <2>1
  <2>7. InStep'
    BY <1>3, <1>6, <2>1, <2>6 DEF InStep
  <2>8. Ends'
    BY <1>1, <1>2, <1>3, <2>1, <2>2, <2>5 DEF Ends
  <2>9. Progress' /\ DataKept'
    BY <1>1, <1>3, <1>5, <2>1 DEF Progress, InHead, DataKept
  <2>10. LengthKept'
    BY <1>3, <1>7, <1>8, <2>1 DEF LengthKept, InHead
  <2> QED
    BY <2>4, <2>7, <2>8, <2>9, <2>10 DEF IInv
<1>10. CASE ~Short(n, packetLen, offset)
  <2>1. pc' = "parse" /\ offset' = offset /\ n = packetLen - offset
    BY <1>1, <1>10 DEF PayloadPiece, Short
  <2>2. offset \in 0..packetLen
    BY <1>1, <1>2, <2>1
  <2>3. TypeOK'
    BY <1>1, <1>3, <1>4, <2>1, <2>2 DEF TypeOK
  <2>4. ASSUME lost = {}
        PROVE  /\ n > 0 /\ taken = Start + HeadLen + offset
               /\ taken' = Start + FrameLen
    <3>0. packetLen = Len(Payload)
      BY <1>6, <2>4, Zenon
    <3>1. packetLen = Len(Payload) /\ packetLen >= 1 /\ FrameLen = HeadLen + packetLen
      BY <3>0, PayloadLength, Constant, Zenon
    <3>2. n > 0
      BY <1>1, <1>2, <2>1, <2>2, <3>1
    <3>3. taken = Start + HeadLen + offset
      BY <1>1, <1>2, <1>6, <2>4, <3>2
    <3> QED
      BY <1>1, <2>1, <3>1, <3>2, <3>3
  <2>5. InStep'
    BY <1>3, <1>6, <2>1, <2>4 DEF InStep
  <2>6. Ends'
    BY <1>1, <1>2, <1>3, <2>1, <2>2 DEF Ends
  <2>7. Progress'
    BY <1>1, <1>3, <1>5, <2>1 DEF Progress, InHead
  <2>8. LengthKept'
    BY <1>3, <1>7, <1>8, <2>1 DEF LengthKept, InHead
  <2>9. ASSUME lost = {}
        PROVE  IF offset = 0 THEN data' = [i \in 1..Len(Payload) |-> Start + HeadLen + i]
                             ELSE data'[1] # Start + HeadLen + 1
    <3>1. data' = [i \in DOMAIN data \cup 1..n |-> IF i <= n THEN taken + i ELSE data[i]]
      BY <1>3 DEF OverwriteData
    <3>2. n > 0 /\ taken = Start + HeadLen + offset /\ packetLen = Len(Payload)
      BY <1>6, <2>4, <2>9
    <3>3. CASE offset = 0
      <4>1. n = Len(Payload) /\ taken = Start + HeadLen
        BY <1>1, <2>1, <3>2, <3>3
      <4>2. pc = "payload"
        BY <1>2, <2>4, <2>9, <3>3
      <4>3. DOMAIN data \cup 1..n = 1..n
        BY <1>2, <4>2
      <4>4. data' = [i \in 1..n |-> IF i <= n THEN taken + i ELSE data[i]]
        BY <3>1, <4>3
      <4>5. \A i \in 1..n : i <= n
        OBVIOUS
      <4>6. data' = [i \in 1..n |-> taken + i]
        BY <4>4, <4>5
      <4> QED
        BY <3>3, <4>1, <4>6
    <3>4. CASE offset # 0
      <4>1. data'[1] = taken + 1
        BY <3>1, <3>2
      <4> QED
        BY <1>1, <3>2, <3>4, <4>1
    <3> QED
      BY <3>3, <3>4
  <2>10. DataKept'
    BY <1>3, <2>1, <2>9 DEF DataKept
  <2> QED
    BY <2>3, <2>5, <2>6, <2>7, <2>8, <2>10 DEF IInv
<1> QED
  BY <1>9, <1>10

LEMMA PayloadStep == IInv /\ (RecvPayload \/ RecvPayloadRest) => IInv'
<1> SUFFICES ASSUME IInv, RecvPayload \/ RecvPayloadRest PROVE IInv'
  OBVIOUS
<1>1. /\ TypeOK /\ offset \in Int /\ packetLen \in Nat /\ taken \in Nat /\ total \in Nat
      /\ taken <= total /\ ended \in BOOLEAN
      /\ pc = "payload" => offset = 0
      /\ pc = "payloadrest" => offset \in -1..(packetLen - 1)
      /\ pc \in {"payload", "payloadrest"}
  BY Numerals, Offset DEF IInv, TypeOK, RecvPayload, RecvPayloadRest
<1>2. ASSUME NEW n \in RecvReturns(packetLen - offset), Received(n), PayloadPiece(n),
             packetLen - offset > 0 \/ n >= 0
      PROVE  IInv'
  <2>1. packetLen - offset \in Nat
    BY <1>1
  <2>2. CASE packetLen - offset > 0
    <3>1. /\ n \in Int /\ n >= -1
          /\ n > 0 => /\ n <= packetLen - offset /\ taken + n <= total /\ taken' = taken + n
                      /\ taken < total /\ ended' = ended
          /\ n <= 0 => /\ taken = total /\ taken' = taken
          /\ n = 0 => ended' = ended
          /\ n = -1 => ~ended /\ ended'
      BY <1>1, <1>2, <2>1, <2>2, Returned
    <3>2. n <= packetLen - offset /\ taken + n <= total
      BY <1>1, <2>1, <2>2, <3>1
    <3> QED
      BY <1>1, <1>2, <3>1, <3>2, PieceOfPayload
  <2>3. CASE ~(packetLen - offset > 0)
    <3>1. packetLen = 0 /\ offset = 0
      BY <1>1, <2>3
    <3>2. n = 0 /\ taken' = taken /\ ended' = ended
      BY <1>1, <1>2, <2>1, <2>3 DEF RecvReturns, Received
    <3> QED
      BY <1>1, <1>2, <3>1, <3>2, PieceOfPayload
  <2> QED
    BY <2>2, <2>3
<1>3. ASSUME NEW n \in RecvReturns(packetLen), Received(n), n < 0, pc = "payload",
             UNCHANGED <<total, head, packetLen, data, offset, count, pieces, lost, pc>>
      PROVE  IInv'
  <2>1. taken = total /\ taken' = taken /\ ended' /\ n = -1
    <3>1. n \notin 1..(total - taken) /\ n # 0
      BY <1>3
    <3>2. n = -1 /\ taken = total
      BY <3>1 DEF RecvReturns
    <3>3. ended'
      BY <1>3, <3>2, Zenon DEF Received
    <3>4. taken' = taken
      BY <1>3, <3>2 DEF Received
    <3> QED
      BY <3>2, <3>3, <3>4
  <2>2. TypeOK'
    BY <1>3, <2>1 DEF IInv, TypeOK, Received
  <2>3. InStep' /\ Ends' /\ Progress' /\ DataKept'
    BY <1>3, <2>1 DEF IInv, InStep, Start, Ends, Progress, InHead, DataKept
  <2>4. LengthKept'
    BY <1>3 DEF IInv, LengthKept, InHead, InPlace, LengthIntact
  <2> QED
    BY <2>2, <2>3, <2>4 DEF IInv
<1>4. CASE RecvPayload
  <2>1. PICK n \in RecvReturns(packetLen) :
          /\ Received(n)
          /\ IF n < 0
               THEN UNCHANGED <<total, head, packetLen, data, offset, count,
                                pieces, lost, pc>>
               ELSE PayloadPiece(n)
    BY <1>4 DEF RecvPayload
  <2>2. pc = "payload" /\ packetLen - offset = packetLen
    BY <1>1, <1>4 DEF RecvPayload
  <2>3. n \in Int
    BY <1>1 DEF RecvReturns
  <2> QED
    BY <1>2, <1>3, <2>1, <2>2, <2>3
<1>5. CASE RecvPayloadRest
  <2>1. PICK n \in RecvReturns(packetLen - offset) : Received(n) /\ PayloadPiece(n)
    BY <1>5 DEF RecvPayloadRest, Rest
  <2>2. packetLen - offset > 0
    BY <1>1, <1>5 DEF RecvPayloadRest
  <2> QED
    BY <1>2, <2>1, <2>2
<1> QED
  BY <1>4, <1>5

LEMMA CountStep == IInv /\ CountReply => IInv'
<1> SUFFICES ASSUME IInv, CountReply PROVE IInv'
  OBVIOUS
<1>1. /\ TypeOK /\ count \in Nat /\ total \in Nat /\ taken \in Nat /\ taken <= total
      /\ total <= Replies * FrameLen /\ Replies * FrameLen \in Nat
      /\ (count + 1) * FrameLen = Start + FrameLen
  BY Numerals, Constant DEF IInv
<1>2. /\ pc = "parse" /\ count' = count + 1 /\ offset' = 0 /\ pieces' = <<>> /\ pc' = "head"
      /\ UNCHANGED <<total, taken, head, packetLen, data, ended, lost>>
  BY DEF CountReply
<1>3. Start' = Start + FrameLen
  BY <1>1, <1>2 DEF Start
<1>4. count + 1 <= taken
  BY <1>2 DEF IInv, Progress, InHead
<1>5. lost \subseteq 0..count
  BY DEF IInv, TypeOK
<1>6. TypeOK'
  <2>1. lost' \subseteq 0..count' /\ count' \in 0..Replies * FrameLen
    BY <1>1, <1>2, <1>4, <1>5
  <2>2. pieces' \in Seq(1..HeadLen)
    BY <1>2
  <2> QED
    BY <1>1, <1>2, <2>1, <2>2 DEF TypeOK
<1>7. InStep'
  BY <1>2, <1>3 DEF IInv, InStep
<1>8. Ends' /\ DataKept'
  BY <1>2 DEF IInv, Ends, DataKept
<1>9. Progress'
  BY <1>1, <1>2, <1>4, <1>5 DEF Progress, InHead
<1>10. LengthKept'
  BY <1>1, <1>2 DEF IInv, LengthKept, InHead, InPlace
<1> QED
  BY <1>6, <1>7, <1>8, <1>9, <1>10 DEF IInv

LEMMA Stutter == IInv /\ UNCHANGED vars => IInv'
<1> SUFFICES ASSUME IInv, UNCHANGED vars PROVE IInv'
  OBVIOUS
<1>1. TypeOK'
  BY DEF IInv, vars, TypeOK
<1>2. InStep' /\ Ends' /\ Progress' /\ DataKept'
  BY DEF IInv, vars, InStep, Start, Ends, Progress, InHead, DataKept
<1>3. LengthKept'
  BY DEF IInv, vars, LengthKept, InHead, InPlace, LengthIntact
<1> QED
  BY <1>1, <1>2, <1>3 DEF IInv

LEMMA Invariance == Spec => []IInv
<1>1. IInv /\ [Next]_vars => IInv'
  BY HeadStep, PayloadStep, CountStep, Stutter DEF Next
<1> QED
  BY InitInv, <1>1, PTL DEF Spec
------------------------------------------------------------------------------
\* The variables of recvf keep their types: no length is negative, no offset is
\* beyond what is read, and the data is written from the first cell on.
THEOREM TypeCorrect == Spec => []TypeOK
<1>1. IInv => TypeOK
  BY DEF IInv
<1> QED
  BY Invariance, <1>1, PTL

\* The client keeps its place in the stream as long as every head that came in
\* pieces left its length, and loses it with the first that does not, for every
\* length of the payload.
THEOREM InStepCorrect == Spec => []InStep
<1>1. IInv => InStep
  BY DEF IInv
<1> QED
  BY Invariance, <1>1, PTL

\* A payload reaches the parser as it was sent if and only if it came in one
\* piece.
THEOREM OnePieceCorrect == Spec => []RightIfInOnePiece
<1>1. ASSUME IInv, pc = "parse", lost = {}
      PROVE  data = [i \in 1..Len(Payload) |-> Start + HeadLen + i] <=> offset = 0
  <2>1. IF offset = 0 THEN data = [i \in 1..Len(Payload) |-> Start + HeadLen + i]
                      ELSE data[1] # Start + HeadLen + 1
    BY <1>1 DEF IInv, DataKept
  <2>2. 1 \in 1..Len(Payload)
    BY PayloadLength, Zenon
  <2> QED
    BY <2>1, <2>2
<1>2. IInv => RightIfInOnePiece
  BY <1>1 DEF RightIfInOnePiece
<1> QED
  BY Invariance, <1>2, PTL
===============================================================================
