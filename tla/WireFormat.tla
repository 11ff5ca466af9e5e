------------------------------ MODULE WireFormat ------------------------------
(***************************************************************************)
(* How the vendored protobuf runtime puts integers in bytes. A byte is a   *)
(* number of 0..255 and a string of bytes a sequence of them. A uint32 is  *)
(* the int32 with the same bits, since that is what the code converts it   *)
(* to wherever it compares it, and since TLC has no larger integers. A     *)
(* 64-bit value is the sequence of its base-128 digits, lowest first.      *)
(***************************************************************************)
EXTENDS Integers, Sequences, FiniteSetsExt

Byte == 0..255

\* A set and not an interval, whose size TLC could not count.
Int32 == {n \in Int : -2147483647 - 1 <= n /\ n <= 2147483647}

kMaxVarintBytes == 10

\* The weights of the base-128 digits that 32 bits have: the powers of 128.
Weight == <<1, 128, 16384, 2097152, 268435456>>

\* The 5 base-128 digits of an int32 taken as a uint32, the fifth with the 4
\* bits that are left, and its 10 digits when extended to 64 bits.
Digits32(n) ==
  [i \in 1..5 |-> (n \div Weight[i]) % (IF i = 5 THEN 16 ELSE 128)]
Digits64(n) ==
  [i \in 1..kMaxVarintBytes |->
     IF i <= 5 THEN (n \div Weight[i]) % 128
     ELSE IF n >= 0 THEN 0 ELSE IF i < kMaxVarintBytes THEN 127 ELSE 1]

\* The shortest varint of a value, every byte but the last with its top bit.
WriteVarint(d) ==
  LET n == Max({1} \cup {i \in 1..Len(d) : d[i] # 0})
  IN [i \in 1..n |-> IF i < n THEN d[i] + 128 ELSE d[i]]

WriteVarint32(n)             == WriteVarint(Digits32(n))
WriteVarint32SignExtended(n) == WriteVarint(Digits64(n))

\* The ends of the varint at position p of buf: none if it is longer than 10
\* bytes or cut by the end of the string.
VarintEnds(buf, p) ==
  {q \in p..(p + kMaxVarintBytes - 1) : q <= Len(buf) /\ buf[q] < 128}

\* The digits of that varint, the tenth cut to the single bit it stands for.
ReadVarint64(buf, p) ==
  LET last == Min(VarintEnds(buf, p))
  IN [i \in 1..(last - p + 1) |->
        IF i = kMaxVarintBytes THEN buf[p + i - 1] % 2 ELSE buf[p + i - 1] % 128]

\* The low 32 bits of a 64-bit value as an int32.
ToInt32(d) ==
  LET D(i) == IF i <= Len(d) THEN d[i] ELSE 0
      top  == D(5) % 16
  IN D(1) + D(2) * Weight[2] + D(3) * Weight[3] + D(4) * Weight[4]
       + (IF top < 8 THEN top ELSE top - 16) * Weight[5]

ReadVarint32(buf, p) == ToInt32(ReadVarint64(buf, p))

\* WireFormatLite: the type of the value that follows a tag, and the tag that
\* ends the group a tag starts.
GetTagWireType(tag) == tag % 8

WIRETYPE_VARINT           == 0
WIRETYPE_FIXED64          == 1
WIRETYPE_LENGTH_DELIMITED == 2
WIRETYPE_START_GROUP      == 3
WIRETYPE_END_GROUP        == 4
WIRETYPE_FIXED32          == 5

EndTag(tag) == tag - WIRETYPE_START_GROUP + WIRETYPE_END_GROUP
==============================================================================
