------------------------ MODULE TestMsgHandler_proofs -------------------------
(***************************************************************************)
(* Proofs about TestMsgHandler.tla, for all messages, all payloads and     *)
(* every limit of nesting. They go from the bytes upwards:                 *)
(*   - a varint: its digits are read back as they were written (ReadBack), *)
(*     it has the size the code computes (SizeOf32, SizeOfSignExtended) and *)
(*     only that of 0 has a zero byte (NoZeroByte);                        *)
(*   - a C string is the payload cut before a zero byte (CutOf), so the    *)
(*     parser finds a field whole, or cut, but never another one           *)
(*     (ReadsVarint, ReadsString, ReadsFixed);                             *)
(*   - a string can be read (Reads) if there is a set of places, each a    *)
(*     position with the open groups and the message so far, that the      *)
(*     fields of the string lead through to its end. Serialized messages   *)
(*     can (SerializedIsRead), and so can what the server keeps of unknown *)
(*     fields, behind whatever comes before it (UnknownAdded);             *)
(*   - the invariant IInv says that the parser is at such a place. Its     *)
(*     theorems are at the end of the module.                              *)
(***************************************************************************)
EXTENDS TestMsgHandler, NaturalsInduction, WellFoundedInduction, SequenceTheorems,
        FiniteSetTheorems, TLAPS

\* Every set of natural numbers has a least one.
LEMMA MinOf ==
  ASSUME NEW S \in SUBSET Nat, S # {}
  PROVE  Min(S) \in S /\ \A y \in S : Min(S) <= y
<1> DEFINE R == OpToRel(<, Nat)
<1>1. \E n \in S : \A m \in S : ~(<<m, n>> \in R)
  BY WFMin, NatLessThanWellFounded, Zenon
<1>2. \A x, y \in Nat : x < y => <<x, y>> \in R
  BY Zenon DEF OpToRel
<1> HIDE DEF R
<1>3. PICK n \in S : \A m \in S : ~(<<m, n>> \in R)
  BY <1>1
<1>4. ASSUME NEW y \in S PROVE n <= y
  <2>1. n \in Nat /\ y \in Nat /\ ~(<<y, n>> \in R)
    BY <1>3
  <2>2. ~(y < n)
    BY <1>2, <2>1, Zenon
  <2> QED
    BY <2>1, <2>2
<1> QED
  BY <1>4 DEF Min

LEMMA MaxOf ==
  ASSUME NEW k \in Nat, NEW S \in SUBSET (0..k), S # {}
  PROVE  Max(S) \in S /\ \A y \in S : Max(S) >= y
<1> DEFINE T == {n \in Nat : k - n \in S}
<1>1. T # {}
  <2>1. PICK x \in S : TRUE
    OBVIOUS
  <2>2. k - x \in T
    BY <2>1
  <2> QED
    BY <2>2
<1>2. Min(T) \in T /\ \A y \in T : Min(T) <= y
  BY <1>1, MinOf
<1> HIDE DEF T
<1>3. \A y \in S : k - y \in T
  BY DEF T
<1>4. k - Min(T) \in S
  BY <1>2 DEF T
<1>5. \A y \in S : k - Min(T) >= y
  BY <1>2, <1>3 DEF T
<1> QED
  BY <1>4, <1>5 DEF Max
-----------------------------------------------------------------------------
\* The digits of a 64-bit value, with or without zeros at the top.
Digits ==
  {d \in Seq(0..127) : Len(d) \in 1..kMaxVarintBytes /\ (Len(d) = 10 => d[10] <= 1)}

\* The digits that are written.
Significant(d) == Max({1} \cup {i \in 1..Len(d) : d[i] # 0})

Trim(d) == [i \in 1..Significant(d) |-> d[i]]

LEMMA SignificantDigits ==
  ASSUME NEW d \in Digits
  PROVE  /\ Significant(d) \in 1..Len(d)
         /\ Significant(d) = 1 \/ d[Significant(d)] # 0
         /\ \A i \in 1..Len(d) : i > Significant(d) => d[i] = 0
<1> DEFINE S == {1} \cup {i \in 1..Len(d) : d[i] # 0}
<1>1. Len(d) \in Nat /\ Len(d) >= 1
  BY DEF Digits
<1>2. S \in SUBSET (0..Len(d)) /\ S # {}
  BY <1>1
<1>3. Max(S) \in S /\ \A y \in S : Max(S) >= y
  BY <1>1, <1>2, MaxOf
<1>4. Significant(d) = Max(S)
  BY DEF Significant
<1> DEFINE n == Significant(d)
<1>5. n \in S /\ \A y \in S : n >= y
  BY <1>3, <1>4, Zenon
<1> HIDE DEF n
<1>6. n \in 1..Len(d) /\ (n = 1 \/ d[n] # 0)
  BY <1>1, <1>5
<1>7. ASSUME NEW i \in 1..Len(d), i > n, d[i] # 0 PROVE FALSE
  <2>1. i \in S
    BY <1>7
  <2> HIDE DEF S
  <2> QED
    BY <1>1, <1>5, <1>6, <1>7, <2>1
<1> QED
  BY <1>6, <1>7 DEF n

LEMMA Written ==
  ASSUME NEW d \in Digits
  PROVE  /\ WriteVarint(d) \in String
         /\ Len(WriteVarint(d)) = Significant(d)
         /\ \A i \in 1..Significant(d) :
              WriteVarint(d)[i] = IF i < Significant(d) THEN d[i] + 128 ELSE d[i]
<1> DEFINE n == Significant(d)
<1>1. n \in 1..Len(d) /\ Len(d) \in Nat
  BY SignificantDigits DEF Digits
<1>2. WriteVarint(d) = [i \in 1..n |-> IF i < n THEN d[i] + 128 ELSE d[i]]
  BY DEF WriteVarint, Significant
<1> HIDE DEF n
<1>3. ASSUME NEW i \in 1..n PROVE (IF i < n THEN d[i] + 128 ELSE d[i]) \in Byte
  <2>1. d \in Seq(0..127) /\ i \in 1..Len(d)
    BY <1>1 DEF Digits
  <2>2. d[i] \in 0..127
    BY <2>1, ElementOfSeq
  <2>3. \A x \in 0..127 : x + 128 \in Byte /\ x \in Byte
    BY DEF Byte
  <2> QED
    BY <2>2, <2>3, Zenon
<1>5. WriteVarint(d) \in Seq(Byte)
  BY <1>1, <1>2, <1>3
<1> QED
  BY <1>1, <1>2, <1>5 DEF n, String

At(r, p, w) == p + Len(w) <= Len(r) + 1 /\ \A i \in 1..Len(w) : r[p + i - 1] = w[i]

\* What is written is read back.
LEMMA ReadBack ==
  ASSUME NEW d \in Digits, NEW r \in String, NEW p \in Nat \ {0}, At(r, p, WriteVarint(d))
  PROVE  /\ VarintEnds(r, p) # {}
         /\ Min(VarintEnds(r, p)) = p + Significant(d) - 1
         /\ ReadVarint64(r, p) = Trim(d)
<1> DEFINE n == Significant(d)
           E == VarintEnds(r, p)
<1>1. n \in 1..Len(d) /\ Len(d) \in 1..10 /\ Len(WriteVarint(d)) = n
  BY SignificantDigits, Written DEF Digits, kMaxVarintBytes
<1>0. n \in 1..10 /\ n <= Len(d) /\ Len(d) \in 1..10
  <2>1. \A l \in 1..10 : \A m \in 1..l : m \in 1..10 /\ m <= l
    OBVIOUS
  <2> QED
    BY <1>1, <2>1, Zenon
<1>2. \A i \in 1..n : d[i] \in 0..127
  <2> SUFFICES ASSUME NEW i \in 1..n PROVE d[i] \in 0..127
    OBVIOUS
  <2>1. d \in Seq(0..127) /\ i \in 1..Len(d)
    BY <1>1 DEF Digits
  <2> QED
    BY <2>1, ElementOfSeq
<1>3. \A i \in 1..n : r[p + i - 1] = IF i < n THEN d[i] + 128 ELSE d[i]
  BY <1>1, Written DEF At
<1>4. Len(r) \in Nat /\ p + n <= Len(r) + 1
  BY <1>1 DEF At, String
<1> HIDE DEF n, E
<1>5. p + n - 1 \in E
  <2>1. r[p + n - 1] = d[n] /\ d[n] \in 0..127
    BY <1>0, <1>2, <1>3
  <2>2. p + n - 1 \in p..(p + 10 - 1) /\ p + n - 1 <= Len(r)
    BY <1>0, <1>4
  <2>3. r[p + n - 1] < 128
    BY <2>1
  <2> QED
    BY <2>2, <2>3 DEF E, VarintEnds, kMaxVarintBytes
<1>6. ASSUME NEW q \in E PROVE p + n - 1 <= q
  <2>1. q \in p..(p + 9) /\ r[q] < 128
    BY DEF E, VarintEnds, kMaxVarintBytes
  <2> SUFFICES ASSUME q < p + n - 1 PROVE FALSE
    BY <1>1, <2>1
  <2> DEFINE i == q - p + 1
  <2>2. i \in 1..n /\ i < n /\ p + i - 1 = q
    BY <1>1, <2>1
  <2> HIDE DEF i
  <2>3. r[q] = d[i] + 128 /\ d[i] \in 0..127
    BY <1>2, <1>3, <2>2
  <2> QED
    BY <2>1, <2>3
<1>7. E \in SUBSET Nat
  BY DEF E, VarintEnds, kMaxVarintBytes
<1>8. Min(E) = p + n - 1
  <2>1. Min(E) \in E /\ Min(E) <= p + n - 1
    BY <1>5, <1>7, MinOf
  <2>2. Min(E) \in Nat /\ p + n - 1 <= Min(E)
    BY <1>6, <1>7, <2>1
  <2> QED
    BY <1>1, <2>1, <2>2
<1>9. ReadVarint64(r, p) = [i \in 1..n |-> IF i = 10 THEN r[p + i - 1] % 2 ELSE r[p + i - 1] % 128]
  <2>1. Min(E) - p + 1 = n
    BY <1>1, <1>8
  <2> QED
    BY <2>1 DEF ReadVarint64, E, kMaxVarintBytes
<1>10. ASSUME NEW i \in 1..10, i <= n
       PROVE  (IF i = 10 THEN r[p + i - 1] % 2 ELSE r[p + i - 1] % 128) = d[i]
  <2>1. d[i] \in 0..127 /\ r[p + i - 1] = IF i < n THEN d[i] + 128 ELSE d[i]
    BY <1>0, <1>2, <1>3, <1>10
  <2>2. CASE i = 10
    <3>0. n = 10
      BY <1>0, <1>10, <2>2
    <3>1. Len(d) = 10
      <4>1. \A l \in 1..10 : 10 <= l => l = 10
        OBVIOUS
      <4> QED
        BY <1>0, <3>0, <4>1, Zenon
    <3>2. d[10] <= 1
      BY <3>1 DEF Digits
    <3>3. d[i] \in 0..1 /\ r[p + i - 1] = d[i]
      BY <2>1, <2>2, <3>0, <3>2
    <3>4. \A x \in 0..1 : x % 2 = x
      OBVIOUS
    <3> QED
      BY <2>2, <3>3, <3>4, Zenon
  <2>3. CASE i # 10
    <3>1. \A x \in 0..127 : x % 128 = x /\ (x + 128) % 128 = x
      OBVIOUS
    <3> QED
      BY <2>1, <2>3, <3>1, Zenon
  <2> QED
    BY <2>2, <2>3
<1> QED
  <2>1. \A i \in 1..n : i \in 1..10 /\ i <= n
    BY <1>0
  <2>2. ReadVarint64(r, p) = [i \in 1..n |-> d[i]]
    BY <1>9, <1>10, <2>1
  <2> QED
    BY <1>5, <1>8, <2>2 DEF n, E, Trim

LEMMA DigitTypes ==
  ASSUME NEW d \in Digits
  PROVE  /\ d \in Seq(0..127) /\ Len(d) \in 1..10
         /\ \A i \in 1..Len(d) : d[i] \in 0..127
         /\ Significant(d) \in 1..Len(d) /\ Significant(d) \in 1..10
         /\ \A i \in 1..Significant(d) : i \in 1..Len(d)
<1>1. d \in Seq(0..127) /\ Len(d) \in 1..10
  BY DEF Digits, kMaxVarintBytes
<1>2. \A i \in 1..Len(d) : d[i] \in 0..127
  BY <1>1, ElementOfSeq
<1>3. \A l \in 1..10 : \A m \in 1..l : m \in 1..10 /\ \A i \in 1..m : i \in 1..l
  OBVIOUS
<1>4. Significant(d) \in 1..Len(d)
  BY SignificantDigits
<1> QED
  BY <1>1, <1>2, <1>3, <1>4, Zenon

\* The zeros at the top are not needed to write a value.
LEMMA Trimmed ==
  ASSUME NEW d \in Digits
  PROVE  /\ Trim(d) \in Digits
         /\ WriteVarint(Trim(d)) = WriteVarint(d)
         /\ ToInt32(Trim(d)) = ToInt32(d)
<1> DEFINE n == Significant(d)
           e == Trim(d)
<1>1. n \in 1..10 /\ \A i \in 1..n : i \in 1..Len(d) /\ d[i] \in 0..127
  BY DigitTypes
<1>2. e = [i \in 1..n |-> d[i]]
  BY DEF Trim
<1>3. n = 1 \/ d[n] # 0
  BY SignificantDigits
<1>4. n = 10 => Len(d) = 10
  <2>1. \A l \in 1..10 : 10 \in 1..l => l = 10
    OBVIOUS
  <2> QED
    BY <2>1, DigitTypes, Zenon
<1>5. n = 10 => d[10] <= 1
  BY <1>4 DEF Digits
<1> HIDE DEF n, e
<1>6. e \in Seq(0..127) /\ Len(e) = n /\ \A i \in 1..n : e[i] = d[i]
  BY <1>1, <1>2
<1>7. e \in Digits
  <2>1. Len(e) \in 1..kMaxVarintBytes
    BY <1>1, <1>6 DEF kMaxVarintBytes
  <2>2. Len(e) = 10 => e[10] <= 1
    BY <1>1, <1>5, <1>6
  <2> QED
    BY <1>6, <2>1, <2>2 DEF Digits
<1>8. Significant(e) = n
  <2>1. Significant(e) \in 1..n /\ \A i \in 1..n : i > Significant(e) => e[i] = 0
    BY <1>6, <1>7, SignificantDigits
  <2>2. n > Significant(e) => e[n] = 0 /\ n # 1
    BY <1>1, <2>1
  <2>3. ~(n > Significant(e))
    BY <1>1, <1>3, <1>6, <2>2
  <2> QED
    BY <1>1, <2>1, <2>3
<1>9. WriteVarint(e) = WriteVarint(d)
  <2>1. WriteVarint(e) = [i \in 1..n |-> IF i < n THEN e[i] + 128 ELSE e[i]]
    BY <1>8 DEF WriteVarint, Significant
  <2>2. WriteVarint(d) = [i \in 1..n |-> IF i < n THEN d[i] + 128 ELSE d[i]]
    BY DEF WriteVarint, Significant, n
  <2> QED
    BY <1>6, <2>1, <2>2
<1>10. \A i \in 1..5 : (IF i <= Len(e) THEN e[i] ELSE 0) = IF i <= Len(d) THEN d[i] ELSE 0
  <2> SUFFICES ASSUME NEW i \in 1..5
               PROVE  (IF i <= Len(e) THEN e[i] ELSE 0) = IF i <= Len(d) THEN d[i] ELSE 0
    OBVIOUS
  <2>1. CASE i \in 1..n
    <3>1. \A l \in 1..10 : i \in 1..l => i <= l
      OBVIOUS
    <3>2. i <= Len(d)
      BY <1>1, <2>1, <3>1, DigitTypes, Zenon
    <3>3. i <= Len(e)
      BY <1>1, <1>6, <2>1
    <3> QED
      BY <1>6, <2>1, <3>2, <3>3, Zenon
  <2>2. CASE i \notin 1..n
    <3>1. i > n /\ ~(i <= Len(e))
      BY <1>1, <1>6, <2>2
    <3>2. \A l \in 1..10 : i <= l => i \in 1..l
      OBVIOUS
    <3>3. i <= Len(d) => d[i] = 0
      BY <3>1, <3>2, SignificantDigits, DigitTypes, Zenon DEF n
    <3> QED
      BY <3>1, <3>3, Zenon
  <2> QED
    BY <2>1, <2>2
<1>11. ToInt32(e) = ToInt32(d)
  BY <1>10 DEF ToInt32
<1> QED
  BY <1>7, <1>9, <1>11 DEF e

\* The low 32 bits of a value, by its first five digits.
LowBits(a, b, c, e, f) ==
  LET top == f % 16
  IN a + b * 128 + c * 16384 + e * 2097152 + (IF top < 8 THEN top ELSE top - 16) * 268435456

LEMMA LowBitsRange ==
  ASSUME NEW a \in 0..127, NEW b \in 0..127, NEW c \in 0..127, NEW e \in 0..127,
         NEW f \in 0..127
  PROVE  LowBits(a, b, c, e, f) \in Int32
  BY DEF LowBits, Int32

LEMMA LowBitsOf ==
  ASSUME NEW n \in Int32, NEW f \in Int, f % 16 = (n \div 268435456) % 16
  PROVE  LowBits(n % 128, (n \div 128) % 128, (n \div 16384) % 128,
                 (n \div 2097152) % 128, f) = n
  BY DEF LowBits, Int32

LEMMA ToInt32Bits ==
  ASSUME NEW d \in Digits
  PROVE  ToInt32(d) = LowBits(d[1], IF 2 <= Len(d) THEN d[2] ELSE 0,
                              IF 3 <= Len(d) THEN d[3] ELSE 0,
                              IF 4 <= Len(d) THEN d[4] ELSE 0,
                              IF 5 <= Len(d) THEN d[5] ELSE 0)
<1>1. 1 <= Len(d)
  BY DigitTypes
<1> QED
  BY <1>1 DEF ToInt32, LowBits, Weight

LEMMA InRange ==
  ASSUME NEW d \in Digits
  PROVE  ToInt32(d) \in Int32
<1> DEFINE D(i) == IF i <= Len(d) THEN d[i] ELSE 0
<1>1. \A i \in 1..5 : D(i) \in 0..127
  <2> SUFFICES ASSUME NEW i \in 1..5 PROVE D(i) \in 0..127
    OBVIOUS
  <2>1. \A l \in 1..10 : i <= l => i \in 1..l
    OBVIOUS
  <2>2. i <= Len(d) => d[i] \in 0..127
    BY <2>1, DigitTypes, Zenon
  <2> QED
    BY <2>2
<1>2. D(1) = d[1]
  BY DigitTypes
<1>3. d[1] \in 0..127 /\ D(2) \in 0..127 /\ D(3) \in 0..127 /\ D(4) \in 0..127
      /\ D(5) \in 0..127
  BY <1>1, <1>2
<1>4. ToInt32(d) = LowBits(d[1], D(2), D(3), D(4), D(5))
  BY ToInt32Bits
<1>5. LowBits(d[1], D(2), D(3), D(4), D(5)) \in Int32
  <2> HIDE DEF D
  <2> QED
    BY ONLY <1>3, LowBitsRange
<1> QED
  BY <1>4, <1>5, Zenon

LEMMA DigitsOf32 ==
  ASSUME NEW n \in Int32
  PROVE  /\ Digits32(n) \in Digits /\ Len(Digits32(n)) = 5
         /\ Digits32(n)[1] = n % 128 /\ Digits32(n)[2] = (n \div 128) % 128
         /\ Digits32(n)[3] = (n \div 16384) % 128
         /\ Digits32(n)[4] = (n \div 2097152) % 128
         /\ Digits32(n)[5] = (n \div 268435456) % 16
         /\ ToInt32(Digits32(n)) = n
<1> DEFINE d == Digits32(n)
<1>1. n \in Int
  BY DEF Int32
<1>2. d = [i \in 1..5 |-> (n \div Weight[i]) % (IF i = 5 THEN 16 ELSE 128)]
  BY DEF Digits32
<1>3. /\ d[1] = n % 128 /\ d[2] = (n \div 128) % 128
      /\ d[3] = (n \div 16384) % 128
      /\ d[4] = (n \div 2097152) % 128
      /\ d[5] = (n \div 268435456) % 16
  <2>1. n \div 1 = n
    BY <1>1
  <2> QED
    BY <1>2, <2>1 DEF Weight
<1>4. /\ n % 128 \in 0..127 /\ (n \div 128) % 128 \in 0..127
      /\ (n \div 16384) % 128 \in 0..127
      /\ (n \div 2097152) % 128 \in 0..127
      /\ (n \div 268435456) % 16 \in 0..127
  BY <1>1
<1> HIDE DEF d
<1>5. \A i \in 1..5 : d[i] \in 0..127
  BY <1>3, <1>4
<1>6. d \in Seq(0..127) /\ Len(d) = 5
  BY <1>2, <1>5
<1>7. d \in Digits
  <2>1. Len(d) \in 1..10 /\ Len(d) # 10
    BY <1>6
  <2> QED
    BY <1>6, <2>1, Zenon DEF Digits, kMaxVarintBytes
<1>8. ToInt32(d) = LowBits(d[1], d[2], d[3], d[4], d[5])
  <2>1. 2 <= Len(d) /\ 3 <= Len(d) /\ 4 <= Len(d) /\ 5 <= Len(d)
    BY <1>6
  <2> QED
    BY <1>7, <2>1, ToInt32Bits, Zenon
<1>9. ToInt32(d) = n
  BY <1>1, <1>3, <1>8, LowBitsOf
<1> QED
  BY <1>3, <1>6, <1>7, <1>9 DEF d

LEMMA DigitsOf64 ==
  ASSUME NEW n \in Int32
  PROVE  /\ Digits64(n) \in Digits /\ Len(Digits64(n)) = 10
         /\ Digits64(n)[1] = n % 128 /\ Digits64(n)[2] = (n \div 128) % 128
         /\ Digits64(n)[3] = (n \div 16384) % 128
         /\ Digits64(n)[4] = (n \div 2097152) % 128
         /\ Digits64(n)[5] = (n \div 268435456) % 128
         /\ n >= 0 => \A i \in 6..10 : Digits64(n)[i] = 0
         /\ n < 0 => Digits64(n)[10] = 1
         /\ ToInt32(Digits64(n)) = n
<1> DEFINE d == Digits64(n)
           V(i) == IF i <= 5 THEN (n \div Weight[i]) % 128
                   ELSE IF n >= 0 THEN 0 ELSE IF i < 10 THEN 127 ELSE 1
<1>1. n \in Int
  BY DEF Int32
<1>2. d = [i \in 1..10 |-> V(i)]
  BY DEF Digits64, kMaxVarintBytes
<1>3. /\ d[1] = n % 128 /\ d[2] = (n \div 128) % 128
      /\ d[3] = (n \div 16384) % 128
      /\ d[4] = (n \div 2097152) % 128
      /\ d[5] = (n \div 268435456) % 128
  <2>1. n \div 1 = n
    BY <1>1
  <2> QED
    BY <1>2, <2>1 DEF Weight
<1>4. /\ n % 128 \in 0..127 /\ (n \div 128) % 128 \in 0..127
      /\ (n \div 16384) % 128 \in 0..127
      /\ (n \div 2097152) % 128 \in 0..127
      /\ (n \div 268435456) % 128 \in 0..127
  BY <1>1
<1>5. \A i \in 6..10 : d[i] = IF n >= 0 THEN 0 ELSE IF i < 10 THEN 127 ELSE 1
  BY <1>2
<1> HIDE DEF d, V
<1>6. \A i \in 1..10 : d[i] \in 0..127
  <2> SUFFICES ASSUME NEW i \in 1..10 PROVE d[i] \in 0..127
    OBVIOUS
  <2>1. i \in 6..10 => d[i] \in 0..127
    BY <1>1, <1>5
  <2>2. i \in 1..5 => d[i] \in 0..127
    BY <1>3, <1>4
  <2> QED
    BY <2>1, <2>2
<1>7. d \in Seq(0..127) /\ Len(d) = 10
  <2>1. d = [i \in 1..10 |-> d[i]]
    BY <1>2
  <2> QED
    BY <1>6, <2>1
<1>8. d[10] <= 1
  BY <1>1, <1>5
<1>9. d \in Digits
  BY <1>7, <1>8 DEF Digits, kMaxVarintBytes
<1>10. ToInt32(d) = LowBits(d[1], d[2], d[3], d[4], d[5])
  <2>1. 2 <= Len(d) /\ 3 <= Len(d) /\ 4 <= Len(d) /\ 5 <= Len(d)
    BY <1>7
  <2> QED
    BY <1>9, <2>1, ToInt32Bits, Zenon
<1>11. ((n \div 268435456) % 128) % 16 = (n \div 268435456) % 16
  BY <1>1
<1>12. ToInt32(d) = n
  <2>1. d[5] \in Int /\ d[5] % 16 = (n \div 268435456) % 16
    BY <1>3, <1>4, <1>11
  <2> QED
    BY <1>3, <1>10, <2>1, LowBitsOf
<1> QED
  BY <1>1, <1>3, <1>5, <1>7, <1>9, <1>12 DEF d

LEMMA SignificantIs ==
  ASSUME NEW d \in Digits, NEW k \in 1..10, k <= Len(d), k = 1 \/ d[k] # 0,
         \A i \in 1..10 : i > k /\ i <= Len(d) => d[i] = 0
  PROVE  Significant(d) = k
<1> DEFINE n == Significant(d)
<1>1. n \in 1..10 /\ n \in 1..Len(d) /\ (n = 1 \/ d[n] # 0)
  BY DigitTypes, SignificantDigits, Zenon
<1>2. \A l \in 1..10 : (n \in 1..l => n <= l) /\ (k <= l => k \in 1..l)
  BY <1>1
<1>3. n <= Len(d) /\ k \in 1..Len(d)
  BY <1>1, <1>2, DigitTypes, Zenon
<1>4. k > n => d[k] = 0 /\ k # 1
  BY <1>1, <1>3, SignificantDigits
<1>5. n > k => d[n] = 0 /\ n # 1
  BY <1>1, <1>3
<1> HIDE DEF n
<1> QED
  BY <1>1, <1>4, <1>5 DEF n

LEMMA WeightsUpTo ==
  ASSUME NEW n \in Int, NEW k \in 1..5,
         k = 1 \/ n >= Weight[k], k = 5 \/ n < Weight[k + 1]
  PROVE  Cardinality({i \in 2..5 : n >= Weight[i]}) = k - 1
<1>1. \A i \in 2..5 : n >= Weight[i] <=> i <= k
  <2>1. Weight[2] = 128 /\ Weight[3] = 16384 /\ Weight[4] = 2097152 /\ Weight[5] = 268435456
    BY DEF Weight
  <2>2. CASE k = 1
    BY <2>1, <2>2
  <2>3. CASE k = 2
    BY <2>1, <2>3
  <2>4. CASE k = 3
    BY <2>1, <2>4
  <2>5. CASE k = 4
    BY <2>1, <2>5
  <2>6. CASE k = 5
    BY <2>1, <2>6
  <2> QED
    BY <2>2, <2>3, <2>4, <2>5, <2>6
<1>2. {i \in 2..5 : n >= Weight[i]} = 2..k
  BY <1>1
<1>3. Cardinality(2..k) = IF 2 > k THEN 0 ELSE k - 2 + 1
  BY FS_Interval
<1>4. (IF 2 > k THEN 0 ELSE k - 2 + 1) = k - 1
  OBVIOUS
<1> QED
  BY <1>2, <1>3, <1>4, Zenon

\* The size the code computes for a varint is the number of its bytes.
LEMMA SizeOf32 ==
  ASSUME NEW n \in Int32, n >= 0
  PROVE  Len(WriteVarint32(n)) = VarintSize32(n) /\ VarintSize32(n) \in 1..5
<1> DEFINE d == Digits32(n)
<1>1. /\ d \in Digits /\ Len(d) = 5
      /\ d[1] = n % 128 /\ d[2] = (n \div 128) % 128
      /\ d[3] = (n \div 16384) % 128 /\ d[4] = (n \div 2097152) % 128
      /\ d[5] = (n \div 268435456) % 16
  BY DigitsOf32
<1>2. n \in Int /\ n <= 2147483647
  BY DEF Int32
<1>3. Weight[2] = 128 /\ Weight[3] = 16384 /\ Weight[4] = 2097152 /\ Weight[5] = 268435456
  BY DEF Weight
<1> HIDE DEF d
<1>4. \E k \in 1..5 : /\ k = 1 \/ n >= Weight[k]
                      /\ k = 5 \/ n < Weight[k + 1]
                      /\ k = 1 \/ d[k] # 0
                      /\ \A i \in 1..5 : i > k => d[i] = 0
  <2>1. CASE n < 128
    <3>1. d[2] = 0 /\ d[3] = 0 /\ d[4] = 0 /\ d[5] = 0
      BY <1>1, <1>2, <2>1
    <3>2. \A i \in 1..5 : i > 1 => d[i] = 0
      BY <3>1
    <3> QED
      BY <1>3, <2>1, <3>2
  <2>2. CASE n >= 128 /\ n < 16384
    <3>1. d[2] # 0 /\ d[3] = 0 /\ d[4] = 0 /\ d[5] = 0
      BY <1>1, <1>2, <2>2
    <3>2. \A i \in 1..5 : i > 2 => d[i] = 0
      BY <3>1
    <3> QED
      BY <1>3, <2>2, <3>1, <3>2
  <2>3. CASE n >= 16384 /\ n < 2097152
    <3>1. d[3] # 0 /\ d[4] = 0 /\ d[5] = 0
      BY <1>1, <1>2, <2>3
    <3>2. \A i \in 1..5 : i > 3 => d[i] = 0
      BY <3>1
    <3> QED
      BY <1>3, <2>3, <3>1, <3>2
  <2>4. CASE n >= 2097152 /\ n < 268435456
    <3>1. d[4] # 0 /\ d[5] = 0
      BY <1>1, <1>2, <2>4
    <3>2. \A i \in 1..5 : i > 4 => d[i] = 0
      BY <3>1
    <3> QED
      BY <1>3, <2>4, <3>1, <3>2
  <2>5. CASE n >= 268435456
    <3>1. d[5] # 0
      BY <1>1, <1>2, <2>5
    <3>2. \A i \in 1..5 : i > 5 => d[i] = 0
      OBVIOUS
    <3> QED
      BY <1>3, <2>5, <3>1, <3>2
  <2> QED
    BY <1>2, <2>1, <2>2, <2>3, <2>4, <2>5
<1>5. PICK k \in 1..5 : /\ k = 1 \/ n >= Weight[k]
                        /\ k = 5 \/ n < Weight[k + 1]
                        /\ k = 1 \/ d[k] # 0
                        /\ \A i \in 1..5 : i > k => d[i] = 0
  BY <1>4
<1>6. Significant(d) = k
  <2>1. k \in 1..10 /\ k <= Len(d)
    BY <1>1
  <2>2. \A i \in 1..10 : i > k /\ i <= Len(d) => d[i] = 0
    BY <1>1, <1>5
  <2>3. d \in Digits /\ (k = 1 \/ d[k] # 0)
    BY <1>1, <1>5
  <2> QED
    BY <2>1, <2>2, <2>3, SignificantIs, Zenon
<1>7. Len(WriteVarint32(n)) = k
  BY <1>1, <1>6, Written DEF WriteVarint32, d
<1>8. VarintSize32(n) = 1 + (k - 1)
  <2>1. n \in Int /\ ~(n < 0)
    BY <1>2
  <2>2. Cardinality({i \in 2..5 : n >= Weight[i]}) = k - 1
    BY <1>5, <2>1, WeightsUpTo
  <2> QED
    BY <2>1, <2>2, Zenon DEF VarintSize32
<1> HIDE DEF d
<1>9. 1 + (k - 1) = k
  OBVIOUS
<1> QED
  BY <1>7, <1>8, <1>9, Zenon

LEMMA SizeOfSignExtended ==
  ASSUME NEW n \in Int32
  PROVE  Len(WriteVarint32SignExtended(n)) = Int32Size(n) /\ Int32Size(n) \in 1..10
<1> DEFINE d == Digits64(n)
           e == Digits32(n)
<1>1. n \in Int
  BY DEF Int32
<1>2. d \in Digits /\ Len(d) = 10 /\ Len(WriteVarint32SignExtended(n)) = Significant(d)
  BY DigitsOf64, Written DEF WriteVarint32SignExtended
<1>3. CASE n < 0
  <2>1. d[10] # 0
    BY <1>3, DigitsOf64
  <2>2. \A i \in 1..10 : ~(i > 10)
    OBVIOUS
  <2>3. 10 <= Len(d)
    BY <1>2
  <2>4. Significant(d) = 10
    BY <1>2, <2>1, <2>2, <2>3, SignificantIs
  <2> QED
    BY <1>1, <1>2, <1>3, <2>4 DEF Int32Size
<1>4. CASE n >= 0
  <2>1. e \in Digits /\ Len(e) = 5 /\ Len(WriteVarint32(n)) = Significant(e)
    BY DigitsOf32, Written DEF WriteVarint32
  <2>2. d[1] = e[1] /\ d[2] = e[2] /\ d[3] = e[3] /\ d[4] = e[4] /\ d[5] = e[5]
    <3>1. (n \div 268435456) % 128 = (n \div 268435456) % 16
      <4>1. n <= 2147483647
        BY SMT DEF Int32
      <4>2. n \div 268435456 \in 0..7
        BY <1>1, <1>4, <4>1, SMT
      <4> QED
        BY <4>2, SMT
    <3> QED
      BY <3>1, DigitsOf32, DigitsOf64, SMT
  <2>3. \A i \in 6..10 : d[i] = 0
    BY <1>4, DigitsOf64
  <2> DEFINE k == Significant(e)
  <2>4. k \in 1..5 /\ (k = 1 \/ e[k] # 0) /\ \A i \in 1..5 : i > k => e[i] = 0
    BY <2>1, SignificantDigits
  <2> HIDE DEF d, e, k
  <2>5. \A i \in 1..5 : d[i] = e[i]
    BY <2>2
  <2>6. k \in 1..10 /\ k <= Len(d) /\ (k = 1 \/ d[k] # 0)
    BY <1>2, <2>4, <2>5
  <2>7. \A i \in 1..10 : i > k /\ i <= Len(d) => d[i] = 0
    BY <2>3, <2>4, <2>5
  <2>8. Significant(d) = k
    BY <1>2, <2>6, <2>7, SignificantIs
  <2> QED
    BY <1>1, <1>2, <1>4, <2>1, <2>4, <2>8, SizeOf32 DEF Int32Size, k
<1> QED
  BY <1>1, <1>3, <1>4

\* Only the varint of 0 has a zero byte.
LEMMA NoZeroByte ==
  ASSUME NEW d \in Digits, ToInt32(d) # 0
  PROVE  \A i \in 1..Significant(d) : WriteVarint(d)[i] # 0
<1> DEFINE n == Significant(d)
<1>1. n \in 1..10 /\ (n = 1 \/ d[n] # 0)
  BY DigitTypes, SignificantDigits, Zenon
<1>2. ASSUME NEW i \in 1..n, i < n PROVE WriteVarint(d)[i] # 0
  <2>1. d[i] \in 0..127 /\ WriteVarint(d)[i] = d[i] + 128
    BY <1>2, DigitTypes, Written, Zenon
  <2> QED
    BY <2>1
<1>3. WriteVarint(d)[n] = d[n]
  <2>1. n \in 1..n /\ ~(n < n)
    BY <1>1
  <2> QED
    BY <2>1, Written, Zenon
<1>4. ASSUME n = 1, d[1] = 0 PROVE FALSE
  <2>1. \A i \in 2..5 : (IF i <= Len(d) THEN d[i] ELSE 0) = 0
    <3> SUFFICES ASSUME NEW i \in 2..5, i <= Len(d) PROVE d[i] = 0
      OBVIOUS
    <3>1. \A l \in 1..10 : i <= l => i \in 1..l
      OBVIOUS
    <3>2. i \in 1..Len(d)
      BY <3>1, DigitTypes, Zenon
    <3> QED
      BY <1>4, <3>2, SignificantDigits
  <2>2. ToInt32(d) = LowBits(0, 0, 0, 0, 0)
    BY <1>4, <2>1, ToInt32Bits
  <2> QED
    BY <2>2 DEF LowBits
<1> HIDE DEF n
<1>5. ASSUME NEW i \in 1..n PROVE WriteVarint(d)[i] # 0
  <2>1. i < n \/ i = n
    BY <1>1
  <2> QED
    BY <1>1, <1>2, <1>3, <1>4, <2>1
<1> QED
  BY <1>5 DEF n

LEMMA ASequence ==
  ASSUME NEW S, NEW n \in Nat, NEW f \in [1..n -> S]
  PROVE  f \in Seq(S) /\ Len(f) = n
  OBVIOUS

LEMMA VarintRead ==
  ASSUME NEW r \in String, NEW p \in Nat \ {0}, VarintEnds(r, p) # {}
  PROVE  /\ Min(VarintEnds(r, p)) \in p..(p + 9) /\ Min(VarintEnds(r, p)) <= Len(r)
         /\ ReadVarint64(r, p) \in Digits
         /\ ReadVarint32(r, p) \in Int32
<1> DEFINE E == VarintEnds(r, p)
           last == Min(E)
           n == last - p + 1
           V(i) == IF i = 10 THEN r[p + i - 1] % 2 ELSE r[p + i - 1] % 128
           d == ReadVarint64(r, p)
<1>1. E \in SUBSET Nat /\ \A q \in E : q \in p..(p + 9) /\ q <= Len(r)
  BY DEF VarintEnds, kMaxVarintBytes
<1>2. last \in E
  BY <1>1, MinOf, Zenon
<1>3. last \in p..(p + 9) /\ last <= Len(r)
  BY <1>1, <1>2, Zenon
<1>4. Len(r) \in Nat /\ r \in Seq(Byte)
  BY DEF String
<1>5. d = [i \in 1..n |-> V(i)]
  BY DEF ReadVarint64, kMaxVarintBytes
<1> HIDE DEF last, d
<1>6. n \in 1..10 /\ n \in Nat
  BY <1>3
<1>7. \A i \in 1..n : V(i) \in 0..127 /\ (i = 10 => V(i) <= 1)
  <2> SUFFICES ASSUME NEW i \in 1..n
               PROVE  V(i) \in 0..127 /\ (i = 10 => V(i) <= 1)
    OBVIOUS
  <2>1. p + i - 1 \in 1..Len(r)
    BY <1>3, <1>4
  <2>2. r[p + i - 1] \in Int
    <3>1. r[p + i - 1] \in Byte
      BY <1>4, <2>1, ElementOfSeq
    <3> QED
      BY <3>1 DEF Byte
  <2>3. \A x \in Int : x % 2 \in 0..1 /\ x % 128 \in 0..127
    OBVIOUS
  <2> DEFINE x == r[p + i - 1]
  <2>4. x % 2 \in 0..1 /\ x % 128 \in 0..127
    BY <2>2, <2>3
  <2> HIDE DEF x
  <2>5. (IF i = 10 THEN x % 2 ELSE x % 128) \in 0..127
        /\ (i = 10 => (IF i = 10 THEN x % 2 ELSE x % 128) <= 1)
    BY <2>4
  <2> QED
    BY <2>5 DEF x
<1> HIDE DEF n, V
<1>8. d \in Seq(0..127) /\ Len(d) = n /\ (n = 10 => d[10] <= 1)
  <2>1. d = [i \in 1..n |-> d[i]] /\ \A i \in 1..n : d[i] = V(i)
    BY <1>5
  <2>2. \A i \in 1..n : d[i] \in 0..127 /\ (i = 10 => d[i] <= 1)
    BY <1>7, <2>1
  <2>3. n = 10 => 10 \in 1..n
    BY <1>6
  <2>4. d \in Seq(0..127) /\ Len(d) = n
    <3>1. d \in [1..n -> 0..127]
      BY <1>5, <1>7
    <3> QED
      BY <1>6, <3>1, ASequence, Zenon
  <2> QED
    BY <2>2, <2>3, <2>4, Zenon
<1>9. d \in Digits
  <2>1. Len(d) \in 1..10 /\ (Len(d) = 10 => d[10] <= 1)
    BY <1>6, <1>8
  <2> QED
    BY <1>8, <2>1, Zenon DEF Digits, kMaxVarintBytes
<1> QED
  BY <1>3, <1>9, InRange DEF d, last, ReadVarint32

-----------------------------------------------------------------------------
LEMMA StringTypes ==
  ASSUME NEW s \in String
  PROVE  s \in Seq(Byte) /\ Len(s) \in Nat /\ \A i \in 1..Len(s) : s[i] \in 0..255
<1>1. s \in Seq(Byte)
  BY DEF String
<1>2. Len(s) \in Nat
  BY <1>1
<1>3. \A i \in 1..Len(s) : s[i] \in Byte
  BY <1>1, ElementOfSeq
<1> QED
  BY <1>1, <1>2, <1>3, Zenon DEF Byte

LEMMA Joined ==
  ASSUME NEW a \in String, NEW b \in String
  PROVE  /\ a \o b \in String /\ Len(a \o b) = Len(a) + Len(b)
         /\ \A i \in 1..Len(a) : (a \o b)[i] = a[i]
         /\ \A i \in 1..Len(b) : (a \o b)[Len(a) + i] = b[i]
<1>1. a \in Seq(Byte) /\ b \in Seq(Byte) /\ Len(a) \in Nat /\ Len(b) \in Nat
  BY StringTypes
<1>2. /\ a \o b \in Seq(Byte) /\ Len(a \o b) = Len(a) + Len(b)
      /\ \A i \in 1..(Len(a) + Len(b)) :
           (a \o b)[i] = IF i <= Len(a) THEN a[i] ELSE b[i - Len(a)]
  BY <1>1, ConcatProperties, Zenon
<1> DEFINE l == Len(a)
           k == Len(b)
           c == a \o b
<1> HIDE DEF l, k, c
<1>3. l \in Nat /\ k \in Nat /\ \A i \in 1..(l + k) : c[i] = IF i <= l THEN a[i] ELSE b[i - l]
  BY <1>1, <1>2 DEF l, k, c
<1>4. \A i \in 1..l : c[i] = a[i]
  BY <1>3
<1>5. ASSUME NEW i \in 1..k PROVE c[l + i] = b[i]
  <2>1. l + i \in 1..(l + k) /\ ~(l + i <= l) /\ l + i - l = i
    BY <1>3
  <2> QED
    BY <1>3, <2>1
<1> QED
  BY <1>1, <1>2, <1>4, <1>5, Zenon DEF l, k, c, String

LEMMA JoinedTwice ==
  ASSUME NEW a \in String, NEW b \in String, NEW c \in String
  PROVE  (a \o b) \o c = a \o (b \o c)
  BY StringTypes, ConcatAssociative

\* A string that occurs in another.
LEMMA AtJoined ==
  ASSUME NEW r \in String, NEW p \in Nat \ {0}, NEW a \in String, NEW b \in String
  PROVE  At(r, p, a \o b) <=> At(r, p, a) /\ At(r, p + Len(a), b)
<1> DEFINE l == Len(a)
           k == Len(b)
           c == a \o b
           z == Len(r)
<1>1. l \in Nat /\ k \in Nat /\ z \in Nat
  BY StringTypes
<1>2. Len(c) = l + k /\ (\A i \in 1..l : c[i] = a[i]) /\ \A i \in 1..k : c[l + i] = b[i]
  BY Joined
<1> HIDE DEF l, k, c, z
<1>3. At(r, p, c) <=> p + (l + k) <= z + 1 /\ \A i \in 1..(l + k) : r[p + i - 1] = c[i]
  BY <1>2 DEF At, z
<1>4. At(r, p, a) <=> p + l <= z + 1 /\ \A i \in 1..l : r[p + i - 1] = a[i]
  BY DEF At, l, z
<1>5. At(r, p + l, b) <=> p + l + k <= z + 1 /\ \A i \in 1..k : r[p + l + i - 1] = b[i]
  BY DEF At, k, z
<1>6. ASSUME At(r, p, c) PROVE At(r, p, a) /\ At(r, p + l, b)
  <2>1. \A i \in 1..l : r[p + i - 1] = a[i]
    <3>1. \A i \in 1..l : i \in 1..(l + k)
      BY <1>1
    <3> QED
      BY <1>2, <1>3, <1>6, <3>1
  <2>2. ASSUME NEW i \in 1..k PROVE r[p + l + i - 1] = b[i]
    <3>1. l + i \in 1..(l + k) /\ p + (l + i) - 1 = p + l + i - 1
      BY <1>1
    <3>2. r[p + (l + i) - 1] = c[l + i]
      BY <1>3, <1>6, <3>1
    <3> QED
      BY <1>2, <3>1, <3>2
  <2> QED
    BY <1>1, <1>3, <1>4, <1>5, <1>6, <2>1, <2>2
<1>7. ASSUME At(r, p, a), At(r, p + l, b) PROVE At(r, p, c)
  <2>1. ASSUME NEW i \in 1..(l + k) PROVE r[p + i - 1] = c[i]
    <3>1. CASE i <= l
      BY <1>1, <1>2, <1>4, <1>7, <3>1
    <3>2. CASE ~(i <= l)
      <4> DEFINE j == i - l
      <4>1. j \in 1..k /\ l + j = i /\ p + l + j - 1 = p + i - 1
        BY <1>1, <3>2
      <4> HIDE DEF j
      <4> QED
        BY <1>2, <1>5, <1>7, <4>1
    <3> QED
      BY <3>1, <3>2
  <2> QED
    BY <1>1, <1>3, <1>5, <1>7, <2>1
<1> QED
  BY <1>6, <1>7 DEF l, k, c

LEMMA AtLonger ==
  ASSUME NEW r \in String, NEW f \in String, NEW p \in Nat \ {0}, NEW w \in String
  PROVE  /\ At(r, p, w) => At(r \o f, p, w)
         /\ At(r \o f, Len(r) + 1, f)
<1> DEFINE z == Len(r)
           k == Len(f)
           l == Len(w)
           c == r \o f
<1>1. z \in Nat /\ k \in Nat /\ l \in Nat
  BY StringTypes
<1>2. Len(c) = z + k /\ (\A i \in 1..z : c[i] = r[i]) /\ \A i \in 1..k : c[z + i] = f[i]
  BY Joined
<1> HIDE DEF z, k, l, c
<1>3. ASSUME At(r, p, w) PROVE At(c, p, w)
  <2>1. p + l <= z + 1 /\ \A i \in 1..l : r[p + i - 1] = w[i]
    BY <1>3 DEF At, l, z
  <2>2. \A i \in 1..l : p + i - 1 \in 1..z
    BY <1>1, <2>1
  <2>3. \A i \in 1..l : c[p + i - 1] = w[i]
    BY <1>2, <2>1, <2>2
  <2>4. p + l <= Len(c) + 1
    BY <1>1, <1>2, <2>1
  <2> QED
    BY <2>3, <2>4 DEF At, l
<1>4. At(c, z + 1, f)
  <2>1. \A i \in 1..k : z + 1 + i - 1 = z + i
    BY <1>1
  <2>2. \A i \in 1..k : c[z + 1 + i - 1] = f[i]
    BY <1>2, <2>1
  <2>3. z + 1 + k <= Len(c) + 1
    BY <1>1, <1>2
  <2> QED
    BY <2>2, <2>3 DEF At, k
<1> QED
  BY <1>3, <1>4 DEF c, z

\* A string that begins as r does and ends with it or before a zero byte of it.
CutOf(b, r) ==
  /\ b \in String /\ Len(b) <= Len(r)
  /\ \A i \in 1..Len(b) : b[i] = r[i]
  /\ b = r \/ (Len(b) < Len(r) /\ r[Len(b) + 1] = 0)

LEMMA CStringCuts ==
  ASSUME NEW r \in String
  PROVE  CutOf(CString(r), r) /\ (Zeros(r) = {} <=> CString(r) = r)
<1> DEFINE z == Len(r)
           k == Min(Zeros(r)) - 1
<1>1. r \in Seq(Byte) /\ z \in Nat
  BY StringTypes
<1>2. CASE Zeros(r) = {}
  <2>1. CString(r) = r
    BY <1>2 DEF CString
  <2> QED
    BY <1>1, <1>2, <2>1 DEF CutOf
<1>3. CASE Zeros(r) # {}
  <2>1. Zeros(r) \in SUBSET Nat /\ \A i \in Zeros(r) : i \in 1..z /\ r[i] = 0
    BY DEF Zeros
  <2>2. Min(Zeros(r)) \in Zeros(r)
    BY <1>3, <2>1, MinOf
  <2>3. k \in Nat /\ k < z /\ r[k + 1] = 0
    BY <1>1, <2>1, <2>2
  <2>4. CString(r) = SubSeq(r, 1, k)
    BY <1>3 DEF CString
  <2> DEFINE b == CString(r)
  <2> HIDE DEF k, z, b
  <2>5. \A i \in 1..k : i \in 1..Len(r) /\ r[i] \in Byte
    <3>1. \A i \in 1..k : i \in 1..z
      BY <1>1, <2>3
    <3> QED
      BY <1>1, <3>1, ElementOfSeq DEF z
  <2>6. /\ SubSeq(r, 1, k) \in Seq(Byte)
        /\ Len(SubSeq(r, 1, k)) = IF 1 <= k THEN k - 1 + 1 ELSE 0
        /\ \A i \in 1..(k - 1 + 1) : SubSeq(r, 1, k)[i] = r[1 + i - 1]
    BY <2>3, <2>5, SubSeqProperties
  <2>7. b \in String /\ Len(b) = k /\ \A i \in 1..k : b[i] = r[i]
    BY <2>3, <2>4, <2>6 DEF String, b
  <2>8. Len(b) # z
    BY <1>1, <2>3, <2>7
  <2> QED
    BY <1>1, <1>3, <2>3, <2>7, <2>8 DEF CutOf, b, z
<1> QED
  BY <1>2, <1>3

\* What occurs in a string occurs in its cut, or is cut.
LEMMA AtCut ==
  ASSUME NEW r \in String, NEW b, CutOf(b, r), NEW p \in Nat \ {0}, NEW w \in String,
         At(r, p, w)
  PROVE  /\ p + Len(w) <= Len(b) + 1 => At(b, p, w)
         /\ p + Len(w) > Len(b) + 1 => b # r
<1> DEFINE z == Len(r)
           k == Len(b)
           l == Len(w)
<1>1. b \in String /\ z \in Nat /\ k \in Nat /\ l \in Nat
  BY StringTypes DEF CutOf
<1>2. p + l <= z + 1 /\ (\A i \in 1..l : r[p + i - 1] = w[i]) /\ \A i \in 1..k : b[i] = r[i]
  BY DEF At, CutOf
<1> HIDE DEF z, k, l
<1>3. ASSUME p + l <= k + 1 PROVE At(b, p, w)
  <2>1. \A i \in 1..l : p + i - 1 \in 1..k
    BY <1>1, <1>3
  <2>2. \A i \in 1..l : b[p + i - 1] = w[i]
    BY <1>2, <2>1
  <2> QED
    BY <1>3, <2>2 DEF At, l, k
<1>4. ASSUME p + l > k + 1 PROVE b # r
  BY <1>1, <1>2, <1>4 DEF k, z
<1> QED
  BY <1>3, <1>4 DEF k, l

\* A varint other than that of 0 is not cut.
LEMMA TagStays ==
  ASSUME NEW r \in String, NEW b, CutOf(b, r), NEW p \in Nat \ {0}, NEW d \in Digits,
         ToInt32(d) # 0, At(r, p, WriteVarint(d)), p <= Len(b) + 1
  PROVE  At(b, p, WriteVarint(d))
<1> DEFINE n == Significant(d)
           k == Len(b)
           w == WriteVarint(d)
<1>1. w \in String /\ Len(w) = n /\ n \in 1..10 /\ k \in Nat
  BY DigitTypes, Written, StringTypes DEF CutOf
<1>2. \A i \in 1..n : w[i] # 0
  BY NoZeroByte
<1>3. \A i \in 1..n : r[p + i - 1] = w[i]
  BY <1>1 DEF At
<1>4. p + Len(w) > Len(b) + 1 => b # r
  BY <1>1, AtCut
<1>5. b = r \/ r[k + 1] = 0
  BY DEF CutOf
<1> HIDE DEF n, k, w
<1>6. ASSUME p + n > k + 1 PROVE FALSE
  <2> DEFINE i == k + 1 - p + 1
  <2>1. i \in 1..n /\ p + i - 1 = k + 1
    BY <1>1, <1>6 DEF k
  <2> HIDE DEF i
  <2>2. r[k + 1] # 0
    BY <1>2, <1>3, <2>1
  <2> QED
    BY <1>1, <1>4, <1>5, <1>6, <2>2 DEF k
<1>7. p + n <= k + 1
  BY <1>1, <1>6
<1> QED
  BY <1>1, <1>7, AtCut DEF k, w

LEMMA VarintCut ==
  ASSUME NEW r \in String, NEW b, CutOf(b, r), NEW p \in Nat \ {0}, NEW d \in Digits,
         At(r, p, WriteVarint(d)), ~At(b, p, WriteVarint(d))
  PROVE  VarintEnds(b, p) = {} /\ b # r
<1> DEFINE n == Significant(d)
           k == Len(b)
           w == WriteVarint(d)
<1>1. w \in String /\ Len(w) = n /\ n \in 1..10 /\ k \in Nat
  BY DigitTypes, Written, StringTypes DEF CutOf
<1>2. \A i \in 1..n : r[p + i - 1] = IF i < n THEN d[i] + 128 ELSE d[i]
  BY <1>1, Written DEF At
<1>3. \A i \in 1..n : d[i] \in 0..127
  BY DigitTypes, Zenon
<1>4. ~(p + Len(w) <= Len(b) + 1)
  BY <1>1, AtCut
<1>5. \A i \in 1..k : b[i] = r[i]
  BY DEF CutOf
<1> HIDE DEF n, k, w
<1>6. p + n > k + 1
  BY <1>1, <1>4 DEF k
<1>7. ASSUME NEW q \in VarintEnds(b, p) PROVE FALSE
  <2>1. q \in p..(p + 9) /\ q <= k /\ b[q] < 128
    BY DEF VarintEnds, kMaxVarintBytes, k
  <2> DEFINE i == q - p + 1
  <2>2. i \in 1..n /\ i < n /\ p + i - 1 = q /\ q \in 1..k
    BY <1>1, <1>6, <2>1
  <2> HIDE DEF i
  <2>3. b[q] = d[i] + 128 /\ d[i] \in 0..127
    BY <1>2, <1>3, <1>5, <2>2
  <2> QED
    BY <2>1, <2>3
<1>8. b # r
  BY <1>1, <1>6, AtCut DEF k, w
<1> QED
  BY <1>7, <1>8

-----------------------------------------------------------------------------
LEMMA AfterVarintIs ==
  ASSUME NEW p
  PROVE  AfterVarint(p) = IF VarintEnds(buf, p) = {} THEN {} ELSE {Min(VarintEnds(buf, p)) + 1}
  BY DEF AfterVarint

LEMMA AfterStringIs ==
  ASSUME NEW p
  PROVE  AfterString(p) =
           LET q == Min(VarintEnds(buf, p)) + 1
               n == ReadVarint32(buf, p)
           IN IF VarintEnds(buf, p) = {} \/ n < 0 \/ n > Len(buf) + 1 - q THEN {} ELSE {q + n}
<1>1. CASE VarintEnds(buf, p) = {}
  BY <1>1, AfterVarintIs DEF AfterString
<1>2. CASE VarintEnds(buf, p) # {}
  BY <1>2, AfterVarintIs DEF AfterString
<1> QED
  BY <1>1, <1>2

\* The parser reads a varint that was written, or finds it cut.
LEMMA ReadsVarint ==
  ASSUME NEW r \in String, CutOf(buf, r), NEW p \in Nat \ {0}, NEW d \in Digits,
         At(r, p, WriteVarint(d))
  PROVE  \/ /\ At(buf, p, WriteVarint(d)) /\ VarintEnds(buf, p) # {}
            /\ Min(VarintEnds(buf, p)) + 1 = p + Len(WriteVarint(d))
            /\ AfterVarint(p) = {p + Len(WriteVarint(d))}
            /\ ReadVarint64(buf, p) = Trim(d) /\ ReadVarint32(buf, p) = ToInt32(d)
         \/ AfterVarint(p) = {} /\ AfterString(p) = {} /\ buf # r
<1>1. CASE At(buf, p, WriteVarint(d))
  <2>1. buf \in String
    BY DEF CutOf
  <2>2. /\ VarintEnds(buf, p) # {}
        /\ Min(VarintEnds(buf, p)) = p + Significant(d) - 1
        /\ ReadVarint64(buf, p) = Trim(d)
    BY <1>1, <2>1, ReadBack
  <2>3. Significant(d) \in 1..10 /\ Len(WriteVarint(d)) = Significant(d)
    BY DigitTypes, Written
  <2> DEFINE n == Significant(d)
  <2>4. p + n - 1 + 1 = p + n
    BY <2>3
  <2>5. Min(VarintEnds(buf, p)) + 1 = p + Len(WriteVarint(d))
    BY <2>2, <2>3, <2>4
  <2>6. ReadVarint32(buf, p) = ToInt32(d)
    BY <2>2, Trimmed DEF ReadVarint32
  <2>7. AfterVarint(p) = {p + Len(WriteVarint(d))}
    BY <2>2, <2>5, AfterVarintIs, Zenon
  <2> QED
    BY <1>1, <2>2, <2>5, <2>6, <2>7, Zenon
<1>2. CASE ~At(buf, p, WriteVarint(d))
  <2>1. VarintEnds(buf, p) = {} /\ buf # r
    BY <1>2, VarintCut
  <2> QED
    BY <2>1, AfterVarintIs, AfterStringIs, Zenon
<1> QED
  BY <1>1, <1>2

\* The lengths of strings fit an int.
LEMMA TextLength ==
  ASSUME NEW x \in Text
  PROVE  /\ x \in String /\ Len(x) \in Int32 /\ Len(x) >= 0 /\ Len(x) \in Nat
         /\ Digits32(Len(x)) \in Digits /\ ToInt32(Digits32(Len(x))) = Len(x)
         /\ WriteVarint32(Len(x)) = WriteVarint(Digits32(Len(x)))
         /\ WriteVarint32(Len(x)) \in String
<1>1. x \in String /\ Len(x) <= 2147483647
  BY DEF Text
<1> DEFINE n == Len(x)
<1>2. n \in Nat
  BY <1>1, StringTypes
<1> HIDE DEF n
<1>3. n \in Int32 /\ n >= 0
  BY <1>1, <1>2, SMT DEF Int32, n
<1>4. Digits32(n) \in Digits /\ ToInt32(Digits32(n)) = n
  BY <1>3, DigitsOf32, SMT
<1>5. x \in String
  BY <1>1
<1>6. WriteVarint32(n) = WriteVarint(Digits32(n)) /\ WriteVarint32(n) \in String
  BY <1>4, Written DEF WriteVarint32
<1> QED
  BY <1>2, <1>3, <1>4, <1>5, <1>6 DEF n

\* The bytes of a string that occurs in the buffer.
LEMMA SubSeqAt ==
  ASSUME NEW b \in String, NEW p \in Nat \ {0}, NEW w \in String, At(b, p, w)
  PROVE  SubSeq(b, p, p + Len(w) - 1) = w
<1> DEFINE l == Len(w)
           u == SubSeq(b, p, p + Len(w) - 1)
<1>1. l \in Nat /\ w \in Seq(Byte) /\ \A i \in 1..l : w[i] \in Byte
  BY StringTypes DEF Byte
<1>2. \A i \in 1..l : b[p + i - 1] = w[i]
  BY DEF At
<1> HIDE DEF l
<1>3. \A i \in p..(p + l - 1) : b[i] \in Byte
  <2> SUFFICES ASSUME NEW i \in p..(p + l - 1) PROVE b[i] \in Byte
    OBVIOUS
  <2> DEFINE j == i - p + 1
  <2>1. j \in 1..l /\ p + j - 1 = i
    BY <1>1
  <2> HIDE DEF j
  <2> QED
    BY <1>1, <1>2, <2>1
<1>4. p \in Int /\ p + l - 1 \in Int
  BY <1>1
<1>5. /\ u \in Seq(Byte) /\ Len(u) = IF p <= p + l - 1 THEN (p + l - 1) - p + 1 ELSE 0
      /\ \A i \in 1..((p + l - 1) - p + 1) : u[i] = b[p + i - 1]
  <2>1. u = SubSeq(b, p, p + l - 1)
    BY DEF l
  <2> DEFINE e == p + l - 1
  <2>2. e \in Int /\ \A i \in p..e : b[i] \in Byte
    BY <1>3, <1>4
  <2> HIDE DEF e, u
  <2>3. /\ SubSeq(b, p, e) \in Seq(Byte)
        /\ Len(SubSeq(b, p, e)) = IF p <= e THEN e - p + 1 ELSE 0
        /\ \A i \in 1..(e - p + 1) : SubSeq(b, p, e)[i] = b[p + i - 1]
    BY <1>4, <2>2, SubSeqProperties
  <2> QED
    BY <2>1, <2>3, Zenon DEF e
<1> HIDE DEF u
<1>6. Len(u) = l
  BY <1>1, <1>5
<1>7. \A i \in 1..l : u[i] = w[i]
  <2>1. (p + l - 1) - p + 1 = l
    BY <1>1
  <2> QED
    BY <1>2, <1>5, <2>1
<1>8. u = w
  BY <1>1, <1>5, <1>6, <1>7, SeqEqual DEF l
<1> QED
  BY <1>8 DEF u

\* The parser reads a string that was written with its length, or finds it cut.
LEMMA ReadsString ==
  ASSUME NEW r \in String, CutOf(buf, r), NEW p \in Nat \ {0}, NEW x \in Text,
         At(r, p, WriteVarint32(Len(x)) \o x)
  PROVE  LET q == p + Len(WriteVarint32(Len(x)) \o x)
         IN \/ AfterString(p) = {q} /\ StringAt(p, q) = x /\ ReadVarint32(buf, p) = Len(x)
            \/ AfterString(p) = {} /\ buf # r
<1> DEFINE w == WriteVarint32(Len(x))
           n == Len(x)
           l == Len(w)
           k == Len(buf)
           m == Min(VarintEnds(buf, p))
<1>1. /\ x \in String /\ n \in Nat /\ w \in String /\ l \in Nat
      /\ Digits32(n) \in Digits /\ ToInt32(Digits32(n)) = n /\ w = WriteVarint(Digits32(n))
  BY TextLength, StringTypes
<1>2. At(r, p, w) /\ At(r, p + l, x) /\ Len(w \o x) = l + n
  BY <1>1, AtJoined, Joined
<1>3. buf \in String /\ k \in Nat
  BY StringTypes DEF CutOf
<1>4. CASE AfterString(p) = {} /\ buf # r
  BY <1>4
<1>5. CASE /\ At(buf, p, w) /\ VarintEnds(buf, p) # {} /\ m + 1 = p + l
           /\ ReadVarint32(buf, p) = n
  <2> HIDE DEF n, l, k, m, w
  <2>1. AfterString(p) = IF n < 0 \/ n > k + 1 - (p + l) THEN {} ELSE {p + l + n}
    BY <1>5, AfterStringIs, Zenon DEF m, k
  <2>2. p + l \in Nat \ {0} /\ ~(n < 0)
    BY <1>1
  <2>3. CASE n > k + 1 - (p + l)
    <3>1. (p + l) + n > k + 1
      BY <1>1, <1>3, <2>2, <2>3
    <3>2. buf # r
      BY <1>1, <1>2, <2>2, <3>1, AtCut DEF n, k
    <3> QED
      BY <2>1, <2>3, <3>2
  <2>4. CASE ~(n > k + 1 - (p + l))
    <3>1. (p + l) + n <= k + 1 /\ p + (l + n) = p + l + n /\ (p + l + n) - 1 = (p + l) + n - 1
      BY <1>1, <1>3, <2>2, <2>4
    <3>2. At(buf, p + l, x)
      BY <1>1, <1>2, <2>2, <3>1, AtCut DEF n, k
    <3>3. SubSeq(buf, p + l, (p + l) + n - 1) = x
      BY <1>1, <1>3, <2>2, <3>2, SubSeqAt DEF n
    <3>4. StringAt(p, p + l + n) = x
      <4>1. StringAt(p, p + l + n) = SubSeq(buf, m + 1, (p + l + n) - 1)
        BY DEF StringAt, m
      <4> QED
        BY <1>5, <3>1, <3>3, <4>1, Zenon
    <3>5. AfterString(p) = {p + Len(w \o x)}
      BY <1>2, <2>1, <2>2, <2>4, <3>1
    <3> QED
      BY <1>2, <1>5, <3>1, <3>4, <3>5 DEF n, w
  <2> QED
    BY <2>3, <2>4
<1> QED
  <2>1. \/ /\ At(buf, p, w) /\ VarintEnds(buf, p) # {} /\ m + 1 = p + l
           /\ ReadVarint32(buf, p) = n
        \/ AfterString(p) = {} /\ buf # r
    BY <1>1, <1>2, ReadsVarint, Zenon
  <2> QED
    BY <1>4, <1>5, <2>1, Zenon

-----------------------------------------------------------------------------
\* A field as it is written: its tag, its value, what it does to the open groups
\* and to the message of the parser that reads it.
UnknownPart(tg, v, s, t) ==
  /\ tg \in Int32 /\ tg # 0
  /\ ~(s = <<>> /\ tg \in {NAME, AGE, EMAIL})
  /\ \/ /\ GetTagWireType(tg) = WIRETYPE_VARINT /\ t = s
        /\ \E d \in Digits : v = WriteVarint(d)
     \/ /\ GetTagWireType(tg) = WIRETYPE_FIXED64 /\ t = s
        /\ v \in String /\ Len(v) = 8
     \/ /\ GetTagWireType(tg) = WIRETYPE_LENGTH_DELIMITED /\ t = s
        /\ \E x \in Text : v = WriteVarint32(Len(x)) \o x
     \/ /\ GetTagWireType(tg) = WIRETYPE_START_GROUP /\ t = Append(s, tg)
        /\ Len(s) < RecursionLimit /\ v = <<>>
     \/ /\ GetTagWireType(tg) = WIRETYPE_END_GROUP /\ t = Front(s)
        /\ s # <<>> /\ tg = EndTag(Last(s)) /\ v = <<>>
     \/ /\ GetTagWireType(tg) = WIRETYPE_FIXED32 /\ t = s
        /\ v \in String /\ Len(v) = 4

KnownPart(tg, v, s, m, t, m2) ==
  /\ s = <<>> /\ t = <<>>
  /\ \/ tg = NAME /\ \E x \in Text : /\ v = WriteVarint32(Len(x)) \o x
                                     /\ m2 = [m EXCEPT !.name = x]
     \/ tg = AGE /\ \E n \in Int32 : /\ v = WriteVarint32SignExtended(n)
                                     /\ m2 = [m EXCEPT !.age = n]
     \/ tg = EMAIL /\ \E x \in Text : /\ v = WriteVarint32(Len(x)) \o x
                                      /\ m2 = [m EXCEPT !.email = x]

Part(tg, v, s, m, t, m2) ==
  \/ KnownPart(tg, v, s, m, t, m2)
  \/ UnknownPart(tg, v, s, t) /\ m2 = [m EXCEPT !.unknown = @ \o WriteVarint32(tg) \o v]

\* The parser goes through r from each of the places of S, where the groups s1 are
\* open and the message is m1, to its end, where these are s and m.
Reading(S, r, s, m) ==
  \A p \in Nat \ {0} : \A s1, m1 :
    <<p, s1, m1>> \in S =>
      \/ p = Len(r) + 1 /\ s1 = s /\ m1 = m
      \/ \E tg, v, t, m2 : /\ Part(tg, v, s1, m1, t, m2)
                          /\ At(r, p, WriteVarint32(tg) \o v)
                          /\ <<p + Len(WriteVarint32(tg) \o v), t, m2>> \in S

Reads(r, s, m) == \E S : Reading(S, r, s, m) /\ <<1, <<>>, Cleared>> \in S

LEMMA TagWritten ==
  ASSUME NEW tg \in Int32
  PROVE  /\ WriteVarint32(tg) = WriteVarint(Digits32(tg)) /\ WriteVarint32(tg) \in String
         /\ Digits32(tg) \in Digits /\ ToInt32(Digits32(tg)) = tg
         /\ Len(WriteVarint32(tg)) \in 1..10
<1>1. Digits32(tg) \in Digits /\ ToInt32(Digits32(tg)) = tg
  BY DigitsOf32, SMT
<1>2. WriteVarint32(tg) = WriteVarint(Digits32(tg))
  BY DEF WriteVarint32
<1> QED
  BY <1>1, <1>2, Written, DigitTypes

LEMMA KeysAreTags ==
  /\ NAME \in Int32 /\ NAME # 0 /\ AGE \in Int32 /\ AGE # 0 /\ EMAIL \in Int32 /\ EMAIL # 0
  /\ NAME # AGE /\ NAME # EMAIL /\ AGE # EMAIL
  /\ GetTagWireType(NAME) = WIRETYPE_LENGTH_DELIMITED
  /\ GetTagWireType(EMAIL) = WIRETYPE_LENGTH_DELIMITED
  /\ GetTagWireType(AGE) = WIRETYPE_VARINT
  BY SMT DEF NAME, AGE, EMAIL, Int32, GetTagWireType, WIRETYPE_LENGTH_DELIMITED, WIRETYPE_VARINT

LEMMA TextWritten ==
  ASSUME NEW x \in Text
  PROVE  WriteVarint32(Len(x)) \o x \in String
  BY TextLength, Joined

LEMMA PartTypes ==
  ASSUME NEW tg, NEW v, NEW s, NEW m, NEW t, NEW m2, Part(tg, v, s, m, t, m2)
  PROVE  /\ tg \in Int32 /\ tg # 0 /\ v \in String
         /\ WriteVarint32(tg) \in String /\ WriteVarint32(tg) \o v \in String
<1>1. <<>> \in String
  BY DEF String
<1>2. tg \in Int32 /\ tg # 0
  BY KeysAreTags DEF Part, KnownPart, UnknownPart
<1>3. v \in String
  <2>1. CASE KnownPart(tg, v, s, m, t, m2)
    <3>1. \A n \in Int32 : WriteVarint32SignExtended(n) \in String
      <4>1. \A n \in Int32 : Digits64(n) \in Digits
        BY DigitsOf64, SMT
      <4> QED
        BY <4>1, Written DEF WriteVarint32SignExtended
    <3> QED
      BY <2>1, <3>1, TextWritten, Zenon DEF KnownPart
  <2>2. CASE UnknownPart(tg, v, s, t)
    BY <1>1, <2>2, TextWritten, Written, Zenon DEF UnknownPart
  <2> QED
    BY <2>1, <2>2 DEF Part
<1>4. WriteVarint32(tg) \in String
  BY <1>2, TagWritten
<1> QED
  BY <1>2, <1>3, <1>4, Joined

\* A field can be added at the end.
LEMMA Extend ==
  ASSUME NEW r \in String, NEW s, NEW m, Reads(r, s, m),
         NEW tg, NEW v, NEW t, NEW m2, Part(tg, v, s, m, t, m2)
  PROVE  Reads(r \o (WriteVarint32(tg) \o v), t, m2)
<1> DEFINE f == WriteVarint32(tg) \o v
           r2 == r \o f
<1>1. f \in String /\ r2 \in String /\ Len(r2) = Len(r) + Len(f) /\ Len(r) \in Nat /\ Len(f) \in Nat
  BY PartTypes, Joined, StringTypes
<1>2. PICK S : Reading(S, r, s, m) /\ <<1, <<>>, Cleared>> \in S
  BY DEF Reads
<1> DEFINE S2 == S \cup {<<Len(r) + 1, s, m>>, <<Len(r2) + 1, t, m2>>}
<1>3. <<1, <<>>, Cleared>> \in S2
  BY <1>2
<1>4. At(r2, Len(r) + 1, f) /\ Len(r) + 1 + Len(f) = Len(r2) + 1
  <2>1. At(r2, Len(r) + 1, f)
    BY <1>1, AtLonger
  <2> QED
    BY <1>1, <2>1
<1> HIDE DEF r2
<1>5. ASSUME NEW p \in Nat \ {0}, NEW s1, NEW m1, <<p, s1, m1>> \in S2
      PROVE  \/ p = Len(r2) + 1 /\ s1 = t /\ m1 = m2
             \/ \E tg3, v3, t3, m3 :
                  /\ Part(tg3, v3, s1, m1, t3, m3)
                  /\ At(r2, p, WriteVarint32(tg3) \o v3)
                  /\ <<p + Len(WriteVarint32(tg3) \o v3), t3, m3>> \in S2
  <2>1. CASE p = Len(r) + 1 /\ s1 = s /\ m1 = m
    <3>1. <<p + Len(f), t, m2>> \in S2
      BY <1>4, <2>1
    <3>2. At(r2, p, f) /\ Part(tg, v, s1, m1, t, m2)
      BY <1>4, <2>1
    <3> QED
      BY <3>1, <3>2
  <2>2. CASE p = Len(r2) + 1 /\ s1 = t /\ m1 = m2
    BY <2>2
  <2>3. CASE \E tg3, v3, t3, m3 :
                  /\ Part(tg3, v3, s1, m1, t3, m3)
                  /\ At(r, p, WriteVarint32(tg3) \o v3)
                  /\ <<p + Len(WriteVarint32(tg3) \o v3), t3, m3>> \in S
    <3>1. PICK tg3, v3, t3, m3 :
                  /\ Part(tg3, v3, s1, m1, t3, m3)
                  /\ At(r, p, WriteVarint32(tg3) \o v3)
                  /\ <<p + Len(WriteVarint32(tg3) \o v3), t3, m3>> \in S
      BY <2>3
    <3>2. WriteVarint32(tg3) \o v3 \in String
      BY <3>1, PartTypes
    <3>3. At(r2, p, WriteVarint32(tg3) \o v3)
      BY <1>1, <3>1, <3>2, AtLonger DEF r2
    <3>4. <<p + Len(WriteVarint32(tg3) \o v3), t3, m3>> \in S2
      BY <3>1
    <3> HIDE DEF S2
    <3> QED
      BY <3>1, <3>3, <3>4, Zenon
  <2>4. <<p, s1, m1>> \in S \/ (p = Len(r) + 1 /\ s1 = s /\ m1 = m)
        \/ (p = Len(r2) + 1 /\ s1 = t /\ m1 = m2)
    BY <1>5
  <2>5. <<p, s1, m1>> \in S =>
          \/ p = Len(r) + 1 /\ s1 = s /\ m1 = m
          \/ \E tg3, v3, t3, m3 :
                  /\ Part(tg3, v3, s1, m1, t3, m3)
                  /\ At(r, p, WriteVarint32(tg3) \o v3)
                  /\ <<p + Len(WriteVarint32(tg3) \o v3), t3, m3>> \in S
    BY <1>2, Zenon DEF Reading
  <2> HIDE DEF S2
  <2> QED
    BY <2>1, <2>2, <2>3, <2>4, <2>5, Zenon
<1> HIDE DEF S2
<1>6. Reading(S2, r2, t, m2)
  BY <1>5, Zenon DEF Reading
<1> QED
  BY <1>3, <1>6, Zenon DEF Reads, r2

LEMMA NothingRead == Reads(<<>>, <<>>, Cleared)
<1> DEFINE S == {<<1, <<>>, Cleared>>}
<1>1. Len(<<>>) + 1 = 1
  OBVIOUS
<1>2. \A p, s1, m1 : <<p, s1, m1>> \in S => p = Len(<<>>) + 1 /\ s1 = <<>> /\ m1 = Cleared
  BY <1>1
<1>3. <<1, <<>>, Cleared>> \in S
  OBVIOUS
<1> HIDE DEF S
<1> QED
  BY <1>2, <1>3, Zenon DEF Reads, Reading

\* The unknown fields u can be read behind the fields of any message; they leave
\* the groups gs open.
UnknownReadable(u, gs) ==
  \A r \in String, m \in Messages :
    Reads(r, <<>>, m) /\ m.unknown = <<>> => Reads(r \o u, gs, [m EXCEPT !.unknown = u])

LEMMA NoUnknown == UnknownReadable(<<>>, <<>>)
<1>1. ASSUME NEW r \in String, NEW m \in Messages, Reads(r, <<>>, m), m.unknown = <<>>
      PROVE  Reads(r \o <<>>, <<>>, [m EXCEPT !.unknown = <<>>])
  <2>1. r \o <<>> = r
    BY StringTypes, ConcatEmptySeq
  <2>2. [m EXCEPT !.unknown = <<>>] = m
    BY <1>1 DEF Messages
  <2> QED
    BY <1>1, <2>1, <2>2, Zenon
<1> QED
  BY <1>1, Zenon DEF UnknownReadable

LEMMA UnknownAdded ==
  ASSUME NEW u \in String, NEW gs, UnknownReadable(u, gs),
         NEW tg, NEW v, NEW t, UnknownPart(tg, v, gs, t)
  PROVE  /\ UnknownReadable(u \o WriteVarint32(tg) \o v, t)
         /\ u \o WriteVarint32(tg) \o v \in String
<1> DEFINE w == WriteVarint32(tg)
<1>1. v \in String /\ w \in String /\ w \o v \in String
  BY PartTypes DEF Part
<1>2. u \o w \o v = u \o (w \o v) /\ u \o w \o v \in String
  BY <1>1, JoinedTwice, Joined
<1>3. ASSUME NEW r \in String, NEW m \in Messages, Reads(r, <<>>, m), m.unknown = <<>>
      PROVE  Reads(r \o (u \o w \o v), t, [m EXCEPT !.unknown = u \o w \o v])
  <2> DEFINE m1 == [m EXCEPT !.unknown = u]
             m2 == [m EXCEPT !.unknown = u \o w \o v]
  <2>1. Reads(r \o u, gs, m1)
    BY <1>3, Zenon DEF UnknownReadable
  <2>2. m2 = [m1 EXCEPT !.unknown = @ \o w \o v]
    BY DEF Messages
  <2>3. Part(tg, v, gs, m1, t, m2)
    BY <2>2 DEF Part
  <2>4. r \o u \in String
    BY Joined
  <2> HIDE DEF m1, m2
  <2>5. Reads((r \o u) \o (w \o v), t, m2)
    BY <2>1, <2>3, <2>4, Extend
  <2>6. (r \o u) \o (w \o v) = r \o (u \o w \o v)
    BY <1>1, <1>2, JoinedTwice
  <2> QED
    BY <2>5, <2>6, Zenon DEF m2
<1> HIDE DEF w
<1> QED
  BY <1>2, <1>3, Zenon DEF UnknownReadable, w

LEMMA StringPart ==
  ASSUME NEW x \in Text, NEW key \in {NAME, EMAIL}
  PROVE  WriteString(key, x) = IF x = Absent THEN <<>>
                               ELSE WriteVarint32(key) \o (WriteVarint32(Len(x)) \o x)
<1>1. WriteVarint32(key) \in String
  BY KeysAreTags, TagWritten
<1>2. WriteVarint32(Len(x)) \in String /\ x \in String
  BY TextLength
<1>3. (WriteVarint32(key) \o WriteVarint32(Len(x))) \o x
      = WriteVarint32(key) \o (WriteVarint32(Len(x)) \o x)
  BY <1>1, <1>2, JoinedTwice
<1> QED
  BY <1>3, Zenon DEF WriteString

\* A message that was serialized can be read.
LEMMA SerializedIsRead ==
  ASSUME NEW h \in Messages, IsInitialized(h), UnknownReadable(h.unknown, <<>>)
  PROVE  Serialize(h) \in String /\ Reads(Serialize(h), <<>>, h)
<1> DEFINE nameField == WriteString(NAME, h.name)
           age == WriteVarint32SignExtended(h.age)
           ageField == WriteVarint32(AGE) \o age
           emailField == WriteString(EMAIL, h.email)
           m1 == [Cleared EXCEPT !.name = h.name]
           m2 == [m1 EXCEPT !.age = h.age]
           m3 == [m2 EXCEPT !.email = h.email]
<1>1. /\ h.name \in Text /\ h.name # Absent /\ h.age \in Int32 /\ h.unknown \in String
      /\ h.email \in Text \cup {Absent}
  BY DEF Messages, IsInitialized
<1>0. /\ m2 = [name |-> h.name, age |-> h.age, email |-> Absent, unknown |-> <<>>]
      /\ m3 = [name |-> h.name, age |-> h.age, email |-> h.email, unknown |-> <<>>]
  <2>1. m1 = [name |-> h.name, age |-> Absent, email |-> Absent, unknown |-> <<>>]
    BY DEF Cleared
  <2> HIDE DEF m1
  <2>2. m2 = [name |-> h.name, age |-> h.age, email |-> Absent, unknown |-> <<>>]
    BY <2>1
  <2> HIDE DEF m2
  <2>3. m3 = [name |-> h.name, age |-> h.age, email |-> h.email, unknown |-> <<>>]
    BY <2>2
  <2> QED
    BY <2>2, <2>3
<1>2. Reads(nameField, <<>>, m1) /\ nameField \in String
  <2> DEFINE v == WriteVarint32(Len(h.name)) \o h.name
  <2>1. nameField = WriteVarint32(NAME) \o v
    BY <1>1, StringPart
  <2>2. Part(NAME, v, <<>>, Cleared, <<>>, m1)
    BY <1>1 DEF Part, KnownPart
  <2>3. <<>> \in String /\ <<>> \o (WriteVarint32(NAME) \o v) = WriteVarint32(NAME) \o v
    <3>1. WriteVarint32(NAME) \o v \in String
      BY <2>2, PartTypes
    <3> QED
      BY <3>1, StringTypes, ConcatEmptySeq DEF String
  <2> HIDE DEF v, m1
  <2>4. Reads(<<>> \o (WriteVarint32(NAME) \o v), <<>>, m1)
    BY <2>2, <2>3, NothingRead, Extend
  <2>5. nameField \in String
    BY <2>1, <2>2, PartTypes
  <2> QED
    BY <2>1, <2>3, <2>4, <2>5, Zenon
<1>3. /\ Reads(nameField \o ageField, <<>>, m2) /\ age \in String /\ WriteVarint32(AGE) \in String
      /\ ageField \in String
  <2>1. Part(AGE, age, <<>>, m1, <<>>, m2)
    BY <1>1 DEF Part, KnownPart
  <2> HIDE DEF age, m1, m2, nameField
  <2>2. Reads(nameField \o (WriteVarint32(AGE) \o age), <<>>, m2)
    BY <1>2, <2>1, Extend
  <2>3. age \in String /\ WriteVarint32(AGE) \in String /\ WriteVarint32(AGE) \o age \in String
    BY <2>1, PartTypes
  <2> QED
    BY <2>2, <2>3
<1>4. Reads(nameField \o ageField \o emailField, <<>>, m3) /\ emailField \in String
  <2>1. nameField \o ageField \in String
    BY <1>2, <1>3, Joined
  <2>2. CASE h.email = Absent
    <3>1. emailField = <<>>
      BY <2>2 DEF WriteString
    <3>2. m3 = m2
      BY <1>0, <2>2, Zenon
    <3>3. nameField \o ageField \o <<>> = nameField \o ageField /\ <<>> \in String
      <4> DEFINE z == nameField \o ageField
      <4>1. z \in Seq(Byte)
        BY <2>1, StringTypes
      <4> HIDE DEF z
      <4>2. z \o <<>> = z
        BY <4>1, ConcatEmptySeq
      <4> QED
        BY <4>2 DEF z, String
    <3> HIDE DEF emailField, m2, m3, ageField, nameField
    <3> QED
      BY <1>3, <3>1, <3>2, <3>3
  <2>3. CASE h.email # Absent
    <3> DEFINE v == WriteVarint32(Len(h.email)) \o h.email
    <3>1. emailField = WriteVarint32(EMAIL) \o v
      BY <1>1, <2>3, StringPart
    <3>2. Part(EMAIL, v, <<>>, m2, <<>>, m3)
      BY <1>1, <2>3 DEF Part, KnownPart
    <3> DEFINE z == nameField \o ageField
    <3> HIDE DEF v, m1, m2, m3, nameField, ageField, emailField, z
    <3>3. z \in String /\ Reads(z, <<>>, m2)
      BY <1>3, <2>1 DEF z
    <3>4. Reads(z \o (WriteVarint32(EMAIL) \o v), <<>>, m3)
      BY <3>2, <3>3, Extend
    <3>5. emailField \in String
      BY <3>1, <3>2, PartTypes
    <3> QED
      BY <3>1, <3>4, <3>5 DEF z
  <2> QED
    BY <2>2, <2>3
<1>5. m3 \in Messages /\ m3.unknown = <<>> /\ [m3 EXCEPT !.unknown = h.unknown] = h
  <2>1. m3 = [name |-> h.name, age |-> h.age, email |-> h.email, unknown |-> <<>>]
    BY <1>0
  <2>2. <<>> \in String
    BY DEF String
  <2> HIDE DEF m3
  <2> QED
    BY <1>1, <2>1, <2>2 DEF Messages
<1> DEFINE z == nameField \o ageField \o emailField
<1>6. z \in String
  BY <1>2, <1>3, <1>4, Joined
<1>7. Serialize(h) = z \o h.unknown
  <2>1. nameField \o WriteVarint32(AGE) \o age = nameField \o ageField
    BY <1>2, <1>3, JoinedTwice
  <2> QED
    BY <2>1, Zenon DEF Serialize
<1> HIDE DEF m3, z, nameField, ageField, emailField
<1>8. Reads(z \o h.unknown, <<>>, h)
  BY <1>4, <1>5, <1>6, Zenon DEF UnknownReadable, z
<1>9. z \o h.unknown \in String
  BY <1>1, <1>6, Joined
<1> QED
  BY <1>7, <1>8, <1>9, Zenon

-----------------------------------------------------------------------------
LEMMA ZeroTag == tag = 0 => FieldEnd = {} /\ GetTagWireType(tag) = WIRETYPE_VARINT
<1>1. ASSUME tag = 0 PROVE FieldEnd = {} /\ GetTagWireType(tag) = WIRETYPE_VARINT
  <2>1. GetTagWireType(tag) = 0
    BY <1>1 DEF GetTagWireType
  <2> QED
    BY <1>1, <2>1 DEF FieldEnd, WIRETYPE_VARINT, WIRETYPE_FIXED64,
          WIRETYPE_LENGTH_DELIMITED, WIRETYPE_START_GROUP, WIRETYPE_END_GROUP,
          WIRETYPE_FIXED32
<1> QED
  BY <1>1

LEMMA ByType ==
  ASSUME tag # 0, NEW q
  PROVE  /\ GetTagWireType(tag) = WIRETYPE_VARINT =>
              /\ FieldEnd = AfterVarint(pos)
              /\ UnknownValue(q) = WriteVarint(ReadVarint64(buf, pos))
         /\ GetTagWireType(tag) = WIRETYPE_FIXED64 =>
              FieldEnd = AfterFixed(pos, 8) /\ UnknownValue(q) = SubSeq(buf, pos, q - 1)
         /\ GetTagWireType(tag) = WIRETYPE_LENGTH_DELIMITED =>
              /\ FieldEnd = AfterString(pos)
              /\ UnknownValue(q) = WriteVarint32(ReadVarint32(buf, pos)) \o StringAt(pos, q)
         /\ GetTagWireType(tag) = WIRETYPE_START_GROUP =>
              /\ FieldEnd = IF MayNest THEN {pos} ELSE {}
              /\ UnknownValue(q) = SubSeq(buf, pos, q - 1)
         /\ GetTagWireType(tag) = WIRETYPE_END_GROUP =>
              /\ FieldEnd = IF tag = EndTag(Last(groups)) THEN {pos} ELSE {}
              /\ UnknownValue(q) = SubSeq(buf, pos, q - 1)
         /\ GetTagWireType(tag) = WIRETYPE_FIXED32 =>
              FieldEnd = AfterFixed(pos, 4) /\ UnknownValue(q) = SubSeq(buf, pos, q - 1)
         /\ FieldEnd # {} =>
              GetTagWireType(tag) \in {WIRETYPE_VARINT, WIRETYPE_FIXED64,
                WIRETYPE_LENGTH_DELIMITED, WIRETYPE_START_GROUP, WIRETYPE_END_GROUP,
                WIRETYPE_FIXED32}
<1>1. /\ WIRETYPE_VARINT = 0 /\ WIRETYPE_FIXED64 = 1 /\ WIRETYPE_LENGTH_DELIMITED = 2
      /\ WIRETYPE_START_GROUP = 3 /\ WIRETYPE_END_GROUP = 4 /\ WIRETYPE_FIXED32 = 5
  BY DEF WIRETYPE_VARINT, WIRETYPE_FIXED64, WIRETYPE_LENGTH_DELIMITED,
         WIRETYPE_START_GROUP, WIRETYPE_END_GROUP, WIRETYPE_FIXED32
<1> DEFINE k == GetTagWireType(tag)
<1> HIDE DEF k
<1>2. FieldEnd = CASE k = 0 -> AfterVarint(pos)
                   [] k = 1 -> AfterFixed(pos, 8)
                   [] k = 2 -> AfterString(pos)
                   [] k = 3 -> IF MayNest THEN {pos} ELSE {}
                   [] k = 4 -> IF tag = EndTag(Last(groups)) THEN {pos} ELSE {}
                   [] k = 5 -> AfterFixed(pos, 4)
                   [] OTHER -> {}
  BY <1>1 DEF FieldEnd, k
<1>3. /\ k = 0 => UnknownValue(q) = WriteVarint(ReadVarint64(buf, pos))
      /\ k = 2 => UnknownValue(q) = WriteVarint32(ReadVarint32(buf, pos)) \o StringAt(pos, q)
      /\ k \notin {0, 2} => UnknownValue(q) = SubSeq(buf, pos, q - 1)
  <2>1. UnknownValue(q) =
          CASE k = 0 -> WriteVarint(ReadVarint64(buf, pos))
            [] k = 2 -> WriteVarint32(ReadVarint32(buf, pos)) \o StringAt(pos, q)
            [] OTHER -> SubSeq(buf, pos, q - 1)
    BY <1>1 DEF UnknownValue, k
  <2>2. k = 0 => UnknownValue(q) = WriteVarint(ReadVarint64(buf, pos))
    BY <2>1
  <2>3. k = 2 => UnknownValue(q) = WriteVarint32(ReadVarint32(buf, pos)) \o StringAt(pos, q)
    BY <2>1
  <2>4. k \notin {0, 2} => UnknownValue(q) = SubSeq(buf, pos, q - 1)
    BY <2>1, Zenon
  <2> QED
    BY <2>2, <2>3, <2>4
<1>4. k = 0 => FieldEnd = AfterVarint(pos) /\ UnknownValue(q) = WriteVarint(ReadVarint64(buf, pos))
  BY <1>2, <1>3
<1>5. k = 1 => FieldEnd = AfterFixed(pos, 8) /\ UnknownValue(q) = SubSeq(buf, pos, q - 1)
  BY <1>2, <1>3
<1>6. k = 2 => /\ FieldEnd = AfterString(pos)
               /\ UnknownValue(q) = WriteVarint32(ReadVarint32(buf, pos)) \o StringAt(pos, q)
  BY <1>2, <1>3
<1>7. k = 3 => /\ FieldEnd = IF MayNest THEN {pos} ELSE {}
               /\ UnknownValue(q) = SubSeq(buf, pos, q - 1)
  BY <1>2, <1>3
<1>8. k = 4 => /\ FieldEnd = IF tag = EndTag(Last(groups)) THEN {pos} ELSE {}
               /\ UnknownValue(q) = SubSeq(buf, pos, q - 1)
  BY <1>2, <1>3
<1>9. k = 5 => FieldEnd = AfterFixed(pos, 4) /\ UnknownValue(q) = SubSeq(buf, pos, q - 1)
  BY <1>2, <1>3
<1>10. FieldEnd # {} => k \in {0, 1, 2, 3, 4, 5}
  BY <1>2
<1> QED
  BY <1>1, <1>4, <1>5, <1>6, <1>7, <1>8, <1>9, <1>10, Zenon DEF k

LEMMA EmptyAt ==
  ASSUME NEW b \in String, NEW p \in Nat \ {0}, p <= Len(b) + 1
  PROVE  <<>> \in String /\ SubSeq(b, p, p - 1) = <<>> /\ p + Len(<<>>) = p
<1>1. p \in Int /\ p - 1 \in Int /\ p - 1 < p
  OBVIOUS
<1>2. SubSeq(b, p, p - 1) = <<>>
  BY <1>1, SubSeqEmpty
<1> QED
  BY <1>2 DEF String

LEMMA ReadsFixed ==
  ASSUME NEW r \in String, CutOf(buf, r), NEW p \in Nat \ {0}, NEW v \in String, At(r, p, v),
         NEW n \in Nat, Len(v) = n
  PROVE  \/ AfterFixed(p, n) = {p + Len(v)} /\ SubSeq(buf, p, (p + Len(v)) - 1) = v
         \/ AfterFixed(p, n) = {} /\ buf # r
<1>1. buf \in String /\ Len(buf) \in Nat
  BY StringTypes DEF CutOf
<1>2. AfterFixed(p, n) = IF p + n <= Len(buf) + 1 THEN {p + n} ELSE {}
  BY DEF AfterFixed
<1>3. CASE p + n <= Len(buf) + 1
  <2>1. At(buf, p, v)
    BY <1>3, AtCut
  <2>2. SubSeq(buf, p, p + Len(v) - 1) = v
    BY <1>1, <2>1, SubSeqAt
  <2>3. p + n - 1 = (p + n) - 1
    OBVIOUS
  <2> QED
    BY <1>2, <1>3, <2>2, <2>3
<1>4. CASE ~(p + n <= Len(buf) + 1)
  <2>1. p + n > Len(buf) + 1
    BY <1>1, <1>4
  <2>2. buf # r
    BY <2>1, AtCut
  <2> QED
    BY <1>2, <1>4, <2>2
<1> QED
  BY <1>3, <1>4

\* The parser reads a field as it was written, or finds its value cut.
LEMMA ReadsUnknown ==
  ASSUME NEW r \in String, CutOf(buf, r), pos \in Nat \ {0}, pos <= Len(buf) + 1,
         NEW v \in String, NEW t, UnknownPart(tag, v, groups, t), At(r, pos, v)
  PROVE  LET q == pos + Len(v)
         IN \/ FieldEnd = {q} /\ UnknownValue(q) = v
            \/ FieldEnd = {} /\ buf # r
<1> DEFINE q == pos + Len(v)
<1> SUFFICES \/ FieldEnd = {q} /\ UnknownValue(q) = v
             \/ FieldEnd = {} /\ buf # r
  BY DEF q
<1> HIDE DEF q
<1>1. tag # 0 /\ buf \in String
  BY DEF UnknownPart, CutOf
<1>2. CASE GetTagWireType(tag) = WIRETYPE_VARINT /\ \E d \in Digits : v = WriteVarint(d)
  <2>1. PICK d \in Digits : v = WriteVarint(d)
    BY <1>2
  <2>2. FieldEnd = AfterVarint(pos) /\ UnknownValue(q) = WriteVarint(ReadVarint64(buf, pos))
    BY <1>1, <1>2, ByType
  <2>3. \/ AfterVarint(pos) = {q} /\ ReadVarint64(buf, pos) = Trim(d)
        \/ AfterVarint(pos) = {} /\ buf # r
    BY <2>1, ReadsVarint, Zenon DEF q
  <2>4. WriteVarint(Trim(d)) = v
    BY <2>1, Trimmed
  <2> QED
    BY <2>2, <2>3, <2>4, Zenon
<1>3. CASE GetTagWireType(tag) = WIRETYPE_FIXED64 /\ Len(v) = 8
  <2>1. FieldEnd = AfterFixed(pos, 8) /\ UnknownValue(q) = SubSeq(buf, pos, q - 1)
    BY <1>1, <1>3, ByType
  <2>2. \/ AfterFixed(pos, 8) = {q} /\ SubSeq(buf, pos, q - 1) = v
        \/ AfterFixed(pos, 8) = {} /\ buf # r
    <3>1. 8 \in Nat
      OBVIOUS
    <3> QED
      BY <1>3, <3>1, ReadsFixed, Zenon DEF q
  <2> QED
    BY <2>1, <2>2, Zenon
<1>4. CASE /\ GetTagWireType(tag) = WIRETYPE_LENGTH_DELIMITED
           /\ \E x \in Text : v = WriteVarint32(Len(x)) \o x
  <2>1. PICK x \in Text : v = WriteVarint32(Len(x)) \o x
    BY <1>4
  <2>2. /\ FieldEnd = AfterString(pos)
        /\ UnknownValue(q) = WriteVarint32(ReadVarint32(buf, pos)) \o StringAt(pos, q)
    BY <1>1, <1>4, ByType
  <2>3. \/ AfterString(pos) = {q} /\ StringAt(pos, q) = x /\ ReadVarint32(buf, pos) = Len(x)
        \/ AfterString(pos) = {} /\ buf # r
    BY <2>1, ReadsString, Zenon DEF q
  <2> QED
    BY <2>1, <2>2, <2>3, Zenon
<1>5. CASE GetTagWireType(tag) = WIRETYPE_START_GROUP /\ Len(groups) < RecursionLimit /\ v = <<>>
  <2>1. FieldEnd = {pos} /\ UnknownValue(pos) = SubSeq(buf, pos, pos - 1)
    BY <1>1, <1>5, ByType DEF MayNest
  <2> QED
    <3>1. q = pos /\ SubSeq(buf, pos, pos - 1) = <<>>
      BY <1>1, <1>5, EmptyAt DEF q
    <3> QED
      BY <1>5, <2>1, <3>1, Zenon
<1>6. CASE GetTagWireType(tag) = WIRETYPE_END_GROUP /\ tag = EndTag(Last(groups)) /\ v = <<>>
  <2>1. FieldEnd = {pos} /\ UnknownValue(pos) = SubSeq(buf, pos, pos - 1)
    BY <1>1, <1>6, ByType
  <2> QED
    <3>1. q = pos /\ SubSeq(buf, pos, pos - 1) = <<>>
      BY <1>1, <1>6, EmptyAt DEF q
    <3> QED
      BY <1>6, <2>1, <3>1, Zenon
<1>7. CASE GetTagWireType(tag) = WIRETYPE_FIXED32 /\ Len(v) = 4
  <2>1. FieldEnd = AfterFixed(pos, 4) /\ UnknownValue(q) = SubSeq(buf, pos, q - 1)
    BY <1>1, <1>7, ByType
  <2>2. \/ AfterFixed(pos, 4) = {q} /\ SubSeq(buf, pos, q - 1) = v
        \/ AfterFixed(pos, 4) = {} /\ buf # r
    <3>1. 4 \in Nat
      OBVIOUS
    <3> QED
      BY <1>7, <3>1, ReadsFixed, Zenon DEF q
  <2> QED
    BY <2>1, <2>2, Zenon
<1> QED
  BY <1>2, <1>3, <1>4, <1>5, <1>6, <1>7, Zenon DEF UnknownPart

LEMMA ReadsKnown ==
  ASSUME NEW r \in String, CutOf(buf, r), pos \in Nat \ {0},
         NEW v, NEW t, NEW m2, KnownPart(tag, v, groups, msg, t, m2), At(r, pos, v)
  PROVE  LET q == pos + Len(v)
         IN \/ /\ FieldEnd = {q}
               /\ tag = NAME => m2 = [msg EXCEPT !.name = StringAt(pos, q)]
               /\ tag = AGE => m2 = [msg EXCEPT !.age = ReadVarint32(buf, pos)]
               /\ tag = EMAIL => m2 = [msg EXCEPT !.email = StringAt(pos, q)]
            \/ FieldEnd = {} /\ buf # r
<1> DEFINE q == pos + Len(v)
<1>1. tag # 0
  BY KeysAreTags DEF KnownPart
<1>2. CASE tag = NAME
  <2>1. PICK x \in Text : v = WriteVarint32(Len(x)) \o x /\ m2 = [msg EXCEPT !.name = x]
    BY <1>2, KeysAreTags DEF KnownPart
  <2>2. FieldEnd = AfterString(pos)
    BY <1>1, <1>2, KeysAreTags, ByType
  <2>3. \/ AfterString(pos) = {q} /\ StringAt(pos, q) = x
        \/ AfterString(pos) = {} /\ buf # r
    BY <2>1, ReadsString, Zenon
  <2> QED
    BY <1>2, <2>1, <2>2, <2>3, KeysAreTags, Zenon
<1>3. CASE tag = EMAIL
  <2>1. PICK x \in Text : v = WriteVarint32(Len(x)) \o x /\ m2 = [msg EXCEPT !.email = x]
    BY <1>3, KeysAreTags DEF KnownPart
  <2>2. FieldEnd = AfterString(pos)
    BY <1>1, <1>3, KeysAreTags, ByType
  <2>3. \/ AfterString(pos) = {q} /\ StringAt(pos, q) = x
        \/ AfterString(pos) = {} /\ buf # r
    BY <2>1, ReadsString, Zenon
  <2> QED
    BY <1>3, <2>1, <2>2, <2>3, KeysAreTags, Zenon
<1>4. CASE tag = AGE
  <2>1. PICK n \in Int32 : v = WriteVarint32SignExtended(n) /\ m2 = [msg EXCEPT !.age = n]
    BY <1>4, KeysAreTags DEF KnownPart
  <2>2. FieldEnd = AfterVarint(pos)
    BY <1>1, <1>4, KeysAreTags, ByType
  <2>3. Digits64(n) \in Digits /\ ToInt32(Digits64(n)) = n
    BY DigitsOf64, SMT
  <2>4. v = WriteVarint(Digits64(n))
    BY <2>1 DEF WriteVarint32SignExtended
  <2>5. \/ AfterVarint(pos) = {q} /\ ReadVarint32(buf, pos) = n
        \/ AfterVarint(pos) = {} /\ buf # r
    BY <2>3, <2>4, ReadsVarint, Zenon
  <2> QED
    BY <1>4, <2>1, <2>2, <2>5, KeysAreTags, Zenon
<1> QED
  BY <1>2, <1>3, <1>4, KeysAreTags DEF KnownPart

LEMMA Piece ==
  ASSUME NEW b \in String, NEW a \in Nat \ {0}, NEW c \in Nat, a <= c + 1, c <= Len(b)
  PROVE  SubSeq(b, a, c) \in String /\ Len(SubSeq(b, a, c)) = c + 1 - a
<1>1. b \in Seq(Byte) /\ Len(b) \in Nat
  BY StringTypes
<1>2. \A i \in a..c : i \in 1..Len(b)
  BY <1>1
<1>3. \A i \in a..c : b[i] \in Byte
  BY <1>1, <1>2, ElementOfSeq
<1>4. a \in Int /\ c \in Int
  OBVIOUS
<1>5. /\ SubSeq(b, a, c) \in Seq(Byte)
      /\ Len(SubSeq(b, a, c)) = IF a <= c THEN c - a + 1 ELSE 0
  BY <1>3, <1>4, SubSeqProperties
<1>6. (IF a <= c THEN c - a + 1 ELSE 0) = c + 1 - a
  BY <1>4
<1> QED
  BY <1>5, <1>6 DEF String

LEMMA VarintPlace ==
  ASSUME buf \in String, NEW p \in Nat \ {0}, NEW q \in AfterVarint(p)
  PROVE  /\ VarintEnds(buf, p) # {} /\ q = Min(VarintEnds(buf, p)) + 1
         /\ q \in Nat /\ p <= q /\ q <= Len(buf) + 1
         /\ ReadVarint64(buf, p) \in Digits /\ ReadVarint32(buf, p) \in Int32
<1> DEFINE m == Min(VarintEnds(buf, p))
<1>1. VarintEnds(buf, p) # {} /\ q = m + 1
  BY AfterVarintIs
<1>2. /\ m \in p..(p + 9) /\ m <= Len(buf)
      /\ ReadVarint64(buf, p) \in Digits /\ ReadVarint32(buf, p) \in Int32
  BY <1>1, VarintRead
<1>3. Len(buf) \in Nat
  BY StringTypes
<1> HIDE DEF m
<1>4. q \in Nat /\ p <= q /\ q <= Len(buf) + 1
  BY <1>1, <1>2, <1>3
<1> QED
  BY <1>1, <1>2, <1>4, Zenon DEF m

LEMMA StringPlace ==
  ASSUME buf \in String, NEW p \in Nat \ {0}, NEW q \in AfterString(p)
  PROVE  /\ StringAt(p, q) \in Text /\ Len(StringAt(p, q)) = ReadVarint32(buf, p)
         /\ q \in Nat /\ p <= q /\ q <= Len(buf) + 1
<1> DEFINE m == Min(VarintEnds(buf, p))
           n == ReadVarint32(buf, p)
<1>1. VarintEnds(buf, p) # {} /\ ~(n < 0) /\ ~(n > Len(buf) + 1 - (m + 1)) /\ q = m + 1 + n
  BY AfterStringIs
<1>2. m \in p..(p + 9) /\ m <= Len(buf) /\ n \in Int32
  BY <1>1, VarintRead
<1>3. Len(buf) \in Nat
  BY StringTypes
<1> HIDE DEF m, n
<1>4. n \in Nat /\ n <= 2147483647
  BY <1>1, <1>2, SMT DEF Int32
<1>5. m \in Nat /\ m + 1 \in Nat \ {0} /\ p <= m
  BY <1>2
<1>6. /\ q \in Nat /\ p <= q /\ q <= Len(buf) + 1
      /\ q - 1 \in Nat /\ m + 1 <= (q - 1) + 1 /\ q - 1 <= Len(buf) /\ (q - 1) + 1 - (m + 1) = n
  <2>1. n \in Nat
    BY <1>4
  <2> QED
    BY <1>1, <1>3, <1>5, <2>1
<1>7. StringAt(p, q) = SubSeq(buf, m + 1, q - 1)
  BY DEF StringAt, m
<1>8. StringAt(p, q) \in String /\ Len(StringAt(p, q)) = n
  BY <1>5, <1>6, <1>7, Piece
<1>9. StringAt(p, q) \in Text
  <2>1. Len(StringAt(p, q)) <= 2147483647
    BY <1>4, <1>8, SMT
  <2>2. StringAt(p, q) \in String
    BY <1>8
  <2> QED
    BY <2>1, <2>2, SMT DEF Text
<1> QED
  BY <1>6, <1>8, <1>9 DEF n

LEMMA FixedPlace ==
  ASSUME buf \in String, NEW p \in Nat \ {0}, NEW n \in Nat, NEW q \in AfterFixed(p, n)
  PROVE  /\ SubSeq(buf, p, q - 1) \in String /\ Len(SubSeq(buf, p, q - 1)) = n
         /\ q \in Nat /\ p <= q /\ q <= Len(buf) + 1
<1>1. q = p + n /\ q <= Len(buf) + 1
  BY DEF AfterFixed
<1>2. Len(buf) \in Nat
  BY StringTypes
<1>3. q \in Nat /\ p <= q /\ q - 1 \in Nat /\ p <= (q - 1) + 1 /\ q - 1 <= Len(buf)
      /\ (q - 1) + 1 - p = n
  BY <1>1, <1>2
<1> QED
  BY <1>1, <1>3, Piece

\* What the server keeps of an unknown field is a field that can be read again.
LEMMA FieldKept ==
  ASSUME buf \in String, pos \in Nat \ {0}, pos <= Len(buf) + 1, tag \in Int32,
         groups \in Seq(Int32), NEW q \in FieldEnd, ~Known,
         GetTagWireType(tag) = WIRETYPE_END_GROUP => groups # <<>>, NEW t,
         t = IF GetTagWireType(tag) = WIRETYPE_START_GROUP THEN Append(groups, tag)
             ELSE IF GetTagWireType(tag) = WIRETYPE_END_GROUP THEN Front(groups)
             ELSE groups
  PROVE  UnknownPart(tag, UnknownValue(q), groups, t)
<1> DEFINE k == GetTagWireType(tag)
<1>1. tag # 0
  BY ZeroTag
<1>2. ~(groups = <<>> /\ tag \in {NAME, AGE, EMAIL})
  BY DEF Known
<1>3. /\ k \notin {WIRETYPE_START_GROUP, WIRETYPE_END_GROUP} => t = groups
      /\ k = WIRETYPE_START_GROUP => t = Append(groups, tag)
      /\ k = WIRETYPE_END_GROUP => t = Front(groups)
  BY DEF WIRETYPE_START_GROUP, WIRETYPE_END_GROUP
<1>4. k \in {WIRETYPE_VARINT, WIRETYPE_FIXED64, WIRETYPE_LENGTH_DELIMITED,
             WIRETYPE_START_GROUP, WIRETYPE_END_GROUP, WIRETYPE_FIXED32}
  BY <1>1, ByType
<1>5. CASE k = WIRETYPE_VARINT
  <2>1. q \in AfterVarint(pos) /\ UnknownValue(q) = WriteVarint(ReadVarint64(buf, pos))
    BY <1>1, <1>5, ByType
  <2>2. ReadVarint64(buf, pos) \in Digits
    BY <2>1, VarintPlace
  <2>3. t = groups
    BY <1>3, <1>5 DEF WIRETYPE_VARINT, WIRETYPE_START_GROUP, WIRETYPE_END_GROUP
  <2> QED
    BY <1>1, <1>2, <1>5, <2>1, <2>2, <2>3, Zenon DEF UnknownPart
<1>6. CASE k = WIRETYPE_FIXED64
  <2>1. q \in AfterFixed(pos, 8) /\ UnknownValue(q) = SubSeq(buf, pos, q - 1)
    BY <1>1, <1>6, ByType
  <2>2. UnknownValue(q) \in String /\ Len(UnknownValue(q)) = 8
    <3>1. 8 \in Nat
      OBVIOUS
    <3> QED
      BY <2>1, <3>1, FixedPlace
  <2>3. t = groups
    BY <1>3, <1>6 DEF WIRETYPE_FIXED64, WIRETYPE_START_GROUP, WIRETYPE_END_GROUP
  <2> QED
    BY <1>1, <1>2, <1>6, <2>2, <2>3, Zenon DEF UnknownPart
<1>7. CASE k = WIRETYPE_LENGTH_DELIMITED
  <2>1. /\ q \in AfterString(pos)
        /\ UnknownValue(q) = WriteVarint32(ReadVarint32(buf, pos)) \o StringAt(pos, q)
    BY <1>1, <1>7, ByType
  <2>2. StringAt(pos, q) \in Text /\ Len(StringAt(pos, q)) = ReadVarint32(buf, pos)
    BY <2>1, StringPlace
  <2>3. t = groups
    BY <1>3, <1>7 DEF WIRETYPE_LENGTH_DELIMITED, WIRETYPE_START_GROUP, WIRETYPE_END_GROUP
  <2>4. \E x \in Text : UnknownValue(q) = WriteVarint32(Len(x)) \o x
    BY <2>1, <2>2, Zenon
  <2> QED
    BY <1>1, <1>2, <1>7, <2>3, <2>4, Zenon DEF UnknownPart
<1>8. CASE k = WIRETYPE_START_GROUP
  <2>1. q \in (IF MayNest THEN {pos} ELSE {}) /\ UnknownValue(q) = SubSeq(buf, pos, q - 1)
    BY <1>1, <1>8, ByType
  <2>2. q = pos /\ Len(groups) < RecursionLimit
    BY <2>1 DEF MayNest
  <2>3. UnknownValue(q) = <<>>
    BY <2>1, <2>2, EmptyAt
  <2> QED
    BY <1>1, <1>2, <1>3, <1>8, <2>2, <2>3, Zenon DEF UnknownPart
<1>9. CASE k = WIRETYPE_END_GROUP
  <2>1. /\ q \in (IF tag = EndTag(Last(groups)) THEN {pos} ELSE {})
        /\ UnknownValue(q) = SubSeq(buf, pos, q - 1)
    BY <1>1, <1>9, ByType
  <2>2. q = pos /\ tag = EndTag(Last(groups))
    BY <2>1
  <2>3. UnknownValue(q) = <<>>
    BY <2>1, <2>2, EmptyAt
  <2> QED
    BY <1>1, <1>2, <1>3, <1>9, <2>2, <2>3, Zenon DEF UnknownPart
<1>10. CASE k = WIRETYPE_FIXED32
  <2>1. q \in AfterFixed(pos, 4) /\ UnknownValue(q) = SubSeq(buf, pos, q - 1)
    BY <1>1, <1>10, ByType
  <2>2. UnknownValue(q) \in String /\ Len(UnknownValue(q)) = 4
    <3>1. 4 \in Nat
      OBVIOUS
    <3> QED
      BY <2>1, <3>1, FixedPlace, Zenon
  <2>3. t = groups
    BY <1>3, <1>10 DEF WIRETYPE_FIXED32, WIRETYPE_START_GROUP, WIRETYPE_END_GROUP
  <2> QED
    BY <1>1, <1>2, <1>10, <2>2, <2>3, Zenon DEF UnknownPart
<1> QED
  BY <1>4, <1>5, <1>6, <1>7, <1>8, <1>9, <1>10, Zenon

LEMMA FieldPlace ==
  ASSUME buf \in String, pos \in Nat \ {0}, pos <= Len(buf) + 1, NEW q \in FieldEnd
  PROVE  /\ tag # 0 /\ q \in Nat /\ pos <= q /\ q <= Len(buf) + 1
         /\ GetTagWireType(tag) = WIRETYPE_LENGTH_DELIMITED => StringAt(pos, q) \in Text
         /\ GetTagWireType(tag) = WIRETYPE_VARINT => ReadVarint32(buf, pos) \in Int32
<1> DEFINE k == GetTagWireType(tag)
           InBuf == q \in Nat /\ pos <= q /\ q <= Len(buf) + 1
<1>1. tag # 0
  BY ZeroTag
<1>2. k \in {WIRETYPE_VARINT, WIRETYPE_FIXED64, WIRETYPE_LENGTH_DELIMITED,
             WIRETYPE_START_GROUP, WIRETYPE_END_GROUP, WIRETYPE_FIXED32}
  BY <1>1, ByType
<1>3. k = WIRETYPE_VARINT => InBuf /\ ReadVarint32(buf, pos) \in Int32
  BY <1>1, ByType, VarintPlace
<1>4. k = WIRETYPE_LENGTH_DELIMITED => InBuf /\ StringAt(pos, q) \in Text
  BY <1>1, ByType, StringPlace
<1>5. k = WIRETYPE_FIXED64 => InBuf
  <2>1. 8 \in Nat
    OBVIOUS
  <2>2. k = WIRETYPE_FIXED64 => q \in AfterFixed(pos, 8)
    BY <1>1, ByType
  <2> QED
    BY <2>1, <2>2, FixedPlace, Zenon
<1>6. k = WIRETYPE_FIXED32 => InBuf
  <2>1. 4 \in Nat
    OBVIOUS
  <2>2. k = WIRETYPE_FIXED32 => q \in AfterFixed(pos, 4)
    BY <1>1, ByType
  <2> QED
    BY <2>1, <2>2, FixedPlace, Zenon
<1>7. k \in {WIRETYPE_START_GROUP, WIRETYPE_END_GROUP} => InBuf
  <2>1. k \in {WIRETYPE_START_GROUP, WIRETYPE_END_GROUP} => q = pos
    BY <1>1, ByType
  <2> QED
    BY <2>1
<1> HIDE DEF InBuf
<1>8. InBuf
  BY <1>2, <1>3, <1>4, <1>5, <1>6, <1>7
<1> QED
  BY <1>1, <1>3, <1>4, <1>8, Zenon DEF InBuf


-----------------------------------------------------------------------------
\* The reply is as long as the string that was sized for it.
LEMMA TagSizes ==
  /\ Len(WriteVarint32(NAME)) = 1 /\ Len(WriteVarint32(AGE)) = 1
  /\ Len(WriteVarint32(EMAIL)) = 1
<1>1. /\ VarintSize32(NAME) = Len(WriteVarint32(NAME)) /\ VarintSize32(AGE) = Len(WriteVarint32(AGE))
      /\ VarintSize32(EMAIL) = Len(WriteVarint32(EMAIL))
  <2>1. \A k \in {NAME, AGE, EMAIL} : k \in Int32 /\ k >= 0
    BY SMT DEF NAME, AGE, EMAIL, Int32
  <2> QED
    BY <2>1, SizeOf32
<1>2. \A k \in {NAME, AGE, EMAIL} : \A i \in 2..5 : ~(k >= Weight[i])
  BY SMT DEF NAME, AGE, EMAIL, Weight
<1>3. \A k \in {NAME, AGE, EMAIL} : {i \in 2..5 : k >= Weight[i]} = {} /\ ~(k < 0)
  <2>1. \A k \in {NAME, AGE, EMAIL} : ~(k < 0)
    BY DEF NAME, AGE, EMAIL
  <2> QED
    BY <1>2, <2>1
<1>4. Cardinality({}) = 0
  BY FS_EmptySet
<1>5. \A k \in {NAME, AGE, EMAIL} : VarintSize32(k) = 1
  BY <1>3, <1>4 DEF VarintSize32
<1> QED
  BY <1>1, <1>5

LEMMA StringSize ==
  ASSUME NEW x \in Text \cup {Absent}, NEW key \in {NAME, EMAIL}
  PROVE  /\ WriteString(key, x) \in String
         /\ Len(WriteString(key, x)) = StringFieldSize(x)
<1>1. CASE x = Absent
  <2>1. WriteString(key, x) = <<>>
    BY <1>1 DEF WriteString
  <2>2. <<>> \in String /\ Len(<<>>) = 0
    BY DEF String
  <2> QED
    BY <1>1, <2>1, <2>2 DEF StringFieldSize
<1>2. CASE x # Absent
  <2> DEFINE w == WriteVarint32(key)
             l == WriteVarint32(Len(x))
  <2>1. x \in Text /\ Len(x) \in Int32 /\ Len(x) >= 0 /\ x \in String
    BY <1>2, TextLength, StringTypes
  <2>2. WriteString(key, x) = w \o (l \o x)
    BY <1>2, <2>1, StringPart
  <2>3. l \in String /\ Len(l) = VarintSize32(Len(x)) /\ Len(l) \in 1..5
    BY <2>1, SizeOf32, TagWritten
  <2>4. w \in String /\ Len(w) = 1
    BY TagSizes, TagWritten, KeysAreTags
  <2>5. l \o x \in String /\ Len(l \o x) = Len(l) + Len(x)
    BY <2>1, <2>3, Joined
  <2> HIDE DEF w, l
  <2>6. w \o (l \o x) \in String /\ Len(w \o (l \o x)) = Len(w) + (Len(l) + Len(x))
    <3>1. w \o (l \o x) \in String /\ Len(w \o (l \o x)) = Len(w) + Len(l \o x)
      BY <2>4, <2>5, Joined
    <3> QED
      BY <2>5, <3>1
  <2>7. Len(x) \in Nat /\ Len(l) \in Nat
    BY <2>1, <2>3, StringTypes
  <2>8. 1 + (Len(l) + Len(x)) = 1 + Len(l) + Len(x)
    BY <2>7
  <2> QED
    BY <1>2, <2>2, <2>3, <2>4, <2>6, <2>8 DEF StringFieldSize
<1> QED
  BY <1>1, <1>2

LEMMA SizeIsLength ==
  ASSUME NEW h \in Messages, IsInitialized(h)
  PROVE  Len(Serialize(h)) = ByteSize(h)
<1> DEFINE a == WriteString(NAME, h.name)
           b == WriteVarint32(AGE)
           c == WriteVarint32SignExtended(h.age)
           d == WriteString(EMAIL, h.email)
           e == h.unknown
<1>1. /\ h.name \in Text \cup {Absent} /\ h.age \in Int32 /\ e \in String
      /\ h.email \in Text \cup {Absent}
  BY DEF Messages, IsInitialized
<1>2. a \in String /\ Len(a) = StringFieldSize(h.name)
  BY <1>1, StringSize
<1>3. d \in String /\ Len(d) = StringFieldSize(h.email)
  BY <1>1, StringSize
<1>4. b \in String /\ Len(b) = 1
  BY TagSizes, TagWritten, KeysAreTags
<1>5. c \in String /\ Len(c) = Int32Size(h.age)
  <2>1. Digits64(h.age) \in Digits
    BY <1>1, DigitsOf64, SMT
  <2>2. c \in String
    BY <2>1, Written DEF WriteVarint32SignExtended
  <2> QED
    BY <1>1, <2>2, SizeOfSignExtended
<1>6. Serialize(h) = a \o b \o c \o d \o e
  BY DEF Serialize
<1>7. ByteSize(h) = Len(a) + 1 + Len(c) + Len(d) + Len(e)
  BY <1>2, <1>3, <1>5 DEF ByteSize
<1> HIDE DEF a, b, c, d, e
<1>8. a \o b \in String /\ Len(a \o b) = Len(a) + Len(b)
  BY <1>2, <1>4, Joined
<1>9. a \o b \o c \in String /\ Len(a \o b \o c) = Len(a \o b) + Len(c)
  BY <1>5, <1>8, Joined
<1>10. a \o b \o c \o d \in String /\ Len(a \o b \o c \o d) = Len(a \o b \o c) + Len(d)
  BY <1>3, <1>9, Joined
<1>11. Len(a \o b \o c \o d \o e) = Len(a \o b \o c \o d) + Len(e)
  BY <1>1, <1>10, Joined
<1> QED
  BY <1>4, <1>6, <1>7, <1>8, <1>9, <1>10, <1>11


-----------------------------------------------------------------------------
\* What the string being parsed is a cut of, the message it was made of, and
\* whether it was made of one.
Source == IF side = "server" THEN payload ELSE reply
Target == IF side = "server" THEN sent ELSE handled
Told == side = "client" \/ sent # Absent

Roles ==
  /\ side = "server" => reply = Absent /\ buf = CString(payload)
  /\ side = "server" /\ pc \in {"tag", "field", "return", "refused"} => handled = Absent
  /\ side = "server" /\ pc \in {"accepted", "ended"} => handled = msg /\ IsInitialized(msg)
  /\ side = "client" => /\ handled \in Messages /\ IsInitialized(handled)
                        /\ reply = Serialize(handled) /\ reply \in String
                        /\ buf = CString(reply)
  /\ sent # Absent => sent \in Sent /\ payload = Serialize(sent)

\* The parser leaves its loop outside all groups.
Loop ==
  /\ pc \in {"return", "accepted"} => groups = <<>>
  /\ pc = "field" => \/ groups # <<>>
                     \/ tag # 0 /\ GetTagWireType(tag) # WIRETYPE_END_GROUP

\* What was kept can be read again, up to the groups that are still open.
Kept == UnknownReadable(msg.unknown, groups)

\* The parser is at one of the places that lead to the end of the source, with
\* the target as its message, and gets there unless the source was cut.
AtPlace(p, s, m) == \E S : Reading(S, Source, <<>>, Target) /\ <<p, s, m>> \in S
Ahead(tg, p, s, m) ==
  \E S, v, t, m2 : /\ Reading(S, Source, <<>>, Target)
                   /\ Part(tg, v, s, m, t, m2)
                   /\ At(Source, p, v)
                   /\ <<p + Len(v), t, m2>> \in S
Place ==
  Told =>
    /\ pc = "tag" => AtPlace(pos, groups, msg)
    /\ pc = "field" => Ahead(tag, pos, groups, msg)
    /\ pc = "return" => tag = 0 /\ pos = Len(buf) + 1 /\ msg = Target /\ buf = Source
    /\ pc = "accepted" => msg = Target /\ buf = Source
    /\ pc = "refused" => buf # Source

History ==
  sent # Absent /\ (handled # Absent \/ side = "client") =>
    handled = sent /\ Zeros(payload) = {}

IInv == TypeOK /\ Roles /\ Loop /\ Kept /\ Place /\ History

LEMMA Given ==
  ASSUME TypeOK, Roles, Told
  PROVE  Source \in String /\ CutOf(buf, Source) /\ IsInitialized(Target)
<1>1. CASE side = "server"
  <2>1. /\ Source = payload /\ Target = sent /\ payload \in String /\ buf = CString(payload)
        /\ sent \in Sent
    BY <1>1 DEF Source, Target, TypeOK, Roles, Told
  <2> QED
    BY <2>1, CStringCuts, Legal
<1>2. CASE side = "client"
  <2>1. /\ Source = reply /\ Target = handled /\ reply \in String /\ buf = CString(reply)
        /\ IsInitialized(handled)
    BY <1>2 DEF Source, Target, Roles
  <2> QED
    BY <2>1, CStringCuts
<1> QED
  BY <1>1, <1>2 DEF TypeOK

LEMMA ClearedTypes == Cleared \in Messages /\ Cleared.unknown = <<>>
<1>1. <<>> \in String
  BY DEF String
<1> QED
  BY <1>1 DEF Cleared, Messages

LEMMA Initially == Init => IInv
<1> SUFFICES ASSUME Init PROVE IInv
  OBVIOUS
<1>0. /\ side = "server" /\ buf = CString(payload) /\ pos = 1 /\ tag = 0 /\ msg = Cleared
      /\ groups = <<>> /\ pc = "tag" /\ handled = Absent /\ reply = Absent
  BY DEF Init
<1>1. /\ payload \in String /\ sent \in Sent \cup {Absent}
      /\ sent # Absent => sent \in Sent /\ payload = Serialize(sent) /\ Reads(payload, <<>>, sent)
  <2>1. CASE sent \in Sent /\ payload = Serialize(sent)
    <3>1. sent \in Messages /\ IsInitialized(sent) /\ sent.unknown = <<>>
      BY <2>1, Legal
    <3>2. Serialize(sent) \in String /\ Reads(Serialize(sent), <<>>, sent)
      BY <3>1, NoUnknown, SerializedIsRead
    <3> QED
      BY <2>1, <3>2
  <2>2. CASE sent = Absent /\ payload \in Payloads
    BY <2>2, Bounds
  <2> QED
    BY <2>1, <2>2 DEF Init
<1>2. buf \in String /\ Len(buf) \in Nat
  BY <1>0, <1>1, CStringCuts, StringTypes DEF CutOf
<1>3. TypeOK
  <2>1. pos \in 1..(Len(buf) + 1)
    BY <1>0, <1>2
  <2>2. tag \in Int32
    BY <1>0, SMT DEF Int32
  <2>3. groups \in Seq(Int32) /\ Len(groups) <= RecursionLimit
    <3>1. groups \in Seq(Int32) /\ Len(groups) = 0
      BY <1>0
    <3> QED
      BY <3>1, Bounds
  <2> QED
    BY <1>0, <1>1, <1>2, <2>1, <2>2, <2>3, ClearedTypes DEF TypeOK
<1>4. Roles
  BY <1>0, <1>1 DEF Roles
<1>5. Loop
  BY <1>0 DEF Loop
<1>6. Kept
  BY <1>0, NoUnknown, ClearedTypes DEF Kept
<1>7. Place
  <2>1. Told => Source = payload /\ Target = sent /\ Reads(payload, <<>>, sent)
    BY <1>0, <1>1 DEF Source, Target, Told
  <2>2. Told => AtPlace(pos, groups, msg)
    BY <1>0, <2>1, Zenon DEF AtPlace, Reads
  <2> QED
    BY <1>0, <2>2 DEF Place
<1>8. History
  BY <1>0 DEF History
<1> QED
  BY <1>3, <1>4, <1>5, <1>6, <1>7, <1>8 DEF IInv


\* A tag is read, where one was written or at the end.
LEMMA TagIs ==
  ASSUME TypeOK
  PROVE  /\ TagRead \in Int32
         /\ TagRead # 0 => /\ VarintEnds(buf, pos) # {}
                           /\ Min(VarintEnds(buf, pos)) + 1 \in 1..(Len(buf) + 1)
<1>1. buf \in String /\ Len(buf) \in Nat /\ pos \in 1..(Len(buf) + 1)
  BY StringTypes DEF TypeOK
<1>2. CASE VarintEnds(buf, pos) = {}
  <2>1. TagRead = 0
    BY <1>2 DEF TagRead
  <2>2. 0 \in Int32
    BY SMT DEF Int32
  <2> QED
    BY <2>1, <2>2
<1>3. CASE VarintEnds(buf, pos) # {}
  <2> DEFINE q == Min(VarintEnds(buf, pos)) + 1
  <2>1. q \in AfterVarint(pos)
    BY <1>3, AfterVarintIs
  <2>2. pos \in Nat \ {0}
    BY <1>1
  <2>3. q \in Nat /\ pos <= q /\ q <= Len(buf) + 1 /\ ReadVarint32(buf, pos) \in Int32
    BY <1>1, <2>1, <2>2, VarintPlace
  <2>4. TagRead = ReadVarint32(buf, pos)
    BY <1>3 DEF TagRead
  <2> HIDE DEF q
  <2>5. q \in 1..(Len(buf) + 1)
    BY <1>1, <2>2, <2>3
  <2> QED
    BY <1>3, <2>3, <2>4, <2>5 DEF q
<1> QED
  BY <1>2, <1>3

LEMMA TagPlace ==
  ASSUME IInv, Told, pc = "tag"
  PROVE  \/ /\ TagRead = 0 /\ groups = <<>> /\ msg = Target
            /\ pos = Len(buf) + 1 /\ buf = Source
         \/ /\ TagRead # 0
            /\ groups # <<>> \/ GetTagWireType(TagRead) # WIRETYPE_END_GROUP
            /\ Ahead(TagRead, Min(VarintEnds(buf, pos)) + 1, groups, msg)
<1>1. /\ buf \in String /\ Len(buf) \in Nat /\ pos \in 1..(Len(buf) + 1) /\ pos \in Nat \ {0}
      /\ pos <= Len(buf) + 1
  BY StringTypes DEF IInv, TypeOK
<1>2. Source \in String /\ CutOf(buf, Source)
  BY Given DEF IInv
<1>3. PICK S : Reading(S, Source, <<>>, Target) /\ <<pos, groups, msg>> \in S
  BY DEF IInv, Place, AtPlace
<1>4. CASE pos = Len(Source) + 1 /\ groups = <<>> /\ msg = Target
  <2>1. Len(Source) \in Nat /\ Len(buf) <= Len(Source) /\ (buf = Source \/ Len(buf) < Len(Source))
    BY <1>2, StringTypes DEF CutOf
  <2>2. buf = Source /\ pos = Len(buf) + 1
    BY <1>1, <1>4, <2>1
  <2>3. \A q \in pos..(pos + kMaxVarintBytes - 1) : ~(q <= Len(buf))
    BY <1>1, <2>2 DEF kMaxVarintBytes
  <2>4. VarintEnds(buf, pos) = {}
    BY <2>3 DEF VarintEnds
  <2>5. TagRead = 0
    BY <2>4 DEF TagRead
  <2> QED
    BY <1>4, <2>2, <2>5
<1>5. ASSUME NEW tg, NEW v, NEW t, NEW m2, Part(tg, v, groups, msg, t, m2),
             At(Source, pos, WriteVarint32(tg) \o v),
             <<pos + Len(WriteVarint32(tg) \o v), t, m2>> \in S
      PROVE  /\ TagRead # 0
             /\ groups # <<>> \/ GetTagWireType(TagRead) # WIRETYPE_END_GROUP
             /\ Ahead(TagRead, Min(VarintEnds(buf, pos)) + 1, groups, msg)
  <2> DEFINE w == WriteVarint32(tg)
             q == Min(VarintEnds(buf, pos)) + 1
  <2>1. tg \in Int32 /\ tg # 0 /\ v \in String /\ w \in String
    BY <1>5, PartTypes
  <2>2. w = WriteVarint(Digits32(tg)) /\ Digits32(tg) \in Digits /\ ToInt32(Digits32(tg)) = tg
    BY <2>1, TagWritten
  <2>3. At(Source, pos, w) /\ At(Source, pos + Len(w), v) /\ Len(w \o v) = Len(w) + Len(v)
    BY <1>1, <1>2, <1>5, <2>1, AtJoined, Joined
  <2>4. At(buf, pos, w)
    BY <1>1, <1>2, <2>1, <2>2, <2>3, TagStays
  <2>5. CutOf(buf, buf)
    BY <1>1 DEF CutOf
  <2>6. VarintEnds(buf, pos) # {} /\ q = pos + Len(w) /\ ReadVarint32(buf, pos) = tg
    BY <1>1, <2>2, <2>4, <2>5, ReadsVarint
  <2>7. TagRead = tg
    BY <2>6 DEF TagRead
  <2>8. groups # <<>> \/ GetTagWireType(tg) # WIRETYPE_END_GROUP
    BY <1>5, KeysAreTags
      DEF Part, KnownPart, UnknownPart, WIRETYPE_VARINT, WIRETYPE_FIXED64,
          WIRETYPE_LENGTH_DELIMITED, WIRETYPE_START_GROUP, WIRETYPE_END_GROUP,
          WIRETYPE_FIXED32
  <2>9. (pos + Len(w)) + Len(v) = pos + Len(w \o v)
    BY <1>1, <2>1, <2>3, StringTypes
  <2> HIDE DEF w, q
  <2>10. Ahead(tg, q, groups, msg)
    BY <1>3, <1>5, <2>3, <2>6, <2>9, Zenon DEF Ahead, w
  <2> QED
    BY <2>1, <2>7, <2>8, <2>10, Zenon DEF q
<1> QED
  BY <1>1, <1>3, <1>4, <1>5, Zenon DEF Reading

LEMMA ReadTagKeeps == IInv /\ ReadTag => IInv'
<1> SUFFICES ASSUME IInv, ReadTag PROVE IInv'
  OBVIOUS
<1> DEFINE q == Min(VarintEnds(buf, pos)) + 1
           Stop == groups = <<>> /\ (TagRead = 0 \/ GetTagWireType(TagRead) = WIRETYPE_END_GROUP)
<1>1. /\ pc = "tag" /\ tag' = TagRead /\ pos' = IF TagRead = 0 THEN pos ELSE q
      /\ pc' = IF Stop THEN "return" ELSE "field"
      /\ sent' = sent /\ payload' = payload /\ side' = side /\ buf' = buf /\ msg' = msg
      /\ groups' = groups /\ handled' = handled /\ reply' = reply
  BY DEF ReadTag
<1>2. TypeOK /\ Roles /\ Loop /\ Kept /\ Place /\ History
  BY DEF IInv
<1>3. TagRead \in Int32 /\ (TagRead # 0 => q \in 1..(Len(buf) + 1))
  BY <1>2, TagIs
<1>4. /\ Source' = Source /\ Target' = Target /\ Told' = Told
  BY <1>1 DEF Source, Target, Told
<1> HIDE DEF q, Stop
<1>5. pc' \in {"return", "field"}
  BY <1>1
<1>6. TypeOK'
  BY <1>1, <1>2, <1>3, <1>5 DEF TypeOK
<1>7. Roles'
  BY <1>1, <1>2, <1>5 DEF Roles
<1>8. Loop'
  <2>1. Stop => pc' = "return" /\ groups' = <<>>
    BY <1>1 DEF Stop
  <2>2. ~Stop => /\ pc' = "field"
                 /\ groups' # <<>> \/ (tag' # 0 /\ GetTagWireType(tag') # WIRETYPE_END_GROUP)
    BY <1>1 DEF Stop
  <2> QED
    BY <2>1, <2>2 DEF Loop
<1>9. Kept'
  BY <1>1, <1>2 DEF Kept
<1>10. Place'
  <2>1. ASSUME Told
        PROVE  /\ pc' = "field" => Ahead(tag, pos, groups, msg)'
               /\ pc' = "return" => /\ tag' = 0 /\ pos' = Len(buf) + 1 /\ msg' = Target
                                    /\ buf' = Source
    <3>1. CASE /\ TagRead = 0 /\ groups = <<>> /\ msg = Target
               /\ pos = Len(buf) + 1 /\ buf = Source
      BY <1>1, <3>1 DEF Stop
    <3>2. CASE /\ TagRead # 0
               /\ groups # <<>> \/ GetTagWireType(TagRead) # WIRETYPE_END_GROUP
               /\ Ahead(TagRead, q, groups, msg)
      <4>1. pc' = "field" /\ tag' = TagRead /\ pos' = q
        BY <1>1, <3>2 DEF Stop
      <4>2. Ahead(tag, pos, groups, msg)'
        BY <1>1, <1>4, <3>2, <4>1, Zenon DEF Ahead
      <4> QED
        BY <4>1, <4>2
    <3> QED
      BY <1>1, <2>1, <3>1, <3>2, TagPlace, Zenon DEF q
  <2> QED
    BY <1>1, <1>4, <1>5, <2>1 DEF Place
<1>11. History'
  BY <1>1, <1>2 DEF History
<1> QED
  BY <1>6, <1>7, <1>8, <1>9, <1>10, <1>11 DEF IInv


\* The groups that are open behind an unknown field.
GroupsAfter(tg, s) ==
  IF GetTagWireType(tg) = WIRETYPE_START_GROUP THEN Append(s, tg)
  ELSE IF GetTagWireType(tg) = WIRETYPE_END_GROUP THEN Front(s)
  ELSE s

LEMMA PartGroups ==
  ASSUME NEW tg, NEW v, NEW s, NEW t, UnknownPart(tg, v, s, t)
  PROVE  t = GroupsAfter(tg, s)
  BY DEF UnknownPart, GroupsAfter, WIRETYPE_VARINT, WIRETYPE_FIXED64,
         WIRETYPE_LENGTH_DELIMITED, WIRETYPE_START_GROUP, WIRETYPE_END_GROUP, WIRETYPE_FIXED32

LEMMA KnownAhead ==
  ASSUME IInv, Told, pc = "field", Known, NEW q \in FieldEnd
  PROVE  \E m2 : /\ AtPlace(q, groups, m2)
                 /\ tag = NAME => m2 = [msg EXCEPT !.name = StringAt(pos, q)]
                 /\ tag = AGE => m2 = [msg EXCEPT !.age = ReadVarint32(buf, pos)]
                 /\ tag = EMAIL => m2 = [msg EXCEPT !.email = StringAt(pos, q)]
<1>1. Source \in String /\ CutOf(buf, Source)
  BY Given DEF IInv
<1>2. PICK S, v, t, m2 :
        /\ Reading(S, Source, <<>>, Target)
        /\ Part(tag, v, groups, msg, t, m2)
        /\ At(Source, pos, v)
        /\ <<pos + Len(v), t, m2>> \in S
  BY Zenon DEF IInv, Place, Ahead
<1>3. KnownPart(tag, v, groups, msg, t, m2)
  BY <1>2 DEF Part, UnknownPart, Known
<1>4. t = groups
  BY <1>3 DEF KnownPart
<1>5. pos \in Nat \ {0}
  BY StringTypes DEF IInv, TypeOK
<1>6. /\ FieldEnd = {pos + Len(v)}
      /\ tag = NAME => m2 = [msg EXCEPT !.name = StringAt(pos, pos + Len(v))]
      /\ tag = AGE => m2 = [msg EXCEPT !.age = ReadVarint32(buf, pos)]
      /\ tag = EMAIL => m2 = [msg EXCEPT !.email = StringAt(pos, pos + Len(v))]
  BY <1>1, <1>2, <1>3, <1>5, ReadsKnown
<1>7. q = pos + Len(v)
  BY <1>6
<1>8. AtPlace(q, groups, m2)
  BY <1>2, <1>4, <1>7, Zenon DEF AtPlace
<1> QED
  BY <1>6, <1>7, <1>8, Zenon

LEMMA UnknownAhead ==
  ASSUME IInv, Told, pc = "field", ~Known, NEW q \in FieldEnd
  PROVE  AtPlace(q, GroupsAfter(tag, groups),
                 [msg EXCEPT !.unknown = @ \o WriteVarint32(tag) \o UnknownValue(q)])
<1>1. Source \in String /\ CutOf(buf, Source)
  BY Given DEF IInv
<1>2. PICK S, v, t, m2 :
        /\ Reading(S, Source, <<>>, Target)
        /\ Part(tag, v, groups, msg, t, m2)
        /\ At(Source, pos, v)
        /\ <<pos + Len(v), t, m2>> \in S
  BY Zenon DEF IInv, Place, Ahead
<1>3. /\ UnknownPart(tag, v, groups, t)
      /\ m2 = [msg EXCEPT !.unknown = @ \o WriteVarint32(tag) \o v]
  BY <1>2 DEF Part, KnownPart, Known
<1>4. t = GroupsAfter(tag, groups)
  BY <1>3, PartGroups
<1>5. pos \in Nat \ {0} /\ pos <= Len(buf) + 1
  BY StringTypes DEF IInv, TypeOK
<1>6. v \in String
  BY <1>2, PartTypes
<1>7. FieldEnd = {pos + Len(v)} /\ UnknownValue(pos + Len(v)) = v
  BY <1>1, <1>2, <1>3, <1>5, <1>6, ReadsUnknown
<1>8. q = pos + Len(v)
  BY <1>7
<1> QED
  BY <1>2, <1>3, <1>4, <1>7, <1>8, Zenon DEF AtPlace

LEMMA FieldKeeps ==
  ASSUME IInv, Field, msg' \in Messages, groups' \in Seq(Int32),
         Len(groups') <= RecursionLimit, UnknownReadable(msg'.unknown, groups'),
         Told => AtPlace(pos', groups', msg')
  PROVE  IInv'
<1>1. /\ pc = "field" /\ pc' = "tag" /\ pos' \in FieldEnd
      /\ sent' = sent /\ payload' = payload /\ side' = side /\ buf' = buf /\ tag' = tag
      /\ handled' = handled /\ reply' = reply
  BY DEF Field
<1>2. TypeOK /\ Roles /\ History
  BY DEF IInv
<1>3. /\ Source' = Source /\ Target' = Target /\ Told' = Told
  BY <1>1 DEF Source, Target, Told
<1>4. TypeOK'
  <2>1. buf \in String /\ pos \in Nat \ {0} /\ pos <= Len(buf) + 1 /\ Len(buf) \in Nat
    BY <1>2, StringTypes DEF TypeOK
  <2>2. pos' \in Nat /\ pos <= pos' /\ pos' <= Len(buf) + 1
    BY <1>1, <2>1, FieldPlace
  <2>3. pos' \in 1..(Len(buf) + 1)
    BY <2>1, <2>2
  <2> QED
    BY <1>1, <1>2, <2>3 DEF TypeOK
<1>5. Roles'
  BY <1>1, <1>2 DEF Roles
<1>6. Loop'
  BY <1>1 DEF Loop
<1>7. Kept'
  BY DEF Kept
<1>8. Place'
  <2>1. Told => AtPlace(pos, groups, msg)'
    BY <1>3, Zenon DEF AtPlace
  <2> QED
    BY <1>1, <1>3, <2>1 DEF Place
<1>9. History'
  BY <1>1, <1>2 DEF History
<1> QED
  BY <1>4, <1>5, <1>6, <1>7, <1>8, <1>9 DEF IInv

LEMMA KnownKeeps ==
  ASSUME IInv, Known, ReadName \/ ReadAge \/ ReadEmail
  PROVE  IInv'
<1>1. Field /\ pc = "field" /\ pos' \in FieldEnd /\ groups' = groups
  BY DEF ReadName, ReadAge, ReadEmail, Field
<1>2. /\ msg \in Messages /\ groups \in Seq(Int32) /\ Len(groups) <= RecursionLimit
      /\ UnknownReadable(msg.unknown, groups)
  BY DEF IInv, TypeOK, Kept
<1>3. /\ tag = NAME => msg' = [msg EXCEPT !.name = StringAt(pos, pos')]
      /\ tag = AGE => msg' = [msg EXCEPT !.age = ReadVarint32(buf, pos)]
      /\ tag = EMAIL => msg' = [msg EXCEPT !.email = StringAt(pos, pos')]
  BY KeysAreTags DEF ReadName, ReadAge, ReadEmail
<1>4. tag \in {NAME, AGE, EMAIL}
  BY DEF Known
<1>5. buf \in String /\ pos \in Nat \ {0} /\ pos <= Len(buf) + 1
  BY StringTypes DEF IInv, TypeOK
<1>6. /\ tag \in {NAME, EMAIL} => StringAt(pos, pos') \in Text
      /\ tag = AGE => ReadVarint32(buf, pos) \in Int32
  BY <1>1, <1>5, FieldPlace, KeysAreTags
<1>7. msg' \in Messages /\ msg'.unknown = msg.unknown
  BY <1>2, <1>3, <1>4, <1>6 DEF Messages
<1>8. ASSUME Told PROVE AtPlace(pos', groups', msg')
  <2>1. PICK m2 : /\ AtPlace(pos', groups, m2)
                  /\ tag = NAME => m2 = [msg EXCEPT !.name = StringAt(pos, pos')]
                  /\ tag = AGE => m2 = [msg EXCEPT !.age = ReadVarint32(buf, pos)]
                  /\ tag = EMAIL => m2 = [msg EXCEPT !.email = StringAt(pos, pos')]
    BY <1>1, <1>8, KnownAhead, Zenon
  <2> QED
    BY <1>1, <1>3, <1>4, <2>1, Zenon
<1> QED
  BY <1>1, <1>2, <1>7, <1>8, FieldKeeps

LEMMA UnknownKeeps ==
  ASSUME IInv, SkipField \/ StartGroup \/ EndGroup
  PROVE  IInv'
<1>1. /\ Field /\ pc = "field" /\ pos' \in FieldEnd /\ ~Known
      /\ msg' = [msg EXCEPT !.unknown = @ \o WriteVarint32(tag) \o UnknownValue(pos')]
  <2>1. tag \in {NAME, AGE, EMAIL} =>
          GetTagWireType(tag) \notin {WIRETYPE_START_GROUP, WIRETYPE_END_GROUP}
    BY KeysAreTags DEF WIRETYPE_VARINT, WIRETYPE_LENGTH_DELIMITED, WIRETYPE_START_GROUP,
                       WIRETYPE_END_GROUP
  <2> QED
    BY <2>1 DEF SkipField, StartGroup, EndGroup, Field, KeepUnknown, Known
<1>2. groups' = GroupsAfter(tag, groups)
  BY DEF SkipField, StartGroup, EndGroup, GroupsAfter, WIRETYPE_START_GROUP, WIRETYPE_END_GROUP
<1>3. /\ msg \in Messages /\ msg.unknown \in String
      /\ groups \in Seq(Int32) /\ Len(groups) <= RecursionLimit
      /\ UnknownReadable(msg.unknown, groups) /\ tag \in Int32 /\ buf \in String
      /\ pos \in Nat \ {0} /\ pos <= Len(buf) + 1
  BY StringTypes DEF IInv, TypeOK, Kept, Messages
<1>4. GetTagWireType(tag) = WIRETYPE_END_GROUP => groups # <<>>
  BY <1>1 DEF IInv, Loop
<1>5. UnknownPart(tag, UnknownValue(pos'), groups, groups')
  BY <1>1, <1>2, <1>3, <1>4, FieldKept DEF GroupsAfter
<1> DEFINE u == msg.unknown \o WriteVarint32(tag) \o UnknownValue(pos')
<1>6. UnknownReadable(u, groups') /\ u \in String
  BY <1>3, <1>5, UnknownAdded
<1>7. msg' \in Messages /\ msg'.unknown = u
  BY <1>1, <1>3, <1>6 DEF Messages
<1>8. groups' \in Seq(Int32) /\ Len(groups') <= RecursionLimit
  <2>1. \/ groups' = groups
        \/ groups' = Append(groups, tag) /\ Len(groups) < RecursionLimit
        \/ groups' = Front(groups) /\ groups # <<>>
    BY <1>5 DEF UnknownPart
  <2>2. CASE groups' = Append(groups, tag) /\ Len(groups) < RecursionLimit
    <3>1. groups' \in Seq(Int32) /\ Len(groups') = Len(groups) + 1 /\ Len(groups) \in Nat
      BY <1>3, <2>2
    <3> QED
      BY <2>2, <3>1, Bounds
  <2>3. CASE groups' = Front(groups) /\ groups # <<>>
    <3> DEFINE n == Len(groups)
    <3>1. n \in Nat /\ n # 0
      BY <1>3, <2>3, EmptySeq
    <3>2. groups' = SubSeq(groups, 1, n - 1)
      BY <2>3 DEF Front
    <3>3. \A i \in 1..(n - 1) : groups[i] \in Int32
      BY <1>3, <3>1, ElementOfSeq
    <3> HIDE DEF n
    <3>4. /\ groups' \in Seq(Int32)
          /\ Len(groups') = IF 1 <= n - 1 THEN (n - 1) - 1 + 1 ELSE 0
      BY <3>1, <3>2, <3>3, SubSeqProperties
    <3>5. Len(groups') <= n /\ n <= RecursionLimit
      BY <1>3, <3>1, <3>4 DEF n
    <3>6. Len(groups') \in Nat
      BY <3>4
    <3> QED
      BY <3>1, <3>4, <3>5, <3>6, Bounds
  <2> QED
    BY <1>3, <2>1, <2>2, <2>3
<1>9. Told => AtPlace(pos', groups', msg')
  BY <1>1, <1>2, UnknownAhead
<1> HIDE DEF u
<1> QED
  BY <1>1, <1>6, <1>7, <1>8, <1>9, FieldKeeps


\* A value is malformed only where the source was cut.
LEMMA MalformedIsCut ==
  ASSUME IInv, Told, pc = "field", FieldEnd = {}
  PROVE  buf # Source
<1>1. Source \in String /\ CutOf(buf, Source)
  BY Given DEF IInv
<1>2. PICK S, v, t, m2 :
        /\ Reading(S, Source, <<>>, Target)
        /\ Part(tag, v, groups, msg, t, m2)
        /\ At(Source, pos, v)
        /\ <<pos + Len(v), t, m2>> \in S
  BY Zenon DEF IInv, Place, Ahead
<1>3. pos \in Nat \ {0} /\ pos <= Len(buf) + 1 /\ v \in String
  BY <1>2, StringTypes, PartTypes DEF IInv, TypeOK
<1>4. CASE KnownPart(tag, v, groups, msg, t, m2)
  BY <1>1, <1>2, <1>3, <1>4, ReadsKnown
<1>5. CASE UnknownPart(tag, v, groups, t)
  BY <1>1, <1>2, <1>3, <1>5, ReadsUnknown
<1> QED
  BY <1>2, <1>4, <1>5 DEF Part

LEMMA MalformedKeeps == IInv /\ Malformed => IInv'
<1> SUFFICES ASSUME IInv, Malformed PROVE IInv'
  OBVIOUS
<1>1. /\ pc = "field" /\ FieldEnd = {} /\ pc' = "refused"
      /\ sent' = sent /\ payload' = payload /\ side' = side /\ buf' = buf /\ pos' = pos
      /\ tag' = tag /\ msg' = msg /\ groups' = groups /\ handled' = handled /\ reply' = reply
  BY DEF Malformed
<1>2. TypeOK /\ Roles /\ Kept /\ History
  BY DEF IInv
<1>3. /\ Source' = Source /\ Target' = Target /\ Told' = Told
  BY <1>1 DEF Source, Target, Told
<1>4. TypeOK'
  BY <1>1, <1>2 DEF TypeOK
<1>5. Roles'
  BY <1>1, <1>2 DEF Roles
<1>6. Loop'
  BY <1>1 DEF Loop
<1>7. Kept'
  BY <1>1, <1>2 DEF Kept
<1>8. Place'
  <2>1. Told => buf # Source
    BY <1>1, MalformedIsCut
  <2> QED
    BY <1>1, <1>3, <2>1 DEF Place
<1>9. History'
  BY <1>1, <1>2 DEF History
<1> QED
  BY <1>4, <1>5, <1>6, <1>7, <1>8, <1>9 DEF IInv

LEMMA ParseReturnsKeeps == IInv /\ ParseReturns => IInv'
<1> SUFFICES ASSUME IInv, ParseReturns PROVE IInv'
  OBVIOUS
<1>1. /\ pc = "return" /\ pc' = IF Complete THEN "accepted" ELSE "refused"
      /\ handled' = IF side = "server" /\ Complete THEN msg ELSE handled
      /\ sent' = sent /\ payload' = payload /\ side' = side /\ buf' = buf /\ pos' = pos
      /\ tag' = tag /\ msg' = msg /\ groups' = groups /\ reply' = reply
  BY DEF ParseReturns
<1>2. TypeOK /\ Roles /\ Loop /\ Kept /\ Place /\ History
  BY DEF IInv
<1>3. Told => Complete /\ msg = Target /\ buf = Source
  <2>1. Told => tag = 0 /\ pos = Len(buf) + 1 /\ msg = Target /\ buf = Source
    BY <1>1, <1>2 DEF Place
  <2>2. Told => IsInitialized(Target)
    BY <1>2, Given
  <2> QED
    BY <2>1, <2>2, Zenon DEF Complete
<1>4. side = "client" => Target' = Target /\ handled' = handled
  BY <1>1 DEF Target
<1>5. /\ Source' = Source /\ Told' = Told /\ (side = "server" => Target' = Target)
  BY <1>1 DEF Source, Target, Told
<1>6. side \in {"server", "client"}
  BY <1>2 DEF TypeOK
<1>7. TypeOK'
  <2>1. handled' \in Messages \cup {Absent}
    BY <1>1, <1>2 DEF TypeOK
  <2>2. pc' \in {"accepted", "refused"}
    BY <1>1
  <2> QED
    BY <1>1, <1>2, <2>1, <2>2 DEF TypeOK
<1>8. Roles'
  <2>1. CASE side = "server" /\ Complete
    <3>1. pc' = "accepted" /\ handled' = msg /\ IsInitialized(msg)
      BY <1>1, <2>1 DEF Complete
    <3> QED
      BY <1>1, <1>2, <2>1, <3>1 DEF Roles
  <2>2. CASE side = "server" /\ ~Complete
    <3>1. pc' = "refused" /\ handled' = handled
      BY <1>1, <2>2
    <3> QED
      BY <1>1, <1>2, <2>2, <3>1 DEF Roles
  <2>3. CASE side = "client"
    BY <1>1, <1>2, <1>4, <2>3 DEF Roles
  <2> QED
    BY <1>6, <2>1, <2>2, <2>3
<1>9. Loop'
  BY <1>1, <1>2 DEF Loop
<1>10. Kept'
  BY <1>1, <1>2 DEF Kept
<1>11. Place'
  <2>1. ASSUME Told PROVE pc' = "accepted" /\ msg' = Target' /\ buf' = Source'
    BY <1>1, <1>3, <1>4, <1>5, <1>6, <2>1
  <2> QED
    BY <1>5, <2>1 DEF Place
<1>12. History'
  <2>1. CASE sent # Absent /\ side = "server"
    <3>1. Told /\ Target = sent /\ Source = payload
      BY <2>1 DEF Told, Target, Source
    <3>2. handled' = sent
      BY <1>1, <1>3, <2>1, <3>1
    <3>3. CString(payload) = payload
      BY <1>2, <1>3, <2>1, <3>1 DEF Roles
    <3>4. Zeros(payload) = {}
      BY <1>2, <3>3, CStringCuts DEF TypeOK
    <3> QED
      BY <1>1, <3>2, <3>4 DEF History
  <2>2. CASE side = "client"
    BY <1>1, <1>2, <1>4, <2>2 DEF History
  <2>3. CASE ~(sent # Absent)
    BY <1>1, <2>3 DEF History
  <2> QED
    BY <1>6, <2>1, <2>2, <2>3
<1> QED
  BY <1>7, <1>8, <1>9, <1>10, <1>11, <1>12 DEF IInv

LEMMA ReplyKeeps == IInv /\ Reply => IInv'
<1> SUFFICES ASSUME IInv, Reply PROVE IInv'
  OBVIOUS
<1>1. /\ side = "server" /\ pc = "accepted"
      /\ reply' = Serialize(msg) /\ buf' = CString(reply') /\ side' = "client" /\ pos' = 1
      /\ msg' = Cleared /\ pc' = "tag" /\ sent' = sent /\ payload' = payload /\ tag' = tag
      /\ groups' = groups /\ handled' = handled
  BY DEF Reply
<1>2. TypeOK /\ Roles /\ Loop /\ Kept /\ Place /\ History
  BY DEF IInv
<1>3. handled = msg /\ IsInitialized(msg) /\ msg \in Messages /\ groups = <<>>
  BY <1>1, <1>2 DEF Roles, TypeOK, Loop
<1>4. reply' \in String /\ Reads(reply', <<>>, msg)
  BY <1>1, <1>2, <1>3, SerializedIsRead DEF Kept
<1>5. buf' \in String /\ Len(buf') \in Nat
  BY <1>1, <1>4, CStringCuts, StringTypes DEF CutOf
<1>6. TypeOK'
  <2>1. pos' \in 1..(Len(buf') + 1)
    BY <1>1, <1>5
  <2> QED
    BY <1>1, <1>2, <1>4, <1>5, <2>1, ClearedTypes DEF TypeOK
<1>7. Roles'
  BY <1>1, <1>2, <1>3, <1>4 DEF Roles
<1>8. Loop'
  BY <1>1 DEF Loop
<1>9. Kept'
  BY <1>1, <1>3, NoUnknown, ClearedTypes DEF Kept
<1>10. Place'
  <2>1. Source' = reply' /\ Target' = msg
    BY <1>1, <1>3 DEF Source, Target
  <2>2. \E S : Reading(S, reply', <<>>, msg) /\ <<1, <<>>, Cleared>> \in S
    BY <1>4 DEF Reads
  <2>3. AtPlace(pos, groups, msg)'
    BY <1>1, <1>3, <2>1, <2>2, Zenon DEF AtPlace
  <2> QED
    BY <1>1, <2>3 DEF Place
<1>11. History'
  <2>1. ASSUME sent # Absent PROVE handled = sent /\ Zeros(payload) = {}
    <3>1. Told /\ Target = sent /\ Source = payload
      BY <1>1, <2>1 DEF Told, Target, Source
    <3>2. msg = sent /\ buf = payload
      BY <1>1, <1>2, <3>1 DEF Place
    <3>3. CString(payload) = payload
      BY <1>1, <1>2, <3>2 DEF Roles
    <3> QED
      BY <1>2, <1>3, <3>2, <3>3, CStringCuts DEF TypeOK
  <2> QED
    BY <1>1, <2>1 DEF History
<1> QED
  BY <1>6, <1>7, <1>8, <1>9, <1>10, <1>11 DEF IInv

LEMMA NoHandlerKeeps == IInv /\ NoHandler => IInv'
<1> SUFFICES ASSUME IInv, NoHandler PROVE IInv'
  OBVIOUS
<1>1. /\ side = "server" /\ pc = "accepted" /\ pc' = "ended"
      /\ sent' = sent /\ payload' = payload /\ side' = side /\ buf' = buf /\ pos' = pos
      /\ tag' = tag /\ msg' = msg /\ groups' = groups /\ handled' = handled /\ reply' = reply
  BY DEF NoHandler
<1>2. TypeOK /\ Roles /\ Kept /\ History
  BY DEF IInv
<1>3. TypeOK'
  BY <1>1, <1>2 DEF TypeOK
<1>4. Roles'
  BY <1>1, <1>2 DEF Roles
<1>5. Loop' /\ Place'
  BY <1>1 DEF Loop, Place
<1>6. Kept'
  BY <1>1, <1>2 DEF Kept
<1>7. History'
  BY <1>1, <1>2 DEF History
<1> QED
  BY <1>3, <1>4, <1>5, <1>6, <1>7 DEF IInv

LEMMA NothingKeeps == IInv /\ UNCHANGED vars => IInv'
<1> SUFFICES ASSUME IInv, UNCHANGED vars PROVE IInv'
  OBVIOUS
<1>1. /\ sent' = sent /\ payload' = payload /\ side' = side /\ buf' = buf /\ pos' = pos
      /\ tag' = tag /\ msg' = msg /\ groups' = groups /\ pc' = pc /\ handled' = handled
      /\ reply' = reply
  BY DEF vars
<1>2. TypeOK /\ Roles /\ Loop /\ Kept /\ Place /\ History
  BY DEF IInv
<1>3. /\ Source' = Source /\ Target' = Target /\ Told' = Told
  BY <1>1 DEF Source, Target, Told
<1>4. TypeOK'
  BY <1>1, <1>2 DEF TypeOK
<1>5. Roles'
  BY <1>1, <1>2 DEF Roles
<1>6. Loop'
  BY <1>1, <1>2 DEF Loop
<1>7. Kept'
  BY <1>1, <1>2 DEF Kept
<1>8. Place'
  BY <1>1, <1>2, <1>3, Zenon DEF Place, AtPlace, Ahead
<1>9. History'
  BY <1>1, <1>2 DEF History
<1> QED
  BY <1>4, <1>5, <1>6, <1>7, <1>8, <1>9 DEF IInv

\* Every step keeps the invariant.
LEMMA Inductive == IInv /\ [Next]_vars => IInv'
<1> SUFFICES ASSUME IInv, [Next]_vars PROVE IInv'
  OBVIOUS
<1>1. CASE ReadTag
  BY <1>1, ReadTagKeeps
<1>2. CASE ReadName \/ ReadAge \/ ReadEmail
  <2>1. Known
    BY <1>2 DEF ReadName, ReadAge, ReadEmail
  <2> QED
    BY <1>2, <2>1, KnownKeeps
<1>3. CASE SkipField \/ StartGroup \/ EndGroup
  BY <1>3, UnknownKeeps
<1>4. CASE Malformed
  BY <1>4, MalformedKeeps
<1>5. CASE ParseReturns
  BY <1>5, ParseReturnsKeeps
<1>6. CASE Reply
  BY <1>6, ReplyKeeps
<1>7. CASE NoHandler
  BY <1>7, NoHandlerKeeps
<1>8. CASE UNCHANGED vars
  BY <1>8, NothingKeeps
<1> QED
  BY <1>1, <1>2, <1>3, <1>4, <1>5, <1>6, <1>7, <1>8 DEF Next, Handler


LEMMA Always == Spec => []IInv
  BY Initially, Inductive, PTL DEF Spec

-----------------------------------------------------------------------------
\* The variables of both parsers stay in their types: groups never nest deeper
\* than the limit, and what is kept of a message fits the types of its fields.
THEOREM TypeCorrect == Spec => []TypeOK
<1>1. IInv => TypeOK
  BY DEF IInv
<1> QED
  BY <1>1, Always, PTL

\* The server handles the message that was serialized and the client reads the
\* message the server handled, whatever the texts and the age are, zero bytes
\* and unknown fields of any nesting included, or neither reads any.
THEOREM NeverAlteredCorrect == Spec => []NeverAltered
<1>1. IInv => NeverAltered
  <2> SUFFICES ASSUME IInv PROVE NeverAltered
    OBVIOUS
  <2>1. sent # Absent /\ handled # Absent => handled = sent
    BY DEF IInv, History
  <2>2. ASSUME side = "client", pc = "accepted" PROVE msg = handled
    <3>1. Told /\ Target = handled
      BY <2>2 DEF Told, Target
    <3> QED
      BY <2>2, <3>1 DEF IInv, Place
  <2> QED
    BY <2>1, <2>2 DEF NeverAltered
<1> QED
  BY <1>1, Always, PTL

\* Of the serialized messages no other is refused, by the server or by the
\* client, than one with a zero byte, and what the server makes of one is the
\* same bytes again.
THEOREM RefusedForZeroOnlyCorrect == Spec => []RefusedForZeroOnly
<1>1. IInv => RefusedForZeroOnly
  <2> SUFFICES ASSUME IInv, sent # Absent
               PROVE  /\ pc = "refused" => Zeros(payload) # {}
                      /\ reply # Absent => reply = payload
    BY DEF RefusedForZeroOnly
  <2>1. TypeOK /\ Roles /\ Place /\ History
    BY DEF IInv
  <2>2. ASSUME side = "client" PROVE reply = payload
    <3>1. handled = sent /\ reply = Serialize(handled) /\ payload = Serialize(sent)
      BY <2>1, <2>2 DEF Roles, History
    <3> QED
      BY <3>1
  <2>3. ASSUME side = "server", pc = "refused" PROVE Zeros(payload) # {}
    <3>1. Told /\ Source = payload
      BY <2>3 DEF Told, Source
    <3>2. CString(payload) # payload
      BY <2>1, <2>3, <3>1 DEF Place, Roles
    <3> QED
      BY <2>1, <3>2, CStringCuts DEF TypeOK
  <2>4. ASSUME side = "client", pc = "refused" PROVE Zeros(payload) # {}
    <3>1. Told /\ Source = reply
      BY <2>4 DEF Told, Source
    <3>2. reply \in String /\ CString(reply) # reply
      BY <2>1, <2>4, <3>1 DEF Place, Roles
    <3> QED
      BY <2>2, <2>4, <3>2, CStringCuts
  <2>5. side = "client" \/ (side = "server" /\ reply = Absent)
    <3>1. side \in {"server", "client"}
      BY <2>1 DEF TypeOK
    <3>2. side = "server" => reply = Absent
      BY <2>1 DEF Roles
    <3> QED
      BY <3>1, <3>2
  <2> QED
    BY <2>2, <2>3, <2>4, <2>5
<1> QED
  BY <1>1, Always, PTL

\* The reply is exactly as long as ByteSize says, at every length of its texts
\* and for every age.
THEOREM SizeAgreesCorrect == Spec => []SizeAgrees
<1>1. IInv => SizeAgrees
  <2> SUFFICES ASSUME IInv, reply # Absent PROVE Len(reply) = ByteSize(handled)
    BY DEF SizeAgrees
  <2>1. side = "client"
    BY DEF IInv, TypeOK, Roles
  <2>2. handled \in Messages /\ IsInitialized(handled) /\ reply = Serialize(handled)
    BY <2>1 DEF IInv, Roles
  <2> QED
    BY <2>2, SizeIsLength
<1> QED
  BY <1>1, Always, PTL

\* The client can read the reply to any payload, whatever bytes it was, unless a
\* byte of the reply is zero.
THEOREM ReplyReadableCorrect == Spec => []ReplyReadable
<1>1. IInv => ReplyReadable
  <2> SUFFICES ASSUME IInv, side = "client", pc = "refused" PROVE Zeros(reply) # {}
    BY DEF ReplyReadable
  <2>1. Told /\ Source = reply
    BY DEF Told, Source
  <2>2. reply \in String /\ CString(reply) # reply
    BY <2>1 DEF IInv, Place, Roles
  <2> QED
    BY <2>2, CStringCuts
<1> QED
  BY <1>1, Always, PTL


\* An int32 that was written, with sign or as a length or tag, is read back from
\* wherever it stands, with the reader right behind it, and takes as many bytes
\* as the code computes for it.
THEOREM VarintRoundTrip ==
  ASSUME NEW n \in Int32, NEW r \in String, NEW p \in Nat \ {0}
  PROVE  /\ At(r, p, WriteVarint32(n)) =>
              /\ ReadVarint32(r, p) = n
              /\ Min(VarintEnds(r, p)) + 1 = p + Len(WriteVarint32(n))
         /\ At(r, p, WriteVarint32SignExtended(n)) =>
              /\ ReadVarint32(r, p) = n
              /\ Min(VarintEnds(r, p)) + 1 = p + Int32Size(n)
         /\ n >= 0 => Len(WriteVarint32(n)) = VarintSize32(n)
<1>1. ASSUME NEW d \in Digits, ToInt32(d) = n, At(r, p, WriteVarint(d))
      PROVE  /\ ReadVarint32(r, p) = n
             /\ Min(VarintEnds(r, p)) + 1 = p + Len(WriteVarint(d))
  <2>1. /\ Min(VarintEnds(r, p)) = p + Significant(d) - 1
        /\ ReadVarint64(r, p) = Trim(d)
    BY <1>1, ReadBack
  <2>2. Len(WriteVarint(d)) = Significant(d) /\ Significant(d) \in Nat
    BY Written, DigitTypes
  <2>3. ToInt32(Trim(d)) = ToInt32(d)
    BY Trimmed
  <2> QED
    BY <1>1, <2>1, <2>2, <2>3 DEF ReadVarint32
<1>2. Digits32(n) \in Digits /\ ToInt32(Digits32(n)) = n
  BY DigitsOf32, SMT
<1>3. Digits64(n) \in Digits /\ ToInt32(Digits64(n)) = n
  BY DigitsOf64, SMT
<1>4. At(r, p, WriteVarint32(n)) =>
        /\ ReadVarint32(r, p) = n
        /\ Min(VarintEnds(r, p)) + 1 = p + Len(WriteVarint32(n))
  BY <1>1, <1>2 DEF WriteVarint32
<1>5. At(r, p, WriteVarint32SignExtended(n)) =>
        /\ ReadVarint32(r, p) = n
        /\ Min(VarintEnds(r, p)) + 1 = p + Len(WriteVarint32SignExtended(n))
  BY <1>1, <1>3 DEF WriteVarint32SignExtended
<1> QED
  BY <1>4, <1>5, SizeOf32, SizeOfSignExtended


\* A bound on the steps the parser still takes: one for each tag and one for
\* each value, and a tag has a byte at least.
StepsLeft ==
  CASE pc = "tag"    -> 2 * (Len(buf) + 1 - pos) + 2
    [] pc = "field"  -> 2 * (Len(buf) + 1 - pos) + (IF tag = 0 THEN 1 ELSE 3)
    [] pc = "return" -> 1
    [] OTHER         -> 0

LEMMA StepsLeftIs ==
  ASSUME NEW l \in Nat, l = Len(buf), TypeOK
  PROVE  /\ pos \in 1..(l + 1) /\ l + 1 - pos \in Nat
         /\ pc = "tag" => StepsLeft = 2 * (l + 1 - pos) + 2
         /\ pc = "field" => StepsLeft = 2 * (l + 1 - pos) + (IF tag = 0 THEN 1 ELSE 3)
         /\ pc = "return" => StepsLeft = 1
         /\ pc \notin {"tag", "field", "return"} => StepsLeft = 0
         /\ StepsLeft \in Nat /\ StepsLeft <= 2 * l + 3
<1>1. pos \in 1..(l + 1) /\ l + 1 - pos \in Nat /\ l + 1 - pos <= l
  BY DEF TypeOK
<1>2. /\ pc = "tag" => StepsLeft = 2 * (l + 1 - pos) + 2
      /\ pc = "field" => StepsLeft = 2 * (l + 1 - pos) + (IF tag = 0 THEN 1 ELSE 3)
      /\ pc = "return" => StepsLeft = 1
      /\ pc \notin {"tag", "field", "return"} => StepsLeft = 0
  BY DEF StepsLeft
<1>3. StepsLeft \in Nat /\ StepsLeft <= 2 * l + 3
  BY <1>1, <1>2
<1> QED
  BY <1>1, <1>2, <1>3

LEMMA ParserStep ==
  ASSUME IInv, IInv', Parsing, Next
  PROVE  StepsLeft' < StepsLeft
<1> DEFINE l == Len(buf)
<1>1. l \in Nat /\ TypeOK /\ TypeOK' /\ buf \in String
  BY StringTypes DEF IInv, TypeOK
<1>2. buf' = buf
  BY DEF Next, Handler, Parsing, ReadTag, ReadName, ReadAge, ReadEmail, SkipField, StartGroup,
         EndGroup, Field, Malformed, ParseReturns, Reply, NoHandler
<1>3. l = Len(buf) /\ l = Len(buf')
  BY <1>2
<1> HIDE DEF l
<1>4. /\ pos \in 1..(l + 1) /\ l + 1 - pos \in Nat
      /\ pc = "tag" => StepsLeft = 2 * (l + 1 - pos) + 2
      /\ pc = "field" => StepsLeft = 2 * (l + 1 - pos) + (IF tag = 0 THEN 1 ELSE 3)
      /\ pc = "return" => StepsLeft = 1
  BY <1>1, <1>3, StepsLeftIs
<1>5. /\ pos' \in 1..(l + 1)
      /\ pc' = "tag" => StepsLeft' = 2 * (l + 1 - pos') + 2
      /\ pc' = "field" => StepsLeft' = 2 * (l + 1 - pos') + (IF tag' = 0 THEN 1 ELSE 3)
      /\ pc' = "return" => StepsLeft' = 1
      /\ pc' \notin {"tag", "field", "return"} => StepsLeft' = 0
  <2>1. pos' \in 1..(l + 1)
    BY <1>1, <1>3 DEF TypeOK
  <2> QED
    BY <1>3, <2>1 DEF StepsLeft
<1>6. CASE ReadTag
  <2> DEFINE q == Min(VarintEnds(buf, pos)) + 1
  <2>1. /\ pc = "tag" /\ tag' = TagRead /\ pos' = IF TagRead = 0 THEN pos ELSE q
        /\ pc' \in {"return", "field"}
    BY <1>6 DEF ReadTag
  <2>2. TagRead # 0 => q \in Nat /\ pos + 1 <= q
    <3>1. pos \in Nat \ {0}
      BY <1>4
    <3>2. TagRead # 0 => VarintEnds(buf, pos) # {}
      BY <1>1, TagIs
    <3>3. TagRead # 0 => Min(VarintEnds(buf, pos)) \in pos..(pos + 9)
      BY <1>1, <3>1, <3>2, VarintRead
    <3> QED
      BY <3>1, <3>3
  <2> HIDE DEF q
  <2>3. CASE pc' = "return"
    BY <1>4, <1>5, <2>1, <2>3
  <2>4. CASE pc' = "field" /\ TagRead = 0
    BY <1>4, <1>5, <2>1, <2>4
  <2>5. CASE pc' = "field" /\ TagRead # 0
    <3>1. /\ StepsLeft = 2 * (l + 1 - pos) + 2 /\ StepsLeft' = 2 * (l + 1 - pos') + 3
          /\ pos' = q
      BY <1>4, <1>5, <2>1, <2>5
    <3>2. pos \in Int /\ pos' \in Int /\ l \in Int /\ pos + 1 <= pos'
      BY <1>1, <1>4, <1>5, <2>2, <2>5, <3>1
    <3> QED
      BY <3>1, <3>2
  <2> QED
    BY <2>1, <2>3, <2>4, <2>5
<1>7. CASE Field
  <2>1. pc = "field" /\ pc' = "tag" /\ pos' \in FieldEnd
    BY <1>7 DEF Field
  <2>2. tag # 0 /\ pos <= pos'
    <3>1. pos \in Nat \ {0} /\ pos <= Len(buf) + 1
      BY <1>3, <1>4
    <3> QED
      BY <1>1, <2>1, <3>1, FieldPlace
  <2>3. StepsLeft = 2 * (l + 1 - pos) + 3 /\ StepsLeft' = 2 * (l + 1 - pos') + 2
    BY <1>4, <1>5, <2>1, <2>2
  <2> DEFINE a == l + 1 - pos
             b == l + 1 - pos'
  <2>4. a \in Int /\ b \in Int /\ b <= a
    <3>1. pos \in Int /\ pos' \in Int /\ l \in Int
      BY <1>1, <1>4, <1>5
    <3>2. pos <= pos'
      BY <2>2
    <3>3. \A x, y, z \in Int : x <= y => z + 1 - x \in Int /\ z + 1 - y \in Int /\ z + 1 - y <= z + 1 - x
      OBVIOUS
    <3> QED
      BY <3>1, <3>2, <3>3
  <2>5. StepsLeft = 2 * a + 3 /\ StepsLeft' = 2 * b + 2
    BY <2>3
  <2> HIDE DEF a, b
  <2> QED
    BY <2>4, <2>5
<1>8. CASE Malformed
  BY <1>4, <1>5, <1>8 DEF Malformed
<1>9. CASE ParseReturns
  <2>1. pc = "return" /\ pc' \in {"accepted", "refused"}
    BY <1>9 DEF ParseReturns
  <2> QED
    BY <1>4, <1>5, <2>1
<1> QED
  BY <1>6, <1>7, <1>8, <1>9
    DEF Next, Handler, Parsing, Reply, NoHandler, ReadName, ReadAge, ReadEmail, SkipField,
        StartGroup, EndGroup

\* The parser does not stay in its loop: each of its steps leaves fewer to come,
\* of at most two for each byte of the string and three more, whatever the bytes
\* are. What ParserReturns adds to this is that the thread runs.
THEOREM ParserAdvances ==
  Spec => [](StepsLeft \in 0..(2 * Len(buf) + 3)) /\ [][Parsing => StepsLeft' < StepsLeft]_vars
<1>1. IInv => StepsLeft \in 0..(2 * Len(buf) + 3)
  <2> SUFFICES ASSUME IInv PROVE StepsLeft \in 0..(2 * Len(buf) + 3)
    OBVIOUS
  <2> DEFINE l == Len(buf)
  <2>1. l \in Nat /\ TypeOK
    BY StringTypes DEF IInv, TypeOK
  <2>2. StepsLeft \in Nat /\ StepsLeft <= 2 * l + 3
    BY <2>1, StepsLeftIs
  <2> HIDE DEF l
  <2>3. StepsLeft \in 0..(2 * l + 3)
    BY <2>1, <2>2
  <2> QED
    BY <2>3 DEF l
<1>2. IInv /\ IInv' /\ [Next]_vars => [Parsing => StepsLeft' < StepsLeft]_vars
  BY ParserStep
<1> QED
  BY <1>1, <1>2, Always, PTL DEF Spec


-----------------------------------------------------------------------------
LEMMA NoZeros ==
  ASSUME NEW s
  PROVE  Zeros(s) = {} <=> \A i \in 1..Len(s) : s[i] # 0
  BY DEF Zeros

LEMMA ZerosJoined ==
  ASSUME NEW a \in String, NEW b \in String
  PROVE  Zeros(a \o b) = {} <=> Zeros(a) = {} /\ Zeros(b) = {}
<1> DEFINE l == Len(a)
           k == Len(b)
           c == a \o b
<1>1. /\ l \in Nat /\ k \in Nat /\ Len(c) = l + k
      /\ (\A i \in 1..l : c[i] = a[i]) /\ (\A i \in 1..k : c[l + i] = b[i])
  BY Joined, StringTypes
<1> HIDE DEF l, k, c
<1>2. \A i \in 1..l : i \in 1..(l + k)
  BY <1>1
<1>3. \A i \in 1..k : l + i \in 1..(l + k)
  BY <1>1
<1>4. \A i \in 1..(l + k) : i \in 1..l \/ (i - l \in 1..k /\ l + (i - l) = i)
  BY <1>1
<1>5. (\A i \in 1..(l + k) : c[i] # 0) => (\A i \in 1..l : a[i] # 0) /\ (\A i \in 1..k : b[i] # 0)
  BY <1>1, <1>2, <1>3, Zenon
<1>6. ASSUME \A i \in 1..l : a[i] # 0, \A i \in 1..k : b[i] # 0, NEW i \in 1..(l + k)
      PROVE  c[i] # 0
  <2>1. CASE i \in 1..l
    BY <1>1, <1>6, <2>1
  <2>2. CASE i - l \in 1..k /\ l + (i - l) = i
    <3>1. c[l + (i - l)] = b[i - l]
      BY <1>1, <2>2
    <3> QED
      BY <1>6, <2>2, <3>1
  <2> QED
    BY <1>4, <2>1, <2>2
<1>7. /\ Zeros(c) = {} <=> \A i \in 1..(l + k) : c[i] # 0
      /\ Zeros(a) = {} <=> \A i \in 1..l : a[i] # 0
      /\ Zeros(b) = {} <=> \A i \in 1..k : b[i] # 0
  BY <1>1, NoZeros DEF l, k
<1> QED
  BY <1>5, <1>6, <1>7 DEF c

LEMMA ZerosWritten ==
  ASSUME NEW d \in Digits
  PROVE  /\ ToInt32(d) # 0 => Zeros(WriteVarint(d)) = {}
         /\ (\A i \in 1..Len(d) : d[i] = 0) => Zeros(WriteVarint(d)) # {}
<1>1. ASSUME ToInt32(d) # 0 PROVE Zeros(WriteVarint(d)) = {}
  BY <1>1, NoZeroByte, Written, NoZeros
<1>2. ASSUME \A i \in 1..Len(d) : d[i] = 0 PROVE Zeros(WriteVarint(d)) # {}
  <2>1. Significant(d) = 1
    BY <1>2, SignificantDigits
  <2>2. 1 \in 1..1 /\ ~(1 < 1)
    OBVIOUS
  <2>3. Len(WriteVarint(d)) = 1 /\ WriteVarint(d)[1] = d[1]
    BY <2>1, <2>2, Written, Zenon
  <2>4. d[1] = 0
    BY <1>2, <2>1, SignificantDigits
  <2>5. 1 \in Zeros(WriteVarint(d))
    BY <2>3, <2>4 DEF Zeros
  <2> QED
    BY <2>5
<1> QED
  BY <1>1, <1>2

LEMMA ZerosOfInt32 ==
  ASSUME NEW n \in Int32
  PROVE  /\ Zeros(WriteVarint32(n)) = {} <=> n # 0
         /\ Zeros(WriteVarint32SignExtended(n)) = {} <=> n # 0
<1>1. Digits32(n) \in Digits /\ ToInt32(Digits32(n)) = n /\ Len(Digits32(n)) = 5
  BY DigitsOf32, SMT
<1>2. Digits64(n) \in Digits /\ ToInt32(Digits64(n)) = n /\ Len(Digits64(n)) = 10
  BY DigitsOf64, SMT
<1>3. ASSUME n = 0
      PROVE  /\ \A i \in 1..5 : Digits32(n)[i] = 0
             /\ \A i \in 1..10 : Digits64(n)[i] = 0
  <2>1. /\ Digits32(n)[1] = 0 /\ Digits32(n)[2] = 0 /\ Digits32(n)[3] = 0
        /\ Digits32(n)[4] = 0 /\ Digits32(n)[5] = 0
    BY <1>3, DigitsOf32, SMT
  <2>2. /\ Digits64(n)[1] = 0 /\ Digits64(n)[2] = 0 /\ Digits64(n)[3] = 0
        /\ Digits64(n)[4] = 0 /\ Digits64(n)[5] = 0 /\ \A i \in 6..10 : Digits64(n)[i] = 0
    BY <1>3, DigitsOf64, SMT
  <2>3. /\ \A i \in 1..5 : i \in {1, 2, 3, 4, 5}
        /\ \A i \in 1..10 : i \in {1, 2, 3, 4, 5} \/ i \in 6..10
    OBVIOUS
  <2> QED
    BY <2>1, <2>2, <2>3, Zenon
<1>4. Zeros(WriteVarint32(n)) = {} <=> n # 0
  BY <1>1, <1>3, ZerosWritten DEF WriteVarint32
<1>5. Zeros(WriteVarint32SignExtended(n)) = {} <=> n # 0
  BY <1>2, <1>3, ZerosWritten DEF WriteVarint32SignExtended
<1> QED
  BY <1>4, <1>5

\* A text that arrives in a C string: not empty, since its length would be a zero
\* byte, and without a zero byte.
Unhurt(x) == x # <<>> /\ Zeros(x) = {}

LEMMA ZerosOfText ==
  ASSUME NEW x \in Text \cup {Absent}, NEW key \in {NAME, EMAIL}
  PROVE  Zeros(WriteString(key, x)) = {} <=> x = Absent \/ Unhurt(x)
<1>1. CASE x = Absent
  <2>1. WriteString(key, x) = <<>>
    BY <1>1 DEF WriteString
  <2>2. Zeros(<<>>) = {}
    BY DEF Zeros
  <2> QED
    BY <1>1, <2>1, <2>2
<1>2. CASE x # Absent
  <2> DEFINE w == WriteVarint32(key)
             l == WriteVarint32(Len(x))
  <2>1. x \in Text /\ Len(x) \in Int32 /\ x \in String /\ l \in String
    BY <1>2, TextLength
  <2>2. WriteString(key, x) = w \o (l \o x)
    BY <1>2, <2>1, StringPart
  <2>3. w \in String /\ key \in Int32 /\ key # 0
    BY TagWritten, KeysAreTags
  <2>4. Zeros(w) = {} /\ (Zeros(l) = {} <=> Len(x) # 0)
    BY <2>1, <2>3, ZerosOfInt32
  <2>5. Len(x) # 0 <=> x # <<>>
    BY <2>1, StringTypes, EmptySeq
  <2> HIDE DEF w, l
  <2>6. l \o x \in String /\ (Zeros(l \o x) = {} <=> Zeros(l) = {} /\ Zeros(x) = {})
    BY <2>1, ZerosJoined, Joined
  <2>7. Zeros(w \o (l \o x)) = {} <=> Zeros(w) = {} /\ Zeros(l \o x) = {}
    BY <2>3, <2>6, ZerosJoined
  <2> QED
    BY <1>2, <2>2, <2>4, <2>5, <2>6, <2>7 DEF Unhurt
<1> QED
  BY <1>1, <1>2

\* Which messages have a zero byte, RefusedForZeroOnly being about all others:
\* those whose age is 0 and those with a text that is empty or has a zero byte.
\* No tag, length, other age or boundary of a varint ever makes one.
THEOREM MessagesThatArrive ==
  ASSUME NEW m \in Messages, IsInitialized(m), m.unknown = <<>>
  PROVE  Zeros(Serialize(m)) = {} <=>
           m.age # 0 /\ Unhurt(m.name) /\ (m.email = Absent \/ Unhurt(m.email))
<1> DEFINE a == WriteString(NAME, m.name)
           b == WriteVarint32(AGE)
           c == WriteVarint32SignExtended(m.age)
           d == WriteString(EMAIL, m.email)
           e == m.unknown
<1>1. /\ m.name \in Text \cup {Absent} /\ m.name # Absent /\ m.age \in Int32 /\ e \in String
      /\ m.email \in Text \cup {Absent}
  BY DEF Messages, IsInitialized
<1>2. a \in String /\ (Zeros(a) = {} <=> Unhurt(m.name))
  BY <1>1, StringSize, ZerosOfText
<1>3. d \in String /\ (Zeros(d) = {} <=> m.email = Absent \/ Unhurt(m.email))
  BY <1>1, StringSize, ZerosOfText
<1>4. b \in String /\ Zeros(b) = {}
  BY TagWritten, KeysAreTags, ZerosOfInt32
<1>5. c \in String /\ (Zeros(c) = {} <=> m.age # 0)
  <2>1. Digits64(m.age) \in Digits
    BY <1>1, DigitsOf64, SMT
  <2>2. c \in String
    BY <2>1, Written DEF WriteVarint32SignExtended
  <2> QED
    BY <1>1, <2>2, ZerosOfInt32
<1>6. Serialize(m) = a \o b \o c \o d \o e
  BY DEF Serialize
<1>7. Zeros(e) = {}
  BY DEF Zeros
<1> HIDE DEF a, b, c, d, e
<1>8. a \o b \in String /\ (Zeros(a \o b) = {} <=> Zeros(a) = {} /\ Zeros(b) = {})
  BY <1>2, <1>4, Joined, ZerosJoined
<1>9. a \o b \o c \in String /\ (Zeros(a \o b \o c) = {} <=> Zeros(a \o b) = {} /\ Zeros(c) = {})
  BY <1>5, <1>8, Joined, ZerosJoined
<1>10. /\ a \o b \o c \o d \in String
       /\ Zeros(a \o b \o c \o d) = {} <=> Zeros(a \o b \o c) = {} /\ Zeros(d) = {}
  BY <1>3, <1>9, Joined, ZerosJoined
<1>11. Zeros(a \o b \o c \o d \o e) = {} <=> Zeros(a \o b \o c \o d) = {} /\ Zeros(e) = {}
  BY <1>1, <1>10, ZerosJoined
<1> QED
  BY <1>2, <1>3, <1>4, <1>5, <1>6, <1>7, <1>8, <1>9, <1>10, <1>11
=============================================================================
