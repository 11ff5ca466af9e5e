--------------------------- MODULE MCTestMsgHandler ---------------------------
EXTENDS TestMsgHandler

Name(n) == [i \in 1..n |-> 65]

MCSent ==
  [name    : {<<>>, <<65>>, <<0, 65>>, <<65, 0>>, <<10, 1>>, Name(127), Name(128)},
   age     : {0, 1, 101, 127, 128, 16383, 16384,
             2097151, 2097152, 268435455, 268435456, 2147483647, -1, -128, -2147483647 - 1},
   email   : {Absent, <<>>, <<66>>, <<66, 0>>},
   unknown : {<<>>}]

\* A name, a second name, an age, an age in ten bytes, an age in five bytes
\* that overflows to 0, a name with a length in five bytes that overflows to
\* 0, unknown fields of each type, groups, and malformed pieces.
Pieces ==
  { <<10, 1, 65>>, <<16, 7>>, <<144, 128, 128, 128, 16, 255, 255, 255, 255, 15>>,
    <<16, 128, 128, 128, 128, 16>>, <<10, 128, 128, 128, 128, 16>>,
    <<26, 1, 66>>, <<8, 129, 128, 128, 128, 128, 128, 128, 128, 128, 3>>,
    <<43>>, <<44>>, <<52>>, <<45, 1, 2, 3, 4>>, <<41, 1, 2, 3, 4, 5, 6, 7, 8>>,
    <<34, 1, 9>>, <<34, 9>>, <<45, 1>>, <<14>>, <<128>>,
    <<10, 255, 255, 255, 255, 15>>, <<0>>,
    [i \in 1..11 |-> 129] }

MCPayloads ==
  {<<>>} \cup Pieces
    \cup {a \o b : a, b \in Pieces}
    \cup {<<10, 1, 65, 16, 7>> \o a \o b \o c : a, b, c \in Pieces}
==============================================================================
