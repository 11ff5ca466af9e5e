---------------------------- MODULE TestMsgHandler ----------------------------
(***************************************************************************)
(* The way of one smart.test message: a client serializes it, the server   *)
(* takes the payload for a C string, parses it and serializes it again     *)
(* (TestMsgHandler::HandleTestMsg), and the client takes the reply for a C *)
(* string and parses that (recvf of client5.cpp). Both sides run the same  *)
(* generated parser, one tag or value per action; side tells whose it is.  *)
(*                                                                         *)
(* The framing and the network are in TcpHandler.tla and NetWorkSystem.tla: *)
(* here a payload arrives whole.                                           *)
(***************************************************************************)
EXTENDS WireFormat, SequencesExt

CONSTANTS
  Sent,           \* messages that clients serialize
  Payloads,       \* payloads that no serialization made
  Absent,         \* value of a field that is not set
  RecursionLimit  \* groups that may be nested (100 in the code)

\* smart::test. The unknown fields are kept as the bytes that
\* SerializeUnknownFields makes of them.
Cleared == [name |-> Absent, age |-> Absent, email |-> Absent, unknown |-> <<>>]
IsInitialized(m) == m.name # Absent /\ m.age # Absent

\* Strings of bytes, and those that a field can hold, whose length is an int.
String == Seq(Byte)
Text == {s \in String : Len(s) <= 2147483647}
Messages ==
  [name : Text \cup {Absent}, age : Int32 \cup {Absent},
   email : Text \cup {Absent}, unknown : String]

ASSUME Legal == \A m \in Sent : m \in Messages /\ IsInitialized(m) /\ m.unknown = <<>>
ASSUME Bounds == Payloads \subseteq String /\ RecursionLimit \in Nat

VARIABLES
  sent,     \* the message the payload was made of, Absent if none (history)
  payload,  \* the payload as it arrived (history)
  side,     \* "server" or "client": whose parser runs
  buf,      \* the std::string being parsed
  pos,      \* position in buf of the next byte to read
  tag,      \* the local variable of the parser
  msg,      \* the message being parsed
  groups,   \* start tags of the unknown groups that are open
  pc,       \* "tag" and "field" in the loop of the parser, "return" behind it,
            \* "accepted", "refused", or "ended" without a reply
  handled,  \* the message the server read, Absent before (history)
  reply     \* the payload of the reply, Absent before (history)

vars == <<sent, payload, side, buf, pos, tag, msg, groups, pc, handled, reply>>
------------------------------------------------------------------------------
NAME == 10   \* field 1, length delimited
AGE == 16    \* field 2, varint
EMAIL == 26  \* field 3, length delimited

WriteString(key, s) ==
  IF s = Absent THEN <<>> ELSE WriteVarint32(key) \o WriteVarint32(Len(s)) \o s

\* test::SerializeWithCachedSizesToArray.
Serialize(m) ==
  WriteString(NAME, m.name)
    \o WriteVarint32(AGE) \o WriteVarint32SignExtended(m.age)
    \o WriteString(EMAIL, m.email) \o m.unknown

\* Sizes as the code computes them, from the ranges of the values. A number
\* of 2^31 or more is negative here.
VarintSize32(n) ==
  IF n < 0 THEN 5 ELSE 1 + Cardinality({i \in 2..5 : n >= Weight[i]})

\* Mutant of Int32Size: as for an unsigned field.
UInt32Size(n) == VarintSize32(n)

Int32Size(n) == IF n < 0 THEN 10 ELSE VarintSize32(n)

StringFieldSize(s) == IF s = Absent THEN 0 ELSE 1 + VarintSize32(Len(s)) + Len(s)

\* test::ByteSize, to which the reply is sized before it is written. The size
\* of the unknown fields is taken for granted.
ByteSize(m) ==
  StringFieldSize(m.name) + 1 + Int32Size(m.age) + StringFieldSize(m.email)
    + Len(m.unknown)

Zeros(s) == {i \in 1..Len(s) : s[i] = 0}

\* std::string(const char *) of a payload that is followed by a zero byte.
CString(s) ==
  IF Zeros(s) = {} THEN s ELSE SubSeq(s, 1, Min(Zeros(s)) - 1)
------------------------------------------------------------------------------
Init ==
  /\ \/ sent \in Sent /\ payload = Serialize(sent)
     \/ sent = Absent /\ payload \in Payloads
  /\ side = "server"
  /\ buf = CString(payload)
  /\ pos = 1
  /\ tag = 0
  /\ msg = Cleared
  /\ groups = <<>>
  /\ pc = "tag"
  /\ handled = Absent
  /\ reply = Absent

\* ReadTag. It is 0 at the end of the string and for a tag that cannot be read
\* or is 0; pos then stays, so that it tells the end from the other cases.
TagRead == IF VarintEnds(buf, pos) = {} THEN 0 ELSE ReadVarint32(buf, pos)

ReadTag ==
  /\ pc = "tag"
  /\ tag' = TagRead
  /\ pos' = IF tag' = 0 THEN pos ELSE Min(VarintEnds(buf, pos)) + 1
  /\ pc' = IF groups = <<>> /\ (tag' = 0 \/ GetTagWireType(tag') = WIRETYPE_END_GROUP)
           THEN "return" ELSE "field"
  /\ UNCHANGED <<sent, payload, side, buf, msg, groups, handled, reply>>

\* The position after a value that starts at p, as a set that is empty if the
\* value is cut by the end of the string.
AfterVarint(p)   == {Min(S) + 1 : S \in {VarintEnds(buf, p)} \ {{}}}
AfterFixed(p, n) == {q \in {p + n} : q <= Len(buf) + 1}

\* Mutant of AfterString: a length beyond the end means the rest.
AfterStringRest(p) ==
  UNION {LET n == ReadVarint32(buf, p)
         IN IF n < 0 THEN {} ELSE {Min({q + n, Len(buf) + 1})} : q \in AfterVarint(p)}

\* Mutant of AfterString: a string that ends where the buffer ends is refused.
AfterStringInside(p) ==
  UNION {LET n == ReadVarint32(buf, p)
         IN IF n < 0 \/ n >= Len(buf) + 1 - q THEN {} ELSE {q + n} : q \in AfterVarint(p)}

\* A length that is negative as an int, or beyond the end, is an error.
AfterString(p) ==
  UNION {LET n == ReadVarint32(buf, p)
         IN IF n < 0 \/ n > Len(buf) + 1 - q THEN {} ELSE {q + n} : q \in AfterVarint(p)}

\* Mutant of MayNest: off by one.
MayNestOneMore == Len(groups) <= RecursionLimit

\* IncrementRecursionDepth.
MayNest == Len(groups) < RecursionLimit

\* The position that follows the value of the field, or the empty set if the
\* field is malformed: the DO_ calls of the parser and WireFormat::SkipField.
\* SkipMessage returns at a tag of 0 too, which is not the tag that ends it.
FieldEnd ==
  LET type == GetTagWireType(tag)
  IN CASE tag = 0                            -> {}
       [] tag # 0 /\ type = WIRETYPE_VARINT  -> AfterVarint(pos)
       [] type = WIRETYPE_FIXED64            -> AfterFixed(pos, 8)
       [] type = WIRETYPE_LENGTH_DELIMITED   -> AfterString(pos)
       [] type = WIRETYPE_START_GROUP        -> IF MayNest THEN {pos} ELSE {}
       [] type = WIRETYPE_END_GROUP          ->
            IF tag = EndTag(Last(groups)) THEN {pos} ELSE {}
       [] type = WIRETYPE_FIXED32            -> AfterFixed(pos, 4)
       [] OTHER                              -> {}

Known == groups = <<>> /\ tag \in {NAME, AGE, EMAIL}

\* The bytes of the string whose length is at position p and that ends before q.
StringAt(p, q) == SubSeq(buf, Min(VarintEnds(buf, p)) + 1, q - 1)

\* The value of a field is read and the loop goes on.
Field ==
  /\ pc = "field"
  /\ pos' \in FieldEnd
  /\ pc' = "tag"
  /\ UNCHANGED <<sent, payload, side, buf, tag, handled, reply>>

ReadName ==
  /\ Known /\ tag = NAME /\ Field
  /\ msg' = [msg EXCEPT !.name = StringAt(pos, pos')]
  /\ UNCHANGED groups

ReadAge ==
  /\ Known /\ tag = AGE /\ Field
  /\ msg' = [msg EXCEPT !.age = ReadVarint32(buf, pos)]
  /\ UNCHANGED groups

ReadEmail ==
  /\ Known /\ tag = EMAIL /\ Field
  /\ msg' = [msg EXCEPT !.email = StringAt(pos, pos')]
  /\ UNCHANGED groups

\* What SerializeUnknownFields writes of the value of an unknown field: a
\* varint and a length get their shortest form, other bytes stay.
UnknownValue(q) ==
  CASE GetTagWireType(tag) = WIRETYPE_VARINT -> WriteVarint(ReadVarint64(buf, pos))
    [] GetTagWireType(tag) = WIRETYPE_LENGTH_DELIMITED ->
         WriteVarint32(ReadVarint32(buf, pos)) \o StringAt(pos, q)
    [] OTHER -> SubSeq(buf, pos, q - 1)

\* Mutant of KeepUnknown: the tag that ends a group is not written.
KeepUnended ==
  msg' = IF GetTagWireType(tag) = WIRETYPE_END_GROUP THEN msg
         ELSE [msg EXCEPT !.unknown = @ \o WriteVarint32(tag) \o UnknownValue(pos')]

\* The field is added to the unknown fields.
KeepUnknown ==
  msg' = [msg EXCEPT !.unknown = @ \o WriteVarint32(tag) \o UnknownValue(pos')]

\* A field of a number, or of a type, that smart.test does not have.
SkipField ==
  /\ ~Known
  /\ GetTagWireType(tag) \notin {WIRETYPE_START_GROUP, WIRETYPE_END_GROUP}
  /\ Field
  /\ KeepUnknown
  /\ UNCHANGED groups

\* SkipField calls SkipMessage, which calls SkipField for what is inside.
StartGroup ==
  /\ GetTagWireType(tag) = WIRETYPE_START_GROUP
  /\ Field
  /\ KeepUnknown
  /\ groups' = Append(groups, tag)

EndGroup ==
  /\ GetTagWireType(tag) = WIRETYPE_END_GROUP
  /\ Field
  /\ KeepUnknown
  /\ groups' = Front(groups)

\* Mutant of Malformed: the value is tried again.
MalformedRetried ==
  /\ pc = "field"
  /\ FieldEnd = {}
  /\ UNCHANGED vars

\* The goto failure of the parser: a value that is cut or of no known type, a
\* group that nests too deep or is ended by another tag or by the end.
Malformed ==
  /\ pc = "field"
  /\ FieldEnd = {}
  /\ pc' = "refused"
  /\ UNCHANGED <<sent, payload, side, buf, pos, tag, msg, groups, handled, reply>>

\* IsInitialized and ConsumedEntireMessage.
Complete == IsInitialized(msg) /\ tag = 0 /\ pos = Len(buf) + 1

\* ParseFromString returns. The test of its result is in HandleTestMsg; the
\* client ignores it and shows what it has of the message.
ParseReturns ==
  /\ pc = "return"
  /\ pc' = IF Complete THEN "accepted" ELSE "refused"
  /\ handled' = IF side = "server" /\ Complete THEN msg ELSE handled
  /\ UNCHANGED <<sent, payload, side, buf, pos, tag, msg, groups, reply>>

\* HandleTestMsg finds the connection, and the client gets the reply.
Reply ==
  /\ side = "server" /\ pc = "accepted"
  /\ reply' = Serialize(msg)
  /\ buf' = CString(reply')
  /\ side' = "client"
  /\ pos' = 1
  /\ msg' = Cleared
  /\ pc' = "tag"
  /\ UNCHANGED <<sent, payload, tag, groups, handled>>

\* getHandlerByConnId returns NULL: the connection is gone.
NoHandler ==
  /\ side = "server" /\ pc = "accepted"
  /\ pc' = "ended"
  /\ UNCHANGED <<sent, payload, side, buf, pos, tag, msg, groups, handled, reply>>

Handler ==
  \/ ReadTag \/ ReadName \/ ReadAge \/ ReadEmail
  \/ SkipField \/ StartGroup \/ EndGroup
  \/ Malformed \/ ParseReturns
  \/ Reply \/ NoHandler

Next == Handler

Spec == Init /\ [][Next]_vars

\* The parser is a function that a thread runs: it goes on while it can.
FairSpec == Spec /\ WF_vars(Handler)
------------------------------------------------------------------------------
TypeOK ==
  /\ sent \in Sent \cup {Absent}
  /\ payload \in String /\ buf \in String
  /\ side \in {"server", "client"}
  /\ pos \in 1..(Len(buf) + 1)
  /\ tag \in Int32
  /\ msg \in Messages
  /\ groups \in Seq(Int32) /\ Len(groups) <= RecursionLimit
  /\ pc \in {"tag", "field", "return", "accepted", "refused", "ended"}
  /\ handled \in Messages \cup {Absent}
  /\ reply \in String \cup {Absent}

\* What is understood is what was said. Taking payloads for C strings and
\* serializing what was parsed may lose a message, but never makes another
\* one of it: the server handles the message that was serialized, and the
\* client reads the message the server handled, unknown fields included.
NeverAltered ==
  /\ sent # Absent /\ handled # Absent => handled = sent
  /\ side = "client" /\ pc = "accepted" => msg = handled

\* The zero bytes that C strings lose (an age of 0, an empty string, a zero in
\* a string) are the only reason to refuse a payload that is a serialized
\* message, on either side: its writer and the two parsers agree on all the
\* others, and the reply repeats the payload byte by byte.
RefusedForZeroOnly ==
  sent # Absent =>
    /\ pc = "refused" => Zeros(payload) # {}
    /\ reply # Absent => reply = payload

\* The check of AppendPartialToString: the reply fills the string that was
\* sized for it, no byte more and no byte less, at the limits of the lengths
\* of varints and for the ten bytes of a negative age.
SizeAgrees == reply # Absent => Len(reply) = ByteSize(handled)

\* Whatever the payload was, the client can read the reply to it, unless a
\* byte of the reply is zero. The reply to a payload that is not in its
\* shortest form may hold one though the payload held none.
ReplyReadable ==
  side = "client" /\ pc = "refused" => Zeros(reply) # {}

Parsing == pc \in {"tag", "field", "return"}

\* The parser returns from every string of bytes.
ParserReturns == Parsing ~> ~Parsing

\* The handler's reply comes back for every message with its required fields.
LegalAnswered == sent # Absent => ~(side = "server" /\ pc = "refused")
==============================================================================
