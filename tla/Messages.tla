------------------------------ MODULE Messages ------------------------------
(***************************************************************************)
(* The protobuf example's messages Query, Answer and Empty, as the         *)
(* generated classes have them.  Each class says what its fields are once  *)
(* for each of its functions: the tables below are read from these         *)
(* functions one by one.  Bytes are a sequence of fields, a tag and a      *)
(* value.  A string is its length.                                         *)
(***************************************************************************)
EXTENDS Integers, Sequences, FiniteSets

CONSTANTS
  Ints,     \* bound: values of the integer fields, from 0 on
  Int32Mod, \* one more than the largest value an int32 keeps of an int64
  MaxExtra  \* bound: elements of a repeated field, unknown fields

ASSUME MessagesAssumption ==
  /\ Int32Mod \in Nat \ {0} /\ MaxExtra \in Nat
  /\ Ints \subseteq Nat /\ 0..Int32Mod - 1 \subseteq Ints

VARIABLES
  msg,  \* the two messages
  read  \* history: what MergePartialFromCodedStream() last returned

messageVars == <<msg, read>>

\* A value whose bytes end too early.
NoValue == -1
Strings == {0, 1}

Tag(number, wireType) == number * 8 + wireType
VARINT == 0
LENGTH_DELIMITED == 2
END_GROUP == 4

\* The cases of MergePartialFromCodedStream(): which tag goes to which field.
QueryCases  == [tag \in {8, 18, 26} |-> CASE tag = 8 -> 1 [] tag = 18 -> 2 [] tag = 26 -> 3]

\* Mutant of AnswerCases: a repeated field is read into a singular one.
AnswerCasesShifted == [tag \in {8, 18, 26, 34} |->
  CASE tag = 8 -> 1 [] tag = 18 -> 2 [] tag \in {26, 34} -> 3]

AnswerCases == [tag \in {8, 18, 26, 34} |->
  CASE tag = 8 -> 1 [] tag = 18 -> 2 [] tag = 26 -> 3 [] tag = 34 -> 4]
EmptyCases  == [tag \in {8} |-> 1]

\* What SerializeWithCachedSizes() writes, in order.
QueryWrites  == <<<<1, VARINT>>, <<2, LENGTH_DELIMITED>>, <<3, LENGTH_DELIMITED>>>>
AnswerWrites == <<<<1, VARINT>>, <<2, LENGTH_DELIMITED>>, <<3, LENGTH_DELIMITED>>,
                  <<4, LENGTH_DELIMITED>>>>
EmptyWrites  == <<<<1, VARINT>>>>

\* SerializeWithCachedSizesToArray().
QueryToArray  == <<<<1, VARINT>>, <<2, LENGTH_DELIMITED>>, <<3, LENGTH_DELIMITED>>>>
AnswerToArray == <<<<1, VARINT>>, <<2, LENGTH_DELIMITED>>, <<3, LENGTH_DELIMITED>>,
                   <<4, LENGTH_DELIMITED>>>>
EmptyToArray  == <<<<1, VARINT>>>>

\* The fields SharedCtor() gives their default, ByteSize() counts, MergeFrom()
\* merges, Clear() resets, Swap() exchanges and IsInitialized() asks for, the
\* repeated one left out.
QueryFields  == {1, 2}
AnswerFields == {1, 2, 3}
EmptyFields  == {1}
QuerySized  == {1, 2}
AnswerSized == {1, 2, 3}
EmptySized  == {1}
QueryMerged  == {1, 2}
AnswerMerged == {1, 2, 3}
EmptyMerged  == {1}
QueryCleared  == {1, 2}
AnswerCleared == {1, 2, 3}
EmptyCleared  == {1}
QuerySwapped  == {1, 2}
AnswerSwapped == {1, 2, 3}
EmptySwapped  == {1}
QueryRequired  == {1, 2}
AnswerRequired == {1, 2, 3}
EmptyRequired  == {}

\* The classes: their singular fields, the repeated one or 0.
QueryClass  == [cases |-> QueryCases, writes |-> QueryWrites, array |-> QueryToArray,
                sized |-> QuerySized, merged |-> QueryMerged, cleared |-> QueryCleared,
                swapped |-> QuerySwapped, required |-> QueryRequired, singular |-> QueryFields, repeated |-> 3]
AnswerClass == [cases |-> AnswerCases, writes |-> AnswerWrites, array |-> AnswerToArray,
                sized |-> AnswerSized, merged |-> AnswerMerged, cleared |-> AnswerCleared,
                swapped |-> AnswerSwapped, required |-> AnswerRequired, singular |-> AnswerFields, repeated |-> 4]
EmptyClass  == [cases |-> EmptyCases, writes |-> EmptyWrites, array |-> EmptyToArray,
                sized |-> EmptySized, merged |-> EmptyMerged, cleared |-> EmptyCleared,
                swapped |-> EmptySwapped, required |-> EmptyRequired, singular |-> EmptyFields, repeated |-> 0]

Class(t) == CASE t = "Query" -> QueryClass [] t = "Answer" -> AnswerClass
              [] t = "Empty" -> EmptyClass

Element(tag, value) == [tag |-> tag, value |-> value]

\* SharedCtor().
NewMessage(t) ==
  [type |-> t, has |-> {}, value |-> [f \in Class(t).singular |-> 0],
   items |-> <<>>, unknown |-> <<>>]

-----------------------------------------------------------------------------
(* The members.                                                            *)

SetField(m, f, v) == [m EXCEPT !.has = @ \cup {f}, !.value[f] = v]
ClearField(m, f) == [m EXCEPT !.has = @ \ {f}, !.value[f] = 0]
AddItem(m, v) == [m EXCEPT !.items = Append(@, v)]

Clear(m) ==
  [m EXCEPT !.has = {}, !.items = <<>>, !.unknown = <<>>,
            !.value = [f \in DOMAIN @ |->
              IF f \in Class(m.type).cleared THEN 0 ELSE @[f]]]

MergeFrom(m, from) ==
  LET takes == from.has \cap Class(m.type).merged
  IN [m EXCEPT !.has = @ \cup takes,
               !.value = [f \in DOMAIN @ |->
                 IF f \in takes THEN from.value[f] ELSE @[f]],
               !.items = @ \o from.items,
               !.unknown = @ \o from.unknown]

CopyFrom(m, from) == MergeFrom(Clear(m), from)

IsInitialized(m) == Class(m.type).required \subseteq m.has

\* The i-th field that is written: a singular one that is there, every item.
WrittenField(m, writes, i) ==
  LET f == writes[i][1]
      tag == Tag(f, writes[i][2])
  IN IF i > Len(writes) THEN <<>>
     ELSE IF f = Class(m.type).repeated
       THEN [k \in 1..Len(m.items) |-> Element(tag, m.items[k])]
     ELSE IF f \in m.has THEN <<Element(tag, m.value[f])>> ELSE <<>>

\* The fields, of which no class has more than four, then what is unknown.
Written(m, writes) ==
  WrittenField(m, writes, 1) \o (WrittenField(m, writes, 2) \o
    (WrittenField(m, writes, 3) \o (WrittenField(m, writes, 4) \o m.unknown)))

Serialize(m) == Written(m, Class(m.type).writes)
SerializeToArray(m) == Written(m, Class(m.type).array)

\* A number takes the more bytes the larger it is; a string has its length in
\* front.
SizeOf(number, v) == IF number THEN (IF v < 2 THEN 1 ELSE 2) ELSE 1 + v

ElementSize(e) == 1 + SizeOf(e.tag % 8 = VARINT, e.value)

ElementSizes(bytes) == [k \in 1..Len(bytes) |-> ElementSize(bytes[k])]

SumOf(sizes) ==
  LET sum[k \in 0..Len(sizes)] == IF k = 0 THEN 0 ELSE sum[k - 1] + sizes[k]
  IN sum[Len(sizes)]

FieldSize(m, f) ==
  IF f \in m.has \cap Class(m.type).sized THEN 1 + SizeOf(f = 1, m.value[f]) ELSE 0

ByteSize(m) ==
  FieldSize(m, 1) + FieldSize(m, 2) + FieldSize(m, 3)
    + SumOf([k \in 1..Len(m.items) |-> 1 + SizeOf(FALSE, m.items[k])])
    + SumOf(ElementSizes(m.unknown))

\* One field of MergePartialFromCodedStream(); p.end is "no" as long as the
\* loop goes on.  A string is already there when its bytes turn out to be
\* missing; a number is not.
ReadField(p, e) ==
  LET c == Class(p.m.type)
      f == c.cases[e.tag]
      cut == e.value = NoValue
      value == IF cut THEN 0
               ELSE IF p.m.type = "Empty" THEN e.value % Int32Mod ELSE e.value
  IN IF p.end # "no" THEN p
     ELSE IF e.tag \notin DOMAIN c.cases
       THEN IF e.tag % 8 = END_GROUP THEN [p EXCEPT !.end = "success"]
            ELSE IF cut THEN [p EXCEPT !.end = "failure"]
            ELSE [p EXCEPT !.m.unknown = Append(@, e)]
     ELSE [m |-> IF f = c.repeated THEN AddItem(p.m, value)
                 ELSE IF cut /\ f = 1 THEN p.m
                 ELSE SetField(p.m, f, value),
           end |-> IF cut THEN "failure" ELSE "no"]

\* The loop of MergePartialFromCodedStream(), from state p on.
Reads(p, bytes) ==
  LET after[k \in 0..Len(bytes)] ==
        IF k = 0 THEN p ELSE ReadField(after[k - 1], bytes[k])
  IN after[Len(bytes)]

\* MergePartialFromCodedStream(): the end of the bytes is success.
MergePartial(m, bytes) ==
  LET p == Reads([m |-> m, end |-> "no"], bytes)
  IN [p EXCEPT !.end = IF @ = "no" THEN "success" ELSE @]

-----------------------------------------------------------------------------
(* What a program does with two messages.                                  *)

\* Bytes from elsewhere: a field of another version, one with another wire
\* type, the end of a group, a string and a number cut short.
ForeignFields ==
  {Element(Tag(5, VARINT), 0), Element(Tag(1, LENGTH_DELIMITED), 1),
   Element(Tag(2, END_GROUP), 0), Element(Tag(2, LENGTH_DELIMITED), NoValue),
   Element(Tag(1, VARINT), NoValue)}

ValuesOf(m, f) ==
  IF f # 1 THEN Strings ELSE IF m.type = "Empty" THEN 0..Int32Mod-1 ELSE Ints

MessagesInit ==
  /\ \E t \in {<<"Query", "Query">>, <<"Answer", "Empty">>} :
       msg = [i \in {1, 2} |-> NewMessage(t[i])]
  /\ read = "success"

MessagesTypeOK ==
  /\ \A i \in {1, 2} :
       /\ msg[i].has \subseteq Class(msg[i].type).singular
       /\ \A f \in DOMAIN msg[i].value : msg[i].value[f] \in ValuesOf(msg[i], f)
       /\ Len(msg[i].items) <= MaxExtra /\ Len(msg[i].unknown) <= MaxExtra
  /\ read \in {"success", "failure"}

Becomes(i, m) ==
  /\ Len(m.items) <= MaxExtra /\ Len(m.unknown) <= MaxExtra
  /\ msg' = [msg EXCEPT ![i] = m]

Access(i) ==
  /\ \E f \in Class(msg[i].type).singular :
       \/ \E v \in ValuesOf(msg[i], f) : Becomes(i, SetField(msg[i], f, v))
       \/ Becomes(i, ClearField(msg[i], f))
  /\ UNCHANGED read

AddTo(i) ==
  /\ Class(msg[i].type).repeated # 0
  /\ \E v \in Strings : Becomes(i, AddItem(msg[i], v))
  /\ UNCHANGED read

Combine(i) ==
  /\ \/ Becomes(i, Clear(msg[i]))
     \/ /\ msg[1].type = msg[2].type
        /\ \/ Becomes(i, MergeFrom(msg[i], msg[3 - i]))
           \/ Becomes(i, CopyFrom(msg[i], msg[3 - i]))
  /\ UNCHANGED read

Swap ==
  /\ msg[1].type = msg[2].type
  /\ msg' = [i \in {1, 2} |->
       [msg[3 - i] EXCEPT !.value = [f \in DOMAIN @ |->
          IF f \in Class(msg[i].type).swapped THEN @[f] ELSE msg[i].value[f]]]]
  /\ UNCHANGED read

\* The bytes of one message, or foreign ones behind them, into the other.
ParsePartial(i) ==
  \E extra \in {<<>>} \cup {<<e>> : e \in ForeignFields} :
    LET p == MergePartial(msg[i], Serialize(msg[3 - i]) \o extra)
    IN Becomes(i, p.m) /\ read' = p.end

MessagesNext ==
  \/ Swap
  \/ \E i \in {1, 2} : Access(i) \/ AddTo(i) \/ Combine(i) \/ ParsePartial(i)

MessagesSpec == MessagesInit /\ [][MessagesNext]_messageVars

-----------------------------------------------------------------------------
(* Properties                                                              *)

\* Whatever was done to a message, its bytes have the length that was counted
\* for them, read into a new message give it back, read into another one do
\* what MergeFrom() does, and pass through a program that knows less fields
\* without losing any (query.pb.cc:300, ProtobufCodecLite.cc:52).
MessagesRight ==
  \A i \in {1, 2} :
    LET m == msg[i]
        bytes == Serialize(m)
        passed == MergePartial(NewMessage("Empty"), bytes).m
    IN /\ SumOf(ElementSizes(bytes)) = ByteSize(m)
       /\ SerializeToArray(m) = bytes
       /\ MergePartial(NewMessage(m.type), bytes) = [m |-> m, end |-> "success"]
       /\ m.type = msg[3 - i].type =>
            MergePartial(msg[3 - i], bytes).m = MergeFrom(msg[3 - i], m)
       /\ CopyFrom(msg[3 - i], m) = m \/ m.type # msg[3 - i].type
       /\ \A f \in DOMAIN m.value : f \notin m.has => m.value[f] = 0
       /\ MergePartial(NewMessage(m.type), Serialize(passed)).m
            = [m EXCEPT !.value[1] = @ % Int32Mod]
=============================================================================
