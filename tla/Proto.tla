--------------------------------- MODULE Proto ---------------------------------
(***************************************************************************)
(* The protobuf encoder of proto.rs, as operators on sequences of bytes,    *)
(* and a decoder of the wire format to check it against.                   *)
(*                                                                         *)
(* A word is WordBits wide instead of 64, and takes as many bytes in each  *)
(* form as the width needs: the ten bytes of a redundant u64 are 64 / 7     *)
(* rounded up, the eight of a fixed64 are 64 / 8.  A message keeps the four *)
(* bytes of its length; messages past 256 MiB, at which the encoder panics, *)
(* are not modelled.                                                       *)
(***************************************************************************)
EXTENDS Integers, Sequences, SequencesExt

CONSTANT WordBits  \* the width of a u64
ASSUME ProtoAssumption == WordBits \in 8 .. 21

Words      == 2 ^ WordBits
WordBytes  == (WordBits + 6) \div 7
FixedBytes == (WordBits + 7) \div 8
LenBytes   == 4  \* MESSAGE_LEN_PREFIX_SIZE

Word  == 0 .. Words - 1
Byte  == 0 .. 255
Bytes == Seq(Byte)

\* "as u64" and back.
Unsigned(i) == i % Words
Signed(u)   == IF u >= Words \div 2 THEN u - Words ELSE u

-----------------------------------------------------------------------------
(* Writing.                                                                 *)

\* write_varint
Varint[v \in Nat] == IF v < 128 THEN <<v>> ELSE <<128 + (v % 128)>> \o Varint[v \div 128]

\* A varint of n bytes whatever its value: all but the last continue.
Redundant(v, n) ==
  [i \in 1 .. n |-> ((v \div 128 ^ (i - 1)) % 128) + IF i = n THEN 0 ELSE 128]

\* The first three wire types, in the low bits of a tag.
Tag(id, wire) == Varint[8 * id + wire]

VarintField(id, v)    == Tag(id, 0) \o Varint[v]
RedundantField(id, v) == Tag(id, 0) \o Redundant(v, WordBytes)
Fixed64Field(id, v)   == Tag(id, 1) \o [i \in 1 .. FixedBytes |-> (v \div 256 ^ (i - 1)) % 256]
StringField(id, text) == Tag(id, 2) \o Varint[Len(text)] \o text

\* begin_message leaves room for the length, finish_message fills it in.  A token
\* is where the payload starts.
Begin(buf, id) == buf \o Tag(id, 2) \o [i \in 1 .. LenBytes |-> 0]
Token(buf)     == Len(buf)
Finish(buf, token) ==
  SubSeq(buf, 1, token - LenBytes) \o Redundant(Len(buf) - token, LenBytes)
    \o SubSeq(buf, token + 1, Len(buf))

\* message: a nested message with nothing but these bytes in it; fmt_field, whose
\* payload is text.
Message(id, payload) == Finish(Begin(<<>>, id) \o payload, Token(Begin(<<>>, id)))
FmtField(id, text)   == Message(id, text)

-----------------------------------------------------------------------------
(* Reading: the wire format, as any protobuf decoder takes it.              *)

\* The varint at i, of at most as many bytes as a length has, and where it ends.
VarintAt(b, i) ==
  LET ends == {j \in i .. Len(b) : j < i + LenBytes /\ b[j] < 128}
      Digit(k) == IF k > Min(ends) THEN 0 ELSE b[k] % 128
  IN IF ends = {} THEN [v |-> 0, next |-> Len(b) + 2]
     ELSE [v |-> Digit(i) + 128 * (Digit(i + 1) + 128 * (Digit(i + 2) + 128 * Digit(i + 3))),
           next |-> Min(ends) + 1]

\* The number in the fixed bytes from at.
FixedAt(b, at) ==
  LET Digit(k) == IF k < FixedBytes THEN b[at + k] ELSE 0
  IN Digit(0) + 256 * (Digit(1) + 256 * Digit(2))

Malformed == [id |-> 0, v |-> 0, bytes |-> <<>>]

\* The field with a tag, whose value or size is the varint after it, and where it ends.
FieldOf(b, tag, size) ==
  LET id == tag.v \div 8
      at == tag.next
  IN CASE tag.v % 8 = 0 ->
            [f |-> [id |-> id, v |-> size.v % Words, bytes |-> <<>>], next |-> size.next]
       [] tag.v % 8 = 1 /\ at + FixedBytes <= Len(b) + 1 ->
            [f |-> [id |-> id, v |-> FixedAt(b, at), bytes |-> <<>>], next |-> at + FixedBytes]
       [] tag.v % 8 = 2 /\ size.next + size.v <= Len(b) + 1 ->
            [f |-> [id |-> id, v |-> size.v,
                    bytes |-> SubSeq(b, size.next, size.next + size.v - 1)],
             next |-> size.next + size.v]
       [] OTHER -> [f |-> Malformed, next |-> Len(b) + 2]
FieldAt(b, tag) == FieldOf(b, tag, VarintAt(b, tag.next))

\* Field by field; what is cut off ends it.
ParseFrom(b, from, at) ==
  IF at.next > Len(b) + 1 THEN <<Malformed>> ELSE <<at.f>> \o from[at.next]

\* The fields of a message, with Malformed in the place of what cannot be read.
Parse(b) ==
  LET from[i \in 1 .. Len(b) + 1] ==
        IF i > Len(b) THEN <<>> ELSE ParseFrom(b, from, FieldAt(b, VarintAt(b, i)))
  IN from[1]

WellFormed(m) == \A i \in DOMAIN m : m[i] # Malformed

\* The fields with number id, in their order; the value of the last, as decoders
\* take it where there should be one.
Fields(m, id) == FoldLeft(LAMBDA fs, f : IF f.id = id THEN Append(fs, f) ELSE fs, <<>>, m)
Has(m, id) == Fields(m, id) # <<>>
Value(m, id, default) ==
  LET fs == Fields(m, id) IN IF fs = <<>> THEN default ELSE fs[Len(fs)].v
Text(m, id) == LET fs == Fields(m, id) IN IF fs = <<>> THEN <<>> ELSE fs[Len(fs)].bytes
Nested(m, id) == LET fs == Fields(m, id) IN [i \in DOMAIN fs |-> Parse(fs[i].bytes)]
================================================================================
