------------------------- MODULE PacketSequence_proofs -------------------------
(***************************************************************************)
(* Whatever a callback writes is whole packets of its sequence, one of them  *)
(* its event, at the time of the callback.  The bytes are reasoned about by  *)
(* the fields any decoder reads them as; what the packets refer to is in the *)
(* runs.                                                                     *)
(***************************************************************************)
EXTENDS PacketSequence, Proto_proofs, FiniteSetTheorems

-----------------------------------------------------------------------------
(* What bytes say, as long as they are short enough to say it: fields with   *)
(* numbers of a set, or those and one number.                                *)

Within(m, S) == \A i \in 1 .. Len(m) : m[i].id \in S

Says(b, S, m) == Codes(b, m) /\ Within(m, S)
Adds(b, S) == b \in Bytes /\ (Len(b) < Long => \E m : Says(b, S, m))

SaysOne(b, S, k, v, m) == Codes(b, m) /\ Within(m, S \cup {k}) /\ Fields(m, k) = <<NumberField(k, v)>>
Keyed(b, S, k, v) == b \in Bytes /\ (Len(b) < Long => \E m : SaysOne(b, S, k, v, m))

LEMMA WithinBoth ==
  ASSUME NEW m \in Seq(Field), NEW n \in Seq(Field), NEW S, Within(m, S), Within(n, S)
  PROVE  Within(m \o n, S)
<1>1. Len(m) \in Nat /\ Len(n) \in Nat
  BY LenProperties
<1>2. PICK c : c = m \o n
  OBVIOUS
<1>3. Len(c) = Len(m) + Len(n) /\ \A i \in 1 .. Len(m) + Len(n) :
        c[i] = IF i <= Len(m) THEN m[i] ELSE n[i - Len(m)]
  BY <1>2, ConcatProperties
<1>4. ASSUME NEW i \in 1 .. Len(c) PROVE c[i].id \in S
  <2>1. CASE i <= Len(m)
    BY <1>1, <1>3, <2>1 DEF Within
  <2>2. CASE ~(i <= Len(m))
    <3>1. PICK j \in 1 .. Len(n) : j = i - Len(m)
      BY <1>1, <1>3, <2>2
    <3>2. n[j].id \in S
      BY DEF Within
    <3> QED BY <1>3, <2>2, <3>1, <3>2
  <2> QED BY <2>1, <2>2
<1> QED BY <1>2, <1>4 DEF Within

LEMMA WithinOne ==
  ASSUME NEW f, NEW S, f.id \in S
  PROVE  Within(<<f>>, S)
BY DEF Within

LEMMA WithinMore ==
  ASSUME NEW m, NEW S, NEW R, S \subseteq R, Within(m, S)
  PROVE  Within(m, R)
BY DEF Within

\* The parts of what is short are short.
LEMMA Parts ==
  ASSUME NEW a \in Bytes, NEW b \in Bytes
  PROVE  /\ a \o b \in Bytes /\ Len(a \o b) \in Nat
         /\ Len(a \o b) < Long => Len(a) < Long /\ Len(b) < Long
<1>1. Len(a) \in Nat /\ Len(b) \in Nat /\ a \o b \in Bytes /\ Len(a \o b) = Len(a) + Len(b)
  BY Shifted
<1> QED BY <1>1, LongFacts

LEMMA AddsNothing == \A S : Adds(<<>>, S)
<1> TAKE S
<1>1. Says(<<>>, S, <<>>)
  BY CodesNothing DEF Says, Within
<1> QED BY <1>1, EmptySeq DEF Adds, Bytes

LEMMA AddsBoth ==
  ASSUME NEW a, NEW b, NEW S, Adds(a, S), Adds(b, S)
  PROVE  Adds(a \o b, S)
<1>1. a \in Bytes /\ b \in Bytes
  BY DEF Adds
<1>2. ASSUME Len(a \o b) < Long PROVE \E m : Says(a \o b, S, m)
  <2>1. Len(a) < Long /\ Len(b) < Long
    BY <1>1, <1>2, Parts
  <2>2. PICK m : Says(a, S, m)
    BY <2>1 DEF Adds
  <2>3. PICK n : Says(b, S, n)
    BY <2>1 DEF Adds
  <2>4. Codes(a \o b, m \o n)
    BY <2>2, <2>3, CodesBoth DEF Says
  <2>5. Within(m \o n, S)
    BY <2>2, <2>3, WithinBoth DEF Says, Codes
  <2> QED BY <2>4, <2>5 DEF Says
<1>3. a \o b \in Bytes
  BY <1>1, Parts
<1> QED BY <1>2, <1>3 DEF Adds

LEMMA AddsMore ==
  ASSUME NEW a, NEW S, NEW R, S \subseteq R, Adds(a, S)
  PROVE  Adds(a, R)
<1>1. ASSUME Len(a) < Long PROVE \E m : Says(a, R, m)
  <2>1. PICK m : Says(a, S, m)
    BY <1>1 DEF Adds
  <2> QED BY <2>1, WithinMore DEF Says
<1> QED BY <1>1 DEF Adds

LEMMA AddsOne ==
  ASSUME NEW b, NEW f, NEW S, f.id \in S, b \in Bytes, Len(b) < Long => Codes(b, <<f>>)
  PROVE  Adds(b, S)
<1>1. ASSUME Len(b) < Long PROVE Says(b, S, <<f>>)
  BY <1>1, WithinOne DEF Says
<1> QED BY <1>1 DEF Adds

LEMMA AddsVarint ==
  ASSUME NEW id \in Ids, NEW S, id \in S, NEW v \in Nat, v < Words
  PROVE  Adds(VarintField(id, v), S)
<1>1. Codes(VarintField(id, v), <<NumberField(id, v)>>)
  BY VarintFieldCodes
<1>2. NumberField(id, v).id = id
  BY DEF NumberField
<1> QED BY <1>1, <1>2, AddsOne DEF Codes

LEMMA AddsRedundant ==
  ASSUME NEW id \in Ids, NEW S, id \in S, NEW v \in Nat, v < Words
  PROVE  Adds(RedundantField(id, v), S)
<1>1. Codes(RedundantField(id, v), <<NumberField(id, v)>>)
  BY RedundantFieldCodes
<1>2. NumberField(id, v).id = id
  BY DEF NumberField
<1> QED BY <1>1, <1>2, AddsOne DEF Codes

LEMMA AddsFixed ==
  ASSUME NEW id \in Ids, NEW S, id \in S, NEW v \in Nat, v < Words
  PROVE  Adds(Fixed64Field(id, v), S)
<1>1. Codes(Fixed64Field(id, v), <<NumberField(id, v)>>)
  BY Fixed64FieldCodes
<1>2. NumberField(id, v).id = id
  BY DEF NumberField
<1> QED BY <1>1, <1>2, AddsOne DEF Codes

LEMMA TagBytes ==
  ASSUME NEW id \in Nat, NEW wire \in Nat
  PROVE  Tag(id, wire) \in Bytes
<1>1. PICK n \in Nat : n = 8 * id + wire
  OBVIOUS
<1> QED BY <1>1, VarintEquation DEF Tag

LEMMA StringBytes ==
  ASSUME NEW id \in Nat, NEW text \in Bytes
  PROVE  StringField(id, text) \in Bytes /\ (Len(StringField(id, text)) < Long => Len(text) < Long)
<1>1. PICK t \in Bytes : t = Tag(id, 2)
  BY TagBytes
<1>2. PICK s \in Bytes : s = Varint[Len(text)]
  BY VarintEquation, LenProperties DEF Bytes
<1>3. t \o s \in Bytes
  BY Parts
<1>4. StringField(id, text) = (t \o s) \o text
  BY <1>1, <1>2 DEF StringField
<1> QED BY <1>3, <1>4, Parts

LEMMA AddsString ==
  ASSUME NEW id \in Ids, NEW S, id \in S, NEW text \in Bytes
  PROVE  Adds(StringField(id, text), S)
<1>1. BytesField(id, text).id = id
  BY DEF BytesField
<1>2. StringField(id, text) \in Bytes /\ (Len(StringField(id, text)) < Long => Len(text) < Long)
  BY StringBytes DEF Ids
<1> QED BY <1>1, <1>2, StringFieldCodes, AddsOne

LEMMA MessageBytes ==
  ASSUME NEW id \in Ids, NEW q \in Bytes
  PROVE  Message(id, q) \in Bytes /\ (Len(Message(id, q)) < Long => Len(q) < Long)
<1>1. PICK t \in Bytes : t = Tag(id, 2)
  BY TagBytes DEF Ids
<1>2. PICK r \in Bytes : r = Redundant(Len(q), LenBytes)
  BY ShortFacts
<1>3. t \o r \in Bytes
  BY Parts
<1>4. Message(id, q) = (t \o r) \o q
  BY <1>1, <1>2, MessageIs
<1> QED BY <1>3, <1>4, Parts

LEMMA AddsMessage ==
  ASSUME NEW id \in Ids, NEW S, id \in S, NEW q \in Bytes
  PROVE  Adds(Message(id, q), S)
<1>1. BytesField(id, q).id = id
  BY DEF BytesField
<1>2. Message(id, q) \in Bytes /\ (Len(Message(id, q)) < Long => Len(q) < Long)
  BY MessageBytes
<1> QED BY <1>1, <1>2, MessageCodes, AddsOne

LEMMA KeyedOne ==
  ASSUME NEW k \in Ids, NEW v \in Nat, v < Words, NEW S
  PROVE  Keyed(VarintField(k, v), S, k, v)
<1>1. Codes(VarintField(k, v), <<NumberField(k, v)>>)
  BY VarintFieldCodes
<1>2. NumberField(k, v).id = k /\ NumberField(k, v) \in Field
  BY FieldsTyped DEF NumberField, Ids
<1>3. Fields(<<NumberField(k, v)>>, k) = <<NumberField(k, v)>>
  BY <1>2, FieldsOne DEF Picked
<1>4. Within(<<NumberField(k, v)>>, S \cup {k})
  BY <1>2, WithinOne
<1> QED BY <1>1, <1>3, <1>4 DEF Keyed, SaysOne, Codes

\* Fields of other numbers leave the one there is.
LEMMA KeyedMore ==
  ASSUME NEW a, NEW b, NEW S, NEW k, NEW v, k \notin S, Keyed(a, S, k, v), Adds(b, S)
  PROVE  Keyed(a \o b, S, k, v)
<1>1. a \in Bytes /\ b \in Bytes
  BY DEF Adds, Keyed
<1>2. ASSUME Len(a \o b) < Long PROVE \E m : SaysOne(a \o b, S, k, v, m)
  <2>1. Len(a) < Long /\ Len(b) < Long
    BY <1>1, <1>2, Parts
  <2>2. PICK m : SaysOne(a, S, k, v, m)
    BY <2>1 DEF Keyed
  <2>3. PICK n : Says(b, S, n)
    BY <2>1 DEF Adds
  <2>4. Codes(a \o b, m \o n) /\ m \in Seq(Field) /\ n \in Seq(Field)
    <3>1. Codes(a, m) /\ Codes(b, n)
      BY <2>2, <2>3 DEF Says, SaysOne
    <3>2. m \in Seq(Field) /\ n \in Seq(Field)
      BY <3>1 DEF Codes
    <3> QED BY <3>1, <3>2, CodesBoth
  <2>5. Within(n, S \cup {k})
    BY <2>3, WithinMore DEF Says
  <2>6. Within(m \o n, S \cup {k})
    BY <2>2, <2>4, <2>5, WithinBoth DEF SaysOne
  <2>7. Fields(n, k) = <<>>
    <3>1. \A i \in 1 .. Len(n) : n[i].id # k
      BY <2>3 DEF Says, Within
    <3> QED BY <2>4, <3>1, FieldsNone
  <2>8. Fields(m \o n, k) = Fields(m, k) \o <<>> /\ Fields(m, k) \in Seq(Field)
    BY <2>4, <2>7, FieldsBoth, FieldsType
  <2>9. Fields(m \o n, k) = Fields(m, k)
    BY <2>8, ConcatEmptySeq
  <2> QED BY <2>2, <2>4, <2>6, <2>9 DEF SaysOne
<1>3. a \o b \in Bytes
  BY <1>1, Parts
<1> QED BY <1>2, <1>3 DEF Keyed

LEMMA KeyedLater ==
  ASSUME NEW a, NEW b, NEW S, NEW k, NEW v, k \notin S, Adds(a, S), Keyed(b, S, k, v)
  PROVE  Keyed(a \o b, S, k, v)
<1>1. a \in Bytes /\ b \in Bytes
  BY DEF Adds, Keyed
<1>2. ASSUME Len(a \o b) < Long PROVE \E m : SaysOne(a \o b, S, k, v, m)
  <2>1. Len(a) < Long /\ Len(b) < Long
    BY <1>1, <1>2, Parts
  <2>2. PICK m : SaysOne(b, S, k, v, m)
    BY <2>1 DEF Keyed
  <2>3. PICK n : Says(a, S, n)
    BY <2>1 DEF Adds
  <2>4. Codes(a \o b, n \o m) /\ m \in Seq(Field) /\ n \in Seq(Field)
    <3>1. Codes(a, n) /\ Codes(b, m)
      BY <2>2, <2>3 DEF Says, SaysOne
    <3>2. m \in Seq(Field) /\ n \in Seq(Field)
      BY <3>1 DEF Codes
    <3> QED BY <3>1, <3>2, CodesBoth
  <2>5. Within(n, S \cup {k})
    BY <2>3, WithinMore DEF Says
  <2>6. Within(n \o m, S \cup {k})
    BY <2>2, <2>4, <2>5, WithinBoth DEF SaysOne
  <2>7. Fields(n, k) = <<>>
    <3>1. \A i \in 1 .. Len(n) : n[i].id # k
      BY <2>3 DEF Says, Within
    <3> QED BY <2>4, <3>1, FieldsNone
  <2>8. Fields(n \o m, k) = <<>> \o Fields(m, k) /\ Fields(m, k) \in Seq(Field)
    BY <2>4, <2>7, FieldsBoth, FieldsType
  <2>9. Fields(n \o m, k) = Fields(m, k)
    BY <2>8, ConcatEmptySeq
  <2> QED BY <2>2, <2>4, <2>6, <2>9 DEF SaysOne
<1>3. a \o b \in Bytes
  BY <1>1, Parts
<1> QED BY <1>2, <1>3 DEF Keyed

-----------------------------------------------------------------------------
(* The reader's clock: where it stands after a packet depends on the packet's *)
(* timestamp, clock, flags, defaults and snapshot only.                      *)

TimeIds == {6, 8, 13, 58, 59}

Shape(r) == {"tables", "track", "clockId", "now", "base", "primary"} \subseteq DOMAIN r
Ahead    == IF config.native THEN 0 ELSE Realtime

\* The reader is where the sequence last wrote the time, if it has.
Timed(s, r) ==
  /\ Shape(r)
  /\ s.started => /\ r.clockId = 64 /\ r.now \in Int /\ r.base \in Int /\ r.primary \in Int
                  /\ r.primary + r.now - r.base = s.last + Ahead
Steps(m, o, s) == \A r : Timed(o, r) => Timed(s, ReadState(r, m))

SameClock(a, b) ==
  /\ Shape(a) /\ Shape(b) /\ a.clockId = b.clockId /\ a.now = b.now /\ a.base = b.base
  /\ a.primary = b.primary

LEMMA EntriesKeep ==
  ASSUME NEW r, Shape(r), NEW ms
  PROVE  SameClock(ReadEntries(r, ms), r)
<1>1. PICK e : e = ReadEntries(r, ms)
  OBVIOUS
<1>2. e = r \/ \E tables : e = [r EXCEPT !.tables = tables]
  BY <1>1 DEF ReadEntries
<1> QED BY <1>1, <1>2 DEF SameClock, Shape

LEMMA TimeSame ==
  ASSUME NEW a, NEW b, SameClock(a, b), NEW m, NEW n, \A k \in TimeIds : Fields(n, k) = Fields(m, k)
  PROVE  SameClock(ReadTime(a, m), ReadTime(b, n))
<1>1. Fields(n, 58) = Fields(m, 58) /\ Fields(n, 8) = Fields(m, 8)
  BY DEF TimeIds
<1>2. PICK d : d = Value(m, 58, a.clockId) /\ d = Value(n, 58, b.clockId)
  BY <1>1 DEF Value, SameClock
<1>3. PICK x : x = Value(m, 8, 0) /\ x = Value(n, 8, 0)
  BY <1>1 DEF Value
<1>4. PICK now : now = a.now + (IF d = 64 THEN x ELSE 0) /\ now = b.now + (IF d = 64 THEN x ELSE 0)
  BY DEF SameClock
<1>5. ReadTime(a, m) = [a EXCEPT !.now = now] /\ ReadTime(b, n) = [b EXCEPT !.now = now]
  BY <1>2, <1>3, <1>4 DEF ReadTime, TracePacket, ClockIds
<1> QED BY <1>5 DEF SameClock, Shape

LEMMA DefaultsSame ==
  ASSUME NEW a, NEW b, SameClock(a, b), NEW ds
  PROVE  SameClock(ReadDefaults(a, ds), ReadDefaults(b, ds))
<1>1. CASE ds = <<>>
  BY <1>1 DEF ReadDefaults
<1>2. CASE ds # <<>>
  <2>1. PICK x, y : /\ x = Value(ds[1], Defaults.clockId, 0)
                    /\ y = Value(Nested(ds[1], Defaults.event)[1], EventDefaults.track, 0)
    OBVIOUS
  <2>2. /\ ReadDefaults(a, ds) = [a EXCEPT !.clockId = x, !.track = y]
        /\ ReadDefaults(b, ds) = [b EXCEPT !.clockId = x, !.track = y]
    BY <1>2, <2>1 DEF ReadDefaults
  <2> QED BY <2>2 DEF SameClock, Shape
<1> QED BY <1>1, <1>2

LEMMA ClocksSame ==
  ASSUME NEW a, NEW b, SameClock(a, b), NEW ss
  PROVE  SameClock(ReadClocks(a, ss), ReadClocks(b, ss))
<1>1. CASE ss = <<>>
  BY <1>1 DEF ReadClocks
<1>2. CASE ss # <<>>
  <2>1. \E x, y : /\ ReadClocks(a, ss) = [a EXCEPT !.now = x, !.base = x, !.primary = y]
                  /\ ReadClocks(b, ss) = [b EXCEPT !.now = x, !.base = x, !.primary = y]
    BY <1>2 DEF ReadClocks
  <2> QED BY <2>1 DEF SameClock, Shape
<1> QED BY <1>1, <1>2

LEMMA ClearedShape ==
  ASSUME NEW r, Shape(r), NEW m
  PROVE  Shape(ReadCleared(r, m))
<1>1. Shape(NewReader)
  BY DEF Shape, NewReader
<1> QED BY <1>1 DEF ReadCleared

LEMMA StateSame ==
  ASSUME NEW r, Shape(r), NEW m, NEW n, \A k \in TimeIds : Fields(n, k) = Fields(m, k)
  PROVE  SameClock(ReadState(r, m), ReadState(r, n))
<1>1. Fields(n, 13) = Fields(m, 13) /\ Fields(n, 59) = Fields(m, 59) /\ Fields(n, 6) = Fields(m, 6)
  BY DEF TimeIds
<1>2. PICK c : c = ReadCleared(r, m) /\ c = ReadCleared(r, n)
  BY <1>1 DEF ReadCleared, Value, TracePacket
<1>3. Shape(c)
  BY <1>2, ClearedShape
<1>4. PICK a : a = ReadEntries(c, Nested(m, 12))
  OBVIOUS
<1>5. PICK b : b = ReadEntries(c, Nested(n, 12))
  OBVIOUS
<1>6. SameClock(a, b)
  <2>1. SameClock(a, c) /\ SameClock(b, c)
    BY <1>3, <1>4, <1>5, EntriesKeep
  <2> QED BY <2>1 DEF SameClock
<1>7. PICK ds : ds = Nested(m, 59) /\ ds = Nested(n, 59)
  BY <1>1 DEF Nested
<1>8. PICK ss : ss = Nested(m, 6) /\ ss = Nested(n, 6)
  BY <1>1 DEF Nested
<1>9. /\ ReadState(r, m) = ReadClocks(ReadDefaults(ReadTime(a, m), ds), ss)
      /\ ReadState(r, n) = ReadClocks(ReadDefaults(ReadTime(b, n), ds), ss)
  BY <1>2, <1>4, <1>5, <1>7, <1>8 DEF ReadState, TracePacket
<1>10. SameClock(ReadTime(a, m), ReadTime(b, n))
  BY <1>6, TimeSame
<1>11. SameClock(ReadDefaults(ReadTime(a, m), ds), ReadDefaults(ReadTime(b, n), ds))
  BY <1>10, DefaultsSame
<1> QED BY <1>9, <1>11, ClocksSame

LEMMA TimedSame ==
  ASSUME NEW s, NEW a, NEW b, SameClock(a, b), Timed(s, a)
  PROVE  Timed(s, b)
BY DEF SameClock, Timed

\* Other fields in a packet leave where it takes the clock.
LEMMA StepsSame ==
  ASSUME NEW m, NEW n, \A k \in TimeIds : Fields(n, k) = Fields(m, k), NEW o, NEW s, Steps(m, o, s)
  PROVE  Steps(n, o, s)
<1>1. ASSUME NEW r, Timed(o, r) PROVE Timed(s, ReadState(r, n))
  <2>1. Shape(r)
    BY <1>1 DEF Timed
  <2>2. Timed(s, ReadState(r, m))
    BY <1>1 DEF Steps
  <2>3. SameClock(ReadState(r, m), ReadState(r, n))
    BY <2>1, StateSame
  <2> QED BY <2>2, <2>3, TimedSame
<1> QED BY <1>1 DEF Steps

-----------------------------------------------------------------------------
(* Bytes that say the fields of a set, in some order.                        *)

Covers(m, F) == m \in Seq(Field) /\ \A k : Range(Fields(m, k)) = {f \in F : f.id = k}
Spells(b, F) == b \in Bytes /\ (Len(b) < Long => \E m : Codes(b, m) /\ Covers(m, F))

LEMMA FieldRange ==
  ASSUME NEW s \in Seq(Field)
  PROVE  /\ Range(s) = {s[i] : i \in 1 .. Len(s)} /\ Len(s) \in Nat
         /\ s # <<>> => Len(s) \in 1 .. Len(s) /\ 1 \in 1 .. Len(s)
         /\ (s = <<>>) <=> (Range(s) = {})
<1>1. Len(s) \in Nat /\ DOMAIN s = 1 .. Len(s) /\ (s # <<>> => Len(s) # 0)
  BY LenProperties, EmptySeq
<1>2. Range(s) = {s[i] : i \in 1 .. Len(s)}
  BY <1>1 DEF Range
<1>3. s # <<>> => Len(s) \in 1 .. Len(s) /\ 1 \in 1 .. Len(s)
  BY <1>1
<1>4. ASSUME s = <<>> PROVE Range(s) = {}
  BY <1>4 DEF Range
<1>5. ASSUME s # <<>> PROVE Range(s) # {}
  BY <1>2, <1>3, <1>5
<1> QED BY <1>1, <1>2, <1>3, <1>4, <1>5

LEMMA FieldRangeBoth ==
  ASSUME NEW a \in Seq(Field), NEW b \in Seq(Field)
  PROVE  Range(a \o b) = Range(a) \cup Range(b)
<1>1. Len(a) \in Nat /\ Len(b) \in Nat
  BY LenProperties
<1>2. PICK c \in Seq(Field) : c = a \o b
  BY ConcatProperties
<1>3. Len(c) = Len(a) + Len(b) /\ \A i \in 1 .. Len(a) + Len(b) :
        c[i] = IF i <= Len(a) THEN a[i] ELSE b[i - Len(a)]
  BY <1>2, ConcatProperties
<1>4. /\ Range(c) = {c[i] : i \in 1 .. Len(c)} /\ Range(a) = {a[i] : i \in 1 .. Len(a)}
      /\ Range(b) = {b[i] : i \in 1 .. Len(b)}
  BY FieldRange
<1>5. ASSUME NEW x \in Range(c) PROVE x \in Range(a) \cup Range(b)
  <2>1. PICK i \in 1 .. Len(c) : x = c[i]
    BY <1>4
  <2>2. CASE i <= Len(a)
    BY <1>1, <1>3, <1>4, <2>1, <2>2
  <2>3. CASE ~(i <= Len(a))
    <3>1. PICK j \in 1 .. Len(b) : j = i - Len(a)
      BY <1>1, <1>3, <2>3
    <3> QED BY <1>3, <1>4, <2>1, <2>3, <3>1
  <2> QED BY <2>2, <2>3
<1>6. ASSUME NEW x \in Range(a) PROVE x \in Range(c)
  <2>1. PICK i \in 1 .. Len(a) : x = a[i]
    BY <1>4
  <2>2. i \in 1 .. Len(c) /\ c[i] = a[i]
    BY <1>1, <1>3
  <2> QED BY <1>4, <2>1, <2>2
<1>7. ASSUME NEW x \in Range(b) PROVE x \in Range(c)
  <2>1. PICK i \in 1 .. Len(b) : x = b[i]
    BY <1>4
  <2>2. PICK j \in 1 .. Len(c) : j = Len(a) + i
    BY <1>1, <1>3
  <2>3. ~(j <= Len(a)) /\ j - Len(a) = i
    BY <1>1, <2>2
  <2>4. c[j] = b[i]
    BY <1>3, <2>3
  <2> QED BY <1>4, <2>1, <2>4
<1> QED BY <1>2, <1>5, <1>6, <1>7

LEMMA SpellsNothing == Spells(<<>>, {})
<1>1. ASSUME NEW k PROVE Range(Fields(<<>>, k)) = {}
  <2>1. <<>> \in Seq(Field) /\ Len(<<>>) = 0
    BY EmptySeq
  <2>2. Fields(<<>>, k) = <<>>
    <3>1. PICK m \in Seq(Field) : m = <<>>
      BY <2>1
    <3>2. \A i \in 1 .. Len(m) : m[i].id # k
      BY <2>1, <3>1
    <3> QED BY <3>1, <3>2, FieldsNone
  <2> QED BY <2>1, <2>2, FieldRange
<1>2. Covers(<<>>, {})
  BY <1>1, EmptySeq DEF Covers
<1> QED BY <1>2, CodesNothing, EmptySeq DEF Spells, Bytes

LEMMA SpellsBoth ==
  ASSUME NEW a, NEW b, NEW F, NEW G, Spells(a, F), Spells(b, G)
  PROVE  Spells(a \o b, F \cup G)
<1>1. a \in Bytes /\ b \in Bytes
  BY DEF Spells
<1>2. ASSUME Len(a \o b) < Long PROVE \E m : Codes(a \o b, m) /\ Covers(m, F \cup G)
  <2>1. Len(a) < Long /\ Len(b) < Long
    BY <1>1, <1>2, Parts
  <2>2. PICK m : Codes(a, m) /\ Covers(m, F)
    BY <2>1 DEF Spells
  <2>3. PICK n : Codes(b, n) /\ Covers(n, G)
    BY <2>1 DEF Spells
  <2>4. m \in Seq(Field) /\ n \in Seq(Field)
    BY <2>2, <2>3 DEF Codes
  <2>5. Codes(a \o b, m \o n)
    BY <2>2, <2>3, CodesBoth
  <2>6. ASSUME NEW k PROVE Range(Fields(m \o n, k)) = {f \in F \cup G : f.id = k}
    <3>1. Fields(m \o n, k) = Fields(m, k) \o Fields(n, k)
      BY <2>4, FieldsBoth
    <3>2. Fields(m, k) \in Seq(Field) /\ Fields(n, k) \in Seq(Field)
      BY <2>4, FieldsType
    <3>3. Range(Fields(m \o n, k)) = Range(Fields(m, k)) \cup Range(Fields(n, k))
      BY <3>1, <3>2, FieldRangeBoth
    <3>4. Range(Fields(m, k)) = {f \in F : f.id = k} /\ Range(Fields(n, k)) = {f \in G : f.id = k}
      BY <2>2, <2>3 DEF Covers
    <3> QED BY <3>3, <3>4
  <2>7. m \o n \in Seq(Field)
    BY <2>5 DEF Codes
  <2> QED BY <2>5, <2>6, <2>7 DEF Covers
<1>3. a \o b \in Bytes
  BY <1>1, Parts
<1> QED BY <1>2, <1>3 DEF Spells

LEMMA SpellsOne ==
  ASSUME NEW b \in Bytes, NEW f, Len(b) < Long => Codes(b, <<f>>), f \in Field
  PROVE  Spells(b, {f})
<1>1. ASSUME NEW k PROVE Range(Fields(<<f>>, k)) = {g \in {f} : g.id = k}
  <2>1. CASE f.id = k
    <3>1. Fields(<<f>>, k) = <<f>>
      BY <2>1, FieldsOne DEF Picked
    <3>2. Range(<<f>>) = {f}
      BY DEF Range
    <3> QED BY <2>1, <3>1, <3>2
  <2>2. CASE f.id # k
    <3>1. Fields(<<f>>, k) = <<>>
      BY <2>2, FieldsOne DEF Picked
    <3>2. Range(<<>>) = {}
      BY DEF Range
    <3> QED BY <2>2, <3>1, <3>2
  <2> QED BY <2>1, <2>2
<1>2. Covers(<<f>>, {f})
  BY <1>1 DEF Covers
<1> QED BY <1>2 DEF Spells

LEMMA SpellsVarint ==
  ASSUME NEW id \in Ids, NEW v \in Nat, v < Words
  PROVE  Spells(VarintField(id, v), {NumberField(id, v)})
<1>1. Codes(VarintField(id, v), <<NumberField(id, v)>>)
  BY VarintFieldCodes
<1>2. NumberField(id, v) \in Field
  BY FieldsTyped DEF Ids
<1> QED BY <1>1, <1>2, SpellsOne DEF Codes

LEMMA SpellsMessage ==
  ASSUME NEW id \in Ids, NEW q \in Bytes
  PROVE  Spells(Message(id, q), {BytesField(id, q)})
<1>1. Message(id, q) \in Bytes /\ (Len(Message(id, q)) < Long => Len(q) < Long)
  BY MessageBytes
<1>2. BytesField(id, q) \in Field
  BY FieldsTyped DEF Ids
<1> QED BY <1>1, <1>2, MessageCodes, SpellsOne

\* What is read of them.
LEMMA SpellsRead ==
  ASSUME NEW b, NEW F, Spells(b, F), Len(b) < Long
  PROVE  Covers(Parse(b), F)
BY CodesParse DEF Spells

LEMMA ValueNone ==
  ASSUME NEW m, NEW F, Covers(m, F), NEW k, \A f \in F : f.id # k
  PROVE  Fields(m, k) = <<>>
<1>1. Fields(m, k) \in Seq(Field) /\ Range(Fields(m, k)) = {}
  BY FieldsType DEF Covers
<1> QED BY <1>1, FieldRange

LEMMA ValueOf ==
  ASSUME NEW m, NEW F, Covers(m, F), NEW f \in F, \A g \in F : g.id = f.id => g = f, NEW default
  PROVE  Value(m, f.id, default) = f.v
<1>1. PICK fs \in Seq(Field) : fs = Fields(m, f.id)
  BY FieldsType DEF Covers
<1>2. Range(fs) = {f}
  BY <1>1 DEF Covers
<1>3. fs # <<>> /\ fs[Len(fs)] = f
  BY <1>2, FieldRange
<1> QED BY <1>1, <1>3 DEF Value

LEMMA NestedOf ==
  ASSUME NEW m, NEW F, Covers(m, F), NEW k
  PROVE  Range(Nested(m, k)) = {Parse(f.bytes) : f \in {g \in F : g.id = k}}
<1>1. PICK fs \in Seq(Field) : fs = Fields(m, k)
  BY FieldsType DEF Covers
<1>2. Range(fs) = {g \in F : g.id = k}
  BY <1>1 DEF Covers
<1>3. Nested(m, k) = [i \in DOMAIN fs |-> Parse(fs[i].bytes)]
  BY <1>1 DEF Nested
<1>4. Range(Nested(m, k)) = {Parse(f.bytes) : f \in Range(fs)}
  BY <1>3 DEF Range
<1> QED BY <1>2, <1>4

LEMMA NestedFirst ==
  ASSUME NEW m, NEW F, Covers(m, F), NEW f \in F, \A g \in F : g.id = f.id => g = f
  PROVE  Nested(m, f.id) # <<>> /\ Nested(m, f.id)[1] = Parse(f.bytes)
<1>1. PICK fs \in Seq(Field) : fs = Fields(m, f.id)
  BY FieldsType DEF Covers
<1>2. Range(fs) = {f}
  BY <1>1 DEF Covers
<1>3. fs # <<>> /\ 1 \in 1 .. Len(fs) /\ fs[1] = f /\ DOMAIN fs = 1 .. Len(fs)
  BY <1>2, FieldRange, LenProperties
<1>4. Nested(m, f.id) = [i \in DOMAIN fs |-> Parse(fs[i].bytes)]
  BY <1>1 DEF Nested
<1>5. 1 \in DOMAIN Nested(m, f.id) /\ Nested(m, f.id)[1] = Parse(f.bytes)
  BY <1>3, <1>4
<1> QED BY <1>5

-----------------------------------------------------------------------------
(* The two packets that move the clock: one with what it advanced by, and    *)
(* one with a snapshot.                                                      *)

\* A packet with the delta d.
LEMMA StampSteps ==
  ASSUME NEW m, NEW id, NEW d \in Nat,
         Covers(m, {NumberField(10, id), NumberField(13, 2), NumberField(8, d)}),
         NEW o, NEW s, o.started, o.last \in Int, s.last = o.last + d
  PROVE  Steps(m, o, s)
<1>1. PICK f, g, h : f = NumberField(10, id) /\ g = NumberField(13, 2) /\ h = NumberField(8, d)
  OBVIOUS
<1>2. f.id = 10 /\ g.id = 13 /\ g.v = 2 /\ h.id = 8 /\ h.v = d
  BY <1>1 DEF NumberField
<1>3. Covers(m, {f, g, h})
  BY <1>1
<1>4. \A k \in {6, 58, 59} : Fields(m, k) = <<>>
  <2>1. ASSUME NEW k \in {6, 58, 59} PROVE Fields(m, k) = <<>>
    <3>1. \A e \in {f, g, h} : e.id # k
      BY <1>2
    <3> QED BY <1>3, <3>1, ValueNone
  <2> QED BY <2>1
<1>5. Value(m, 13, 0) = 2
  <2>1. g \in {f, g, h} /\ \A e \in {f, g, h} : e.id = g.id => e = g
    BY <1>2
  <2>2. Value(m, g.id, 0) = g.v
    BY <1>3, <2>1, ValueOf
  <2> QED BY <1>2, <2>2
<1>6. Value(m, 8, 0) = d
  <2>1. h \in {f, g, h} /\ \A e \in {f, g, h} : e.id = h.id => e = h
    BY <1>2
  <2>2. Value(m, h.id, 0) = h.v
    BY <1>3, <2>1, ValueOf
  <2> QED BY <1>2, <2>2
<1>7. ASSUME NEW r, Timed(o, r) PROVE Timed(s, ReadState(r, m))
  <2>1. /\ Shape(r) /\ r.clockId = 64 /\ r.now \in Int /\ r.base \in Int /\ r.primary \in Int
        /\ r.primary + r.now - r.base = o.last + Ahead
    BY <1>7 DEF Timed
  <2>2. ReadCleared(r, m) = r
    <3>1. ~((2 % 2) = 1)
      OBVIOUS
    <3> QED BY <1>5, <3>1 DEF ReadCleared, TracePacket
  <2>3. PICK a : a = ReadEntries(r, Nested(m, 12))
    OBVIOUS
  <2>4. SameClock(a, r)
    BY <2>1, <2>3, EntriesKeep
  <2>5. Value(m, 58, a.clockId) = 64
    BY <1>4, <2>1, <2>4 DEF Value, SameClock
  <2>6. PICK b : b = [a EXCEPT !.now = a.now + d]
    OBVIOUS
  <2>7. ReadTime(a, m) = b
    BY <1>6, <2>5, <2>6 DEF ReadTime, TracePacket, ClockIds
  <2>8. Nested(m, 59) = <<>> /\ Nested(m, 6) = <<>>
    BY <1>4 DEF Nested
  <2>9. ReadState(r, m) = b
    BY <2>2, <2>3, <2>7, <2>8 DEF ReadState, ReadDefaults, ReadClocks, TracePacket
  <2>10. /\ Shape(b) /\ b.clockId = 64 /\ b.now = r.now + d /\ b.base = r.base
         /\ b.primary = r.primary
    BY <2>1, <2>4, <2>6 DEF SameClock, Shape
  <2>11. Ahead \in Int
    BY SequenceAssumption DEF Ahead
  <2>12. PICK now, base, primary, ahead, last \in Int :
           r.now = now /\ r.base = base /\ r.primary = primary /\ Ahead = ahead /\ o.last = last
    BY <2>1, <2>11
  <2>13. primary + now - base = last + ahead
    BY <2>1, <2>12
  <2>14. primary + (now + d) - base = (last + d) + ahead
    BY <2>13
  <2> QED BY <2>1, <2>9, <2>10, <2>12, <2>14 DEF Timed
<1> QED BY <1>7 DEF Steps

\* Of the clocks cs of a snapshot, the one with an id is at time.
ClockIs(cs, id, time) ==
  /\ \E c \in cs : Value(c, 1, 0) = id
  /\ \A c \in cs : Value(c, 1, 0) = id => Value(c, 2, 0) = time

SnapshotIs(p, k, x, y) ==
  /\ Value(p, 2, 0) = k
  /\ ClockIs(Range(Nested(p, 1)), 64, x) /\ ClockIs(Range(Nested(p, 1)), k, y)

ClockSet(z, r, x, y) ==
  /\ Shape(z) /\ z.clockId = r.clockId
  /\ z.now = x /\ z.base = x /\ z.primary = y

LEMMA ClocksRead ==
  ASSUME NEW r, Shape(r), NEW ss, ss # <<>>, NEW x, NEW y, NEW k, SnapshotIs(ss[1], k, x, y)
  PROVE  ClockSet(ReadClocks(r, ss), r, x, y)
<1> PICK cs : cs = Range(Nested(ss[1], 1))
  OBVIOUS
<1> DEFINE ClockAt(id) == LET at == CHOOSE c \in cs : Value(c, 1, 0) = id IN Value(at, 2, 0)
<1>1. ClockAt(64) = x /\ ClockAt(k) = y
  BY DEF ClockIs, SnapshotIs
<1>2. ReadClocks(r, ss) = [r EXCEPT !.now = ClockAt(64), !.base = ClockAt(64), !.primary = ClockAt(k)]
  BY DEF ReadClocks, Snapshot, Clock, ClockIds, SnapshotIs
<1>3. ReadClocks(r, ss) = [r EXCEPT !.now = x, !.base = x, !.primary = y]
  BY <1>1, <1>2
<1> QED BY <1>3 DEF Shape, ClockSet

\* A packet that clears the state, with defaults and a snapshot in it, of which the
\* custom clock is at x and the clock k, the packet's, at y.
LEMMA SnapshotSteps ==
  ASSUME NEW m, NEW F, Covers(m, F), NEW k, NEW dq, NEW w,
         {NumberField(13, 3), NumberField(58, k), BytesField(59, dq), BytesField(6, w)} \subseteq F,
         \A g \in F : g.id = 13 => g = NumberField(13, 3),
         \A g \in F : g.id = 59 => g = BytesField(59, dq),
         \A g \in F : g.id = 6 => g = BytesField(6, w),
         Value(Parse(dq), 58, 0) = 64, NEW x \in Int, NEW y \in Int,
         SnapshotIs(Parse(w), k, x, y),
         NEW o, NEW s, y = s.last + Ahead
  PROVE  Steps(m, o, s)
<1>1. PICK f, d, e : f = NumberField(13, 3) /\ d = BytesField(59, dq) /\ e = BytesField(6, w)
  OBVIOUS
<1>2. f.id = 13 /\ f.v = 3 /\ d.id = 59 /\ d.bytes = dq /\ e.id = 6 /\ e.bytes = w
  BY <1>1 DEF NumberField, BytesField
<1>3. f \in F /\ d \in F /\ e \in F
  BY <1>1
<1>4. Value(m, 13, 0) = 3
  <2>1. \A g \in F : g.id = f.id => g = f
    BY <1>1, <1>2
  <2>2. Value(m, f.id, 0) = f.v
    BY <1>3, <2>1, ValueOf
  <2> QED BY <1>2, <2>2
<1>5. PICK ds : ds = Nested(m, 59) /\ ds # <<>> /\ ds[1] = Parse(dq)
  <2>1. \A g \in F : g.id = d.id => g = d
    BY <1>1, <1>2
  <2>2. Nested(m, d.id) # <<>> /\ Nested(m, d.id)[1] = Parse(d.bytes)
    BY <1>3, <2>1, NestedFirst
  <2> QED BY <1>2, <2>2
<1>6. PICK ss : ss = Nested(m, 6) /\ ss # <<>> /\ ss[1] = Parse(w)
  <2>1. \A g \in F : g.id = e.id => g = e
    BY <1>1, <1>2
  <2>2. Nested(m, e.id) # <<>> /\ Nested(m, e.id)[1] = Parse(e.bytes)
    BY <1>3, <2>1, NestedFirst
  <2> QED BY <1>2, <2>2
<1>7. ASSUME NEW r, Timed(o, r) PROVE Timed(s, ReadState(r, m))
  <2>1. Shape(r)
    BY <1>7 DEF Timed
  <2>2. PICK c : c = ReadCleared(r, m) /\ Shape(c)
    BY <2>1, ClearedShape
  <2>3. PICK a : a = ReadEntries(c, Nested(m, 12)) /\ Shape(a)
    BY <2>2, EntriesKeep DEF SameClock
  <2>4. PICK t : t = ReadTime(a, m) /\ Shape(t)
    <3>1. PICK now : ReadTime(a, m) = [a EXCEPT !.now = now]
      BY DEF ReadTime
    <3>2. Shape([a EXCEPT !.now = now])
      BY <2>3 DEF Shape
    <3> QED BY <3>1, <3>2
  <2>5. PICK b : b = ReadDefaults(t, ds) /\ Shape(b) /\ b.clockId = 64
    <3>1. PICK track : ReadDefaults(t, ds) = [t EXCEPT !.clockId = 64, !.track = track]
      BY <1>5 DEF ReadDefaults, Defaults
    <3>2. Shape([t EXCEPT !.clockId = 64, !.track = track])
          /\ [t EXCEPT !.clockId = 64, !.track = track].clockId = 64
      BY <2>4 DEF Shape
    <3> QED BY <3>1, <3>2
  <2>6. PICK z : z = ReadClocks(b, ss)
    OBVIOUS
  <2>7. Shape(z) /\ z.clockId = 64 /\ z.now = x /\ z.base = x /\ z.primary = y
    <3>1. SnapshotIs(ss[1], k, x, y)
      BY <1>6
    <3>2. ss # <<>> /\ Shape(b)
      BY <1>6, <2>5
    <3>3. ClockSet(ReadClocks(b, ss), b, x, y)
      BY <3>1, <3>2, ClocksRead, Zenon
    <3> QED BY <2>5, <2>6, <3>3 DEF ClockSet
  <2>8. ReadState(r, m) = z
    BY <1>5, <1>6, <2>2, <2>3, <2>4, <2>5, <2>6 DEF ReadState, TracePacket
  <2>9. y + x - x = y
    OBVIOUS
  <2> QED BY <2>7, <2>8, <2>9 DEF Timed
<1> QED BY <1>7 DEF Steps

-----------------------------------------------------------------------------
(* Where a packet, and a trace, takes the clock.                             *)

Moves(q, o, s) == Len(q) < Long => Steps(Parse(q), o, s)
Valid(q) == q \in Bytes /\ (Len(q) < Long => \E m : Codes(q, m))

\* Fields of other numbers leave it there.
LEMMA MovesMore ==
  ASSUME NEW a, NEW b, NEW S, S \cap TimeIds = {}, Valid(a), Adds(b, S),
         NEW o, NEW s, Moves(a, o, s)
  PROVE  Moves(a \o b, o, s) /\ Valid(a \o b)
<1>1. a \in Bytes /\ b \in Bytes
  BY DEF Valid, Adds
<1>2. ASSUME Len(a \o b) < Long
      PROVE  Steps(Parse(a \o b), o, s) /\ \E m : Codes(a \o b, m)
  <2>1. Len(a) < Long /\ Len(b) < Long
    BY <1>1, <1>2, Parts
  <2>2. PICK m : Codes(a, m)
    BY <2>1 DEF Valid
  <2>3. PICK n : Codes(b, n) /\ Within(n, S)
    BY <2>1 DEF Adds, Says
  <2>4. m \in Seq(Field) /\ n \in Seq(Field)
    BY <2>2, <2>3 DEF Codes
  <2>5. Codes(a \o b, m \o n)
    BY <2>2, <2>3, CodesBoth
  <2>6. Parse(a) = m /\ Parse(a \o b) = m \o n
    BY <2>2, <2>5, CodesParse
  <2>7. ASSUME NEW k \in TimeIds PROVE Fields(m \o n, k) = Fields(m, k)
    <3>1. \A i \in 1 .. Len(n) : n[i].id # k
      BY <2>3 DEF Within
    <3>2. Fields(n, k) = <<>>
      BY <2>4, <3>1, FieldsNone
    <3>3. Fields(m, k) \in Seq(Field)
      BY <2>4, FieldsType
    <3>4. Fields(m, k) \o <<>> = Fields(m, k)
      BY <3>3, ConcatEmptySeq
    <3> QED BY <2>4, <3>2, <3>4, FieldsBoth
  <2>8. Steps(m, o, s)
    BY <2>1, <2>6 DEF Moves
  <2>9. PICK mn : mn = m \o n
    OBVIOUS
  <2>10. Steps(mn, o, s)
    BY <2>7, <2>8, <2>9, StepsSame
  <2> QED BY <2>5, <2>6, <2>9, <2>10
<1>3. a \o b \in Bytes
  BY <1>1, Parts
<1> QED BY <1>2, <1>3 DEF Moves, Valid

-----------------------------------------------------------------------------
(* The reader goes through a trace from its start.                           *)

LEMMA SubsetsOfNext ==
  ASSUME NEW k \in Nat, NEW u \in SUBSET (1 .. k + 1)
  PROVE  /\ k + 1 \in u => Max(u) = k + 1
         /\ u \ {k + 1} \in SUBSET (1 .. k) /\ u \ {k + 1} \in SUBSET (1 .. k + 1)
         /\ k + 1 \notin u \ {k + 1}
         /\ k + 1 \notin u =>
              /\ u \in SUBSET (1 .. k)
              /\ u \ {Max(u)} \in SUBSET (1 .. k + 1)
              /\ k + 1 \notin u \ {Max(u)}
<1>1. k + 1 \in u => Max(u) = k + 1
  <2>1. u \in SUBSET Nat /\ \A j \in u : j <= k + 1
    OBVIOUS
  <2> QED BY <2>1, MaxIs
<1>2. u \ {k + 1} \in SUBSET (1 .. k)
  <2>1. ASSUME NEW j \in u, j # k + 1 PROVE j \in 1 .. k
    <3>1. j \in 1 .. k + 1
      OBVIOUS
    <3> QED BY <2>1, <3>1
  <2> QED BY <2>1
<1>3. k + 1 \notin u => u \in SUBSET (1 .. k)
  <2>1. ASSUME NEW j \in u, j # k + 1 PROVE j \in 1 .. k
    <3>1. j \in 1 .. k + 1
      OBVIOUS
    <3> QED BY <2>1, <3>1
  <2> QED BY <2>1
<1> QED BY <1>1, <1>2, <1>3

ReadRun(h, base, s, n) ==
  /\ h[0] = base /\ h[n] = ReadPackets(base, s)
  /\ \A i \in 1 .. n : h[i] = ReadPacket(h[i - 1], s[i])

LEMMA ReadPacketsFold ==
  ASSUME NEW base, NEW s, NEW n \in Nat, DOMAIN s = 1 .. n
  PROVE  \E h : ReadRun(h, base, s, n)
<1> DEFINE Folds(f, k) ==
             f = [u \in SUBSET (1 .. k) |->
                   IF u = {} THEN base ELSE ReadPacket(f[u \ {Max(u)}], s[Max(u)])]
           K == {k \in Nat : \E f : Folds(f, k)}
<1>1. 0 \in K
  <2>1. Folds([u \in SUBSET (1 .. 0) |-> base], 0)
    BY SubsetsOfNone
  <2> QED BY <2>1
<1>2. ASSUME NEW k \in K PROVE k + 1 \in K
  <2>1. PICK f : Folds(f, k)
    OBVIOUS
  <2> DEFINE g == [u \in SUBSET (1 .. k + 1) |->
                    IF k + 1 \in u THEN ReadPacket(f[u \ {k + 1}], s[k + 1]) ELSE f[u]]
  <2>2. ASSUME NEW u \in SUBSET (1 .. k + 1)
        PROVE  g[u] = IF u = {} THEN base ELSE ReadPacket(g[u \ {Max(u)}], s[Max(u)])
    <3>1. CASE k + 1 \in u
      <4>1. Max(u) = k + 1 /\ u \ {k + 1} \in SUBSET (1 .. k) /\ k + 1 \notin u \ {k + 1}
            /\ u \ {k + 1} \in SUBSET (1 .. k + 1)
        BY <3>1, SubsetsOfNext
      <4>2. g[u \ {k + 1}] = f[u \ {k + 1}]
        BY <4>1
      <4>3. u # {} /\ g[u] = ReadPacket(f[u \ {k + 1}], s[k + 1])
        BY <3>1
      <4> HIDE DEF g
      <4> QED BY <4>1, <4>2, <4>3
    <3>2. CASE k + 1 \notin u
      <4>1. u \in SUBSET (1 .. k) /\ u \ {Max(u)} \in SUBSET (1 .. k + 1) /\ k + 1 \notin u \ {Max(u)}
        BY <3>2, SubsetsOfNext
      <4>2. g[u] = f[u] /\ g[u \ {Max(u)}] = f[u \ {Max(u)}]
        BY <3>2, <4>1
      <4>3. f[u] = IF u = {} THEN base ELSE ReadPacket(f[u \ {Max(u)}], s[Max(u)])
        BY <2>1, <4>1
      <4> HIDE DEF g
      <4> QED BY <4>2, <4>3
    <3> QED BY <3>1, <3>2
  <2>3. Folds(g, k + 1)
    <3>1. g = [u \in SUBSET (1 .. k + 1) |-> g[u]]
      OBVIOUS
    <3> HIDE DEF g
    <3> QED BY <2>2, <3>1
  <2>4. k + 1 \in Nat
    OBVIOUS
  <2> HIDE DEF g, Folds
  <2> QED BY <2>3, <2>4
<1>3. PICK fs : Folds(fs, n)
  <2>1. K \in SUBSET Nat
    OBVIOUS
  <2> HIDE DEF K
  <2>2. K = Nat
    BY <1>1, <1>2, <2>1, Induction
  <2> QED BY <2>2 DEF K
<1> DEFINE iter == CHOOSE f : Folds(f, n)
<1>4. Folds(iter, n)
  BY <1>3
<1>5. ReadPackets(base, s) = iter[1 .. n]
  BY DEF ReadPackets, FoldLeft, MapThenFoldSet
<1> HIDE DEF iter
<1> DEFINE h == [i \in 0 .. n |-> iter[1 .. i]]
<1>6. h[0] = base
  <2>1. iter[1 .. 0] = base
    BY <1>4, SubsetsOfNone
  <2> QED BY <2>1
<1>7. ASSUME NEW i \in 1 .. n PROVE h[i] = ReadPacket(h[i - 1], s[i])
  <2>1. 1 .. i \in SUBSET (1 .. n) /\ 1 .. i # {} /\ Max(1 .. i) = i /\ (1 .. i) \ {i} = 1 .. i - 1
        /\ i - 1 \in 0 .. n
    BY RangesOf
  <2>2. iter[1 .. i] = ReadPacket(iter[(1 .. i) \ {Max(1 .. i)}], s[Max(1 .. i)])
    <3> PICK u : u = 1 .. i
      OBVIOUS
    <3> QED BY <1>4, <2>1
  <2>3. h[i] = iter[1 .. i] /\ h[i - 1] = iter[1 .. i - 1]
    BY <2>1
  <2> HIDE DEF h
  <2> QED BY <2>1, <2>2, <2>3
<1>8. h[n] = ReadPackets(base, s)
  <2>1. h[n] = iter[1 .. n]
    OBVIOUS
  <2> HIDE DEF h
  <2> QED BY <1>5, <2>1
<1> HIDE DEF h
<1> QED BY <1>6, <1>7, <1>8 DEF ReadRun

LEMMA ReadPacketsNone ==
  ASSUME NEW a
  PROVE  ReadPackets(a, <<>>) = a
<1>1. PICK ps : ps = <<>>
  OBVIOUS
<1>2. DOMAIN ps = 1 .. 0
  BY <1>1
<1>3. PICK h : ReadRun(h, a, ps, 0)
  BY <1>2, ReadPacketsFold
<1> QED BY <1>1, <1>3 DEF ReadRun

LEMMA ReadPacketsMore ==
  ASSUME NEW a, NEW ps \in Seq(Field), NEW f \in Field
  PROVE  ReadPackets(a, ps \o <<f>>) = ReadPacket(ReadPackets(a, ps), f)
<1>1. PICK n \in Nat : n = Len(ps) /\ DOMAIN ps = 1 .. n
  BY LenProperties
<1>2. PICK s \in Seq(Field) : s = ps \o <<f>>
  <2>1. <<f>> \in Seq(Field)
    OBVIOUS
  <2> QED BY <2>1, ConcatProperties
<1>3. Len(s) = n + 1 /\ s[n + 1] = f /\ \A i \in 1 .. n : s[i] = ps[i]
  <2>1. <<f>> \in Seq(Field) /\ Len(<<f>>) = 1 /\ <<f>>[1] = f
    OBVIOUS
  <2>2. Len(s) = Len(ps) + Len(<<f>>) /\ \A i \in 1 .. Len(ps) + Len(<<f>>) :
          s[i] = IF i <= Len(ps) THEN ps[i] ELSE <<f>>[i - Len(ps)]
    BY <1>2, <2>1, ConcatProperties
  <2> QED BY <1>1, <2>1, <2>2
<1>4. PICK k \in Nat : k = n + 1 /\ DOMAIN s = 1 .. k
  BY <1>1, <1>3, LenProperties
<1>5. PICK h : ReadRun(h, a, ps, n)
  BY <1>1, ReadPacketsFold
<1>6. PICK g : ReadRun(g, a, s, k)
  BY <1>4, ReadPacketsFold
<1> DEFINE K == {m \in Nat : m <= n => g[m] = h[m]}
<1>7. 0 \in K
  BY <1>5, <1>6 DEF ReadRun
<1>8. ASSUME NEW m \in K PROVE m + 1 \in K
  <2> SUFFICES ASSUME m + 1 <= n PROVE g[m + 1] = h[m + 1]
    OBVIOUS
  <2>1. PICK i \in 1 .. n : i = m + 1 /\ i - 1 = m /\ i \in 1 .. k
    BY <1>4
  <2>2. h[i] = ReadPacket(h[i - 1], ps[i]) /\ g[i] = ReadPacket(g[i - 1], ps[i])
    BY <1>3, <1>5, <1>6, <2>1 DEF ReadRun
  <2>3. g[i - 1] = h[i - 1]
    BY <2>1
  <2> QED BY <2>1, <2>2, <2>3
<1>9. g[n] = h[n]
  <2>1. K \in SUBSET Nat
    OBVIOUS
  <2> HIDE DEF K
  <2>2. K = Nat
    BY <1>7, <1>8, <2>1, Induction
  <2> QED BY <2>2 DEF K
<1>10. g[k] = ReadPacket(g[n], f)
  <2>1. PICK i \in 1 .. k : i = k /\ i - 1 = n
    BY <1>4
  <2> QED BY <1>3, <1>4, <1>6, <2>1 DEF ReadRun
<1> QED BY <1>2, <1>5, <1>6, <1>9, <1>10 DEF ReadRun

\* From the reader rd, the bytes of a callback take the clock to where s is.
Leads(ps, rd, s)    == \A a : a.reader = rd => Timed(s, ReadPackets(a, ps).reader)
Clocked(out, rd, s) == Len(out) < Long => Leads(Parse(out), rd, s)

LEMMA TimedLike ==
  ASSUME NEW s, NEW o, s.started = o.started, s.last = o.last, NEW r, Timed(o, r)
  PROVE  Timed(s, r)
BY DEF Timed

LEMMA ClockedLike ==
  ASSUME NEW s, NEW o, s.started = o.started, s.last = o.last,
         NEW out, NEW rd, Clocked(out, rd, o)
  PROVE  Clocked(out, rd, s)
<1>1. ASSUME Len(out) < Long, NEW a, a.reader = rd
      PROVE  Timed(s, ReadPackets(a, Parse(out)).reader)
  <2>1. Timed(o, ReadPackets(a, Parse(out)).reader)
    BY <1>1 DEF Clocked, Leads
  <2> QED BY <2>1, TimedLike
<1> QED BY <1>1 DEF Clocked, Leads

LEMMA MovesLike ==
  ASSUME NEW s, NEW t, s.started = t.started, s.last = t.last,
         NEW q, NEW o, Moves(q, o, t)
  PROVE  Moves(q, o, s)
<1>1. ASSUME Len(q) < Long, NEW r, Timed(o, r) PROVE Timed(s, ReadState(r, Parse(q)))
  <2>1. Timed(t, ReadState(r, Parse(q)))
    BY <1>1 DEF Moves, Steps
  <2> QED BY <2>1, TimedLike
<1> QED BY <1>1 DEF Moves, Steps

LEMMA ClockedNothing ==
  ASSUME NEW s, NEW rd, Timed(s, rd)
  PROVE  Clocked(<<>>, rd, s)
<1>1. ASSUME NEW a, a.reader = rd PROVE Timed(s, ReadPackets(a, Parse(<<>>)).reader)
  BY <1>1, ParseNothing, ReadPacketsNone
<1> QED BY <1>1 DEF Clocked, Leads

\* A packet more.
LEMMA ClockedMore ==
  ASSUME NEW out, Valid(out), NEW q, Valid(q), Len(q) < Long => WellFormed(Parse(q)),
         NEW rd, NEW o, NEW s, Clocked(out, rd, o), Moves(q, o, s)
  PROVE  Clocked(out \o Message(1, q), rd, s)
<1>1. out \in Bytes /\ q \in Bytes /\ 1 \in Ids
  BY SmallIds DEF Valid
<1>2. PICK e \in Bytes : e = Message(1, q) /\ (Len(e) < Long => Len(q) < Long)
  BY <1>1, MessageBytes
<1>3. ASSUME Len(out \o e) < Long, NEW a, a.reader = rd
      PROVE  Timed(s, ReadPackets(a, Parse(out \o e)).reader)
  <2>1. Len(out) < Long /\ Len(q) < Long
    BY <1>1, <1>2, <1>3, Parts
  <2>2. PICK ps : Codes(out, ps)
    BY <2>1 DEF Valid
  <2>3. PICK f \in Field : f = BytesField(1, q)
    BY <1>1, FieldsTyped
  <2>4. Codes(e, <<f>>)
    BY <1>1, <1>2, <2>1, <2>3, MessageCodes
  <2>5. f.id = 1 /\ f.bytes = q
    BY <2>3 DEF BytesField
  <2>6. Codes(out \o e, ps \o <<f>>)
    BY <2>2, <2>4, CodesBoth
  <2>7. Parse(out) = ps /\ Parse(out \o e) = ps \o <<f>> /\ ps \in Seq(Field)
    <3>1. Parse(out) = ps
      BY <2>2, CodesParse
    <3>2. Parse(out \o e) = ps \o <<f>>
      BY <2>6, CodesParse
    <3> QED BY <2>2, <3>1, <3>2 DEF Codes
  <2>8. PICK b : b = ReadPackets(a, ps)
    OBVIOUS
  <2>9. Timed(o, b.reader)
    BY <1>3, <2>1, <2>7, <2>8 DEF Clocked, Leads
  <2>10. ReadPackets(a, Parse(out \o e)) = ReadPacket(b, f)
    BY <2>7, <2>8, ReadPacketsMore
  <2>11. ReadPacket(b, f).reader = ReadState(b.reader, Parse(q))
    <3>1. PICK p, r : p = Parse(q) /\ r = ReadState(b.reader, p)
      OBVIOUS
    <3>2. WellFormed(p)
      BY <2>1, <3>1
    <3>3. ReadPacket(b, f) = ReadAs(b, r, p)
      BY <2>5, <3>1, <3>2 DEF ReadPacket, ReadMessage, Trace
    <3>4. ReadAs(b, r, p).reader = r
      BY DEF ReadAs
    <3> QED BY <3>1, <3>3, <3>4
  <2>12. Timed(s, ReadState(b.reader, Parse(q)))
    BY <2>1, <2>9 DEF Moves, Steps
  <2> QED BY <2>10, <2>11, <2>12
<1> QED BY <1>2, <1>3 DEF Clocked, Leads

-----------------------------------------------------------------------------
(* Packets: the fields of those without an event, and of one with an event   *)
(* of a type; and a trace of the first and of these with one of the second.   *)

QuietIds == {6, 8, 12, 13, 58, 59, 60, 87}
EventIds == {3, 4, 10, 11, 12, 23, 31, 34, 45, 46, 47}

Packet0(q, id) == Keyed(q, QuietIds, 10, id)   \* a packet without an event
Event0(q, type) == Keyed(q, EventIds, 9, type)  \* an event

HasEvent(m, type) ==
  \E p \in Bytes : Fields(m, 11) = <<BytesField(11, p)>> /\ Fields(Parse(p), 9) = <<NumberField(9, type)>>
SaysEvent(q, id, type, m) ==
  /\ Codes(q, m) /\ Within(m, QuietIds \cup {10, 11})
  /\ Fields(m, 10) = <<NumberField(10, id)>> /\ HasEvent(m, type)
Packet1(q, id, type) == q \in Bytes /\ (Len(q) < Long => \E m : SaysEvent(q, id, type, m))

LEMMA Numbers ==
  /\ QuietIds \cup {10, 11, 9} \cup EventIds \subseteq Ids /\ {1, 2} \subseteq Ids
  /\ 10 \notin QuietIds /\ 11 \notin QuietIds /\ 9 \notin EventIds /\ 0 \notin QuietIds
BY SmallIds DEF QuietIds, EventIds

\* Of these, the ones that do not move the reader's clock.
LaterIds == {12, 60}

LEMMA LaterFacts ==
  LaterIds \subseteq QuietIds /\ LaterIds \subseteq Ids /\ LaterIds \cap TimeIds = {} /\ {11} \cap TimeIds = {}
BY Numbers DEF LaterIds, QuietIds, TimeIds

\* A packet with an event put in it.
LEMMA PacketOfEvent ==
  ASSUME NEW a, NEW b, NEW id, NEW type, Packet0(a, id), Event0(b, type)
  PROVE  Packet1(a \o Message(11, b), id, type)
<1>1. a \in Bytes /\ b \in Bytes /\ 11 \in Ids
  BY Numbers DEF Packet0, Event0, Keyed
<1>2. PICK e \in Bytes : e = Message(11, b) /\ (Len(e) < Long => Len(b) < Long)
  BY <1>1, MessageBytes
<1>3. ASSUME Len(a \o e) < Long PROVE \E m : SaysEvent(a \o e, id, type, m)
  <2>1. Len(a) < Long /\ Len(b) < Long
    BY <1>1, <1>2, <1>3, Parts
  <2>2. PICK m : SaysOne(a, QuietIds, 10, id, m)
    BY <2>1 DEF Packet0, Keyed
  <2>3. PICK n : SaysOne(b, EventIds, 9, type, n)
    BY <2>1 DEF Event0, Keyed
  <2>4. PICK f \in Field : f = BytesField(11, b)
    BY <1>1, FieldsTyped
  <2>5. Codes(e, <<f>>)
    BY <1>1, <1>2, <2>1, <2>4, MessageCodes
  <2>6. f.id = 11
    BY <2>4 DEF BytesField
  <2>7. Codes(a, m) /\ Within(m, QuietIds \cup {10}) /\ Fields(m, 10) = <<NumberField(10, id)>>
    BY <2>2 DEF SaysOne
  <2>8. m \in Seq(Field) /\ <<f>> \in Seq(Field)
    BY <2>5, <2>7 DEF Codes
  <2>9. Codes(a \o e, m \o <<f>>)
    BY <2>5, <2>7, CodesBoth
  <2>10. Within(m \o <<f>>, QuietIds \cup {10, 11})
    <3>1. Within(m, QuietIds \cup {10, 11})
      BY <2>7, WithinMore
    <3>2. Within(<<f>>, QuietIds \cup {10, 11})
      BY <2>6, WithinOne
    <3> QED BY <2>8, <3>1, <3>2, WithinBoth
  <2>11. Fields(m \o <<f>>, 10) = <<NumberField(10, id)>>
    <3>1. Fields(<<f>>, 10) = <<>>
      BY <2>6, FieldsOne DEF Picked
    <3>2. Fields(m, 10) \in Seq(Field)
      BY <2>8, FieldsType
    <3>3. Fields(m, 10) \o <<>> = Fields(m, 10)
      BY <3>2, ConcatEmptySeq
    <3> QED BY <2>7, <2>8, <3>1, <3>3, FieldsBoth
  <2>12. Fields(m \o <<f>>, 11) = <<f>>
    <3>1. Fields(<<f>>, 11) = <<f>>
      BY <2>6, FieldsOne DEF Picked
    <3>2. \A i \in 1 .. Len(m) : m[i].id # 11
      BY <2>7, Numbers DEF Within
    <3>3. Fields(m, 11) = <<>>
      BY <2>8, <3>2, FieldsNone
    <3>4. <<>> \o <<f>> = <<f>>
      BY <2>8, ConcatEmptySeq
    <3> QED BY <2>8, <3>1, <3>3, <3>4, FieldsBoth
  <2>13. Fields(Parse(b), 9) = <<NumberField(9, type)>>
    BY <2>3, CodesParse DEF SaysOne
  <2>14. HasEvent(m \o <<f>>, type)
    BY <1>1, <2>4, <2>12, <2>13 DEF HasEvent
  <2> QED BY <2>9, <2>10, <2>11, <2>14 DEF SaysEvent
<1>4. a \o e \in Bytes
  BY <1>1, Parts
<1> QED BY <1>2, <1>3, <1>4 DEF Packet1

LEMMA PacketMore ==
  ASSUME NEW a, NEW b, NEW id, NEW type, Packet1(a, id, type), Adds(b, QuietIds)
  PROVE  Packet1(a \o b, id, type)
<1>1. a \in Bytes /\ b \in Bytes
  BY DEF Packet1, Adds
<1>2. ASSUME Len(a \o b) < Long PROVE \E m : SaysEvent(a \o b, id, type, m)
  <2>1. Len(a) < Long /\ Len(b) < Long
    BY <1>1, <1>2, Parts
  <2>2. PICK m : SaysEvent(a, id, type, m)
    BY <2>1 DEF Packet1
  <2>3. PICK n : Says(b, QuietIds, n)
    BY <2>1 DEF Adds
  <2>4. Codes(a, m) /\ Codes(b, n)
    BY <2>2, <2>3 DEF SaysEvent, Says
  <2>5. Codes(a \o b, m \o n) /\ m \in Seq(Field) /\ n \in Seq(Field)
    <3>1. m \in Seq(Field) /\ n \in Seq(Field)
      BY <2>4 DEF Codes
    <3> QED BY <2>4, <3>1, CodesBoth
  <2>6. Within(m \o n, QuietIds \cup {10, 11})
    <3>1. Within(n, QuietIds \cup {10, 11})
      BY <2>3, WithinMore DEF Says
    <3> QED BY <2>2, <2>5, <3>1, WithinBoth DEF SaysEvent
  <2>7. ASSUME NEW k \in {10, 11} PROVE Fields(m \o n, k) = Fields(m, k)
    <3>1. \A i \in 1 .. Len(n) : n[i].id # k
      BY <2>3, Numbers DEF Says, Within
    <3>2. Fields(n, k) = <<>>
      BY <2>5, <3>1, FieldsNone
    <3>3. Fields(m, k) \in Seq(Field)
      BY <2>5, FieldsType
    <3>4. Fields(m, k) \o <<>> = Fields(m, k)
      BY <3>3, ConcatEmptySeq
    <3> QED BY <2>5, <3>2, <3>4, FieldsBoth
  <2>8. Fields(m \o n, 10) = Fields(m, 10) /\ Fields(m \o n, 11) = Fields(m, 11)
    BY <2>7
  <2> QED BY <2>2, <2>5, <2>6, <2>8 DEF SaysEvent, HasEvent
<1>3. a \o b \in Bytes
  BY <1>1, Parts
<1> QED BY <1>2, <1>3 DEF Packet1

\* A field of a trace that is a packet without an event, or with one.
QuietPacket(f) == f.id = 1 /\ WellFormed(Parse(f.bytes)) /\ Fields(Parse(f.bytes), 11) = <<>>
EventPacket(f, id, type) ==
  /\ f.id = 1 /\ WellFormed(Parse(f.bytes))
  /\ Fields(Parse(f.bytes), 10) = <<NumberField(10, id)>> /\ HasEvent(Parse(f.bytes), type)

AllQuiet(ps) == \A i \in 1 .. Len(ps) : QuietPacket(ps[i])
Quiet(out) == out \in Bytes /\ (Len(out) < Long => \E ps : Codes(out, ps) /\ AllQuiet(ps))

SaysTold(out, id, type, ps, f) ==
  Codes(out, ps \o <<f>>) /\ ps \in Seq(Field) /\ f \in Field /\ AllQuiet(ps) /\ EventPacket(f, id, type)
Told(out, id, type) == out \in Bytes /\ (Len(out) < Long => \E ps, f : SaysTold(out, id, type, ps, f))

LEMMA WithinWellFormed ==
  ASSUME NEW m \in Seq(Field), NEW S, 0 \notin S, Within(m, S)
  PROVE  WellFormed(m)
<1>1. ASSUME NEW i \in DOMAIN m PROVE m[i] # Malformed
  <2>1. i \in 1 .. Len(m)
    BY LenProperties
  <2>2. m[i].id \in S
    BY <2>1 DEF Within
  <2>3. Malformed.id = 0
    BY DEF Malformed
  <2> QED BY <2>2, <2>3
<1> QED BY <1>1 DEF WellFormed

\* Packets, and traces of them, say something.
LEMMA PacketWell ==
  ASSUME NEW q, NEW id, NEW type, Packet0(q, id) \/ Packet1(q, id, type)
  PROVE  Valid(q) /\ (Len(q) < Long => WellFormed(Parse(q)))
<1>1. q \in Bytes
  BY DEF Packet0, Packet1, Keyed
<1>2. ASSUME Len(q) < Long PROVE \E m : Codes(q, m) /\ WellFormed(Parse(q))
  <2>1. PICK m : Codes(q, m) /\ Within(m, QuietIds \cup {10, 11})
    <3>1. CASE Packet0(q, id)
      <4>1. PICK m : SaysOne(q, QuietIds, 10, id, m)
        BY <1>2, <3>1 DEF Packet0, Keyed
      <4>2. Within(m, QuietIds \cup {10, 11})
        BY <4>1, WithinMore DEF SaysOne
      <4> QED BY <4>1, <4>2 DEF SaysOne
    <3>2. CASE Packet1(q, id, type)
      <4>1. PICK m : SaysEvent(q, id, type, m)
        BY <1>2, <3>2 DEF Packet1
      <4> QED BY <4>1 DEF SaysEvent
    <3> QED BY <3>1, <3>2
  <2>2. Parse(q) = m /\ m \in Seq(Field)
    BY <2>1, CodesParse DEF Codes
  <2>3. WellFormed(m)
    BY <2>1, <2>2, Numbers, WithinWellFormed
  <2> QED BY <2>1, <2>2, <2>3
<1> QED BY <1>1, <1>2 DEF Valid

LEMMA QuietValid ==
  ASSUME NEW out, Quiet(out)
  PROVE  Valid(out)
BY DEF Quiet, Valid

LEMMA QuietNothing == Quiet(<<>>)
<1>1. AllQuiet(<<>>)
  BY DEF AllQuiet
<1> QED BY <1>1, CodesNothing, EmptySeq DEF Quiet, Bytes

LEMMA QuietMore ==
  ASSUME NEW out, NEW q, NEW id, Quiet(out), Packet0(q, id)
  PROVE  Quiet(out \o Message(1, q))
<1>1. out \in Bytes /\ q \in Bytes /\ 1 \in Ids
  BY Numbers DEF Quiet, Packet0, Keyed
<1>2. PICK e \in Bytes : e = Message(1, q) /\ (Len(e) < Long => Len(q) < Long)
  BY <1>1, MessageBytes
<1>3. ASSUME Len(out \o e) < Long PROVE \E ps : Codes(out \o e, ps) /\ AllQuiet(ps)
  <2>1. Len(out) < Long /\ Len(q) < Long
    BY <1>1, <1>2, <1>3, Parts
  <2>2. PICK ps : Codes(out, ps) /\ AllQuiet(ps)
    BY <2>1 DEF Quiet
  <2>3. PICK m : SaysOne(q, QuietIds, 10, id, m)
    BY <2>1 DEF Packet0, Keyed
  <2>4. PICK f \in Field : f = BytesField(1, q)
    BY <1>1, FieldsTyped
  <2>5. Codes(e, <<f>>)
    BY <1>1, <1>2, <2>1, <2>4, MessageCodes
  <2>6. f.id = 1 /\ f.bytes = q
    BY <2>4 DEF BytesField
  <2>7. Parse(q) = m /\ m \in Seq(Field) /\ Within(m, QuietIds \cup {10})
    BY <2>3, CodesParse DEF SaysOne, Codes
  <2>8. WellFormed(m)
    BY <2>7, Numbers, WithinWellFormed
  <2>9. Fields(m, 11) = <<>>
    <3>1. \A i \in 1 .. Len(m) : m[i].id # 11
      BY <2>7, Numbers DEF Within
    <3> QED BY <2>7, <3>1, FieldsNone
  <2>10. QuietPacket(f)
    BY <2>6, <2>7, <2>8, <2>9 DEF QuietPacket
  <2>11. Codes(out \o e, ps \o <<f>>)
    BY <2>2, <2>5, CodesBoth
  <2>12. AllQuiet(ps \o <<f>>)
    <3>1. ps \in Seq(Field) /\ <<f>> \in Seq(Field)
      BY <2>2, <2>5 DEF Codes
    <3>2. PICK c : c = ps \o <<f>>
      OBVIOUS
    <3>3. PICK n \in Nat : n = Len(ps)
      BY <3>1, LenProperties
    <3>4. Len(c) = n + 1 /\ \A i \in 1 .. n + 1 : c[i] = IF i <= n THEN ps[i] ELSE f
      BY <3>1, <3>2, <3>3
    <3>5. ASSUME NEW i \in 1 .. Len(c) PROVE QuietPacket(c[i])
      <4>1. CASE i <= n
        BY <2>2, <3>3, <3>4, <4>1 DEF AllQuiet
      <4>2. CASE ~(i <= n)
        BY <2>10, <3>4, <4>2
      <4> QED BY <4>1, <4>2
    <3> QED BY <3>2, <3>5 DEF AllQuiet
  <2> QED BY <2>11, <2>12
<1>4. out \o e \in Bytes
  BY <1>1, Parts
<1> QED BY <1>2, <1>3, <1>4 DEF Quiet

LEMMA ToldAtLast ==
  ASSUME NEW out, NEW q, NEW id, NEW type, Quiet(out), Packet1(q, id, type)
  PROVE  Told(out \o Message(1, q), id, type)
<1>1. out \in Bytes /\ q \in Bytes /\ 1 \in Ids
  BY Numbers DEF Quiet, Packet1
<1>2. PICK e \in Bytes : e = Message(1, q) /\ (Len(e) < Long => Len(q) < Long)
  BY <1>1, MessageBytes
<1>3. ASSUME Len(out \o e) < Long PROVE \E ps, f : SaysTold(out \o e, id, type, ps, f)
  <2>1. Len(out) < Long /\ Len(q) < Long
    BY <1>1, <1>2, <1>3, Parts
  <2>2. PICK ps : Codes(out, ps) /\ AllQuiet(ps)
    BY <2>1 DEF Quiet
  <2>3. PICK m : SaysEvent(q, id, type, m)
    BY <2>1 DEF Packet1
  <2>4. PICK f \in Field : f = BytesField(1, q)
    BY <1>1, FieldsTyped
  <2>5. Codes(e, <<f>>)
    BY <1>1, <1>2, <2>1, <2>4, MessageCodes
  <2>6. f.id = 1 /\ f.bytes = q
    BY <2>4 DEF BytesField
  <2>7. Parse(q) = m /\ m \in Seq(Field) /\ Within(m, QuietIds \cup {10, 11})
    BY <2>3, CodesParse DEF SaysEvent, Codes
  <2>8. WellFormed(m)
    BY <2>7, Numbers, WithinWellFormed
  <2>10. EventPacket(f, id, type)
    BY <2>3, <2>6, <2>7, <2>8 DEF EventPacket, SaysEvent
  <2>11. Codes(out \o e, ps \o <<f>>)
    BY <2>2, <2>5, CodesBoth
  <2> QED BY <2>2, <2>10, <2>11 DEF SaysTold, Codes
<1>4. out \o e \in Bytes
  BY <1>1, Parts
<1> QED BY <1>2, <1>3, <1>4 DEF Told

-----------------------------------------------------------------------------
(* Buffers: a packet is the tag of a packet, the four bytes of its length,   *)
(* right or stale, and what it says; a prefix of it is kept.                 *)

RootLen == Len(Tag(1, 2)) + LenBytes
Headed(buf, q) == q \in Bytes /\ \E z \in Bytes : Len(z) = LenBytes /\ buf = (Tag(1, 2) \o z) \o q

PrefixBytes(id) == VarintField(10, id) \o VarintField(13, 2)
PrefixLen(id) == RootLen + Len(PrefixBytes(id))
After(buf, p) == \E r \in Bytes : Headed(buf, p \o r)
Framed(s, buf) ==
  s.prefix # 0 =>
    s.started /\ s.root = RootLen /\ s.prefix = PrefixLen(s.id) /\ After(buf, PrefixBytes(s.id))

LEMMA RootTag == Tag(1, 2) \in Bytes /\ Len(Tag(1, 2)) \in Nat /\ RootLen \in Nat
<1>1. Tag(1, 2) \in Bytes
  BY TagBytes
<1>2. Len(Tag(1, 2)) \in Nat
  BY <1>1, LenProperties DEF Bytes
<1> QED BY <1>1, <1>2 DEF RootLen, LenBytes

LEMMA HeadedBytes ==
  ASSUME NEW buf, NEW q, Headed(buf, q)
  PROVE  buf \in Bytes /\ q \in Bytes
<1>1. PICK z \in Bytes : buf = (Tag(1, 2) \o z) \o q
  BY DEF Headed
<1>2. Tag(1, 2) \o z \in Bytes
  BY RootTag, Parts
<1> QED BY <1>1, <1>2, Parts DEF Headed

LEMMA HeadedMore ==
  ASSUME NEW buf, NEW q, NEW b \in Bytes, Headed(buf, q)
  PROVE  Headed(buf \o b, q \o b)
<1>1. PICK z \in Bytes : Len(z) = LenBytes /\ buf = (Tag(1, 2) \o z) \o q
  BY DEF Headed
<1>2. PICK h \in Bytes : h = Tag(1, 2) \o z
  BY RootTag, Parts
<1>3. q \in Bytes
  BY DEF Headed
<1>4. (h \o q) \o b = h \o (q \o b)
  BY <1>3, BytesAssociative
<1>5. q \o b \in Bytes
  BY <1>3, Parts
<1> QED BY <1>1, <1>2, <1>4, <1>5 DEF Headed

LEMMA HeadedFinish ==
  ASSUME NEW buf, NEW q, Headed(buf, q)
  PROVE  Finish(buf, RootLen) = Message(1, q) /\ Headed(Message(1, q), q)
<1>1. PICK z \in Bytes : Len(z) = LenBytes /\ buf = (Tag(1, 2) \o z) \o q
  BY DEF Headed
<1>2. q \in Bytes /\ 1 \in Ids
  BY Numbers DEF Headed
<1>3. PICK t \in Bytes : t = Tag(1, 2)
  BY RootTag
<1>4. Finish((t \o z) \o q, Len(t) + LenBytes) = (t \o Redundant(Len(q), LenBytes)) \o q
  BY <1>1, <1>2, FinishIs
<1>5. Message(1, q) = (t \o Redundant(Len(q), LenBytes)) \o q
  BY <1>2, <1>3, MessageIs
<1>6. Redundant(Len(q), LenBytes) \in Bytes /\ Len(Redundant(Len(q), LenBytes)) = LenBytes
  BY <1>2, ShortFacts
<1>7. Headed(Message(1, q), q)
  BY <1>2, <1>3, <1>5, <1>6 DEF Headed
<1> QED BY <1>1, <1>3, <1>4, <1>5, <1>7 DEF RootLen

LEMMA HeadedBegin ==
  Headed(Begin(<<>>, 1), <<>>) /\ Token(Begin(<<>>, 1)) = RootLen
<1>1. <<>> \in Bytes /\ Len(<<>>) = 0 /\ 1 \in Ids
  BY Numbers, EmptySeq DEF Bytes
<1>2. PICK t \in Bytes : t = Tag(1, 2)
  BY RootTag
<1>3. <<>> \o t = t
  BY ConcatEmptySeq DEF Bytes
<1>4. Begin(<<>>, 1) = t \o Room
  BY <1>2, <1>3 DEF Begin, Room
<1>5. t \o Room \in Bytes
  BY RoomFacts, Parts
<1>6. (t \o Room) \o <<>> = t \o Room
  BY <1>5, ConcatEmptySeq DEF Bytes
<1>7. Headed(Begin(<<>>, 1), <<>>)
  BY <1>1, <1>2, <1>4, <1>6, RoomFacts DEF Headed
<1>8. Len(t \o Room) = Len(t) + Len(Room)
  BY RoomFacts, Shifted
<1>9. Token(Begin(<<>>, 1)) = RootLen
  BY <1>2, <1>4, <1>8, RoomFacts DEF Token, RootLen
<1> QED BY <1>7, <1>9

\* What is left of a buffer cut to its prefix.
LEMMA HeadedCut ==
  ASSUME NEW buf, NEW p \in Bytes, After(buf, p)
  PROVE  Headed(SubSeq(buf, 1, RootLen + Len(p)), p)
<1>1. PICK r \in Bytes : Headed(buf, p \o r)
  BY DEF After
<1>2. PICK z \in Bytes : Len(z) = LenBytes /\ buf = (Tag(1, 2) \o z) \o (p \o r)
  BY <1>1 DEF Headed
<1>3. PICK h \in Bytes : h = Tag(1, 2) \o z
  BY RootTag, Parts
<1>4. PICK b \in Bytes : b = h \o p
  BY Parts
<1>5. buf = b \o r
  <2>1. buf = h \o (p \o r)
    BY <1>2, <1>3
  <2>2. (h \o p) \o r = h \o (p \o r)
    BY BytesAssociative
  <2> QED BY <1>4, <2>1, <2>2
<1>6. Len(h) = Len(Tag(1, 2)) + Len(z)
  BY <1>3, RootTag, Shifted
<1>7. Len(b) = RootLen + Len(p) /\ Len(b) \in Nat
  <2>1. Len(b) = Len(h) + Len(p) /\ Len(h) \in Nat /\ Len(p) \in Nat
    BY <1>4, Shifted
  <2> QED BY <1>2, <1>6, <2>1, RootTag DEF RootLen
<1>8. SubSeq(b \o r, 1, Len(b)) = b
  <2>1. CASE Len(b) = 0
    <3>1. b = <<>>
      BY <2>1, EmptySeq DEF Bytes
    <3> QED BY <2>1, <3>1, SubSeqEmpty
  <2>2. CASE Len(b) # 0
    <3>1. 1 \in 1 .. Len(b) /\ Len(b) \in 1 .. Len(b)
      BY <1>7, <2>2
    <3> QED BY <3>1, SubSeqOfConcat1, SubSeqFull DEF Bytes
  <2> QED BY <2>1, <2>2
<1>9. Headed(b, p)
  BY <1>2, <1>3, <1>4 DEF Headed
<1> QED BY <1>5, <1>7, <1>8, <1>9

LEMMA AfterMore ==
  ASSUME NEW buf, NEW p \in Bytes, NEW b \in Bytes, After(buf, p)
  PROVE  After(buf \o b, p)
<1>1. PICK r \in Bytes : Headed(buf, p \o r)
  BY DEF After
<1>2. Headed(buf \o b, (p \o r) \o b)
  BY <1>1, HeadedMore
<1>3. (p \o r) \o b = p \o (r \o b) /\ r \o b \in Bytes
  BY BytesAssociative, Parts
<1> QED BY <1>2, <1>3 DEF After

LEMMA AfterFinish ==
  ASSUME NEW buf, NEW p, After(buf, p)
  PROVE  After(Finish(buf, RootLen), p)
<1>1. PICK r \in Bytes : Headed(buf, p \o r)
  BY DEF After
<1> QED BY <1>1, HeadedFinish DEF After

LEMMA HeadedAfter ==
  ASSUME NEW buf, NEW p, Headed(buf, p)
  PROVE  After(buf, p)
<1>1. p \in Bytes /\ <<>> \in Bytes
  BY EmptySeq DEF Headed, Bytes
<1>2. p \o <<>> = p
  BY <1>1, ConcatEmptySeq DEF Bytes
<1> QED BY <1>1, <1>2 DEF After

LEMMA PrefixSays ==
  ASSUME NEW id \in Word
  PROVE  /\ Packet0(PrefixBytes(id), id) /\ PrefixBytes(id) \in Bytes /\ PrefixLen(id) \in Nat
         /\ Len(PrefixBytes(id)) \in Nat
<1>1. id \in Nat /\ id < Words /\ 2 \in Nat /\ 2 < Words
  BY WordFacts DEF Word
<1>2. 10 \in Ids /\ 13 \in Ids /\ 13 \in QuietIds /\ 10 \notin QuietIds
  BY Numbers DEF QuietIds
<1>3. Keyed(VarintField(10, id), QuietIds, 10, id)
  BY <1>1, <1>2, KeyedOne
<1>4. Adds(VarintField(13, 2), QuietIds)
  BY <1>1, <1>2, AddsVarint
<1>5. Packet0(PrefixBytes(id), id)
  BY <1>2, <1>3, <1>4, KeyedMore DEF Packet0, PrefixBytes
<1>6. PrefixBytes(id) \in Bytes
  BY <1>5 DEF Packet0, Keyed
<1>7. Len(PrefixBytes(id)) \in Nat
  BY <1>6, LenProperties DEF Bytes
<1> QED BY <1>5, <1>6, <1>7, RootTag DEF PrefixLen

-----------------------------------------------------------------------------
(* What a callback works on.                                                *)

Tables == {"event", "note", "category"}
Used(map) == {a \in Addresses : map[a] # 0}
Interners ==
  {n \in [map : [Addresses -> Nat], next : Nat, lastKey : Addresses \cup {0}, lastIid : Nat] :
     /\ n.next <= 1 + Cardinality(Used(n.map))
     /\ n.lastIid <= n.next /\ \A a \in Addresses : n.map[a] <= n.next}
FreshEntries == [table : Tables \cup {"value", "location"}, iid : Nat, text : Bytes, line : Nat]
Located == {l \in Seq(Sites) : \A i, j \in 1 .. Len(l) : l[i] = l[j] => i = j}
SeqStates ==
  [id : Word, thread : Word, anchor : Nat, last : Nat, prefix : Nat, root : Nat,
   initialized : BOOLEAN, started : BOOLEAN, names : [Tables -> Interners],
   levelName : BOOLEAN, levels : SUBSET (1 .. 5), locations : Located,
   counters : [Addresses -> Word], fresh : Seq(FreshEntries), scratch : Bytes]
Inners ==
  [uuid : Word, sequence : Word, tid : Word, process : Word, described : BOOLEAN,
   counters : [Addresses -> Word], flow : Word]
Calls ==
  [seq : SeqStates, inner : Inners, buf : Bytes, root : Nat, event : Nat, out : Bytes,
   samples : Nat, named : BOOLEAN]

LEMMA UsedFacts ==
  ASSUME NEW map
  PROVE  /\ IsFiniteSet(Used(map)) /\ Cardinality(Used(map)) \in Nat
         /\ Cardinality(Used(map)) + 2 < Words
<1>1. IsFiniteSet(Addresses) /\ Cardinality(Addresses) + 2 < Words
  BY SequenceAssumption DEF Fewer
<1>2. Used(map) \in SUBSET Addresses
  BY DEF Used
<1>3. Cardinality(Addresses) \in Nat
  BY <1>1, FS_CardinalityType
<1>4. IsFiniteSet(Used(map)) /\ Cardinality(Used(map)) <= Cardinality(Addresses)
  BY <1>1, <1>2, FS_Subset
<1>5. Cardinality(Used(map)) \in Nat
  BY <1>4, FS_CardinalityType
<1> QED BY <1>1, <1>3, <1>4, <1>5, WordFacts

\* There are fewer numbers of strings than words.
LEMMA IidFits ==
  ASSUME NEW n \in Interners
  PROVE  n.lastIid \in Nat /\ n.lastIid < Words
<1>1. n.next <= 1 + Cardinality(Used(n.map)) /\ n.lastIid <= n.next /\ n.lastIid \in Nat /\ n.next \in Nat
  BY DEF Interners
<1>2. PICK u \in Nat : u = Cardinality(Used(n.map)) /\ u + 2 < Words
  BY UsedFacts
<1> QED BY <1>1, <1>2, WordFacts

\* A string that is found, and one that is new.
LEMMA InternerHit ==
  ASSUME NEW n \in Interners, NEW key \in Addresses
  PROVE  [n EXCEPT !.lastKey = key, !.lastIid = n.map[key]] \in Interners
<1>1. n.map[key] \in Nat /\ n.map[key] <= n.next
  BY DEF Interners
<1> QED BY <1>1 DEF Interners

LEMMA InternerMiss ==
  ASSUME NEW n \in Interners, NEW key \in Addresses, n.map[key] = 0
  PROVE  /\ n.next + 1 \in Nat
         /\ [map |-> [n.map EXCEPT ![key] = n.next + 1], next |-> n.next + 1,
             lastKey |-> key, lastIid |-> n.next + 1] \in Interners
<1>1. n.map \in [Addresses -> Nat] /\ n.next \in Nat /\ n.next <= 1 + Cardinality(Used(n.map))
      /\ \A a \in Addresses : n.map[a] <= n.next
  BY DEF Interners
<1>2. PICK map : map = [n.map EXCEPT ![key] = n.next + 1]
  OBVIOUS
<1>3. PICK k \in Nat : k = n.next + 1
  BY <1>1
<1>4. map \in [Addresses -> Nat] /\ \A a \in Addresses : map[a] = IF a = key THEN k ELSE n.map[a]
  BY <1>1, <1>2, <1>3
<1>5. \A a \in Addresses : map[a] <= k
  BY <1>1, <1>3, <1>4
<1>6. Used(map) = Used(n.map) \cup {key} /\ key \notin Used(n.map)
  BY <1>1, <1>3, <1>4 DEF Used
<1>7. Cardinality(Used(map)) = Cardinality(Used(n.map)) + 1
  BY <1>6, UsedFacts, FS_AddElement
<1>8. k <= 1 + Cardinality(Used(map))
  BY <1>1, <1>3, <1>7, UsedFacts
<1>9. [map |-> map, next |-> k, lastKey |-> key, lastIid |-> k] \in Interners
  BY <1>3, <1>4, <1>5, <1>8 DEF Interners
<1> QED BY <1>2, <1>3, <1>9

\* There are fewer callsites than words.
LEMMA LocationFits ==
  ASSUME NEW l \in Located
  PROVE  Len(l) \in Nat /\ Len(l) + 2 < Words
<1>1. l \in Seq(Sites) /\ Len(l) \in Nat
  BY LenProperties DEF Located
<1>2. IsFiniteSet(Sites) /\ Cardinality(Sites) + 2 < Words
  BY SequenceAssumption DEF Fewer
<1>3. l \in [1 .. Len(l) -> Sites]
  BY <1>1, LenProperties
<1>4. l \in Injection(1 .. Len(l), Sites)
  BY <1>1, <1>3 DEF Injection, IsInjective, Located
<1>5. Cardinality(1 .. Len(l)) <= Cardinality(Sites)
  BY <1>2, <1>4, FS_Injection
<1>6. Cardinality(1 .. Len(l)) = Len(l)
  BY <1>1, FS_Interval
<1>7. Cardinality(Sites) \in Nat
  BY <1>2, FS_CardinalityType
<1> QED BY <1>1, <1>2, <1>5, <1>6, <1>7, WordFacts

LEMMA LocatedMore ==
  ASSUME NEW l \in Located, NEW x \in Sites, ~Contains(l, x)
  PROVE  Append(l, x) \in Located
<1>1. l \in Seq(Sites) /\ Len(l) \in Nat /\ DOMAIN l = 1 .. Len(l)
  BY LenProperties DEF Located
<1>2. PICK n \in Nat : n = Len(l)
  BY <1>1
<1>3. PICK m : m = Append(l, x)
  OBVIOUS
<1>4. m \in Seq(Sites) /\ Len(m) = n + 1 /\ m[n + 1] = x /\ \A i \in 1 .. n : m[i] = l[i]
  BY <1>1, <1>2, <1>3, AppendProperties
<1>5. \A i \in 1 .. n : l[i] # x
  BY <1>1, <1>2 DEF Contains
<1>6. ASSUME NEW i \in 1 .. Len(m), NEW j \in 1 .. Len(m), m[i] = m[j] PROVE i = j
  <2>1. i \in 1 .. n \/ i = n + 1
    BY <1>4
  <2>2. j \in 1 .. n \/ j = n + 1
    BY <1>4
  <2> QED BY <1>2, <1>4, <1>5, <1>6, <2>1, <2>2 DEF Located
<1> QED BY <1>3, <1>4, <1>6 DEF Located

-----------------------------------------------------------------------------
(* Interning changes the tables of the sequence and what is pending for the  *)
(* packet, and nothing its packets are framed by.                           *)

SameFrame(s, o) ==
  /\ s.id = o.id /\ s.anchor = o.anchor /\ s.last = o.last /\ s.prefix = o.prefix
  /\ s.root = o.root /\ s.started = o.started /\ s.scratch = o.scratch
  /\ s.initialized = o.initialized
Reseq(c, d) == \E s \in SeqStates : SameFrame(s, c.seq) /\ d = [c EXCEPT !.seq = s]

LEMMA ReseqCall ==
  ASSUME NEW c \in Calls, NEW d, Reseq(c, d)
  PROVE  /\ d \in Calls /\ SameFrame(d.seq, c.seq) /\ d.buf = c.buf /\ d.root = c.root
         /\ d.event = c.event /\ d.out = c.out
<1>1. PICK s \in SeqStates : SameFrame(s, c.seq) /\ d = [c EXCEPT !.seq = s]
  BY DEF Reseq
<1> QED BY <1>1 DEF Calls

LEMMA ReseqNone ==
  ASSUME NEW c \in Calls
  PROVE  Reseq(c, c)
<1>1. c = [c EXCEPT !.seq = c.seq] /\ c.seq \in SeqStates
  BY DEF Calls
<1> QED BY <1>1 DEF Reseq, SameFrame

LEMMA ReseqBoth ==
  ASSUME NEW c \in Calls, NEW d, NEW e, Reseq(c, d), Reseq(d, e)
  PROVE  Reseq(c, e)
<1>1. PICK s \in SeqStates : SameFrame(s, c.seq) /\ d = [c EXCEPT !.seq = s]
  BY DEF Reseq
<1>2. PICK r \in SeqStates : SameFrame(r, d.seq) /\ e = [d EXCEPT !.seq = r]
  BY DEF Reseq
<1>3. d.seq = s
  BY <1>1 DEF Calls
<1>4. e = [c EXCEPT !.seq = r]
  BY <1>1, <1>2 DEF Calls
<1>5. SameFrame(r, c.seq)
  BY <1>1, <1>2, <1>3 DEF SameFrame
<1> QED BY <1>4, <1>5 DEF Reseq

\* One interner is another's, and an entry may be pending.
WithNames(c, table, n, fresh) ==
  [c EXCEPT !.seq = [c.seq EXCEPT !.names = [c.seq.names EXCEPT ![table] = n], !.fresh = fresh]]

LEMMA NamesReseq ==
  ASSUME NEW c \in Calls, NEW table \in Tables, NEW n \in Interners, NEW fresh \in Seq(FreshEntries)
  PROVE  /\ Reseq(c, WithNames(c, table, n, fresh))
         /\ WithNames(c, table, n, fresh).seq.names[table] = n
<1>1. c.seq \in SeqStates
  BY DEF Calls
<1>2. PICK names \in [Tables -> Interners] : names = [c.seq.names EXCEPT ![table] = n]
  BY <1>1 DEF SeqStates
<1>3. PICK s : s = [c.seq EXCEPT !.names = names, !.fresh = fresh]
  OBVIOUS
<1>4. s \in SeqStates /\ SameFrame(s, c.seq) /\ s.names = names
  BY <1>1, <1>3 DEF SeqStates, SameFrame
<1>5. WithNames(c, table, n, fresh) = [c EXCEPT !.seq = s]
  BY <1>2, <1>3 DEF WithNames
<1>6. [c EXCEPT !.seq = s].seq = s
  BY DEF Calls
<1>7. names[table] = n
  BY <1>1, <1>2 DEF SeqStates
<1> QED BY <1>4, <1>5, <1>6, <1>7 DEF Reseq

LEMMA InternDone ==
  ASSUME NEW c \in Calls, NEW table \in Tables, NEW key \in Addresses
  PROVE  /\ Reseq(c, Intern(c, table, key))
         /\ Iid(Intern(c, table, key), table) \in Nat /\ Iid(Intern(c, table, key), table) < Words
<1>1. c.seq \in SeqStates /\ c.seq.names \in [Tables -> Interners] /\ c.seq.fresh \in Seq(FreshEntries)
  BY DEF Calls, SeqStates
<1>2. PICK n \in Interners : n = c.seq.names[table]
  BY <1>1
<1>3. CASE n.lastKey = key
  <2>1. Intern(c, table, key) = c
    BY <1>2, <1>3 DEF Intern
  <2>2. Iid(c, table) = n.lastIid
    BY <1>2 DEF Iid
  <2> QED BY <2>1, <2>2, ReseqNone, IidFits
<1>4. CASE n.lastKey # key /\ n.map[key] # 0
  <2>1. PICK m \in Interners : m = [n EXCEPT !.lastKey = key, !.lastIid = n.map[key]]
    BY InternerHit
  <2>2. Hit(c, table, key) = WithNames(c, table, m, c.seq.fresh)
    <3>1. PICK v \in Nat : v = n.map[key]
      BY DEF Interners
    <3>2. Hit(c, table, key) = [[c EXCEPT !.seq.names[table].lastKey = key]
                                 EXCEPT !.seq.names[table].lastIid = v]
      BY <1>2, <3>1, Zenon DEF Hit
    <3>3. PICK k \in Interners : k = [n EXCEPT !.lastKey = key]
      BY DEF Interners
    <3>4. PICK names \in [Tables -> Interners] : names = [c.seq.names EXCEPT ![table] = k]
      BY <1>1
    <3>5. PICK s \in SeqStates : s = [c.seq EXCEPT !.names = names]
      BY <1>1 DEF SeqStates
    <3>6. [c EXCEPT !.seq.names[table].lastKey = key] = [c EXCEPT !.seq = s]
      BY <1>1, <1>2, <3>3, <3>4, <3>5
    <3>7. PICK d \in Calls : d = [c EXCEPT !.seq = s]
      BY DEF Calls
    <3>8. d.seq = s /\ d.seq.names = names /\ d.seq.names[table] = k
      BY <1>1, <3>4, <3>5, <3>7 DEF Calls, SeqStates
    <3>9. m = [k EXCEPT !.lastIid = v]
      BY <2>1, <3>1, <3>3 DEF Interners
    <3>10. [d EXCEPT !.seq.names[table].lastIid = v]
             = [d EXCEPT !.seq = [s EXCEPT !.names = [names EXCEPT ![table] = m]]]
      BY <3>8, <3>9
    <3>11. [names EXCEPT ![table] = m] = [c.seq.names EXCEPT ![table] = m]
      BY <1>1, <3>4
    <3>12. [s EXCEPT !.names = [c.seq.names EXCEPT ![table] = m]]
             = [c.seq EXCEPT !.names = [c.seq.names EXCEPT ![table] = m], !.fresh = c.seq.fresh]
      BY <1>1, <3>5 DEF SeqStates
    <3>13. [d EXCEPT !.seq = [s EXCEPT !.names = [c.seq.names EXCEPT ![table] = m]]]
             = WithNames(c, table, m, c.seq.fresh)
      BY <3>7, <3>12 DEF Calls, WithNames
    <3> QED BY <3>2, <3>6, <3>7, <3>10, <3>11, <3>13
  <2>3. Intern(c, table, key) = Hit(c, table, key)
    BY <1>2, <1>4 DEF Intern
  <2>4. Reseq(c, WithNames(c, table, m, c.seq.fresh)) /\ WithNames(c, table, m, c.seq.fresh).seq.names[table] = m
    BY <1>1, NamesReseq
  <2> QED BY <2>2, <2>3, <2>4, IidFits DEF Iid
<1>5. CASE n.lastKey # key /\ n.map[key] = 0
  <2>1. PICK k \in Nat : k = n.next + 1
    BY <1>5, InternerMiss
  <2>2. PICK m \in Interners : m = [map |-> [n.map EXCEPT ![key] = k], next |-> k,
                                    lastKey |-> key, lastIid |-> k]
    BY <1>5, <2>1, InternerMiss
  <2>3. PICK e \in FreshEntries : e = [table |-> table, iid |-> k, text |-> Static[key], line |-> 0]
    <3>1. Static[key] \in Bytes
      BY SequenceAssumption
    <3> QED BY <3>1 DEF FreshEntries
  <2>4. PICK fresh \in Seq(FreshEntries) : fresh = Append(c.seq.fresh, e)
    BY <1>1, AppendProperties
  <2>5. Intern(c, table, key)
          = [c EXCEPT !.seq.names[table] = m, !.seq.fresh = fresh]
    <3>1. Intern(c, table, key)
            = [c EXCEPT
                !.seq.names[table] = [map |-> [n.map EXCEPT ![key] = n.next + 1],
                                      next |-> n.next + 1, lastKey |-> key, lastIid |-> n.next + 1],
                !.seq.fresh = Append(@, [table |-> table, iid |-> n.next + 1,
                                         text |-> Static[key], line |-> 0])]
      BY <1>2, <1>5, Zenon DEF Intern
    <3>2. [c EXCEPT !.seq.names[table] = m, !.seq.fresh = Append(@, e)]
            = [c EXCEPT !.seq.names[table] = m, !.seq.fresh = fresh]
      BY <1>1, <2>4 DEF Calls, SeqStates
    <3> QED BY <2>1, <2>2, <2>3, <3>1, <3>2
  <2>6. [c EXCEPT !.seq.names[table] = m, !.seq.fresh = fresh] = WithNames(c, table, m, fresh)
    BY <1>1 DEF WithNames, Calls, SeqStates
  <2>7. Reseq(c, WithNames(c, table, m, fresh)) /\ WithNames(c, table, m, fresh).seq.names[table] = m
    BY NamesReseq
  <2> QED BY <2>5, <2>6, <2>7, IidFits DEF Iid
<1> QED BY <1>3, <1>4, <1>5

Callsites == Events \cup SpanSites

LEMMA SiteFacts ==
  ASSUME NEW e \in Callsites
  PROVE  IsCallsite(e) /\ e.site \in Sites /\ Static[e.file] \in Bytes /\ e.line \in Nat
<1>1. IsCallsite(e)
  BY SequenceAssumption DEF Callsites
<1>2. e.file \in Addresses /\ e.line \in Nat
  BY <1>1, WordFacts DEF IsCallsite, Word
<1>3. e.site \in Sites
  BY DEF Sites, Callsites
<1> QED BY <1>1, <1>2, <1>3, SequenceAssumption

LEMMA LocateDone ==
  ASSUME NEW c \in Calls, NEW e \in Callsites
  PROVE  /\ Reseq(c, Locate(c, e))
         /\ LocationIid(Locate(c, e), e) \in Nat /\ LocationIid(Locate(c, e), e) < Words
<1>1. c.seq \in SeqStates /\ c.seq.locations \in Located /\ c.seq.fresh \in Seq(FreshEntries)
  BY DEF Calls, SeqStates
<1>2. PICK l \in Located : l = c.seq.locations
  BY <1>1
<1>3. l \in Seq(Sites) /\ Len(l) \in Nat /\ DOMAIN l = 1 .. Len(l)
  BY LenProperties DEF Located
<1>4. ASSUME NEW d \in Calls, Contains(d.seq.locations, e.site)
      PROVE  LocationIid(d, e) \in Nat /\ LocationIid(d, e) < Words
  <2>1. PICK k \in Located : k = d.seq.locations
    BY DEF Calls, SeqStates
  <2>2. k \in Seq(Sites) /\ Len(k) \in Nat /\ DOMAIN k = 1 .. Len(k) /\ Len(k) + 2 < Words
    BY LenProperties, LocationFits DEF Located
  <2>3. PICK i \in 1 .. Len(k) : k[i] = e.site
    BY <1>4, <2>1 DEF Contains
  <2>4. LocationIid(d, e) \in 1 .. Len(k)
    BY <2>1, <2>2, <2>3 DEF LocationIid
  <2> QED BY <2>2, <2>4, WordFacts
<1>5. CASE Contains(l, e.site)
  <2>1. Locate(c, e) = c
    BY <1>2, <1>5 DEF Locate
  <2> QED BY <1>2, <1>4, <1>5, <2>1, ReseqNone
<1>6. CASE ~Contains(l, e.site)
  <2>1. PICK m \in Located : m = Append(l, e.site)
    BY <1>6, LocatedMore, SiteFacts
  <2>2. PICK f \in FreshEntries : f = [table |-> "location", iid |-> Len(l) + 1,
                                       text |-> Static[e.file], line |-> e.line]
    <3>1. PICK text \in Bytes, line \in Nat : text = Static[e.file] /\ line = e.line
      BY SiteFacts
    <3>2. PICK k \in Nat : k = Len(l) + 1
      BY <1>3
    <3>3. [table |-> "location", iid |-> k, text |-> text, line |-> line] \in FreshEntries
      BY DEF FreshEntries
    <3> QED BY <3>1, <3>2, <3>3
  <2>3. PICK fresh \in Seq(FreshEntries) : fresh = Append(c.seq.fresh, f)
    BY <1>1, AppendProperties
  <2>4. PICK s : s = [c.seq EXCEPT !.locations = m, !.fresh = fresh]
    OBVIOUS
  <2>5. s \in SeqStates /\ SameFrame(s, c.seq) /\ s.locations = m
    BY <1>1, <2>4 DEF SeqStates, SameFrame
  <2>6. Locate(c, e) = [c EXCEPT !.seq.locations = m, !.seq.fresh = fresh]
    <3>1. Locate(c, e)
            = [c EXCEPT !.seq.locations = Append(@, e.site),
                        !.seq.fresh = Append(@, [table |-> "location", iid |-> Len(c.seq.locations) + 1,
                                                 text |-> Static[e.file], line |-> e.line])]
      BY <1>2, <1>6, Zenon DEF Locate
    <3> QED BY <1>1, <1>2, <2>1, <2>2, <2>3, <3>1 DEF Calls, SeqStates
  <2>7. Locate(c, e) = [c EXCEPT !.seq = s]
    BY <1>1, <2>4, <2>6 DEF Calls, SeqStates
  <2>8. Reseq(c, Locate(c, e)) /\ Locate(c, e).seq = s
    BY <2>5, <2>7 DEF Reseq, Calls
  <2>9. Contains(m, e.site)
    <3>1. Len(m) = Len(l) + 1 /\ m[Len(l) + 1] = e.site
      BY <1>3, <2>1, SiteFacts, AppendProperties
    <3> QED BY <1>3, <3>1 DEF Contains
  <2> QED BY <1>4, <2>5, <2>8, <2>9, ReseqCall
<1> QED BY <1>2, <1>5, <1>6

LEMMA LevelDone ==
  ASSUME NEW c \in Calls, NEW level \in 1 .. 5
  PROVE  Reseq(c, Level(c, level))
<1>1. PICK d : d = IF c.seq.levelName THEN c
                   ELSE [c EXCEPT !.seq.levelName = TRUE,
                                  !.seq.fresh = Append(@, [table |-> "note", iid |-> 1,
                                                           text |-> LevelName, line |-> 0])]
  OBVIOUS
<1>2. Level(c, level)
        = IF level \in d.seq.levels THEN d
          ELSE [d EXCEPT !.seq.levels = @ \cup {level},
                         !.seq.fresh = Append(@, [table |-> "value", iid |-> level,
                                                  text |-> LevelText[level], line |-> 0])]
  BY <1>1 DEF Level
<1>3. Reseq(c, d)
  <2>1. CASE c.seq.levelName
    BY <1>1, <2>1, ReseqNone
  <2>2. CASE ~c.seq.levelName
    <3>1. PICK f \in FreshEntries : f = [table |-> "note", iid |-> 1, text |-> LevelName, line |-> 0]
      BY SequenceAssumption DEF FreshEntries, Tables
    <3>2. c.seq \in SeqStates /\ c.seq.fresh \in Seq(FreshEntries)
      BY DEF Calls, SeqStates
    <3>3. PICK fresh \in Seq(FreshEntries) : fresh = Append(c.seq.fresh, f)
      BY <3>2, AppendProperties
    <3>4. PICK s : s = [c.seq EXCEPT !.levelName = TRUE, !.fresh = fresh]
      OBVIOUS
    <3>5. s \in SeqStates /\ SameFrame(s, c.seq)
      BY <3>2, <3>4 DEF SeqStates, SameFrame
    <3>6. d = [c EXCEPT !.seq = s]
      BY <1>1, <2>2, <3>1, <3>2, <3>3, <3>4 DEF Calls, SeqStates
    <3> QED BY <3>5, <3>6 DEF Reseq
  <2> QED BY <2>1, <2>2
<1>4. d \in Calls
  BY <1>3, ReseqCall
<1>5. Reseq(d, Level(c, level))
  <2>1. CASE level \in d.seq.levels
    BY <1>2, <1>4, <2>1, ReseqNone
  <2>2. CASE level \notin d.seq.levels
    <3>1. PICK f \in FreshEntries : f = [table |-> "value", iid |-> level, text |-> LevelText[level], line |-> 0]
      <4>1. PICK text \in Bytes : text = LevelText[level]
        BY SequenceAssumption
      <4>2. [table |-> "value", iid |-> level, text |-> text, line |-> 0] \in FreshEntries
        BY DEF FreshEntries
      <4> QED BY <4>1, <4>2
    <3>2. d.seq \in SeqStates /\ d.seq.fresh \in Seq(FreshEntries) /\ d.seq.levels \in SUBSET (1 .. 5)
      BY <1>4 DEF Calls, SeqStates
    <3>3. PICK fresh \in Seq(FreshEntries) : fresh = Append(d.seq.fresh, f)
      BY <3>2, AppendProperties
    <3>4. PICK s : s = [d.seq EXCEPT !.levels = d.seq.levels \cup {level}, !.fresh = fresh]
      OBVIOUS
    <3>5. s \in SeqStates /\ SameFrame(s, d.seq)
      BY <3>2, <3>4 DEF SeqStates, SameFrame
    <3>6. Level(c, level) = [d EXCEPT !.seq = s]
      BY <1>2, <1>4, <2>2, <3>1, <3>2, <3>3, <3>4 DEF Calls, SeqStates
    <3> QED BY <3>5, <3>6 DEF Reseq
  <2> QED BY <2>1, <2>2
<1> QED BY <1>3, <1>5, ReseqBoth

-----------------------------------------------------------------------------
(* The shared counters and flags.                                           *)

Renewed(c, d) == \E i \in Inners : d = [c EXCEPT !.inner = i]

LEMMA RenewedCall ==
  ASSUME NEW c \in Calls, NEW d, Renewed(c, d)
  PROVE  /\ d \in Calls /\ d.seq = c.seq /\ d.buf = c.buf /\ d.root = c.root
         /\ d.event = c.event /\ d.out = c.out /\ d.inner \in Inners
<1>1. PICK i \in Inners : d = [c EXCEPT !.inner = i]
  BY DEF Renewed
<1> QED BY <1>1 DEF Calls

LEMMA RenewedNone ==
  ASSUME NEW c \in Calls
  PROVE  Renewed(c, c)
<1>1. c = [c EXCEPT !.inner = c.inner] /\ c.inner \in Inners
  BY DEF Calls
<1> QED BY <1>1 DEF Renewed

LEMMA RenewedBoth ==
  ASSUME NEW c \in Calls, NEW d, NEW e, Renewed(c, d), Renewed(d, e)
  PROVE  Renewed(c, e)
<1>1. PICK i \in Inners : d = [c EXCEPT !.inner = i]
  BY DEF Renewed
<1>2. PICK j \in Inners : e = [d EXCEPT !.inner = j]
  BY DEF Renewed
<1>3. e = [c EXCEPT !.inner = j]
  BY <1>1, <1>2 DEF Calls
<1> QED BY <1>3 DEF Renewed

LEMMA UnsignedWord == \A x \in Int : Unsigned(x) \in Word /\ Unsigned(x) \in Nat /\ Unsigned(x) < Words
<1> TAKE x \in Int
<1>1. PICK w \in Nat : w = Words /\ w > 0
  BY WordFacts
<1>2. x % w \in Nat /\ x % w < w
  BY <1>1
<1> QED BY <1>1, <1>2 DEF Unsigned, Word

LEMMA WordIs == \A v : v \in Word <=> (v \in Nat /\ v < Words)
BY WordFacts DEF Word

LEMMA AllocDone ==
  ASSUME NEW c \in Calls
  PROVE  NewUuid(c) \in Word /\ NewUuid(c) # 0 /\ Renewed(c, Alloc(c))
<1>1. c.inner \in Inners /\ c.inner.uuid \in Word
  BY DEF Calls, Inners
<1>2. NewUuid(c) \in Word /\ NewUuid(c) # 0 /\ NewUuid(c) + 1 \in Int
  BY <1>1, WordFacts DEF NewUuid, Word
<1>3. PICK u \in Word : u = Unsigned(NewUuid(c) + 1)
  BY <1>2, UnsignedWord
<1>4. PICK i \in Inners : i = [c.inner EXCEPT !.uuid = u]
  BY <1>1 DEF Inners
<1>5. Alloc(c) = [c EXCEPT !.inner = i]
  BY <1>3, <1>4 DEF Alloc
<1> QED BY <1>2, <1>5 DEF Renewed

LEMMA ProcessTrackDone ==
  ASSUME NEW c \in Calls
  PROVE  Renewed(c, ProcessTrack(c))
<1>1. CASE c.inner.process # 0
  BY <1>1, RenewedNone DEF ProcessTrack
<1>2. CASE ~(c.inner.process # 0)
  <2>1. PICK d \in Calls : d = Alloc(c) /\ d.inner \in Inners /\ Renewed(c, d)
    BY AllocDone, RenewedCall
  <2>2. PICK u \in Word : u = NewUuid(c)
    BY AllocDone
  <2>3. PICK i \in Inners : i = [d.inner EXCEPT !.process = u]
    BY <2>1 DEF Inners
  <2>4. ProcessTrack(c) = [d EXCEPT !.inner = i]
    BY <1>2, <2>1, <2>2, <2>3 DEF ProcessTrack
  <2>5. Renewed(d, ProcessTrack(c))
    BY <2>4 DEF Renewed
  <2> QED BY <2>1, <2>5, RenewedBoth
<1> QED BY <1>1, <1>2

LEMMA CounterUuidDone ==
  ASSUME NEW c \in Calls, NEW name \in Addresses
  PROVE  Renewed(c, CounterUuid(c, name))
<1>1. CASE c.inner.counters[name] # 0
  BY <1>1, RenewedNone DEF CounterUuid
<1>2. CASE ~(c.inner.counters[name] # 0)
  <2>1. PICK d \in Calls : d = Alloc(c) /\ d.inner \in Inners /\ Renewed(c, d)
    BY AllocDone, RenewedCall
  <2>2. PICK u \in Word : u = NewUuid(c)
    BY AllocDone
  <2>3. PICK counters \in [Addresses -> Word] : counters = [d.inner.counters EXCEPT ![name] = u]
    BY <2>1 DEF Inners
  <2>4. PICK i \in Inners : i = [d.inner EXCEPT !.counters = counters]
    BY <2>1 DEF Inners
  <2>5. CounterUuid(c, name) = [d EXCEPT !.inner = i]
    BY <1>2, <2>1, <2>2, <2>3, <2>4 DEF CounterUuid
  <2>6. Renewed(d, CounterUuid(c, name))
    BY <2>5 DEF Renewed
  <2> QED BY <2>1, <2>6, RenewedBoth
<1> QED BY <1>1, <1>2

-----------------------------------------------------------------------------
(* The interned data of a packet.                                           *)

LEMMA VarintBytes ==
  ASSUME NEW id \in Nat, NEW v \in Nat
  PROVE  VarintField(id, v) \in Bytes
<1>1. Tag(id, 0) \in Bytes /\ Varint[v] \in Bytes
  BY TagBytes, VarintEquation
<1> QED BY <1>1, Parts DEF VarintField

LEMMA EntryBytes ==
  ASSUME NEW f \in FreshEntries
  PROVE  InternedEntry(f) \in Bytes
<1>1. Interned[f.table] \in Ids
  <2>1. {1, 2, 3, 4, 29} \subseteq Ids
    BY SmallIds
  <2>2. f.table \in {"event", "note", "category", "value", "location"}
    BY DEF FreshEntries, Tables
  <2> QED BY <2>1, <2>2 DEF Interned
<1>2. f.iid \in Nat /\ f.text \in Bytes /\ f.line \in Nat
  BY DEF FreshEntries
<1>3. PICK a \in Bytes : a = VarintField(Entry.iid, f.iid)
  BY <1>2, VarintBytes DEF Entry
<1>4. PICK b \in Bytes : b = StringField(Entry.text, f.text)
  BY <1>2, StringBytes DEF Entry
<1>5. PICK d \in Bytes : d = IF f.table = "location" THEN VarintField(Entry.line, f.line) ELSE <<>>
  <2>1. <<>> \in Bytes /\ VarintField(Entry.line, f.line) \in Bytes
    BY <1>2, VarintBytes, EmptySeq DEF Entry, Bytes
  <2> QED BY <2>1
<1>6. a \o b \in Bytes
  BY Parts
<1>7. (a \o b) \o d \in Bytes
  BY <1>6, Parts
<1>8. InternedEntry(f) = Message(Interned[f.table], (a \o b) \o d)
  BY <1>3, <1>4, <1>5, Zenon DEF InternedEntry
<1> QED BY <1>1, <1>7, <1>8, MessageBytes

\* The entries are written one after the other.
EntriesRun(h, fs) ==
  /\ h \in [0 .. Len(fs) -> Bytes] /\ h[0] = <<>> /\ h[Len(fs)] = Entries(fs)
  /\ \A i \in 1 .. Len(fs) : h[i] = (h[i - 1] \o InternedEntry(fs[i]))

LEMMA EntriesFold ==
  ASSUME NEW fs \in Seq(FreshEntries)
  PROVE  \E h : EntriesRun(h, fs)
<1> DEFINE n == Len(fs)
           G == [p \in Bytes \X (1 .. n) |-> (p[1] \o InternedEntry(fs[p[2]]))]
           Folds(f) == f = [u \in SUBSET (1 .. n) |->
                             IF u = {} THEN <<>> ELSE (f[u \ {Max(u)}] \o InternedEntry(fs[Max(u)]))]
<1>0. <<>> \in Bytes
  BY EmptySeq DEF Bytes
<1>1. n \in Nat /\ DOMAIN fs = 1 .. n /\ \A i \in 1 .. n : fs[i] \in FreshEntries
  BY LenProperties, ElementOfSeq
<1>2. \A a \in Bytes : \A x \in FreshEntries : (a \o InternedEntry(x)) \in Bytes
  <2> TAKE a \in Bytes
  <2> TAKE x \in FreshEntries
  <2> QED BY EntryBytes, Parts
<1>3. G \in [Bytes \X (1 .. n) -> Bytes]
  BY <1>1, <1>2
<1>4. PICK f \in [SUBSET (1 .. n) -> Bytes] :
        f = [u \in SUBSET (1 .. n) |-> IF u = {} THEN <<>> ELSE G[<<f[u \ {Max(u)}], Max(u)>>]]
  <2>1. PICK V : V = Bytes
    OBVIOUS
  <2>2. <<>> \in V /\ G \in [V \X (1 .. n) -> V]
    BY <1>0, <1>3, <2>1
  <2> HIDE DEF G, n
  <2>3. FoldsOver(V, <<>>, n, G)
    BY <1>1, <2>2, FoldOfSubsets
  <2> QED BY <2>1, <2>3 DEF FoldsOver
<1>5. Folds(f)
  <2>1. ASSUME NEW u \in SUBSET (1 .. n), u # {}
        PROVE  G[<<f[u \ {Max(u)}], Max(u)>>] = (f[u \ {Max(u)}] \o InternedEntry(fs[Max(u)]))
    <3>1. Max(u) \in 1 .. n /\ u \ {Max(u)} \in SUBSET (1 .. n)
      BY <1>1, <2>1, MaxOfRange
    <3> QED BY <3>1
  <2> HIDE DEF G, n
  <2> QED BY <1>4, <2>1
<1> DEFINE iter == CHOOSE g : Folds(g)
<1>6. Folds(iter)
  BY <1>5
<1>7. Entries(fs) = iter[1 .. n]
  BY <1>1 DEF Entries, FoldLeft, MapThenFoldSet
<1> HIDE DEF iter, G, n
<1> DEFINE h == [i \in 0 .. n |-> iter[1 .. i]]
<1>8. h[0] = <<>>
  <2>1. iter[1 .. 0] = <<>>
    BY <1>6, SubsetsOfNone
  <2> QED BY <1>1, <2>1
<1>9. ASSUME NEW i \in 1 .. n PROVE h[i] = (h[i - 1] \o InternedEntry(fs[i]))
  <2>1. 1 .. i \in SUBSET (1 .. n) /\ 1 .. i # {} /\ Max(1 .. i) = i /\ (1 .. i) \ {i} = 1 .. i - 1
        /\ i - 1 \in 0 .. n
    BY <1>1, RangesOf
  <2>2. iter[1 .. i] = (iter[(1 .. i) \ {Max(1 .. i)}] \o InternedEntry(fs[Max(1 .. i)]))
    <3> PICK u : u = 1 .. i
      OBVIOUS
    <3> QED BY <1>6, <2>1
  <2>3. h[i] = iter[1 .. i] /\ h[i - 1] = iter[1 .. i - 1]
    BY <2>1
  <2> HIDE DEF h
  <2> QED BY <2>1, <2>2, <2>3
<1>10. h[n] = Entries(fs)
  <2>1. h[n] = iter[1 .. n]
    BY <1>1
  <2> HIDE DEF h
  <2> QED BY <1>7, <2>1
<1>11. \A i \in 0 .. n : h[i] \in Bytes
  <2> DEFINE K == {k \in Nat : k <= n => h[k] \in Bytes}
  <2> HIDE DEF h
  <2>1. 0 \in K
    BY <1>0, <1>8
  <2>2. ASSUME NEW k \in K PROVE k + 1 \in K
    <3> SUFFICES ASSUME k + 1 <= n PROVE h[k + 1] \in Bytes
      OBVIOUS
    <3>1. PICK i \in 1 .. n : i = k + 1
      BY <1>1
    <3>2. h[i - 1] \in Bytes /\ fs[i] \in FreshEntries
      BY <1>1, <3>1
    <3> QED BY <1>2, <1>9, <3>1, <3>2
  <2>3. K = Nat
    <3>1. K \in SUBSET Nat
      OBVIOUS
    <3> HIDE DEF K
    <3> QED BY <2>1, <2>2, <3>1, Induction
  <2> QED BY <1>1, <2>3
<1>12. h \in [0 .. n -> Bytes]
  <2>1. h = [i \in 0 .. n |-> h[i]]
    OBVIOUS
  <2> HIDE DEF h
  <2> QED BY <1>11, <2>1
<1> HIDE DEF h
<1> QED BY <1>8, <1>9, <1>10, <1>12 DEF n, EntriesRun

LEMMA EntriesBytes ==
  ASSUME NEW fs \in Seq(FreshEntries)
  PROVE  Entries(fs) \in Bytes
<1>1. Len(fs) \in Nat
  BY LenProperties
<1>2. PICK h : EntriesRun(h, fs)
  BY EntriesFold
<1> QED BY <1>1, <1>2 DEF EntriesRun

LEMMA FreshAdds ==
  ASSUME NEW c \in Calls
  PROVE  Adds(Fresh(c), LaterIds)
<1>1. c.seq.fresh \in Seq(FreshEntries)
  BY DEF Calls, SeqStates
<1>2. Entries(c.seq.fresh) \in Bytes
  BY <1>1, EntriesBytes
<1>3. 12 \in LaterIds /\ 12 \in Ids /\ TracePacket.interned = 12
  BY LaterFacts DEF LaterIds, TracePacket
<1> QED BY <1>2, <1>3, AddsMessage DEF Fresh

-----------------------------------------------------------------------------
(* Where a callback is, whose bytes go to a sequence and its reader: between   *)
(* two packets, in one, in the event of one, or done, having written an event  *)
(* of a type.  What it wrote takes the reader's clock to its sequence's, which *)
(* from the first packet on is the trace clock.                              *)

OnTime(s) == s.anchor <= clock /\ s.last <= clock
ClockFits == clock \in Nat /\ clock + Realtime < Words

Now(s)  == s.started /\ s.initialized /\ s.last = clock
Sink(t) == [id |-> seq[t].id, reader |-> reader[t]]

Betweens(to) ==
  {c \in Calls : /\ c.seq.id = to.id /\ OnTime(c.seq) /\ c.buf = <<>> /\ c.seq.fresh = <<>>
                 /\ Framed(c.seq, c.seq.scratch) /\ Quiet(c.out)
                 /\ c.seq.initialized = c.seq.started /\ Clocked(c.out, to.reader, c.seq)}
Begun(to) == {c \in Betweens(to) : c.seq.started}

Opening(buf, out, to, s) ==
  \E q, o : Headed(buf, q) /\ Packet0(q, to.id) /\ Clocked(out, to.reader, o) /\ Moves(q, o, s)
Opens(to) ==
  {c \in Calls : /\ c.seq.id = to.id /\ OnTime(c.seq) /\ Now(c.seq) /\ c.root = RootLen
                 /\ Framed(c.seq, c.buf) /\ Quiet(c.out) /\ Opening(c.buf, c.out, to, c.seq)}

Writing(c, to, type, p, q) ==
  /\ c.buf = Begin(p, 11) \o q /\ c.event = Token(Begin(p, 11))
  /\ Event0(q, type) /\ Framed(c.seq, p) /\ Opening(p, c.out, to, c.seq)
InEvents(to, type) ==
  {c \in Calls : /\ c.seq.id = to.id /\ OnTime(c.seq) /\ Now(c.seq) /\ c.root = RootLen
                 /\ Quiet(c.out) /\ \E p, q : Writing(c, to, type, p, q)}

Dones(to, type) ==
  {c \in Calls : /\ c.seq.id = to.id /\ OnTime(c.seq) /\ Now(c.seq) /\ c.buf = <<>>
                 /\ c.seq.fresh = <<>> /\ Framed(c.seq, c.seq.scratch)
                 /\ Told(c.out, to.id, type) /\ Clocked(c.out, to.reader, c.seq)}

LEMMA PutCall ==
  ASSUME NEW c \in Calls, NEW b \in Bytes
  PROVE  /\ Put(c, b) \in Calls /\ Put(c, b).seq = c.seq /\ Put(c, b).buf = c.buf \o b
         /\ Put(c, b).root = c.root /\ Put(c, b).event = c.event /\ Put(c, b).out = c.out
         /\ Put(c, b).inner = c.inner
<1>1. c.buf \in Bytes
  BY DEF Calls
<1>2. PICK d \in Bytes : d = c.buf \o b
  BY <1>1, Parts
<1>3. Put(c, b) = [c EXCEPT !.buf = d]
  BY <1>2 DEF Put
<1> QED BY <1>2, <1>3 DEF Calls

LEMMA FramedSame ==
  ASSUME NEW s, NEW o, SameFrame(s, o), NEW buf, Framed(o, buf)
  PROVE  Framed(s, buf)
BY DEF SameFrame, Framed

LEMMA FramedMore ==
  ASSUME NEW s \in SeqStates, NEW buf, NEW b \in Bytes, Framed(s, buf)
  PROVE  Framed(s, buf \o b)
<1>1. PrefixBytes(s.id) \in Bytes
  BY PrefixSays DEF SeqStates
<1>2. After(buf, PrefixBytes(s.id)) => After(buf \o b, PrefixBytes(s.id))
  BY <1>1, AfterMore
<1> QED BY <1>2 DEF Framed

\* Fields that leave the clock, in a packet that moves it.
LEMMA LaterPacket ==
  ASSUME NEW q, NEW id, Packet0(q, id), NEW o, NEW s, Moves(q, o, s), NEW b, Adds(b, LaterIds)
  PROVE  Packet0(q \o b, id) /\ Moves(q \o b, o, s)
<1>1. Adds(b, QuietIds)
  BY LaterFacts, AddsMore
<1>2. Packet0(q \o b, id)
  BY <1>1, Numbers, KeyedMore DEF Packet0
<1>3. Valid(q)
  BY PacketWell
<1>4. Moves(q \o b, o, s)
  BY <1>3, LaterFacts, MovesMore
<1> QED BY <1>2, <1>4

\* Fields put in a packet.
LEMMA PutOpen ==
  ASSUME NEW to, NEW c \in Opens(to), NEW b, Adds(b, LaterIds)
  PROVE  Put(c, b) \in Opens(to)
<1>1. c \in Calls /\ b \in Bytes /\ c.seq \in SeqStates
  BY DEF Opens, Adds, Calls
<1>2. PICK q, o : /\ Headed(c.buf, q) /\ Packet0(q, to.id) /\ Clocked(c.out, to.reader, o)
                  /\ Moves(q, o, c.seq)
  BY DEF Opens, Opening
<1>3. Headed(c.buf \o b, q \o b)
  BY <1>1, <1>2, HeadedMore
<1>4. Packet0(q \o b, to.id) /\ Moves(q \o b, o, c.seq)
  BY <1>2, LaterPacket
<1>5. Framed(c.seq, c.buf \o b)
  BY <1>1, FramedMore DEF Opens
<1>6. Opening(c.buf \o b, c.out, to, c.seq)
  BY <1>2, <1>3, <1>4 DEF Opening
<1> QED BY <1>1, <1>5, <1>6, PutCall DEF Opens

\* Fields put in an event.
LEMMA PutEvent ==
  ASSUME NEW to, NEW type, NEW c \in InEvents(to, type), NEW b, Adds(b, EventIds)
  PROVE  Put(c, b) \in InEvents(to, type)
<1>1. c \in Calls /\ b \in Bytes
  BY DEF InEvents, Adds
<1>2. PICK p, q : Writing(c, to, type, p, q)
  BY DEF InEvents
<1>3. p \in Bytes /\ q \in Bytes
  BY <1>2, HeadedBytes DEF Writing, Opening, Event0, Keyed
<1>4. Begin(p, 11) \in Bytes
  BY <1>3, Numbers, BegunFinished
<1>5. (Begin(p, 11) \o q) \o b = Begin(p, 11) \o (q \o b)
  BY <1>1, <1>3, <1>4, BytesAssociative
<1>6. Event0(q \o b, type)
  BY <1>2, Numbers, KeyedMore DEF Writing, Event0
<1>7. Writing(Put(c, b), to, type, p, q \o b)
  BY <1>1, <1>2, <1>5, <1>6, PutCall DEF Writing
<1> QED BY <1>1, <1>7, PutCall DEF InEvents

LEMMA ReseqEvent ==
  ASSUME NEW to, NEW type, NEW c \in InEvents(to, type), NEW d, Reseq(c, d)
  PROVE  d \in InEvents(to, type)
<1>1. c \in Calls
  BY DEF InEvents
<1>2. /\ d \in Calls /\ SameFrame(d.seq, c.seq) /\ d.buf = c.buf /\ d.root = c.root
      /\ d.event = c.event /\ d.out = c.out
  BY <1>1, ReseqCall
<1>3. PICK p, q : Writing(c, to, type, p, q)
  BY DEF InEvents
<1>4. Framed(d.seq, p)
  BY <1>2, <1>3, FramedSame DEF Writing
<1>5. Opening(p, d.out, to, d.seq)
  <2>1. PICK r, o : /\ Headed(p, r) /\ Packet0(r, to.id) /\ Clocked(c.out, to.reader, o)
                    /\ Moves(r, o, c.seq)
    BY <1>3 DEF Writing, Opening
  <2>2. Moves(r, o, d.seq)
    BY <1>2, <2>1, MovesLike DEF SameFrame
  <2> QED BY <1>2, <2>1, <2>2 DEF Opening
<1>6. Writing(d, to, type, p, q)
  BY <1>2, <1>3, <1>4, <1>5 DEF Writing
<1>7. OnTime(d.seq) /\ d.seq.id = to.id /\ Now(d.seq)
  BY <1>2 DEF InEvents, SameFrame, OnTime, Now
<1> QED BY <1>2, <1>6, <1>7 DEF InEvents

LEMMA RenewedBetween ==
  ASSUME NEW to, NEW c \in Betweens(to), NEW d, Renewed(c, d)
  PROVE  d \in Betweens(to)
<1>1. c \in Calls
  BY DEF Betweens
<1> QED BY <1>1, RenewedCall DEF Betweens

LEMMA RenewedOpen ==
  ASSUME NEW to, NEW c \in Opens(to), NEW d, Renewed(c, d)
  PROVE  d \in Opens(to)
<1>1. c \in Calls
  BY DEF Opens
<1> QED BY <1>1, RenewedCall DEF Opens

\* An event begun in a packet, with its type.
LEMMA EventBegun ==
  ASSUME NEW to, NEW c \in Opens(to), NEW type \in Word, NEW b, Adds(b, EventIds)
  PROVE  Put(Event(c), VarintField(9, type) \o b) \in InEvents(to, type)
<1>1. c \in Calls /\ b \in Bytes /\ c.buf \in Bytes
  BY DEF Opens, Adds, Calls
<1>2. PICK p \in Bytes : p = c.buf
  BY <1>1
<1>3. Begin(p, 11) \in Bytes /\ 11 \in Ids
  BY Numbers, BegunFinished
<1>4. Token(Begin(p, 11)) \in Nat
  BY <1>3, LenProperties DEF Token, Bytes
<1>5. PICK d \in Calls : d = [c EXCEPT !.buf = Begin(p, 11), !.event = Token(Begin(p, 11))]
  BY <1>1, <1>3, <1>4 DEF Calls
<1>6. Event(c) = d
  BY <1>2, <1>5 DEF Event, TracePacket
<1>7. /\ d.seq = c.seq /\ d.buf = Begin(p, 11) /\ d.event = Token(Begin(p, 11)) /\ d.root = c.root
      /\ d.out = c.out
  BY <1>1, <1>5 DEF Calls
<1>8. PICK q : q = VarintField(9, type) \o b
  OBVIOUS
<1>9. Event0(q, type)
  <2>1. Keyed(VarintField(9, type), EventIds, 9, type)
    BY WordIs, Numbers, KeyedOne
  <2> QED BY <1>8, <2>1, Numbers, KeyedMore DEF Event0
<1>10. q \in Bytes
  BY <1>9 DEF Event0, Keyed
<1>11. Writing(Put(d, q), to, type, p, q)
  <2>1. Put(d, q).buf = Begin(p, 11) \o q /\ Put(d, q).event = Token(Begin(p, 11))
        /\ Put(d, q).seq = c.seq /\ Put(d, q).out = c.out
    <3>1. /\ Put(d, q).buf = d.buf \o q /\ Put(d, q).event = d.event /\ Put(d, q).seq = d.seq
          /\ Put(d, q).out = d.out
      BY <1>10, PutCall
    <3> QED BY <1>7, <3>1
  <2>2. Framed(c.seq, p) /\ Opening(p, c.out, to, c.seq)
    BY <1>2 DEF Opens
  <2> QED BY <1>9, <2>1, <2>2 DEF Writing
<1> QED BY <1>6, <1>7, <1>8, <1>10, <1>11, PutCall DEF InEvents, Opens

-----------------------------------------------------------------------------
(* Packets pushed.                                                          *)

Pushed(c, d, q, b) ==
  /\ Adds(b, LaterIds) /\ d \in Calls /\ d.out = c.out \o Message(1, q \o b) /\ d.buf = <<>>
  /\ d.seq = [c.seq EXCEPT !.fresh = <<>>, !.scratch = Message(1, q \o b)]
  /\ Framed(d.seq, d.seq.scratch)

LEMMA EmitDone ==
  ASSUME NEW c \in Calls
  PROVE  \E b : /\ Adds(b, LaterIds)
                /\ EmitInterned(c) = [c EXCEPT !.buf = c.buf \o b, !.seq = [c.seq EXCEPT !.fresh = <<>>]]
<1>1. c.seq \in SeqStates /\ c.buf \in Bytes
  BY DEF Calls
<1>2. CASE c.seq.fresh = <<>>
  <2>1. EmitInterned(c) = c
    BY <1>2 DEF EmitInterned
  <2>2. c.buf \o <<>> = c.buf
    BY <1>1, ConcatEmptySeq DEF Bytes
  <2>3. [c.seq EXCEPT !.fresh = <<>>] = c.seq
    BY <1>1, <1>2 DEF SeqStates
  <2>4. [c EXCEPT !.buf = c.buf \o <<>>, !.seq = [c.seq EXCEPT !.fresh = <<>>]] = c
    BY <2>2, <2>3 DEF Calls
  <2> QED BY <2>1, <2>4, AddsNothing
<1>3. CASE c.seq.fresh # <<>>
  <2>1. EmitInterned(c) = [Put(c, Fresh(c)) EXCEPT !.seq.fresh = <<>>]
    BY <1>3 DEF EmitInterned
  <2>2. PICK b : b = Fresh(c)
    OBVIOUS
  <2>3. EmitInterned(c) = [c EXCEPT !.buf = c.buf \o b, !.seq = [c.seq EXCEPT !.fresh = <<>>]]
    BY <2>1, <2>2 DEF Put, Calls
  <2> QED BY <2>2, <2>3, FreshAdds
<1> QED BY <1>2, <1>3

LEMMA PushDone ==
  ASSUME NEW c \in Calls, c.root = RootLen, NEW q, Headed(c.buf, q), Framed(c.seq, c.buf)
  PROVE  \E b : Pushed(c, Push(c), q, b)
<1>1. c.seq \in SeqStates /\ c.buf \in Bytes /\ c.out \in Bytes /\ q \in Bytes
  BY DEF Calls, Headed
<1>2. PICK b : /\ Adds(b, LaterIds)
               /\ EmitInterned(c) = [c EXCEPT !.buf = c.buf \o b, !.seq = [c.seq EXCEPT !.fresh = <<>>]]
  BY EmitDone
<1>3. b \in Bytes /\ q \o b \in Bytes
  BY <1>1, <1>2, Parts DEF Adds
<1>4. PICK d \in Bytes : d = c.buf \o b
  BY <1>1, <1>3, Parts
<1>5. Headed(d, q \o b)
  BY <1>3, <1>4, HeadedMore
<1>6. PICK m \in Bytes : m = Message(1, q \o b)
  BY <1>3, Numbers, MessageBytes
<1>7. Finish(d, RootLen) = m
  BY <1>5, <1>6, HeadedFinish
<1>8. PICK s \in SeqStates : s = [c.seq EXCEPT !.fresh = <<>>]
  BY <1>1, EmptySeq DEF SeqStates
<1>9. PICK p \in Calls : p = [c EXCEPT !.buf = d, !.seq = s]
  BY DEF Calls
<1>10. EmitInterned(c) = p
  BY <1>2, <1>4, <1>8, <1>9
<1>11. p.buf = d /\ p.root = RootLen /\ p.seq = s /\ p.out = c.out
  BY <1>9 DEF Calls
<1>12. Push(c) = [p EXCEPT !.out = @ \o m, !.seq.scratch = m, !.buf = <<>>]
  BY <1>7, <1>10, <1>11 DEF Push
<1>13. PICK r \in SeqStates : r = [s EXCEPT !.scratch = m]
  BY DEF SeqStates
<1>14. PICK o \in Bytes : o = c.out \o m
  BY <1>1, Parts
<1>15. <<>> \in Bytes
  BY EmptySeq DEF Bytes
<1>16. PICK e \in Calls : e = [p EXCEPT !.out = o, !.seq = r, !.buf = <<>>]
  BY <1>15 DEF Calls
<1>17. Push(c) = e
  BY <1>11, <1>12, <1>13, <1>14, <1>16 DEF Calls
<1>18. e.out = c.out \o m /\ e.seq = r /\ e.buf = <<>>
  BY <1>14, <1>16 DEF Calls
<1>19. r = [c.seq EXCEPT !.fresh = <<>>, !.scratch = m]
  BY <1>1, <1>8, <1>13 DEF SeqStates
<1>20. Framed(r, m)
  <2>1. Framed(c.seq, d)
    BY <1>1, <1>3, <1>4, FramedMore
  <2>2. /\ r.prefix = c.seq.prefix /\ r.started = c.seq.started /\ r.root = c.seq.root
        /\ r.id = c.seq.id
    BY <1>1, <1>19 DEF SeqStates
  <2>3. After(d, PrefixBytes(c.seq.id)) => After(m, PrefixBytes(c.seq.id))
    BY <1>7, AfterFinish
  <2> QED BY <2>1, <2>2, <2>3 DEF Framed
<1>21. r.scratch = m
  BY <1>13 DEF SeqStates
<1> QED BY <1>2, <1>6, <1>17, <1>18, <1>19, <1>20, <1>21 DEF Pushed

LEMMA PushedSame ==
  ASSUME NEW c \in Calls, NEW d, NEW q, NEW b, Pushed(c, d, q, b)
  PROVE  /\ d.seq.id = c.seq.id /\ d.seq.fresh = <<>> /\ (OnTime(c.seq) => OnTime(d.seq))
         /\ d.seq.started = c.seq.started /\ d.seq.last = c.seq.last
         /\ d.seq.initialized = c.seq.initialized
BY DEF Pushed, OnTime, Calls, SeqStates

\* Packet::drop, of a packet without an event.
LEMMA PushOpen ==
  ASSUME NEW to, NEW c \in Opens(to)
  PROVE  Push(c) \in Begun(to)
<1>1. c \in Calls /\ c.root = RootLen /\ Framed(c.seq, c.buf) /\ Quiet(c.out)
  BY DEF Opens
<1>2. PICK q, o : /\ Headed(c.buf, q) /\ Packet0(q, to.id) /\ Clocked(c.out, to.reader, o)
                  /\ Moves(q, o, c.seq)
  BY DEF Opens, Opening
<1>3. PICK b : Pushed(c, Push(c), q, b)
  BY <1>1, <1>2, PushDone
<1>4. Packet0(q \o b, to.id) /\ Moves(q \o b, o, c.seq)
  BY <1>2, <1>3, LaterPacket DEF Pushed
<1>5. Quiet(c.out \o Message(1, q \o b))
  BY <1>1, <1>4, QuietMore
<1>6. c.seq.id = to.id /\ OnTime(c.seq) /\ Now(c.seq)
  BY DEF Opens
<1>7. /\ Push(c).seq.id = to.id /\ Push(c).seq.fresh = <<>> /\ OnTime(Push(c).seq)
      /\ Push(c).seq.started = c.seq.started /\ Push(c).seq.last = c.seq.last
      /\ Push(c).seq.initialized = c.seq.initialized
  BY <1>1, <1>3, <1>6, PushedSame
<1>8. Clocked(c.out \o Message(1, q \o b), to.reader, Push(c).seq)
  <2>1. Moves(q \o b, o, Push(c).seq)
    BY <1>4, <1>7, MovesLike
  <2>2. Valid(q \o b) /\ (Len(q \o b) < Long => WellFormed(Parse(q \o b)))
    BY <1>4, PacketWell
  <2>3. Valid(c.out)
    BY <1>1, QuietValid
  <2> QED BY <1>2, <2>1, <2>2, <2>3, ClockedMore
<1> QED BY <1>3, <1>5, <1>6, <1>7, <1>8 DEF Betweens, Begun, Pushed, Now

\* The event ends and the packet with it.
LEMMA EndEventDone ==
  ASSUME NEW to, NEW type, NEW c \in InEvents(to, type)
  PROVE  EndEvent(c) \in Dones(to, type)
<1>1. c \in Calls /\ c.root = RootLen /\ Quiet(c.out)
  BY DEF InEvents
<1>2. PICK p, q : Writing(c, to, type, p, q)
  BY DEF InEvents
<1>3. PICK r, u : /\ Headed(p, r) /\ Packet0(r, to.id) /\ Clocked(c.out, to.reader, u)
                  /\ Moves(r, u, c.seq)
  BY <1>2 DEF Writing, Opening
<1>4. p \in Bytes /\ q \in Bytes /\ r \in Bytes
  BY <1>2, <1>3, HeadedBytes DEF Writing, Event0, Keyed
<1>5. PICK m \in Bytes : m = Message(11, q)
  BY <1>4, Numbers, MessageBytes
<1>6. Finish(c.buf, c.event) = p \o m
  <2>1. Finish(Begin(p, 11) \o q, Token(Begin(p, 11)))
          = p \o ((Tag(11, 2) \o Redundant(Len(q), LenBytes)) \o q)
    <3>1. PICK k \in Ids : k = 11
      BY Numbers
    <3>2. Finish(Begin(p, k) \o q, Token(Begin(p, k)))
            = p \o ((Tag(k, 2) \o Redundant(Len(q), LenBytes)) \o q)
      BY <1>4, BegunFinished
    <3> QED BY <3>1, <3>2
  <2>2. m = (Tag(11, 2) \o Redundant(Len(q), LenBytes)) \o q
    BY <1>4, <1>5, Numbers, MessageIs
  <2> QED BY <1>2, <2>1, <2>2 DEF Writing
<1>7. PICK buf \in Bytes : buf = p \o m
  BY <1>4, Parts
<1>8. PICK d \in Calls : d = [c EXCEPT !.buf = buf]
  BY <1>1 DEF Calls
<1>9. EndEvent(c) = Push(d)
  BY <1>6, <1>7, <1>8 DEF EndEvent
<1>10. d.buf = buf /\ d.seq = c.seq /\ d.root = RootLen /\ d.out = c.out
  BY <1>1, <1>8 DEF Calls
<1>11. Headed(d.buf, r \o m)
  BY <1>3, <1>7, <1>10, HeadedMore
<1>12. Framed(d.seq, d.buf)
  <2>1. c.seq \in SeqStates
    BY <1>1 DEF Calls
  <2>2. Framed(c.seq, p \o m)
    BY <1>2, <2>1, FramedMore DEF Writing
  <2> QED BY <1>7, <1>10, <2>2
<1>13. PICK b : Pushed(d, Push(d), r \o m, b)
  BY <1>10, <1>11, <1>12, PushDone
<1>14. Packet1(r \o m, to.id, type)
  BY <1>2, <1>3, <1>5, PacketOfEvent DEF Writing
<1>15. Packet1((r \o m) \o b, to.id, type)
  <2>1. Adds(b, QuietIds)
    BY <1>13, LaterFacts, AddsMore DEF Pushed
  <2> QED BY <1>14, <2>1, PacketMore
<1>16. Told(c.out \o Message(1, (r \o m) \o b), to.id, type)
  BY <1>1, <1>15, ToldAtLast
<1>17. c.seq.id = to.id /\ OnTime(c.seq) /\ Now(c.seq)
  BY DEF InEvents
<1>18. /\ Push(d).seq.id = to.id /\ Push(d).seq.fresh = <<>> /\ OnTime(Push(d).seq)
       /\ Push(d).seq.started = c.seq.started /\ Push(d).seq.last = c.seq.last
       /\ Push(d).seq.initialized = c.seq.initialized
  BY <1>10, <1>13, <1>17, PushedSame
<1>19. Clocked(c.out \o Message(1, (r \o m) \o b), to.reader, Push(d).seq)
  <2>1. Valid(r)
    BY <1>3, PacketWell
  <2>2. Adds(m, {11})
    BY <1>4, <1>5, Numbers, AddsMessage
  <2>3. Moves(r \o m, u, c.seq) /\ Valid(r \o m)
    BY <1>3, <2>1, <2>2, LaterFacts, MovesMore
  <2>4. Moves((r \o m) \o b, u, c.seq)
    BY <1>13, <2>3, LaterFacts, MovesMore DEF Pushed
  <2>5. Moves((r \o m) \o b, u, Push(d).seq)
    BY <1>18, <2>4, MovesLike
  <2>6. Valid((r \o m) \o b) /\ (Len((r \o m) \o b) < Long => WellFormed(Parse((r \o m) \o b)))
    BY <1>15, PacketWell
  <2>7. Valid(c.out)
    BY <1>1, QuietValid
  <2> QED BY <1>3, <2>5, <2>6, <2>7, ClockedMore
<1>20. Now(Push(d).seq)
  BY <1>17, <1>18 DEF Now
<1> QED BY <1>9, <1>10, <1>13, <1>16, <1>18, <1>19, <1>20 DEF Dones, Pushed

-----------------------------------------------------------------------------
(* Packets begun.                                                           *)

FirstTime == IF config.native THEN clock ELSE clock + Realtime
FirstClock == IF config.native THEN ClockIds.boottime ELSE ClockIds.realtime
DefaultsBytes(thread) ==
  VarintField(Defaults.clockId, ClockIds.custom)
    \o Message(Defaults.event, RedundantField(EventDefaults.track, thread))
FirstDefaults(thread) == Message(TracePacket.defaults, DefaultsBytes(thread))

LEMMA DefaultsSpell ==
  ASSUME NEW thread \in Word
  PROVE  /\ DefaultsBytes(thread) \in Bytes
         /\ Len(DefaultsBytes(thread)) < Long => Value(Parse(DefaultsBytes(thread)), 58, 0) = 64
<1>1. 11 \in Ids /\ 58 \in Ids
  BY SmallIds
<1>2. PICK b \in Bytes : b = RedundantField(11, thread)
  BY <1>1, WordIs, RedundantFieldCodes DEF Codes
<1>3. PICK q : q = VarintField(58, 64) \o Message(11, b)
  OBVIOUS
<1>4. DefaultsBytes(thread) = q
  BY <1>2, <1>3 DEF DefaultsBytes, Defaults, ClockIds, EventDefaults
<1>5. PICK f, g : f = NumberField(58, 64) /\ g = BytesField(11, b)
  OBVIOUS
<1>6. Spells(q, {f} \cup {g})
  <2>1. Spells(VarintField(58, 64), {f})
    BY <1>1, <1>5, WordFacts, SpellsVarint
  <2>2. Spells(Message(11, b), {g})
    BY <1>1, <1>5, SpellsMessage
  <2> QED BY <1>3, <2>1, <2>2, SpellsBoth
<1>7. f.id = 58 /\ f.v = 64 /\ g.id = 11
  BY <1>5 DEF NumberField, BytesField
<1>8. ASSUME Len(q) < Long PROVE Value(Parse(q), 58, 0) = 64
  <2>1. PICK F : F = {f} \cup {g}
    OBVIOUS
  <2>2. \A h \in F : h.id = f.id => h = f
    BY <1>7, <2>1
  <2> f \in F
    BY <2>1
  <2>3. PICK m : m = Parse(q) /\ Covers(m, F)
    BY <1>6, <1>8, <2>1, SpellsRead
  <2>4. Value(m, f.id, 0) = f.v
    BY <2>1, <2>2, <2>3, ValueOf
  <2> QED BY <1>7, <2>3, <2>4
<1> QED BY <1>4, <1>6, <1>8 DEF Spells

LEMMA DefaultsAdd ==
  ASSUME NEW thread \in Word
  PROVE  Adds(FirstDefaults(thread), QuietIds)
<1>1. 59 \in Ids /\ 59 \in QuietIds
  BY Numbers DEF QuietIds
<1>2. PICK q \in Bytes : q = DefaultsBytes(thread)
  BY DefaultsSpell
<1>3. FirstDefaults(thread) = Message(59, q)
  BY <1>2 DEF FirstDefaults, TracePacket
<1> QED BY <1>1, <1>3, AddsMessage

LEMMA TimeFits ==
  ASSUME ClockFits
  PROVE  /\ FirstTime \in Nat /\ FirstTime < Words /\ FirstClock \in Nat /\ FirstClock < Words
         /\ \A c \in Calls : Elapsed(c) \in Nat /\ Elapsed(c) < Words
<1>1. clock \in Nat /\ clock + Realtime < Words /\ Realtime \in Nat
  BY SequenceAssumption DEF ClockFits
<1>2. FirstTime \in Nat /\ FirstTime < Words
  BY <1>1, WordFacts DEF FirstTime
<1>3. FirstClock \in Nat /\ FirstClock < Words
  BY WordFacts DEF FirstClock, ClockIds
<1>4. ASSUME NEW c \in Calls PROVE Elapsed(c) \in Nat /\ Elapsed(c) < Words
  <2>1. c.seq.last \in Nat
    BY DEF Calls, SeqStates
  <2> QED BY <1>1, <2>1, WordFacts DEF Elapsed
<1> QED BY <1>2, <1>3, <1>4

FirstBytes(id, thread) ==
  VarintField(TracePacket.timestamp, FirstTime)
    \o VarintField(TracePacket.sequence, id)
    \o VarintField(TracePacket.flags, Flags.cleared + Flags.needs)
    \o VarintField(TracePacket.first, 1)
    \o VarintField(TracePacket.clockId, FirstClock)
    \o FirstDefaults(thread)

LEMMA FirstSays ==
  ASSUME ClockFits, NEW id \in Word, NEW thread \in Word
  PROVE  Packet0(FirstBytes(id, thread), id)
<1>1. QuietIds \cup {10} \subseteq Ids /\ 10 \notin QuietIds /\ {8, 13, 87, 58} \subseteq QuietIds
  BY Numbers DEF QuietIds
<1>2. PICK a : a = VarintField(8, FirstTime) /\ Adds(a, QuietIds)
  BY <1>1, TimeFits, AddsVarint
<1>3. PICK b : b = VarintField(10, id) /\ Keyed(b, QuietIds, 10, id)
  BY <1>1, WordIs, KeyedOne
<1>4. PICK d : d = VarintField(13, 3) /\ Adds(d, QuietIds)
  BY <1>1, WordFacts, AddsVarint
<1>5. PICK e : e = VarintField(87, 1) /\ Adds(e, QuietIds)
  BY <1>1, WordFacts, AddsVarint
<1>6. PICK f : f = VarintField(58, FirstClock) /\ Adds(f, QuietIds)
  BY <1>1, TimeFits, AddsVarint
<1>7. PICK g : g = FirstDefaults(thread) /\ Adds(g, QuietIds)
  BY DefaultsAdd
<1>8. Keyed(a \o b, QuietIds, 10, id)
  BY <1>1, <1>2, <1>3, KeyedLater
<1>9. Keyed((a \o b) \o d, QuietIds, 10, id)
  BY <1>1, <1>4, <1>8, KeyedMore
<1>10. Keyed(((a \o b) \o d) \o e, QuietIds, 10, id)
  BY <1>1, <1>5, <1>9, KeyedMore
<1>11. Keyed((((a \o b) \o d) \o e) \o f, QuietIds, 10, id)
  BY <1>1, <1>6, <1>10, KeyedMore
<1>12. Keyed(((((a \o b) \o d) \o e) \o f) \o g, QuietIds, 10, id)
  BY <1>1, <1>7, <1>11, KeyedMore
<1>13. FirstBytes(id, thread) = ((((a \o b) \o d) \o e) \o f) \o g
  BY <1>2, <1>3, <1>4, <1>5, <1>6, <1>7 DEF FirstBytes, TracePacket, Flags
<1> QED BY <1>12, <1>13 DEF Packet0

\* A buffer begun, or cut to the prefix it starts with.
LEMMA OpenedDone ==
  ASSUME NEW to, NEW c \in Betweens(to)
  PROVE  \E buf \in Bytes :
           /\ Opened(c) = [c EXCEPT !.buf = buf, !.root = RootLen]
           /\ c.seq.prefix = 0 => Headed(buf, <<>>)
           /\ c.seq.prefix # 0 => Headed(buf, PrefixBytes(to.id))
<1>1. c \in Calls /\ c.seq \in SeqStates /\ c.seq.id = to.id /\ to.id \in Word /\ Framed(c.seq, c.seq.scratch)
  BY DEF Betweens, Calls, SeqStates
<1>2. CASE c.seq.prefix # 0
  <2>1. PICK buf : buf = Prefix(c)
    OBVIOUS
  <2>2. Opened(c) = [c EXCEPT !.buf = buf, !.root = c.seq.root]
    BY <1>2, <2>1 DEF Opened
  <2>3. c.seq.root = RootLen /\ c.seq.prefix = PrefixLen(to.id) /\ After(c.seq.scratch, PrefixBytes(to.id))
    BY <1>1, <1>2 DEF Framed
  <2>4. Headed(SubSeq(c.seq.scratch, 1, RootLen + Len(PrefixBytes(to.id))), PrefixBytes(to.id))
    BY <1>1, <2>3, PrefixSays, HeadedCut
  <2>5. Headed(buf, PrefixBytes(to.id))
    BY <2>1, <2>3, <2>4 DEF Prefix, PrefixLen
  <2> QED BY <1>2, <2>2, <2>3, <2>5, HeadedBytes
<1>3. CASE c.seq.prefix = 0
  <2>1. PICK buf : buf = Begin(<<>>, 1)
    OBVIOUS
  <2>2. Headed(buf, <<>>) /\ Token(buf) = RootLen
    BY <2>1, HeadedBegin
  <2>3. Opened(c) = [c EXCEPT !.buf = buf, !.root = RootLen]
    BY <1>3, <2>1, <2>2 DEF Opened, Trace
  <2> QED BY <1>3, <2>2, <2>3, HeadedBytes
<1> QED BY <1>2, <1>3

\* Up to its timestamp, any packet but the first is the prefix.
Stampables(to) ==
  {c \in Calls : /\ c.seq.id = to.id /\ OnTime(c.seq) /\ c.seq.started /\ c.seq.initialized
                 /\ c.root = RootLen /\ Framed(c.seq, c.buf) /\ Quiet(c.out)
                 /\ Headed(c.buf, PrefixBytes(to.id)) /\ Clocked(c.out, to.reader, c.seq)}

LEMMA StampMoves ==
  ASSUME NEW id \in Word, NEW d \in Nat, d < Words, NEW o, NEW s, o.started, o.last \in Int,
         s.last = o.last + d
  PROVE  Moves(PrefixBytes(id) \o VarintField(8, d), o, s)
<1>1. {8, 10, 13} \subseteq Ids /\ id \in Nat /\ id < Words /\ 2 < Words
  BY SmallIds, WordIs, WordFacts
<1>2. PICK f, g, h : f = NumberField(10, id) /\ g = NumberField(13, 2) /\ h = NumberField(8, d)
  OBVIOUS
<1>3. Spells(PrefixBytes(id), {f} \cup {g})
  <2>1. Spells(VarintField(10, id), {f}) /\ Spells(VarintField(13, 2), {g})
    BY <1>1, <1>2, SpellsVarint
  <2> QED BY <2>1, SpellsBoth DEF PrefixBytes
<1>4. Spells(VarintField(8, d), {h})
  BY <1>1, <1>2, SpellsVarint
<1>5. PICK q : q = PrefixBytes(id) \o VarintField(8, d)
  OBVIOUS
<1>6. PICK F : F = ({f} \cup {g}) \cup {h} /\ F = {f, g, h}
  OBVIOUS
<1>7. Spells(q, F)
  BY <1>3, <1>4, <1>5, <1>6, SpellsBoth
<1>8. ASSUME Len(q) < Long PROVE Steps(Parse(q), o, s)
  <2>1. PICK m : m = Parse(q) /\ Covers(m, F)
    BY <1>7, <1>8, SpellsRead
  <2>2. F = {NumberField(10, id), NumberField(13, 2), NumberField(8, d)}
    BY <1>2, <1>6
  <2> QED BY <2>1, <2>2, StampSteps
<1> QED BY <1>5, <1>8 DEF Moves

LEMMA StampedDone ==
  ASSUME ClockFits, NEW to, NEW c \in Stampables(to)
  PROVE  Stamped(c) \in Opens(to)
<1>1. /\ c \in Calls /\ clock \in Nat /\ c.seq \in SeqStates /\ c.seq.last \in Nat
      /\ to.id \in Word /\ c.seq.last <= clock
  BY DEF Stampables, ClockFits, Calls, SeqStates, OnTime
<1>2. 8 \in Ids /\ 8 \in QuietIds /\ 10 \notin QuietIds
  BY Numbers DEF QuietIds
<1>3. PICK n \in Nat : n = Elapsed(c) /\ n < Words /\ clock = c.seq.last + n
  BY <1>1, TimeFits DEF Elapsed
<1>4. PICK b : b = VarintField(8, n) /\ Adds(b, QuietIds)
  BY <1>2, <1>3, AddsVarint
<1>5. b \in Bytes
  BY <1>4 DEF Adds
<1>6. PICK d \in Calls : d = Put(c, b)
  BY <1>1, <1>5, PutCall
<1>7. d.seq = c.seq /\ d.buf = c.buf \o b /\ d.root = RootLen /\ d.out = c.out
  <2>1. /\ Put(c, b).seq = c.seq /\ Put(c, b).buf = c.buf \o b /\ Put(c, b).root = c.root
        /\ Put(c, b).out = c.out
    BY <1>1, <1>5, PutCall
  <2> QED BY <1>6, <2>1 DEF Stampables
<1>8. PICK s \in SeqStates : s = [c.seq EXCEPT !.last = clock]
  BY <1>1 DEF SeqStates
<1>9. Stamped(c) = [d EXCEPT !.seq = s]
  BY <1>3, <1>4, <1>6, <1>7, <1>8 DEF Stamped, TracePacket
<1>10. PICK e \in Calls : e = [d EXCEPT !.seq = s]
  BY DEF Calls
<1>11. e.seq = s /\ e.buf = c.buf \o b /\ e.root = RootLen /\ e.out = c.out
  BY <1>7, <1>10 DEF Calls
<1>12. /\ s.id = c.seq.id /\ s.prefix = c.seq.prefix /\ s.root = c.seq.root
       /\ s.started = c.seq.started /\ s.anchor = c.seq.anchor /\ s.last = clock
       /\ s.initialized = c.seq.initialized
  BY <1>1, <1>8 DEF SeqStates
<1>13. OnTime(s) /\ Now(s) /\ s.id = to.id /\ Quiet(c.out)
  BY <1>1, <1>12 DEF Stampables, OnTime, Now
<1>14. Framed(s, c.buf \o b)
  <2>1. Framed(c.seq, c.buf \o b)
    BY <1>1, <1>5, FramedMore DEF Stampables
  <2> QED BY <1>12, <2>1 DEF Framed
<1>15. PICK q : q = PrefixBytes(to.id) \o b
  OBVIOUS
<1>16. Headed(c.buf \o b, q)
  BY <1>5, <1>15, HeadedMore DEF Stampables
<1>17. Packet0(q, to.id)
  <2>1. Keyed(PrefixBytes(to.id), QuietIds, 10, to.id)
    BY <1>1, PrefixSays DEF Packet0
  <2> QED BY <1>2, <1>4, <1>15, <2>1, KeyedMore DEF Packet0
<1>18. Moves(q, c.seq, s)
  <2>1. c.seq.last \in Int /\ s.last = c.seq.last + n /\ c.seq.started
    BY <1>1, <1>3, <1>12 DEF Stampables
  <2> QED BY <1>1, <1>3, <1>4, <1>15, <2>1, StampMoves
<1>19. Opening(c.buf \o b, c.out, to, s)
  <2>1. Clocked(c.out, to.reader, c.seq)
    BY DEF Stampables
  <2> QED BY <1>16, <1>17, <1>18, <2>1 DEF Opening
<1> QED BY <1>9, <1>10, <1>11, <1>13, <1>14, <1>19 DEF Opens

LEMMA RawPacketDone ==
  ASSUME ClockFits, NEW to, NEW c \in Begun(to)
  PROVE  RawPacket(c) \in Opens(to)
<1>1. /\ c \in Calls /\ c.seq \in SeqStates /\ c.seq.id = to.id /\ to.id \in Word /\ OnTime(c.seq)
      /\ Framed(c.seq, c.seq.scratch) /\ Quiet(c.out) /\ c.seq.thread \in Word
      /\ c.seq.started /\ c.seq.initialized /\ Clocked(c.out, to.reader, c.seq)
  BY DEF Begun, Betweens, Calls, SeqStates
<1>2. PICK buf \in Bytes :
        /\ Opened(c) = [c EXCEPT !.buf = buf, !.root = RootLen]
        /\ c.seq.prefix = 0 => Headed(buf, <<>>)
        /\ c.seq.prefix # 0 => Headed(buf, PrefixBytes(to.id))
  BY OpenedDone DEF Begun
<1>3. PICK o \in Calls : o = [c EXCEPT !.buf = buf, !.root = RootLen]
  BY <1>1, RootTag DEF Calls
<1>4. o.seq = c.seq /\ o.buf = buf /\ o.root = RootLen /\ o.out = c.out
  BY <1>1, <1>3 DEF Calls
<1>5. CASE c.seq.prefix # 0
  <2>1. RawPacket(c) = Stamped(o)
    BY <1>1, <1>2, <1>3, <1>5 DEF RawPacket
  <2>2. Headed(buf, PrefixBytes(to.id))
    BY <1>2, <1>5
  <2>3. Framed(c.seq, buf)
    BY <1>1, <2>2, HeadedAfter DEF Framed
  <2>4. o \in Stampables(to)
    BY <1>1, <1>4, <2>2, <2>3 DEF Stampables
  <2> QED BY <2>1, <2>4, StampedDone
<1>6. CASE c.seq.prefix = 0
  <2>1. RawPacket(c) = Stamped(Prefixed(o))
    BY <1>1, <1>2, <1>3, <1>6 DEF RawPacket
  <2>2. PICK q \in Bytes : q = PrefixBytes(to.id)
    BY <1>1, PrefixSays
  <2>3. PICK p \in Calls : p = Put(o, q)
    BY PutCall
  <2>4. p.seq = c.seq /\ p.buf = buf \o q /\ p.root = RootLen /\ p.out = c.out
    <3>1. Put(o, q).seq = o.seq /\ Put(o, q).buf = o.buf \o q /\ Put(o, q).root = o.root
          /\ Put(o, q).out = o.out
      BY PutCall
    <3> QED BY <1>4, <2>3, <3>1
  <2>5. Headed(buf \o q, q)
    <3>1. Headed(buf \o q, <<>> \o q)
      BY <1>2, <1>6, HeadedMore
    <3>2. <<>> \o q = q
      BY ConcatEmptySeq DEF Bytes
    <3> QED BY <3>1, <3>2
  <2>6. Len(buf \o q) = PrefixLen(to.id)
    <3>1. PICK z \in Bytes : Len(z) = LenBytes /\ buf \o q = (Tag(1, 2) \o z) \o q
      BY <2>5 DEF Headed
    <3>2. PICK h \in Bytes : h = Tag(1, 2) \o z
      BY RootTag, Parts
    <3>3. Len(h) = Len(Tag(1, 2)) + Len(z)
      BY <3>2, RootTag, Shifted
    <3>4. Len(h \o q) = Len(h) + Len(q)
      BY Shifted
    <3> QED BY <2>2, <3>1, <3>2, <3>3, <3>4 DEF PrefixLen, RootLen
  <2>7. PICK s \in SeqStates : s = [c.seq EXCEPT !.prefix = PrefixLen(to.id), !.root = RootLen]
    BY <1>1, RootTag, PrefixSays DEF SeqStates
  <2>8. PICK d \in Calls : d = [p EXCEPT !.seq = s]
    BY DEF Calls
  <2>9. Prefixed(o) = d
    <3>1. Prefixed(o) = [p EXCEPT !.seq.prefix = Len(p.buf), !.seq.root = p.root]
      <4>1. o.seq.id = to.id
        BY <1>1, <1>4
      <4> QED BY <2>2, <2>3, <4>1 DEF Prefixed, PrefixBytes, TracePacket, Flags
    <3> QED BY <2>4, <2>6, <2>7, <2>8, <3>1 DEF Calls, SeqStates
  <2>10. d.seq = s /\ d.buf = buf \o q /\ d.root = RootLen /\ d.out = c.out
    BY <2>4, <2>8 DEF Calls
  <2>11. /\ s.id = to.id /\ s.prefix = PrefixLen(to.id) /\ s.root = RootLen /\ s.started = c.seq.started
         /\ OnTime(s) /\ s.initialized = c.seq.initialized /\ s.last = c.seq.last
    BY <1>1, <2>7 DEF SeqStates, OnTime
  <2>12. Framed(s, buf \o q)
    BY <1>1, <1>6, <2>2, <2>5, <2>11, HeadedAfter DEF Framed
  <2>13. Clocked(c.out, to.reader, s)
    BY <1>1, <2>11, ClockedLike
  <2>14. d \in Stampables(to)
    BY <1>1, <2>2, <2>5, <2>10, <2>11, <2>12, <2>13 DEF Stampables
  <2> QED BY <2>1, <2>9, <2>14, StampedDone
<1> QED BY <1>5, <1>6

-----------------------------------------------------------------------------
(* Packets without an event.                                                *)

\* A packet with one message in it.
LEMMA PushMessage ==
  ASSUME NEW to, NEW c \in Opens(to), NEW k \in LaterIds, NEW payload \in Bytes
  PROVE  Push(Put(c, Message(k, payload))) \in Begun(to)
<1>1. Adds(Message(k, payload), LaterIds)
  BY LaterFacts, AddsMessage
<1> QED BY <1>1, PutOpen, PushOpen

-----------------------------------------------------------------------------
(* The first packet has a clock snapshot, of clocks with an id and a time.    *)

ClockBytes(id, time) ==
  VarintField(Clock.id, id) \o VarintField(Clock.timestamp, time)
    \o IF id = ClockIds.custom THEN VarintField(Clock.incremental, 1) ELSE <<>>

LEMMA ClockSays ==
  ASSUME NEW id \in Word, NEW time \in Word
  PROVE  /\ ClockBytes(id, time) \in Bytes /\ ClockField(id, time) = Message(1, ClockBytes(id, time))
         /\ Len(ClockBytes(id, time)) < Long =>
              /\ Value(Parse(ClockBytes(id, time)), 1, 0) = id
              /\ Value(Parse(ClockBytes(id, time)), 2, 0) = time
<1>1. {1, 2, 3} \subseteq Ids /\ id \in Nat /\ id < Words /\ time \in Nat /\ time < Words /\ 1 < Words
  BY SmallIds, WordIs, WordFacts
<1>2. PICK f, g, h : f = NumberField(1, id) /\ g = NumberField(2, time) /\ h = NumberField(3, 1)
  OBVIOUS
<1>3. PICK e : e = IF id = 64 THEN VarintField(3, 1) ELSE <<>>
  OBVIOUS
<1>4. PICK G : G = (IF id = 64 THEN {h} ELSE {}) /\ Spells(e, G)
  <2>1. Spells(VarintField(3, 1), {h})
    BY <1>1, <1>2, SpellsVarint
  <2>2. CASE id = 64
    BY <1>3, <2>1, <2>2
  <2>3. CASE id # 64
    BY <1>3, <2>3, SpellsNothing
  <2> QED BY <2>2, <2>3
<1>5. PICK q : q = (VarintField(1, id) \o VarintField(2, time)) \o e
  OBVIOUS
<1>6. PICK F : F = ({f} \cup {g}) \cup G
  OBVIOUS
<1>7. Spells(q, F)
  <2>1. Spells(VarintField(1, id), {f}) /\ Spells(VarintField(2, time), {g})
    BY <1>1, <1>2, SpellsVarint
  <2>2. Spells(VarintField(1, id) \o VarintField(2, time), {f} \cup {g})
    BY <2>1, SpellsBoth
  <2> QED BY <1>4, <1>5, <1>6, <2>2, SpellsBoth
<1>8. f.id = 1 /\ f.v = id /\ g.id = 2 /\ g.v = time /\ h.id = 3
  BY <1>2 DEF NumberField
<1>9. f \in F /\ g \in F /\ (\A k \in F : k.id = f.id => k = f) /\ (\A k \in F : k.id = g.id => k = g)
  BY <1>4, <1>6, <1>8
<1>10. ASSUME Len(q) < Long PROVE Value(Parse(q), 1, 0) = id /\ Value(Parse(q), 2, 0) = time
  <2>1. PICK m : m = Parse(q)
    OBVIOUS
  <2>2. Covers(m, F)
    BY <1>7, <1>10, <2>1, SpellsRead
  <2>3. Value(m, f.id, 0) = f.v
    BY <1>9, <2>2, ValueOf
  <2>4. Value(m, g.id, 0) = g.v
    BY <1>9, <2>2, ValueOf
  <2> QED BY <1>8, <2>1, <2>3, <2>4
<1>11. ClockBytes(id, time) = q
  BY <1>3, <1>5 DEF ClockBytes, Clock, ClockIds
<1>12. ClockField(id, time) = Message(1, ClockBytes(id, time))
  BY Zenon DEF ClockField, ClockBytes, Snapshot
<1> QED BY <1>7, <1>10, <1>11, <1>12 DEF Spells

\* A snapshot by the clock k with the clocks of T, each an id and a time.
ClockMessage(t) == BytesField(1, ClockBytes(t[1], t[2]))
Tells(b, k, T) ==
  /\ Spells(b, {NumberField(2, k)} \cup {ClockMessage(t) : t \in T})
  /\ Len(b) < Long => \A t \in T : Len(ClockBytes(t[1], t[2])) < Long

LEMMA TellsFirst ==
  ASSUME NEW k \in Word
  PROVE  Tells(VarintField(2, k), k, {})
<1>1. 2 \in Ids /\ k \in Nat /\ k < Words
  BY SmallIds, WordIs
<1>2. {NumberField(2, k)} \cup {ClockMessage(t) : t \in {}} = {NumberField(2, k)}
  OBVIOUS
<1> QED BY <1>1, <1>2, SpellsVarint DEF Tells

LEMMA TellsMore ==
  ASSUME NEW b, NEW k, NEW T, Tells(b, k, T), NEW id \in Word, NEW time \in Word
  PROVE  Tells(b \o ClockField(id, time), k, T \cup {<<id, time>>})
<1>1. PICK q \in Bytes : q = ClockBytes(id, time) /\ ClockField(id, time) = Message(1, q)
  BY ClockSays
<1>2. 1 \in Ids /\ b \in Bytes
  BY SmallIds DEF Tells, Spells
<1>3. PICK m \in Bytes : m = Message(1, q) /\ (Len(m) < Long => Len(q) < Long)
  BY <1>2, MessageBytes
<1>4. Spells(m, {BytesField(1, q)})
  BY <1>2, <1>3, SpellsMessage
<1> DEFINE t == <<id, time>>
<1>5. t[1] = id /\ t[2] = time
  OBVIOUS
<1> HIDE DEF t
<1>6. ClockMessage(t) = BytesField(1, q)
  BY <1>1, <1>5 DEF ClockMessage
<1>7. PICK F : F = {NumberField(2, k)} \cup {ClockMessage(u) : u \in T}
  OBVIOUS
<1>8. PICK G : G = {NumberField(2, k)} \cup {ClockMessage(u) : u \in T \cup {t}}
  OBVIOUS
<1>9. G = F \cup {BytesField(1, q)}
  BY <1>6, <1>7, <1>8
<1>10. Spells(b \o m, G)
  <2>1. Spells(b, F)
    BY <1>7 DEF Tells
  <2> QED BY <1>4, <1>9, <2>1, SpellsBoth
<1>11. ASSUME Len(b \o m) < Long, NEW u \in T \cup {t} PROVE Len(ClockBytes(u[1], u[2])) < Long
  <2>1. Len(b) < Long /\ Len(m) < Long
    BY <1>2, <1>11, Parts
  <2>2. CASE u \in T
    BY <2>1, <2>2 DEF Tells
  <2>3. CASE u = t
    BY <1>1, <1>3, <1>5, <2>1, <2>3
  <2> QED BY <2>2, <2>3
<1>12. Tells(b \o m, k, T \cup {t})
  BY <1>8, <1>10, <1>11 DEF Tells
<1> QED BY <1>1, <1>3, <1>12 DEF t

\* What is read of it of a clock whose id is there once.
LEMMA ClockReadBack ==
  ASSUME NEW m, NEW k, NEW T \in SUBSET (Word \X Word),
         Covers(m, {NumberField(2, k)} \cup {ClockMessage(t) : t \in T}),
         \A t \in T : Len(ClockBytes(t[1], t[2])) < Long,
         NEW id, NEW time, <<id, time>> \in T, \A t \in T : t[1] = id => t[2] = time
  PROVE  ClockIs(Range(Nested(m, 1)), id, time)
<1>1. PICK F : F = {NumberField(2, k)} \cup {ClockMessage(t) : t \in T}
  OBVIOUS
<1>2. NumberField(2, k).id = 2 /\ \A t \in T : /\ ClockMessage(t).id = 1
                                               /\ ClockMessage(t).bytes = ClockBytes(t[1], t[2])
  BY DEF NumberField, ClockMessage, BytesField
<1>3. PICK cs : cs = Range(Nested(m, 1))
  OBVIOUS
<1>4. cs = {Parse(ClockBytes(t[1], t[2])) : t \in T}
  <2>1. cs = {Parse(f.bytes) : f \in {g \in F : g.id = 1}}
    BY <1>1, <1>3, NestedOf
  <2>2. {g \in F : g.id = 1} = {ClockMessage(t) : t \in T}
    BY <1>1, <1>2
  <2> QED BY <1>2, <2>1, <2>2
<1>5. ASSUME NEW t \in T
      PROVE  /\ Value(Parse(ClockBytes(t[1], t[2])), 1, 0) = t[1]
             /\ Value(Parse(ClockBytes(t[1], t[2])), 2, 0) = t[2]
  <2>1. t[1] \in Word /\ t[2] \in Word
    OBVIOUS
  <2>2. Len(ClockBytes(t[1], t[2])) < Long
    OBVIOUS
  <2> QED BY <2>1, <2>2, ClockSays
<1>6. \E c \in cs : Value(c, 1, 0) = id
  <2>1. PICK t \in T : t[1] = id
    <3>1. <<id, time>>[1] = id
      OBVIOUS
    <3> QED BY <3>1
  <2> QED BY <1>4, <1>5, <2>1
<1>7. ASSUME NEW c \in cs, Value(c, 1, 0) = id PROVE Value(c, 2, 0) = time
  <2>1. PICK t \in T : c = Parse(ClockBytes(t[1], t[2]))
    BY <1>4
  <2> QED BY <1>5, <1>7, <2>1
<1> QED BY <1>3, <1>6, <1>7 DEF ClockIs

SnapshotBytes(anchor) ==
  VarintField(Snapshot.primary, FirstClock)
    \o ClockField(ClockIds.custom, clock - anchor)
    \o (IF config.native THEN ClockField(ClockIds.boottime, clock) ELSE <<>>)
    \o ClockField(ClockIds.realtime, clock + Realtime)
    \o (IF config.native THEN ClockField(ClockIds.monotonic, clock) ELSE <<>>)

\* The clocks of the snapshot.
Instants(anchor) ==
  {<<64, clock - anchor>>, <<1, clock + Realtime>>}
    \cup (IF config.native THEN {<<6, clock>>, <<3, clock>>} ELSE {})

LEMMA TimesAreWords ==
  ASSUME ClockFits, NEW anchor \in Nat, anchor <= clock
  PROVE  /\ clock \in Word /\ clock + Realtime \in Word /\ clock - anchor \in Word
         /\ {1, 3, 6, 64} \subseteq Word /\ FirstClock \in Word /\ FirstTime \in Word
         /\ FirstTime \in Int /\ clock - anchor \in Int
<1>1. clock \in Nat /\ clock + Realtime < Words /\ Realtime \in Nat
  BY SequenceAssumption DEF ClockFits
<1>2. /\ clock < Words /\ clock + Realtime \in Nat /\ clock - anchor \in Nat
      /\ clock - anchor < Words /\ clock - anchor \in Int
  BY <1>1, WordFacts
<1>3. {1, 3, 6, 64} \subseteq Word
  BY WordFacts, WordIs
<1>4. FirstClock \in Word /\ FirstTime \in Word /\ FirstTime \in Int
  BY TimeFits, WordIs
<1> QED BY <1>1, <1>2, <1>3, <1>4, WordIs

LEMMA SnapshotTells ==
  ASSUME ClockFits, NEW anchor \in Nat, anchor <= clock
  PROVE  Tells(SnapshotBytes(anchor), FirstClock, Instants(anchor))
<1>1. PICK x \in Word : x = clock - anchor
  BY TimesAreWords
<1>2. PICK y \in Word : y = clock + Realtime
  BY TimesAreWords
<1>3. clock \in Word /\ 1 \in Word /\ 3 \in Word /\ 6 \in Word /\ 64 \in Word
  BY TimesAreWords
<1>4. PICK k \in Word : k = FirstClock
  BY TimesAreWords
<1>5. PICK a : a = VarintField(2, k) /\ Tells(a, k, {})
  BY TellsFirst
<1>6. PICK b : b = a \o ClockField(64, x) /\ Tells(b, k, {} \cup {<<64, x>>})
  BY <1>3, <1>5, TellsMore
<1>7. CASE config.native
  <2>1. PICK S : S = {<<64, x>>} /\ Tells(b, k, S)
    BY <1>6
  <2>2. PICK d : d = b \o ClockField(6, clock) /\ Tells(d, k, S \cup {<<6, clock>>})
    BY <1>3, <2>1, TellsMore
  <2>3. PICK T : T = S \cup {<<6, clock>>}
    OBVIOUS
  <2>4. PICK e : e = d \o ClockField(1, y) /\ Tells(e, k, T \cup {<<1, y>>})
    BY <1>3, <2>2, <2>3, TellsMore
  <2>5. PICK U : U = T \cup {<<1, y>>}
    OBVIOUS
  <2>6. PICK f : f = e \o ClockField(3, clock) /\ Tells(f, k, U \cup {<<3, clock>>})
    BY <1>3, <2>4, <2>5, TellsMore
  <2>7. SnapshotBytes(anchor) = f
    BY <1>1, <1>2, <1>4, <1>5, <1>6, <1>7, <2>2, <2>4, <2>6 DEF SnapshotBytes, Snapshot, ClockIds
  <2>8. Instants(anchor) = U \cup {<<3, clock>>}
    BY <1>1, <1>2, <1>7, <2>1, <2>3, <2>5 DEF Instants
  <2> QED BY <1>4, <2>6, <2>7, <2>8
<1>8. CASE ~config.native
  <2>1. b \in Bytes
    BY <1>6 DEF Tells, Spells
  <2>2. PICK e : e = b \o ClockField(1, y) /\ Tells(e, k, ({} \cup {<<64, x>>}) \cup {<<1, y>>})
    BY <1>3, <1>6, TellsMore
  <2>3. e \in Bytes
    BY <2>2 DEF Tells, Spells
  <2>4. b \o <<>> = b /\ e \o <<>> = e
    BY <2>1, <2>3, ConcatEmptySeq DEF Bytes
  <2>5. SnapshotBytes(anchor) = (((a \o ClockField(64, x)) \o <<>>) \o ClockField(1, y)) \o <<>>
    BY <1>1, <1>2, <1>4, <1>5, <1>8 DEF SnapshotBytes, Snapshot, ClockIds
  <2>6. SnapshotBytes(anchor) = e
    BY <1>6, <2>2, <2>4, <2>5
  <2>7. Instants(anchor) = ({} \cup {<<64, x>>}) \cup {<<1, y>>}
    BY <1>1, <1>2, <1>8 DEF Instants
  <2> QED BY <1>4, <2>2, <2>6, <2>7
<1> QED BY <1>7, <1>8

LEMMA SnapshotSays ==
  ASSUME ClockFits, NEW anchor \in Nat, anchor <= clock, Len(SnapshotBytes(anchor)) < Long
  PROVE  SnapshotIs(Parse(SnapshotBytes(anchor)), FirstClock, clock - anchor, FirstTime)
<1>1. PICK x \in Word : x = clock - anchor
  BY TimesAreWords
<1>2. PICK y \in Word : y = clock + Realtime
  BY TimesAreWords
<1>3. clock \in Word /\ 1 \in Word /\ 3 \in Word /\ 6 \in Word /\ 64 \in Word
  BY TimesAreWords
<1>4. PICK T \in SUBSET (Word \X Word) : T = Instants(anchor)
  <2>1. {<<64, x>>, <<1, y>>, <<6, clock>>, <<3, clock>>} \subseteq Word \X Word
    BY <1>3
  <2> QED BY <1>1, <1>2, <2>1 DEF Instants
<1>5. PICK k : k = FirstClock
  OBVIOUS
<1>6. PICK w : w = SnapshotBytes(anchor) /\ Tells(w, k, T) /\ Len(w) < Long
  BY <1>4, <1>5, SnapshotTells
<1>7. PICK F : F = {NumberField(2, k)} \cup {ClockMessage(t) : t \in T}
  OBVIOUS
<1>8. PICK m : m = Parse(w)
  OBVIOUS
<1>9. Covers(m, F) /\ \A t \in T : Len(ClockBytes(t[1], t[2])) < Long
  BY <1>6, <1>7, <1>8, SpellsRead DEF Tells
<1>10. Value(m, 2, 0) = k
  <2>1. PICK f : f = NumberField(2, k)
    OBVIOUS
  <2>2. f.id = 2 /\ f.v = k /\ f \in F
    BY <1>7, <2>1 DEF NumberField
  <2>3. \A t \in T : ClockMessage(t).id = 1
    BY DEF ClockMessage, BytesField
  <2>4. \A g \in F : g.id = f.id => g = f
    BY <1>7, <2>1, <2>2, <2>3
  <2>5. Value(m, f.id, 0) = f.v
    BY <1>9, <2>2, <2>4, ValueOf
  <2> QED BY <2>2, <2>5
<1>11. ASSUME NEW id, NEW time, <<id, time>> \in T, \A t \in T : t[1] = id => t[2] = time
       PROVE  ClockIs(Range(Nested(m, 1)), id, time)
  BY <1>7, <1>9, <1>11, ClockReadBack
<1>12. ClockIs(Range(Nested(m, 1)), 64, x)
  <2>1. <<64, x>> \in T /\ \A t \in T : t[1] = 64 => t[2] = x
    BY <1>1, <1>4 DEF Instants
  <2> QED BY <1>11, <2>1
<1>13. ClockIs(Range(Nested(m, 1)), k, FirstTime)
  <2>1. CASE config.native
    <3>1. k = 6 /\ FirstTime = clock
      BY <1>5, <2>1 DEF FirstClock, FirstTime, ClockIds
    <3>2. <<6, clock>> \in T /\ \A t \in T : t[1] = 6 => t[2] = clock
      BY <1>4, <2>1 DEF Instants
    <3> QED BY <1>11, <3>1, <3>2
  <2>2. CASE ~config.native
    <3>1. k = 1 /\ FirstTime = y
      BY <1>2, <1>5, <2>2 DEF FirstClock, FirstTime, ClockIds
    <3>2. <<1, y>> \in T /\ \A t \in T : t[1] = 1 => t[2] = y
      BY <1>2, <1>4, <2>2 DEF Instants
    <3> QED BY <1>11, <3>1, <3>2
  <2> QED BY <2>1, <2>2
<1> QED BY <1>1, <1>5, <1>6, <1>8, <1>10, <1>12, <1>13 DEF SnapshotIs

-----------------------------------------------------------------------------
\* The first packet, with its snapshot, takes a reader to the clock from anywhere.
LEMMA FirstMoves ==
  ASSUME ClockFits, NEW id \in Word, NEW thread \in Word, NEW anchor \in Nat, anchor <= clock,
         NEW o, NEW s, s.last = clock
  PROVE  Moves(FirstBytes(id, thread) \o Message(6, SnapshotBytes(anchor)), o, s)
<1>1. /\ {6, 8, 10, 13, 58, 59, 87} \subseteq Ids /\ 1 < Words /\ 3 < Words
      /\ FirstTime \in Nat /\ FirstTime < Words /\ FirstClock \in Nat /\ FirstClock < Words
      /\ id \in Nat /\ id < Words
  BY SmallIds, TimeFits, WordFacts, WordIs
<1>2. PICK k \in Nat : k = FirstClock /\ k < Words
  BY <1>1
<1>3. PICK y \in Nat : y = FirstTime /\ y < Words
  BY <1>1
<1>4. PICK w \in Bytes : w = SnapshotBytes(anchor)
  BY SnapshotTells DEF Tells, Spells
<1>5. PICK dq \in Bytes : dq = DefaultsBytes(thread) /\ (Len(dq) < Long => Value(Parse(dq), 58, 0) = 64)
  BY DefaultsSpell
<1>6. PICK f1, f2, f3, f4 :
        f1 = NumberField(8, y) /\ f2 = NumberField(10, id) /\ f3 = NumberField(13, 3) /\ f4 = NumberField(87, 1)
  OBVIOUS
<1>7. PICK f5, f6, f7 : f5 = NumberField(58, k) /\ f6 = BytesField(59, dq) /\ f7 = BytesField(6, w)
  OBVIOUS
<1>8. PICK b1, b2, b3, b4 :
        /\ b1 = VarintField(8, y) /\ b2 = VarintField(10, id) /\ b3 = VarintField(13, 3)
        /\ b4 = VarintField(87, 1)
  OBVIOUS
<1>9. PICK b5 : b5 = VarintField(58, k)
  OBVIOUS
<1>10. PICK b6 \in Bytes : b6 = Message(59, dq) /\ (Len(b6) < Long => Len(dq) < Long)
  BY <1>1, MessageBytes
<1>11. PICK b7 \in Bytes : b7 = Message(6, w) /\ (Len(b7) < Long => Len(w) < Long)
  BY <1>1, MessageBytes
<1>12. Spells(b1, {f1}) /\ Spells(b2, {f2}) /\ Spells(b3, {f3}) /\ Spells(b4, {f4}) /\ Spells(b5, {f5})
  BY <1>1, <1>2, <1>3, <1>6, <1>7, <1>8, <1>9, SpellsVarint
<1>13. Spells(b6, {f6}) /\ Spells(b7, {f7})
  BY <1>1, <1>7, <1>10, <1>11, SpellsMessage
<1>14. PICK q2 : q2 = b1 \o b2 /\ Spells(q2, {f1} \cup {f2})
  BY <1>12, SpellsBoth
<1>15. PICK q3 : q3 = q2 \o b3 /\ Spells(q3, ({f1} \cup {f2}) \cup {f3})
  BY <1>12, <1>14, SpellsBoth
<1>16. PICK F3 : F3 = {f1, f2, f3} /\ Spells(q3, F3)
  <2>1. ({f1} \cup {f2}) \cup {f3} = {f1, f2, f3}
    OBVIOUS
  <2> QED BY <1>15, <2>1
<1>17. PICK q4 : q4 = q3 \o b4 /\ Spells(q4, F3 \cup {f4})
  BY <1>12, <1>16, SpellsBoth
<1>18. PICK F4 : F4 = F3 \cup {f4}
  OBVIOUS
<1>19. PICK q5 : q5 = q4 \o b5 /\ Spells(q5, F4 \cup {f5})
  BY <1>12, <1>17, <1>18, SpellsBoth
<1>20. PICK F5 : F5 = F4 \cup {f5}
  OBVIOUS
<1>21. PICK q6 : q6 = q5 \o b6 /\ Spells(q6, F5 \cup {f6})
  BY <1>13, <1>19, <1>20, SpellsBoth
<1>22. PICK F6 : F6 = F5 \cup {f6}
  OBVIOUS
<1>23. PICK q : q = q6 \o b7 /\ Spells(q, F6 \cup {f7})
  BY <1>13, <1>21, <1>22, SpellsBoth
<1>24. PICK F : F = F6 \cup {f7}
  OBVIOUS
<1>25. FirstBytes(id, thread) = q6
  <2>1. FirstDefaults(thread) = b6
    BY <1>5, <1>10 DEF FirstDefaults, TracePacket
  <2>2. FirstBytes(id, thread)
          = ((((VarintField(8, FirstTime) \o VarintField(10, id)) \o VarintField(13, 3))
                \o VarintField(87, 1)) \o VarintField(58, FirstClock)) \o FirstDefaults(thread)
    BY DEF FirstBytes, TracePacket, Flags
  <2>3. FirstBytes(id, thread) = ((((b1 \o b2) \o b3) \o b4) \o b5) \o b6
    BY <1>2, <1>3, <1>8, <1>9, <2>1, <2>2
  <2> QED BY <1>14, <1>15, <1>17, <1>19, <1>21, <2>3
<1>26. /\ f1.id = 8 /\ f2.id = 10 /\ f3.id = 13 /\ f4.id = 87 /\ f5.id = 58 /\ f6.id = 59 /\ f7.id = 6
  BY <1>6, <1>7 DEF NumberField, BytesField
<1>27. \A g : g \in F <=> g = f1 \/ g = f2 \/ g = f3 \/ g = f4 \/ g = f5 \/ g = f6 \/ g = f7
  BY <1>16, <1>18, <1>20, <1>22, <1>24
<1>28. {f3, f5, f6, f7} \subseteq F
  BY <1>27
<1>29. /\ \A g \in F : g.id = 13 => g = f3
       /\ \A g \in F : g.id = 59 => g = f6
       /\ \A g \in F : g.id = 6 => g = f7
  BY <1>26, <1>27
<1>30. ASSUME Len(q) < Long PROVE Steps(Parse(q), o, s)
  <2>1. q6 \in Bytes /\ q5 \in Bytes
    BY <1>19, <1>21 DEF Spells
  <2>2. Len(q6) < Long /\ Len(w) < Long
    BY <1>11, <1>23, <1>30, <2>1, Parts
  <2>3. Len(dq) < Long
    BY <1>10, <1>21, <2>1, <2>2, Parts
  <2>4. PICK m : m = Parse(q) /\ Covers(m, F)
    BY <1>23, <1>24, <1>30, SpellsRead
  <2>5. PICK x \in Int : x = clock - anchor
    BY TimesAreWords
  <2>6. SnapshotIs(Parse(w), k, x, y)
    BY <1>2, <1>3, <1>4, <2>2, <2>5, SnapshotSays
  <2>7. y \in Int /\ y = s.last + Ahead
    <3>1. clock \in Nat /\ Realtime \in Nat
      BY SequenceAssumption DEF ClockFits
    <3> QED BY <1>3, <3>1 DEF FirstTime, Ahead
  <2>8. Value(Parse(dq), 58, 0) = 64
    BY <1>5, <2>3
  <2>9. {NumberField(13, 3), NumberField(58, k), BytesField(59, dq), BytesField(6, w)} \subseteq F
    BY <1>6, <1>7, <1>28
  <2>10. /\ \A g \in F : g.id = 13 => g = NumberField(13, 3)
         /\ \A g \in F : g.id = 59 => g = BytesField(59, dq)
         /\ \A g \in F : g.id = 6 => g = BytesField(6, w)
    BY <1>6, <1>7, <1>29
  <2>11. Steps(m, o, s)
    BY <2>4, <2>6, <2>7, <2>8, <2>9, <2>10, SnapshotSteps
  <2> QED BY <2>4, <2>11
<1> QED BY <1>4, <1>11, <1>23, <1>25, <1>30 DEF Moves

LEMMA ClockSnapshotDone ==
  ASSUME ClockFits, NEW to, NEW c \in Betweens(to), ~c.seq.started
  PROVE  ClockSnapshot([c EXCEPT !.seq.initialized = TRUE]) \in Begun(to)
<1>1. /\ c \in Calls /\ c.seq \in SeqStates /\ c.seq.id = to.id /\ to.id \in Word
      /\ OnTime(c.seq) /\ Framed(c.seq, c.seq.scratch) /\ Quiet(c.out) /\ c.seq.thread \in Word
      /\ Clocked(c.out, to.reader, c.seq) /\ clock \in Nat
      /\ c.seq.anchor \in Nat /\ c.seq.anchor <= clock
  BY DEF Betweens, Calls, SeqStates, OnTime, ClockFits
<1>2. c.seq.prefix = 0
  BY <1>1 DEF Framed
<1>3. PICK s \in SeqStates : s = [c.seq EXCEPT !.initialized = TRUE, !.last = clock]
  BY <1>1 DEF SeqStates
<1>4. /\ s.id = to.id /\ s.prefix = 0 /\ s.thread = c.seq.thread /\ s.anchor = c.seq.anchor
      /\ s.started = c.seq.started /\ s.initialized /\ s.last = clock
  BY <1>1, <1>2, <1>3 DEF SeqStates
<1>5. PICK d : d = [c EXCEPT !.seq.initialized = TRUE]
  OBVIOUS
<1>6. PICK e \in Calls : e = [c EXCEPT !.seq = s]
  BY <1>1 DEF Calls
<1>7. AtSnapshot(d) = e /\ d.seq.anchor = c.seq.anchor
  <2>1. PICK r \in SeqStates : r = [c.seq EXCEPT !.initialized = TRUE]
    BY <1>1 DEF SeqStates
  <2>2. d = [c EXCEPT !.seq = r]
    BY <1>5, <2>1
  <2>3. d.seq = r /\ [d EXCEPT !.seq = s] = e
    BY <1>1, <1>6, <2>2 DEF Calls
  <2>4. s = [r EXCEPT !.last = clock] /\ r.anchor = c.seq.anchor
    BY <1>1, <1>3, <2>1 DEF SeqStates
  <2>5. AtSnapshot(d) = [d EXCEPT !.seq = s]
    BY <2>3, <2>4 DEF AtSnapshot
  <2> QED BY <2>3, <2>4, <2>5
<1>8. e.seq = s /\ e.out = c.out
  BY <1>1, <1>6 DEF Calls
<1>9. PICK buf \in Bytes : buf = Begin(<<>>, 1) /\ Headed(buf, <<>>) /\ Token(buf) = RootLen
  BY HeadedBegin, HeadedBytes
<1>10. PICK o \in Calls : o = [e EXCEPT !.buf = buf, !.root = RootLen]
  BY RootTag DEF Calls
<1>11. o.seq = s /\ o.buf = buf /\ o.root = RootLen /\ o.out = c.out
  BY <1>8, <1>10 DEF Calls
<1>12. Opened(e) = o
  BY <1>4, <1>8, <1>9, <1>10 DEF Opened, Trace
<1>13. PICK q \in Bytes : q = FirstBytes(to.id, c.seq.thread) /\ Packet0(q, to.id)
  <2>1. Packet0(FirstBytes(to.id, c.seq.thread), to.id)
    BY <1>1, FirstSays
  <2> QED BY <2>1 DEF Packet0, Keyed
<1>14. PICK p \in Calls : p = Put(o, q)
  BY PutCall
<1>15. p.seq = s /\ p.buf = buf \o q /\ p.root = RootLen /\ p.out = c.out
  <2>1. /\ Put(o, q).seq = o.seq /\ Put(o, q).buf = o.buf \o q /\ Put(o, q).root = o.root
        /\ Put(o, q).out = o.out
    BY PutCall
  <2> QED BY <1>11, <1>14, <2>1
<1>16. PICK z \in SeqStates : z = [s EXCEPT !.started = TRUE]
  BY DEF SeqStates
<1>17. PICK f \in Calls : f = [p EXCEPT !.seq = z]
  BY DEF Calls
<1>18. RawPacket(e) = f
  <2>1. RawPacket(e) = FirstPacket(o)
    BY <1>4, <1>8, <1>12 DEF RawPacket
  <2>2. FirstPacket(o) = [Put(o, FirstBytes(o.seq.id, o.seq.thread)) EXCEPT !.seq.started = TRUE]
    BY DEF FirstPacket, FirstBytes, FirstTime, FirstClock, FirstDefaults, DefaultsBytes
  <2>3. FirstPacket(o) = [p EXCEPT !.seq.started = TRUE]
    BY <1>4, <1>11, <1>13, <1>14, <2>2
  <2> QED BY <1>15, <1>16, <1>17, <2>1, <2>3
<1>19. f.seq = z /\ f.buf = buf \o q /\ f.root = RootLen /\ f.out = c.out
  BY <1>15, <1>17 DEF Calls
<1>20. z.id = to.id /\ z.prefix = 0 /\ OnTime(z) /\ Now(z) /\ z.last = clock
  BY <1>1, <1>4, <1>16 DEF SeqStates, OnTime, Now
<1>21. PICK w \in Bytes : w = SnapshotBytes(c.seq.anchor)
  BY <1>1, SnapshotTells DEF Tells, Spells
<1>22. PICK m : m = Message(6, w) /\ Adds(m, QuietIds)
  BY Numbers, AddsMessage DEF QuietIds
<1>23. m \in Bytes /\ (buf \o q) \o m = buf \o (q \o m)
  BY <1>22, BytesAssociative DEF Adds
<1>24. PICK g \in Calls : g = Put(f, m)
  BY <1>23, PutCall
<1>25. g.seq = z /\ g.buf = (buf \o q) \o m /\ g.root = RootLen /\ g.out = c.out
  <2>1. /\ Put(f, m).seq = f.seq /\ Put(f, m).buf = f.buf \o m /\ Put(f, m).root = f.root
        /\ Put(f, m).out = f.out
    BY <1>23, PutCall
  <2> QED BY <1>19, <1>24, <2>1
<1>26. Headed((buf \o q) \o m, q \o m)
  <2>1. Headed(buf \o q, <<>> \o q)
    BY <1>9, HeadedMore
  <2>2. <<>> \o q = q
    BY ConcatEmptySeq DEF Bytes
  <2> QED BY <1>23, <2>1, <2>2, HeadedMore
<1>27. Packet0(q \o m, to.id)
  BY <1>13, <1>22, Numbers, KeyedMore DEF Packet0
<1>28. Moves(q \o m, c.seq, z)
  BY <1>1, <1>13, <1>20, <1>21, <1>22, FirstMoves
<1>29. Opening((buf \o q) \o m, c.out, to, z)
  BY <1>1, <1>26, <1>27, <1>28 DEF Opening
<1>30. g \in Opens(to)
  BY <1>1, <1>20, <1>25, <1>29 DEF Opens, Framed
<1>31. ClockSnapshot(d) = Push(g)
  <2>1. ClockSnapshot(d)
          = Push(Put(RawPacket(AtSnapshot(d)), Message(TracePacket.clocks, SnapshotBytes(d.seq.anchor))))
    BY Zenon DEF ClockSnapshot, SnapshotBytes, FirstClock
  <2> QED BY <1>7, <1>18, <1>21, <1>22, <1>24, <2>1 DEF TracePacket
<1> QED BY <1>5, <1>30, <1>31, PushOpen

-----------------------------------------------------------------------------
LEMMA RenewedBegun ==
  ASSUME NEW to, NEW c \in Begun(to), NEW d, Renewed(c, d)
  PROVE  d \in Begun(to)
<1>1. c \in Betweens(to) /\ c \in Calls /\ c.seq.started
  BY DEF Begun, Betweens
<1>2. d \in Betweens(to) /\ d.seq = c.seq
  BY <1>1, RenewedBetween, RenewedCall
<1> QED BY <1>1, <1>2 DEF Begun

LEMMA RedundantBytes ==
  ASSUME NEW id \in Ids, NEW v \in Word
  PROVE  RedundantField(id, v) \in Bytes
BY WordIs, RedundantFieldCodes DEF Codes

LEMMA ProcessDescriptorDone ==
  ASSUME ClockFits, NEW to, NEW c \in Begun(to)
  PROVE  ProcessDescriptor(c) \in Begun(to)
<1>1. c \in Calls /\ c.inner \in Inners
  BY DEF Begun, Betweens, Calls
<1>2. CASE c.inner.described
  BY <1>2 DEF ProcessDescriptor
<1>3. CASE ~c.inner.described
  <2>1. PICK i \in Inners : i = [c.inner EXCEPT !.described = TRUE]
    BY <1>1 DEF Inners
  <2>2. PICK d : d = [c EXCEPT !.inner.described = TRUE]
    OBVIOUS
  <2>3. d = [c EXCEPT !.inner = i]
    BY <2>1, <2>2
  <2>4. Renewed(c, d)
    BY <2>3 DEF Renewed
  <2>5. d \in Calls
    BY <1>1, <2>4, RenewedCall
  <2>6. PICK p : p = ProcessTrack(d)
    OBVIOUS
  <2>7. Renewed(d, p)
    BY <2>5, <2>6, ProcessTrackDone
  <2>8. p \in Begun(to) /\ p.inner \in Inners
    <3>1. d \in Begun(to)
      BY <2>4, RenewedBegun
    <3> QED BY <2>5, <2>7, <3>1, RenewedBegun, RenewedCall
  <2>9. RawPacket(p) \in Opens(to)
    BY <2>8, RawPacketDone
  <2>10. PICK a \in Bytes : a = RedundantField(Descriptor.uuid, p.inner.process)
    <3>1. p.inner.process \in Word /\ Descriptor.uuid \in Ids
      BY <2>8, Numbers DEF Inners, Descriptor
    <3> QED BY <3>1, RedundantBytes
  <2>11. PICK b \in Bytes : b = VarintField(Process.pid, Pid)
    BY SequenceAssumption, WordIs, VarintBytes DEF Process
  <2>12. PICK e \in Bytes :
           e = IF config.arguments THEN StringField(Process.cmdline, ProcessName) ELSE <<>>
    <3>1. <<>> \in Bytes /\ StringField(Process.cmdline, ProcessName) \in Bytes
      BY SequenceAssumption, StringBytes, EmptySeq DEF Process, Bytes
    <3> QED BY <3>1
  <2>13. PICK f \in Bytes : f = StringField(Process.name, ProcessName)
    BY SequenceAssumption, StringBytes DEF Process
  <2>14. PICK q \in Bytes : q = (b \o e) \o f
    <3>1. b \o e \in Bytes
      BY Parts
    <3> QED BY <3>1, Parts
  <2>15. PICK m \in Bytes : m = Message(Descriptor.process, q)
    <3>1. Descriptor.process \in Ids
      BY Numbers DEF Descriptor, EventIds
    <3> QED BY <3>1, MessageBytes
  <2>16. a \o m \in Bytes
    BY Parts
  <2>17. ProcessDescriptor(c) = Push(Put(RawPacket(p), Message(TracePacket.descriptor, a \o m)))
    <3>1. ~c.inner.described
      BY <1>3
    <3> QED BY <2>2, <2>6, <2>10, <2>11, <2>12, <2>13, <2>14, <2>15, <3>1, Zenon DEF ProcessDescriptor
  <2>18. TracePacket.descriptor \in LaterIds
    BY DEF TracePacket, LaterIds
  <2> QED BY <2>9, <2>16, <2>17, <2>18, PushMessage
<1> QED BY <1>2, <1>3

LEMMA ThreadDescriptorDone ==
  ASSUME ClockFits, NEW to, NEW c \in Begun(to)
  PROVE  ThreadDescriptor(c) \in Begun(to)
<1>1. c \in Calls /\ c.inner \in Inners /\ c.inner.tid \in Word /\ c.seq.id \in Word
  BY DEF Begun, Betweens, Calls, Inners, SeqStates
<1>2. PICK p : p = IF config.native THEN c ELSE [c EXCEPT !.inner.tid = Unsigned(@ + 1)]
  OBVIOUS
<1>3. Renewed(c, p)
  <2>1. CASE config.native
    BY <1>1, <1>2, <2>1, RenewedNone
  <2>2. CASE ~config.native
    <3>1. PICK u \in Word : u = Unsigned(c.inner.tid + 1)
      <4>1. c.inner.tid + 1 \in Int
        BY <1>1, WordIs
      <4> QED BY <4>1, UnsignedWord
    <3>2. PICK i \in Inners : i = [c.inner EXCEPT !.tid = u]
      BY <1>1 DEF Inners
    <3>3. p = [c EXCEPT !.inner = i]
      BY <1>2, <2>2, <3>1, <3>2
    <3> QED BY <3>3 DEF Renewed
  <2> QED BY <2>1, <2>2
<1>4. p \in Begun(to) /\ p \in Calls
  BY <1>1, <1>3, RenewedBegun, RenewedCall
<1>5. RawPacket(p) \in Opens(to)
  BY <1>4, RawPacketDone
<1>6. PICK tid \in Word : tid = Unsigned(Pid + IF config.native THEN c.seq.id ELSE c.inner.tid)
  <2>1. Pid \in Nat /\ c.seq.id \in Nat /\ c.inner.tid \in Nat
    BY <1>1, SequenceAssumption, WordIs
  <2>2. Pid + (IF config.native THEN c.seq.id ELSE c.inner.tid) \in Int
    BY <2>1
  <2> QED BY <2>2, UnsignedWord
<1>7. PICK a \in Bytes : a = RedundantField(Descriptor.uuid, p.seq.thread)
  <2>1. p.seq.thread \in Word /\ Descriptor.uuid \in Ids
    BY <1>4, Numbers DEF Calls, SeqStates, Descriptor
  <2> QED BY <2>1, RedundantBytes
<1>8. PICK b \in Bytes : b = VarintField(Thread.pid, Pid)
  BY SequenceAssumption, WordIs, VarintBytes DEF Thread
<1>9. PICK e \in Bytes : e = VarintField(Thread.tid, tid)
  BY WordIs, VarintBytes DEF Thread
<1>10. PICK f \in Bytes : f = StringField(Thread.name, ProcessName)
  BY SequenceAssumption, StringBytes DEF Thread
<1>11. PICK q \in Bytes : q = (b \o e) \o f
  <2>1. b \o e \in Bytes
    BY Parts
  <2> QED BY <2>1, Parts
<1>12. PICK m \in Bytes : m = Message(Descriptor.thread, q)
  <2>1. Descriptor.thread \in Ids
    BY Numbers DEF Descriptor, EventIds
  <2> QED BY <2>1, MessageBytes
<1>13. a \o m \in Bytes
  BY Parts
<1>14. ThreadDescriptor(c) = Push(Put(RawPacket(p), Message(TracePacket.descriptor, a \o m)))
  BY <1>2, <1>6, <1>7, <1>8, <1>9, <1>10, <1>11, <1>12, Zenon DEF ThreadDescriptor
<1>15. TracePacket.descriptor \in LaterIds
  BY DEF TracePacket, LaterIds
<1> QED BY <1>5, <1>13, <1>14, <1>15, PushMessage

LEMMA PacketDone ==
  ASSUME ClockFits, NEW to, NEW c \in Betweens(to)
  PROVE  Packet(c) \in Opens(to)
<1>1. CASE c.seq.initialized
  <2>1. c \in Begun(to)
    BY <1>1 DEF Begun, Betweens
  <2> QED BY <1>1, <2>1, RawPacketDone DEF Packet
<1>2. CASE ~c.seq.initialized
  <2>1. ~c.seq.started
    BY <1>2 DEF Betweens
  <2>2. PICK e \in Begun(to) :
          e = ThreadDescriptor(ProcessDescriptor(ClockSnapshot([c EXCEPT !.seq.initialized = TRUE])))
    BY <2>1, ClockSnapshotDone, ProcessDescriptorDone, ThreadDescriptorDone
  <2>3. Packet(c) = RawPacket(e)
    BY <1>2, <2>2 DEF Packet
  <2> QED BY <2>3, RawPacketDone
<1> QED BY <1>1, <1>2

-----------------------------------------------------------------------------
(* Tracks described on the way to an event.                                 *)

LEMMA DescriptorBytes ==
  ASSUME NEW uuid \in Word, NEW name \in Bytes, NEW parent \in Word
  PROVE  /\ \E q \in Bytes : TrackDescriptor(uuid, name, parent) = Message(TracePacket.descriptor, q)
         /\ \E q \in Bytes : CounterDescriptor(uuid, name, parent) = Message(TracePacket.descriptor, q)
<1>1. {1, 5, 8} \subseteq Ids
  BY SmallIds
<1>2. PICK a \in Bytes : a = RedundantField(Descriptor.uuid, uuid)
  BY <1>1, RedundantBytes DEF Descriptor
<1>3. PICK b \in Bytes : b = StringField(Descriptor.name, name)
  BY StringBytes DEF Descriptor
<1>4. PICK d \in Bytes : d = RedundantField(Descriptor.parent, parent)
  BY <1>1, RedundantBytes DEF Descriptor
<1>5. PICK e \in Bytes : e = Message(Descriptor.counter, <<>>)
  BY <1>1, MessageBytes, EmptySeq DEF Descriptor, Bytes
<1>6. PICK f \in Bytes : f = (a \o b) \o d
  <2>1. a \o b \in Bytes
    BY Parts
  <2> QED BY <2>1, Parts
<1>7. f \o e \in Bytes
  BY Parts
<1>8. TrackDescriptor(uuid, name, parent) = Message(TracePacket.descriptor, f)
  BY <1>2, <1>3, <1>4, <1>6, Zenon DEF TrackDescriptor
<1>9. CounterDescriptor(uuid, name, parent) = Message(TracePacket.descriptor, f \o e)
  BY <1>2, <1>3, <1>4, <1>5, <1>6, Zenon DEF CounterDescriptor
<1> QED BY <1>7, <1>8, <1>9

LEMMA CreateTrackDone ==
  ASSUME ClockFits, NEW to, NEW c \in Betweens(to), NEW name \in Addresses, NEW parent \in Word
  PROVE  CreateTrack(c, name, parent) \in Betweens(to)
<1>1. c \in Calls
  BY DEF Betweens
<1>2. PICK d : d = Alloc(c)
  OBVIOUS
<1>3. d \in Betweens(to)
  BY <1>1, <1>2, AllocDone, RenewedBetween
<1>4. PICK p \in Opens(to) : p = Packet(d)
  BY <1>3, PacketDone
<1>5. PICK text \in Bytes : text = Static[name]
  BY SequenceAssumption
<1>6. PICK u \in Word : u = NewUuid(c)
  BY <1>1, AllocDone
<1>7. PICK q \in Bytes : TrackDescriptor(u, text, parent) = Message(TracePacket.descriptor, q)
  BY DescriptorBytes
<1>8. CreateTrack(c, name, parent) = Push(Put(p, Message(TracePacket.descriptor, q)))
  BY <1>2, <1>4, <1>5, <1>6, <1>7, Zenon DEF CreateTrack
<1>9. TracePacket.descriptor \in LaterIds
  BY DEF TracePacket, LaterIds
<1> QED BY <1>8, <1>9, PushMessage DEF Begun

LEMMA CreateCounterDone ==
  ASSUME ClockFits, NEW to, NEW c \in Betweens(to), NEW name \in Addresses
  PROVE  CreateCounter(c, name) \in Betweens(to)
<1>1. CASE c.seq.counters[name] # 0
  BY <1>1 DEF CreateCounter
<1>2. CASE ~(c.seq.counters[name] # 0)
  <2>1. c \in Calls
    BY DEF Betweens
  <2>2. PICK o \in Opens(to) : o = Packet(CounterUuid(c, name))
    <3>1. CounterUuid(c, name) \in Betweens(to)
      BY <2>1, CounterUuidDone, RenewedBetween
    <3> QED BY <3>1, PacketDone
  <2>3. PICK p \in Opens(to) : p = ProcessTrack(o)
    <3>1. o \in Calls
      BY DEF Opens
    <3> QED BY <3>1, ProcessTrackDone, RenewedOpen
  <2>4. PICK i \in Inners : i = p.inner
    BY DEF Opens, Calls
  <2>5. PICK u \in Word : u = p.inner.counters[name]
    BY <2>4 DEF Inners
  <2>6. PICK w \in Word : w = p.inner.process
    BY <2>4 DEF Inners
  <2>7. PICK text \in Bytes : text = Static[name]
    BY SequenceAssumption
  <2>8. PICK q \in Bytes : CounterDescriptor(u, text, w) = Message(TracePacket.descriptor, q)
    BY DescriptorBytes
  <2>9. PICK b \in Betweens(to) : b = Push(Put(p, Message(TracePacket.descriptor, q)))
    <3>1. TracePacket.descriptor \in LaterIds
      BY DEF TracePacket, LaterIds
    <3> QED BY <3>1, PushMessage DEF Begun
  <2>10. b \in Calls /\ b.seq \in SeqStates
    BY DEF Betweens, Calls
  <2>11. PICK counters \in [Addresses -> Word] : counters = [b.seq.counters EXCEPT ![name] = u]
    BY <2>10 DEF SeqStates
  <2>12. PICK s \in SeqStates : s = [b.seq EXCEPT !.counters = counters]
    BY <2>10 DEF SeqStates
  <2>13. PICK d \in Calls : d = [b EXCEPT !.seq = s]
    BY <2>10 DEF Calls
  <2>14. CreateCounter(c, name) = d
    <3>1. CreateCounter(c, name)
            = [Push(Put(p, CounterDescriptor(u, text, w))) EXCEPT !.seq.counters[name] = u]
      BY <1>2, <2>2, <2>3, <2>5, <2>6, <2>7, Zenon DEF CreateCounter
    <3>2. CreateCounter(c, name) = [b EXCEPT !.seq.counters[name] = u]
      BY <2>8, <2>9, <3>1
    <3> QED BY <2>11, <2>12, <2>13, <3>2
  <2>15. d.seq = s /\ d.buf = b.buf /\ d.out = b.out
    BY <2>10, <2>13 DEF Calls
  <2>16. SameFrame(s, b.seq) /\ s.fresh = b.seq.fresh /\ s.last = b.seq.last
    BY <2>10, <2>12 DEF SeqStates, SameFrame
  <2>17. Framed(s, s.scratch)
    BY <2>16, FramedSame DEF Betweens, SameFrame
  <2>18. Clocked(b.out, to.reader, s)
    <3>1. s.started = b.seq.started /\ Clocked(b.out, to.reader, b.seq)
      BY <2>16 DEF Betweens, SameFrame
    <3> QED BY <2>16, <3>1, ClockedLike
  <2>19. d \in Betweens(to)
    BY <2>15, <2>16, <2>17, <2>18 DEF Betweens, SameFrame, OnTime
  <2> QED BY <2>14, <2>19
<1> QED BY <1>1, <1>2

\* The tracks of the counters are described one after the other.
CreateCountersRun(h, to, c, names) ==
  /\ h \in [0 .. Len(names) -> Betweens(to)] /\ h[0] = c /\ h[Len(names)] = CreateCounters(c, names)
  /\ \A i \in 1 .. Len(names) : h[i] = CreateCounter(h[i - 1], names[i])

LEMMA CreateCountersFold ==
  ASSUME ClockFits, NEW to, NEW c \in Betweens(to), NEW names \in Seq(Addresses)
  PROVE  \E h : CreateCountersRun(h, to, c, names)
<1> DEFINE n == Len(names)
           G == [p \in Betweens(to) \X (1 .. n) |-> CreateCounter(p[1], names[p[2]])]
           Folds(f) == f = [u \in SUBSET (1 .. n) |->
                             IF u = {} THEN c ELSE CreateCounter(f[u \ {Max(u)}], names[Max(u)])]
<1>0. c \in Betweens(to)
  OBVIOUS
<1>1. n \in Nat /\ DOMAIN names = 1 .. n /\ \A i \in 1 .. n : names[i] \in Addresses
  BY LenProperties, ElementOfSeq
<1>2. \A a \in Betweens(to) : \A x \in Addresses : CreateCounter(a, x) \in Betweens(to)
  <2> TAKE a \in Betweens(to)
  <2> TAKE x \in Addresses
  <2> QED BY CreateCounterDone
<1>3. G \in [Betweens(to) \X (1 .. n) -> Betweens(to)]
  BY <1>1, <1>2
<1>4. PICK f \in [SUBSET (1 .. n) -> Betweens(to)] :
        f = [u \in SUBSET (1 .. n) |-> IF u = {} THEN c ELSE G[<<f[u \ {Max(u)}], Max(u)>>]]
  <2>1. PICK V : V = Betweens(to)
    OBVIOUS
  <2>2. c \in V /\ G \in [V \X (1 .. n) -> V]
    BY <1>0, <1>3, <2>1
  <2> HIDE DEF G, n
  <2>3. FoldsOver(V, c, n, G)
    BY <1>1, <2>2, FoldOfSubsets
  <2> QED BY <2>1, <2>3 DEF FoldsOver
<1>5. Folds(f)
  <2>1. ASSUME NEW u \in SUBSET (1 .. n), u # {}
        PROVE  G[<<f[u \ {Max(u)}], Max(u)>>] = CreateCounter(f[u \ {Max(u)}], names[Max(u)])
    <3>1. Max(u) \in 1 .. n /\ u \ {Max(u)} \in SUBSET (1 .. n)
      BY <1>1, <2>1, MaxOfRange
    <3> QED BY <3>1
  <2> HIDE DEF G, n
  <2> QED BY <1>4, <2>1
<1> DEFINE iter == CHOOSE g : Folds(g)
<1>6. Folds(iter)
  BY <1>5
<1>7. CreateCounters(c, names) = iter[1 .. n]
  BY <1>1 DEF CreateCounters, FoldLeft, MapThenFoldSet
<1> HIDE DEF iter, G, n
<1> DEFINE h == [i \in 0 .. n |-> iter[1 .. i]]
<1>8. h[0] = c
  <2>1. iter[1 .. 0] = c
    BY <1>6, SubsetsOfNone
  <2> QED BY <1>1, <2>1
<1>9. ASSUME NEW i \in 1 .. n PROVE h[i] = CreateCounter(h[i - 1], names[i])
  <2>1. 1 .. i \in SUBSET (1 .. n) /\ 1 .. i # {} /\ Max(1 .. i) = i /\ (1 .. i) \ {i} = 1 .. i - 1
        /\ i - 1 \in 0 .. n
    BY <1>1, RangesOf
  <2>2. iter[1 .. i] = CreateCounter(iter[(1 .. i) \ {Max(1 .. i)}], names[Max(1 .. i)])
    <3> PICK u : u = 1 .. i
      OBVIOUS
    <3> QED BY <1>6, <2>1
  <2>3. h[i] = iter[1 .. i] /\ h[i - 1] = iter[1 .. i - 1]
    BY <2>1
  <2> HIDE DEF h
  <2> QED BY <2>1, <2>2, <2>3
<1>10. h[n] = CreateCounters(c, names)
  <2>1. h[n] = iter[1 .. n]
    BY <1>1
  <2> HIDE DEF h
  <2> QED BY <1>7, <2>1
<1>11. \A i \in 0 .. n : h[i] \in Betweens(to)
  <2> DEFINE K == {k \in Nat : k <= n => h[k] \in Betweens(to)}
  <2> HIDE DEF h
  <2>1. 0 \in K
    BY <1>0, <1>8
  <2>2. ASSUME NEW k \in K PROVE k + 1 \in K
    <3> SUFFICES ASSUME k + 1 <= n PROVE h[k + 1] \in Betweens(to)
      OBVIOUS
    <3>1. PICK i \in 1 .. n : i = k + 1
      BY <1>1
    <3>2. h[i - 1] \in Betweens(to) /\ names[i] \in Addresses
      BY <1>1, <3>1
    <3> QED BY <1>2, <1>9, <3>1, <3>2
  <2>3. K = Nat
    <3>1. K \in SUBSET Nat
      OBVIOUS
    <3> HIDE DEF K
    <3> QED BY <2>1, <2>2, <3>1, Induction
  <2> QED BY <1>1, <2>3
<1>12. h \in [0 .. n -> Betweens(to)]
  <2>1. h = [i \in 0 .. n |-> h[i]]
    OBVIOUS
  <2> HIDE DEF h
  <2> QED BY <1>11, <2>1
<1> HIDE DEF h
<1> QED BY <1>8, <1>9, <1>10, <1>12 DEF n, CreateCountersRun

LEMMA CreateCountersDone ==
  ASSUME ClockFits, NEW to, NEW c \in Betweens(to), NEW names \in Seq(Addresses)
  PROVE  CreateCounters(c, names) \in Betweens(to)
<1>1. Len(names) \in Nat
  BY LenProperties
<1>2. PICK h : CreateCountersRun(h, to, c, names)
  BY CreateCountersFold
<1> QED BY <1>1, <1>2 DEF CreateCountersRun

\* The counters of a callsite are taken from its fields in their order.
CounterNamesRun(h, e) ==
  /\ h \in [0 .. Len(e.fields) -> Seq(Addresses)] /\ h[0] = <<>> /\ h[Len(e.fields)] = CounterNames(e)
  /\ \A i \in 1 .. Len(e.fields) : h[i] = (IF e.fields[i].counter /\ Len(h[i - 1]) < MaxExtraCounters THEN Append(h[i - 1], e.fields[i].name) ELSE h[i - 1])

LEMMA CounterNamesFold ==
  ASSUME NEW e \in Callsites
  PROVE  \E h : CounterNamesRun(h, e)
<1> DEFINE n == Len(e.fields)
           G == [p \in Seq(Addresses) \X (1 .. n) |-> (IF e.fields[p[2]].counter /\ Len(p[1]) < MaxExtraCounters THEN Append(p[1], e.fields[p[2]].name) ELSE p[1])]
           Folds(f) == f = [u \in SUBSET (1 .. n) |->
                             IF u = {} THEN <<>> ELSE (IF e.fields[Max(u)].counter /\ Len(f[u \ {Max(u)}]) < MaxExtraCounters THEN Append(f[u \ {Max(u)}], e.fields[Max(u)].name) ELSE f[u \ {Max(u)}])]
<1>0. <<>> \in Seq(Addresses)
  BY EmptySeq
<1>1. n \in Nat /\ DOMAIN e.fields = 1 .. n /\ \A i \in 1 .. n : e.fields[i] \in FieldsOf
  <2>1. e.fields \in Seq(FieldsOf)
    BY SiteFacts DEF IsCallsite
  <2> QED BY <2>1, LenProperties, ElementOfSeq
<1>2. \A a \in Seq(Addresses) : \A x \in FieldsOf : (IF x.counter /\ Len(a) < MaxExtraCounters THEN Append(a, x.name) ELSE a) \in Seq(Addresses)
  <2> TAKE a \in Seq(Addresses)
  <2> TAKE x \in FieldsOf
  <2>1. x.name \in Addresses
    BY DEF FieldsOf
  <2> QED BY <2>1, AppendProperties
<1>3. G \in [Seq(Addresses) \X (1 .. n) -> Seq(Addresses)]
  BY <1>1, <1>2
<1>4. PICK f \in [SUBSET (1 .. n) -> Seq(Addresses)] :
        f = [u \in SUBSET (1 .. n) |-> IF u = {} THEN <<>> ELSE G[<<f[u \ {Max(u)}], Max(u)>>]]
  <2>1. PICK V : V = Seq(Addresses)
    OBVIOUS
  <2>2. <<>> \in V /\ G \in [V \X (1 .. n) -> V]
    BY <1>0, <1>3, <2>1
  <2> HIDE DEF G, n
  <2>3. FoldsOver(V, <<>>, n, G)
    BY <1>1, <2>2, FoldOfSubsets
  <2> QED BY <2>1, <2>3 DEF FoldsOver
<1>5. Folds(f)
  <2>1. ASSUME NEW u \in SUBSET (1 .. n), u # {}
        PROVE  G[<<f[u \ {Max(u)}], Max(u)>>] = (IF e.fields[Max(u)].counter /\ Len(f[u \ {Max(u)}]) < MaxExtraCounters THEN Append(f[u \ {Max(u)}], e.fields[Max(u)].name) ELSE f[u \ {Max(u)}])
    <3>1. Max(u) \in 1 .. n /\ u \ {Max(u)} \in SUBSET (1 .. n)
      BY <1>1, <2>1, MaxOfRange
    <3> QED BY <3>1
  <2> HIDE DEF G, n
  <2> QED BY <1>4, <2>1
<1> DEFINE iter == CHOOSE g : Folds(g)
<1>6. Folds(iter)
  BY <1>5
<1>7. CounterNames(e) = iter[1 .. n]
  BY <1>1 DEF CounterNames, FoldLeft, MapThenFoldSet
<1> HIDE DEF iter, G, n
<1> DEFINE h == [i \in 0 .. n |-> iter[1 .. i]]
<1>8. h[0] = <<>>
  <2>1. iter[1 .. 0] = <<>>
    BY <1>6, SubsetsOfNone
  <2> QED BY <1>1, <2>1
<1>9. ASSUME NEW i \in 1 .. n PROVE h[i] = (IF e.fields[i].counter /\ Len(h[i - 1]) < MaxExtraCounters THEN Append(h[i - 1], e.fields[i].name) ELSE h[i - 1])
  <2>1. 1 .. i \in SUBSET (1 .. n) /\ 1 .. i # {} /\ Max(1 .. i) = i /\ (1 .. i) \ {i} = 1 .. i - 1
        /\ i - 1 \in 0 .. n
    BY <1>1, RangesOf
  <2>2. iter[1 .. i] = (IF e.fields[Max(1 .. i)].counter /\ Len(iter[(1 .. i) \ {Max(1 .. i)}]) < MaxExtraCounters THEN Append(iter[(1 .. i) \ {Max(1 .. i)}], e.fields[Max(1 .. i)].name) ELSE iter[(1 .. i) \ {Max(1 .. i)}])
    <3> PICK u : u = 1 .. i
      OBVIOUS
    <3> QED BY <1>6, <2>1
  <2>3. h[i] = iter[1 .. i] /\ h[i - 1] = iter[1 .. i - 1]
    BY <2>1
  <2> HIDE DEF h
  <2> QED BY <2>1, <2>2, <2>3
<1>10. h[n] = CounterNames(e)
  <2>1. h[n] = iter[1 .. n]
    BY <1>1
  <2> HIDE DEF h
  <2> QED BY <1>7, <2>1
<1>11. \A i \in 0 .. n : h[i] \in Seq(Addresses)
  <2> DEFINE K == {k \in Nat : k <= n => h[k] \in Seq(Addresses)}
  <2> HIDE DEF h
  <2>1. 0 \in K
    BY <1>0, <1>8
  <2>2. ASSUME NEW k \in K PROVE k + 1 \in K
    <3> SUFFICES ASSUME k + 1 <= n PROVE h[k + 1] \in Seq(Addresses)
      OBVIOUS
    <3>1. PICK i \in 1 .. n : i = k + 1
      BY <1>1
    <3>2. h[i - 1] \in Seq(Addresses) /\ e.fields[i] \in FieldsOf
      BY <1>1, <3>1
    <3> QED BY <1>2, <1>9, <3>1, <3>2
  <2>3. K = Nat
    <3>1. K \in SUBSET Nat
      OBVIOUS
    <3> HIDE DEF K
    <3> QED BY <2>1, <2>2, <3>1, Induction
  <2> QED BY <1>1, <2>3
<1>12. h \in [0 .. n -> Seq(Addresses)]
  <2>1. h = [i \in 0 .. n |-> h[i]]
    OBVIOUS
  <2> HIDE DEF h
  <2> QED BY <1>11, <2>1
<1> HIDE DEF h
<1> QED BY <1>8, <1>9, <1>10, <1>12 DEF n, CounterNamesRun

LEMMA WithCountersDone ==
  ASSUME ClockFits, NEW to, NEW c \in Betweens(to), NEW e \in Callsites
  PROVE  WithCounters(c, e) \in Betweens(to)
<1>1. Len(e.fields) \in Nat
  BY SiteFacts, LenProperties DEF IsCallsite
<1>2. PICK h : CounterNamesRun(h, e)
  BY CounterNamesFold
<1>3. CounterNames(e) \in Seq(Addresses)
  BY <1>1, <1>2 DEF CounterNamesRun
<1> QED BY <1>3, CreateCountersDone DEF WithCounters

-----------------------------------------------------------------------------
(* Fields.                                                                  *)

\* Values whose numbers fit a word.
Narrowed ==
  [kind : {"bool"}, v : {0, 1}] \cup [kind : {"u64", "f64"}, v : Word]
    \cup [kind : {"i64"}, v : -(Words \div 2) .. (Words \div 2) - 1]
    \cup [kind : {"str", "fmt"}, v : Bytes]

LEMMA DisplayBytes == \A v \in Int : Display(v) \in Bytes
<1> TAKE v \in Int
<1>1. PICK b \in Byte : b = v % 128
  BY DEF Byte
<1>2. <<b>> \in Seq(Byte)
  OBVIOUS
<1> QED BY <1>1, <1>2 DEF Display, Bytes

LEMMA NarrowDone ==
  ASSUME NEW x \in Values
  PROVE  Narrow(x) \in Narrowed
<1>1. Words \in Nat
  BY WordFacts
<1>2. CASE x.kind = "i128"
  <2>1. x.v \in Int
    BY <1>2 DEF Values
  <2>2. CASE x.v \in -(Words \div 2) .. (Words \div 2) - 1
    BY <1>2, <2>2 DEF Narrow, Narrowed
  <2>3. CASE x.v \notin -(Words \div 2) .. (Words \div 2) - 1
    <3>1. PICK b \in Bytes : b = Display(x.v)
      BY <2>1, DisplayBytes
    <3>2. Narrow(x) = [kind |-> "fmt", v |-> b]
      BY <1>2, <2>3, <3>1 DEF Narrow
    <3> QED BY <3>2 DEF Narrowed
  <2> QED BY <2>2, <2>3
<1>3. CASE x.kind = "u128"
  <2>1. x.v \in Nat
    BY <1>3 DEF Values
  <2>2. CASE x.v < Words
    <3>1. PICK w \in Word : w = x.v
      BY <2>1, <2>2, WordIs
    <3>2. Narrow(x) = [kind |-> "u64", v |-> w]
      BY <1>3, <2>2, <3>1 DEF Narrow
    <3> QED BY <3>2 DEF Narrowed
  <2>3. CASE ~(x.v < Words)
    <3>1. PICK b \in Bytes : b = Display(x.v)
      BY <2>1, DisplayBytes
    <3>2. Narrow(x) = [kind |-> "fmt", v |-> b]
      BY <1>3, <2>3, <3>1 DEF Narrow
    <3> QED BY <3>2 DEF Narrowed
  <2> QED BY <2>2, <2>3
<1>4. CASE x.kind # "i128" /\ x.kind # "u128"
  <2>1. Narrow(x) = x
    BY <1>4 DEF Narrow
  <2> QED BY <1>4, <2>1 DEF Values, Narrowed
<1> QED BY <1>2, <1>3, <1>4

LEMMA FixedBits ==
  ASSUME NEW id \in Ids, NEW v \in Word
  PROVE  Fixed64Field(id, v) \in Bytes
BY WordIs, Fixed64FieldCodes DEF Codes

\* A value is written as some bytes.
LEMMA ValueBytes ==
  ASSUME NEW x \in Narrowed
  PROVE  ValueField(x) \in Bytes
<1>1. {5, 6} \subseteq Ids /\ Words \in Nat
  BY SmallIds, WordFacts
<1>2. CASE x.kind = "bool"
  <2>1. x.v \in Nat
    BY <1>2 DEF Narrowed
  <2> QED BY <1>2, <2>1, VarintBytes DEF ValueField, Annotation
<1>3. CASE x.kind = "i64"
  <2>1. x.v \in Int
    BY <1>1, <1>3 DEF Narrowed
  <2>2. PICK u \in Nat : u = Unsigned(x.v)
    BY <2>1, UnsignedWord
  <2>3. ValueField(x) = VarintField(4, u)
    BY <1>3, <2>2 DEF ValueField, Annotation
  <2> QED BY <2>3, VarintBytes
<1>4. CASE x.kind = "u64"
  <2>1. x.v \in Nat
    BY <1>4, WordIs DEF Narrowed
  <2> QED BY <1>4, <2>1, VarintBytes DEF ValueField, Annotation
<1>5. CASE x.kind = "f64"
  <2>1. x.v \in Word
    BY <1>5 DEF Narrowed
  <2> QED BY <1>1, <1>5, <2>1, FixedBits DEF ValueField, Annotation
<1>6. CASE x.kind = "str"
  <2>1. x.v \in Bytes
    BY <1>6 DEF Narrowed
  <2> QED BY <1>6, <2>1, StringBytes DEF ValueField, Annotation
<1>7. CASE x.kind = "fmt"
  <2>1. x.v \in Bytes
    BY <1>7 DEF Narrowed
  <2> QED BY <1>1, <1>7, <2>1, MessageBytes DEF ValueField, Annotation, FmtField
<1>8. x.kind \in {"bool", "i64", "u64", "f64", "str", "fmt"}
  BY DEF Narrowed
<1> QED BY <1>2, <1>3, <1>4, <1>5, <1>6, <1>7, <1>8

LEMMA AnnotateDone ==
  ASSUME NEW to, NEW type, NEW c \in InEvents(to, type), NEW f \in FieldsOf
  PROVE  Annotate(c, f) \in InEvents(to, type)
<1>1. c \in Calls /\ f.name \in Addresses /\ f.x \in Values
  BY DEF InEvents, FieldsOf
<1>2. PICK d : d = Intern(c, "note", f.name)
  OBVIOUS
<1>3. Reseq(c, d) /\ Iid(d, "note") \in Nat
  BY <1>1, <1>2, InternDone DEF Tables
<1>4. d \in InEvents(to, type)
  BY <1>3, ReseqEvent
<1>5. PICK a \in Bytes : a = VarintField(Annotation.nameIid, Iid(d, "note"))
  BY <1>3, VarintBytes DEF Annotation
<1>6. PICK b \in Bytes : b = ValueField(Narrow(f.x))
  BY <1>1, NarrowDone, ValueBytes
<1>7. Annotate(c, f) = Put(d, Message(4, a \o b))
  BY <1>2, <1>5, <1>6 DEF Annotate, AnnotationField, TrackEvent
<1>8. Adds(Message(4, a \o b), EventIds)
  <2>1. a \o b \in Bytes /\ 4 \in Ids /\ 4 \in EventIds
    BY Parts, Numbers DEF EventIds
  <2> QED BY <2>1, AddsMessage
<1> QED BY <1>4, <1>7, <1>8, PutEvent

\* What the visitor notes on the way.
LEMMA MarkEvent ==
  ASSUME NEW to, NEW type, NEW c \in InEvents(to, type)
  PROVE  /\ [c EXCEPT !.samples = @ + 1] \in InEvents(to, type)
         /\ [c EXCEPT !.named = TRUE] \in InEvents(to, type)
<1>1. c \in Calls /\ c.samples \in Nat
  BY DEF InEvents, Calls
<1>2. PICK p, q : Writing(c, to, type, p, q)
  BY DEF InEvents
<1>3. PICK n \in Nat : n = c.samples + 1
  BY <1>1
<1>4. ASSUME NEW d \in Calls, d.seq = c.seq, d.buf = c.buf, d.root = c.root,
             d.event = c.event, d.out = c.out
      PROVE  d \in InEvents(to, type)
  <2>1. Writing(d, to, type, p, q)
    BY <1>2, <1>4 DEF Writing
  <2> QED BY <1>4, <2>1 DEF InEvents
<1>5. PICK d \in Calls : d = [c EXCEPT !.samples = n]
  BY <1>1 DEF Calls
<1>6. d.seq = c.seq /\ d.buf = c.buf /\ d.root = c.root /\ d.event = c.event /\ d.out = c.out
  BY <1>1, <1>5 DEF Calls
<1>7. PICK e \in Calls : e = [c EXCEPT !.named = TRUE]
  BY <1>1 DEF Calls
<1>8. e.seq = c.seq /\ e.buf = c.buf /\ e.root = c.root /\ e.event = c.event /\ e.out = c.out
  BY <1>1, <1>7 DEF Calls
<1> QED BY <1>3, <1>4, <1>5, <1>6, <1>7, <1>8

LEMMA CounterAdds ==
  ASSUME NEW uuid \in Word, NEW x \in Values, x.kind \in {"i64", "u64", "f64"}
  PROVE  Adds(CounterField(uuid, x), EventIds)
<1>1. {31, 12, 45, 46} \subseteq Ids /\ {31, 12, 45, 46} \subseteq EventIds
  BY Numbers DEF EventIds
<1>2. uuid \in Nat /\ uuid < Words
  BY WordIs
<1>3. CASE x.kind = "f64"
  <2>1. PICK v \in Nat : v = x.v /\ v < Words
    BY <1>3, WordIs DEF Values
  <2>2. Adds(RedundantField(45, uuid), EventIds) /\ Adds(Fixed64Field(46, v), EventIds)
    BY <1>1, <1>2, <2>1, AddsRedundant, AddsFixed
  <2>3. CounterField(uuid, x) = RedundantField(45, uuid) \o Fixed64Field(46, v)
    BY <1>3, <2>1 DEF CounterField, TrackEvent
  <2> QED BY <2>2, <2>3, AddsBoth
<1>4. CASE x.kind # "f64"
  <2>1. x.v \in Int
    BY <1>4, WordFacts, WordIs DEF Values
  <2>2. PICK v \in Nat : v = Unsigned(x.v) /\ v < Words
    BY <2>1, UnsignedWord
  <2>3. Adds(RedundantField(31, uuid), EventIds) /\ Adds(VarintField(12, v), EventIds)
    BY <1>1, <1>2, <2>2, AddsRedundant, AddsVarint
  <2>4. CounterField(uuid, x) = RedundantField(31, uuid) \o VarintField(12, v)
    BY <1>4, <2>2 DEF CounterField, TrackEvent
  <2> QED BY <2>3, <2>4, AddsBoth
<1> QED BY <1>3, <1>4

LEMMA NameAdds ==
  ASSUME NEW x \in Values, x.kind \in {"str", "fmt"}
  PROVE  Adds(EventName(x), EventIds)
<1>1. 23 \in Ids /\ 23 \in EventIds /\ x.v \in Bytes
  BY Numbers DEF EventIds, Values
<1>2. Adds(StringField(23, x.v), EventIds) /\ Adds(Message(23, x.v), EventIds)
  BY <1>1, AddsString, AddsMessage
<1> QED BY <1>2 DEF EventName, TrackEvent, FmtField

LEMMA VisitDone ==
  ASSUME NEW to, NEW type, NEW c \in InEvents(to, type), NEW e, NEW f \in FieldsOf
  PROVE  Visit(c, e, f) \in InEvents(to, type)
<1>1. c \in Calls /\ f.name \in Addresses /\ f.x \in Values
  BY DEF InEvents, FieldsOf
<1>2. CASE Samples(c, f)
  <2>1. c.seq.counters[f.name] \in Word
    BY <1>1 DEF Calls, SeqStates
  <2>2. f.x.kind \in {"i64", "u64", "f64"}
    BY <1>2 DEF Samples, Numeric
  <2>3. PICK d \in InEvents(to, type) : d = Put(c, CounterField(c.seq.counters[f.name], f.x))
    BY <1>1, <2>1, <2>2, CounterAdds, PutEvent
  <2>4. Visit(c, e, f) = [d EXCEPT !.samples = @ + 1]
    BY <1>2, <2>3 DEF Visit
  <2> QED BY <2>4, MarkEvent
<1>3. CASE ~Samples(c, f) /\ e.unnamed /\ ~c.named /\ f.message /\ f.x.kind \in {"str", "fmt"}
  <2>1. PICK d \in InEvents(to, type) : d = Put(c, EventName(f.x))
    BY <1>1, <1>3, NameAdds, PutEvent
  <2>2. Visit(c, e, f) = [d EXCEPT !.named = TRUE]
    BY <1>3, <2>1 DEF Visit
  <2> QED BY <2>2, MarkEvent
<1>4. CASE /\ ~Samples(c, f)
           /\ ~(~Samples(c, f) /\ e.unnamed /\ ~c.named /\ f.message /\ f.x.kind \in {"str", "fmt"})
  <2>1. Visit(c, e, f) = IF Noted(f) THEN Annotate(c, f) ELSE c
    BY <1>4, Zenon DEF Visit
  <2> QED BY <2>1, AnnotateDone
<1> QED BY <1>2, <1>3, <1>4

LEMMA NamedDone ==
  ASSUME NEW to, NEW type, NEW c \in InEvents(to, type), NEW name \in Addresses
  PROVE  Named(c, name) \in InEvents(to, type)
<1>1. c \in Calls
  BY DEF InEvents
<1>2. PICK d : d = Intern(c, "event", name)
  OBVIOUS
<1>3. PICK n \in Nat : n = Iid(d, "event") /\ n < Words /\ Reseq(c, d)
  BY <1>1, <1>2, InternDone DEF Tables
<1>4. Adds(VarintField(10, n), EventIds)
  BY <1>3, Numbers, AddsVarint DEF EventIds
<1>5. Named(c, name) = Put(d, VarintField(10, n))
  BY <1>2, <1>3 DEF Named, TrackEvent
<1> QED BY <1>3, <1>4, <1>5, ReseqEvent, PutEvent

LEMMA MetadataDone ==
  ASSUME NEW to, NEW type, NEW c \in InEvents(to, type), NEW e \in Callsites
  PROVE  Metadata(c, e) \in InEvents(to, type)
<1>1. c \in Calls /\ e.level \in 1 .. 5 /\ e.target \in Addresses
  BY SiteFacts DEF InEvents, IsCallsite
<1>2. PICK a \in InEvents(to, type) :
        a = IF ~config.locations THEN c
            ELSE LET l == Locate(c, e) IN Put(l, VarintField(TrackEvent.location, LocationIid(l, e)))
  <2>1. PICK l : l = Locate(c, e)
    OBVIOUS
  <2>2. PICK n \in Nat : n = LocationIid(l, e) /\ n < Words /\ Reseq(c, l)
    BY <1>1, <2>1, LocateDone
  <2>3. Adds(VarintField(34, n), EventIds)
    BY <2>2, Numbers, AddsVarint DEF EventIds
  <2>4. Put(l, VarintField(34, n)) \in InEvents(to, type)
    BY <2>2, <2>3, ReseqEvent, PutEvent
  <2> QED BY <2>1, <2>2, <2>4 DEF TrackEvent
<1>3. PICK b \in InEvents(to, type) : b = Put(Level(a, e.level), LevelAnnotation(1, e.level))
  <2>1. Level(a, e.level) \in InEvents(to, type)
    <3>1. a \in Calls
      BY DEF InEvents
    <3> QED BY <1>1, <3>1, LevelDone, ReseqEvent
  <2>2. PICK n \in Nat : n = e.level
    BY <1>1
  <2>3. PICK x \in Bytes : x = VarintField(Annotation.nameIid, 1)
    BY VarintBytes DEF Annotation
  <2>4. PICK y \in Bytes : y = VarintField(Annotation.textIid, n)
    BY VarintBytes DEF Annotation
  <2>5. Adds(Message(4, x \o y), EventIds)
    <3>1. x \o y \in Bytes /\ 4 \in Ids /\ 4 \in EventIds
      BY Parts, Numbers DEF EventIds
    <3> QED BY <3>1, AddsMessage
  <2>6. LevelAnnotation(1, e.level) = Message(4, x \o y)
    BY <2>2, <2>3, <2>4 DEF LevelAnnotation, TrackEvent
  <2> QED BY <2>1, <2>5, <2>6, PutEvent
<1>4. PICK d : d = Intern(b, "category", e.target)
  OBVIOUS
<1>5. PICK n \in Nat : n = Iid(d, "category") /\ n < Words /\ Reseq(b, d)
  <2>1. b \in Calls
    BY DEF InEvents
  <2> QED BY <1>1, <1>4, <2>1, InternDone DEF Tables
<1>6. Adds(VarintField(3, n), EventIds)
  BY <1>5, Numbers, AddsVarint DEF EventIds
<1>7. Metadata(c, e) = Put(d, VarintField(3, n))
  <2>1. Metadata(c, e) = Put(d, VarintField(TrackEvent.category, Iid(d, "category")))
    BY <1>2, <1>3, <1>4, Zenon DEF Metadata
  <2> QED BY <1>5, <2>1 DEF TrackEvent
<1> QED BY <1>5, <1>6, <1>7, ReseqEvent, PutEvent

\* Stored fields are written one after the other.
StoredFieldsRun(h, to, type, c, fs) ==
  /\ h \in [0 .. Len(fs) -> InEvents(to, type)] /\ h[0] = c /\ h[Len(fs)] = StoredFields(c, fs)
  /\ \A i \in 1 .. Len(fs) : h[i] = Annotate(h[i - 1], fs[i])

LEMMA StoredFieldsFold ==
  ASSUME NEW to, NEW type, NEW c \in InEvents(to, type), NEW fs \in Seq(FieldsOf)
  PROVE  \E h : StoredFieldsRun(h, to, type, c, fs)
<1> DEFINE n == Len(fs)
           G == [p \in InEvents(to, type) \X (1 .. n) |-> Annotate(p[1], fs[p[2]])]
           Folds(f) == f = [u \in SUBSET (1 .. n) |->
                             IF u = {} THEN c ELSE Annotate(f[u \ {Max(u)}], fs[Max(u)])]
<1>0. c \in InEvents(to, type)
  OBVIOUS
<1>1. n \in Nat /\ DOMAIN fs = 1 .. n /\ \A i \in 1 .. n : fs[i] \in FieldsOf
  BY LenProperties, ElementOfSeq
<1>2. \A a \in InEvents(to, type) : \A x \in FieldsOf : Annotate(a, x) \in InEvents(to, type)
  <2> TAKE a \in InEvents(to, type)
  <2> TAKE x \in FieldsOf
  <2> QED BY AnnotateDone
<1>3. G \in [InEvents(to, type) \X (1 .. n) -> InEvents(to, type)]
  BY <1>1, <1>2
<1>4. PICK f \in [SUBSET (1 .. n) -> InEvents(to, type)] :
        f = [u \in SUBSET (1 .. n) |-> IF u = {} THEN c ELSE G[<<f[u \ {Max(u)}], Max(u)>>]]
  <2>1. PICK V : V = InEvents(to, type)
    OBVIOUS
  <2>2. c \in V /\ G \in [V \X (1 .. n) -> V]
    BY <1>0, <1>3, <2>1
  <2> HIDE DEF G, n
  <2>3. FoldsOver(V, c, n, G)
    BY <1>1, <2>2, FoldOfSubsets
  <2> QED BY <2>1, <2>3 DEF FoldsOver
<1>5. Folds(f)
  <2>1. ASSUME NEW u \in SUBSET (1 .. n), u # {}
        PROVE  G[<<f[u \ {Max(u)}], Max(u)>>] = Annotate(f[u \ {Max(u)}], fs[Max(u)])
    <3>1. Max(u) \in 1 .. n /\ u \ {Max(u)} \in SUBSET (1 .. n)
      BY <1>1, <2>1, MaxOfRange
    <3> QED BY <3>1
  <2> HIDE DEF G, n
  <2> QED BY <1>4, <2>1
<1> DEFINE iter == CHOOSE g : Folds(g)
<1>6. Folds(iter)
  BY <1>5
<1>7. StoredFields(c, fs) = iter[1 .. n]
  BY <1>1 DEF StoredFields, FoldLeft, MapThenFoldSet
<1> HIDE DEF iter, G, n
<1> DEFINE h == [i \in 0 .. n |-> iter[1 .. i]]
<1>8. h[0] = c
  <2>1. iter[1 .. 0] = c
    BY <1>6, SubsetsOfNone
  <2> QED BY <1>1, <2>1
<1>9. ASSUME NEW i \in 1 .. n PROVE h[i] = Annotate(h[i - 1], fs[i])
  <2>1. 1 .. i \in SUBSET (1 .. n) /\ 1 .. i # {} /\ Max(1 .. i) = i /\ (1 .. i) \ {i} = 1 .. i - 1
        /\ i - 1 \in 0 .. n
    BY <1>1, RangesOf
  <2>2. iter[1 .. i] = Annotate(iter[(1 .. i) \ {Max(1 .. i)}], fs[Max(1 .. i)])
    <3> PICK u : u = 1 .. i
      OBVIOUS
    <3> QED BY <1>6, <2>1
  <2>3. h[i] = iter[1 .. i] /\ h[i - 1] = iter[1 .. i - 1]
    BY <2>1
  <2> HIDE DEF h
  <2> QED BY <2>1, <2>2, <2>3
<1>10. h[n] = StoredFields(c, fs)
  <2>1. h[n] = iter[1 .. n]
    BY <1>1
  <2> HIDE DEF h
  <2> QED BY <1>7, <2>1
<1>11. \A i \in 0 .. n : h[i] \in InEvents(to, type)
  <2> DEFINE K == {k \in Nat : k <= n => h[k] \in InEvents(to, type)}
  <2> HIDE DEF h
  <2>1. 0 \in K
    BY <1>0, <1>8
  <2>2. ASSUME NEW k \in K PROVE k + 1 \in K
    <3> SUFFICES ASSUME k + 1 <= n PROVE h[k + 1] \in InEvents(to, type)
      OBVIOUS
    <3>1. PICK i \in 1 .. n : i = k + 1
      BY <1>1
    <3>2. h[i - 1] \in InEvents(to, type) /\ fs[i] \in FieldsOf
      BY <1>1, <3>1
    <3> QED BY <1>2, <1>9, <3>1, <3>2
  <2>3. K = Nat
    <3>1. K \in SUBSET Nat
      OBVIOUS
    <3> HIDE DEF K
    <3> QED BY <2>1, <2>2, <3>1, Induction
  <2> QED BY <1>1, <2>3
<1>12. h \in [0 .. n -> InEvents(to, type)]
  <2>1. h = [i \in 0 .. n |-> h[i]]
    OBVIOUS
  <2> HIDE DEF h
  <2> QED BY <1>11, <2>1
<1> HIDE DEF h
<1> QED BY <1>8, <1>9, <1>10, <1>12 DEF n, StoredFieldsRun

LEMMA StoredFieldsDone ==
  ASSUME NEW to, NEW type, NEW c \in InEvents(to, type), NEW fs \in Seq(FieldsOf)
  PROVE  StoredFields(c, fs) \in InEvents(to, type)
<1>1. Len(fs) \in Nat
  BY LenProperties
<1>2. PICK h : StoredFieldsRun(h, to, type, c, fs)
  BY StoredFieldsFold
<1> QED BY <1>1, <1>2 DEF StoredFieldsRun

\* The fields of an event are visited one after the other.
VisitAllRun(h, to, type, c, e, fs) ==
  /\ h \in [0 .. Len(fs) -> InEvents(to, type)] /\ h[0] = c /\ h[Len(fs)] = VisitAll(c, e, fs)
  /\ \A i \in 1 .. Len(fs) : h[i] = Visit(h[i - 1], e, fs[i])

LEMMA VisitAllFold ==
  ASSUME NEW to, NEW type, NEW c \in InEvents(to, type), NEW e, NEW fs \in Seq(FieldsOf)
  PROVE  \E h : VisitAllRun(h, to, type, c, e, fs)
<1> DEFINE n == Len(fs)
           G == [p \in InEvents(to, type) \X (1 .. n) |-> Visit(p[1], e, fs[p[2]])]
           Folds(f) == f = [u \in SUBSET (1 .. n) |->
                             IF u = {} THEN c ELSE Visit(f[u \ {Max(u)}], e, fs[Max(u)])]
<1>0. c \in InEvents(to, type)
  OBVIOUS
<1>1. n \in Nat /\ DOMAIN fs = 1 .. n /\ \A i \in 1 .. n : fs[i] \in FieldsOf
  BY LenProperties, ElementOfSeq
<1>2. \A a \in InEvents(to, type) : \A x \in FieldsOf : Visit(a, e, x) \in InEvents(to, type)
  <2> TAKE a \in InEvents(to, type)
  <2> TAKE x \in FieldsOf
  <2> QED BY VisitDone
<1>3. G \in [InEvents(to, type) \X (1 .. n) -> InEvents(to, type)]
  BY <1>1, <1>2
<1>4. PICK f \in [SUBSET (1 .. n) -> InEvents(to, type)] :
        f = [u \in SUBSET (1 .. n) |-> IF u = {} THEN c ELSE G[<<f[u \ {Max(u)}], Max(u)>>]]
  <2>1. PICK V : V = InEvents(to, type)
    OBVIOUS
  <2>2. c \in V /\ G \in [V \X (1 .. n) -> V]
    BY <1>0, <1>3, <2>1
  <2> HIDE DEF G, n
  <2>3. FoldsOver(V, c, n, G)
    BY <1>1, <2>2, FoldOfSubsets
  <2> QED BY <2>1, <2>3 DEF FoldsOver
<1>5. Folds(f)
  <2>1. ASSUME NEW u \in SUBSET (1 .. n), u # {}
        PROVE  G[<<f[u \ {Max(u)}], Max(u)>>] = Visit(f[u \ {Max(u)}], e, fs[Max(u)])
    <3>1. Max(u) \in 1 .. n /\ u \ {Max(u)} \in SUBSET (1 .. n)
      BY <1>1, <2>1, MaxOfRange
    <3> QED BY <3>1
  <2> HIDE DEF G, n
  <2> QED BY <1>4, <2>1
<1> DEFINE iter == CHOOSE g : Folds(g)
<1>6. Folds(iter)
  BY <1>5
<1>7. VisitAll(c, e, fs) = iter[1 .. n]
  BY <1>1 DEF VisitAll, FoldLeft, MapThenFoldSet
<1> HIDE DEF iter, G, n
<1> DEFINE h == [i \in 0 .. n |-> iter[1 .. i]]
<1>8. h[0] = c
  <2>1. iter[1 .. 0] = c
    BY <1>6, SubsetsOfNone
  <2> QED BY <1>1, <2>1
<1>9. ASSUME NEW i \in 1 .. n PROVE h[i] = Visit(h[i - 1], e, fs[i])
  <2>1. 1 .. i \in SUBSET (1 .. n) /\ 1 .. i # {} /\ Max(1 .. i) = i /\ (1 .. i) \ {i} = 1 .. i - 1
        /\ i - 1 \in 0 .. n
    BY <1>1, RangesOf
  <2>2. iter[1 .. i] = Visit(iter[(1 .. i) \ {Max(1 .. i)}], e, fs[Max(1 .. i)])
    <3> PICK u : u = 1 .. i
      OBVIOUS
    <3> QED BY <1>6, <2>1
  <2>3. h[i] = iter[1 .. i] /\ h[i - 1] = iter[1 .. i - 1]
    BY <2>1
  <2> HIDE DEF h
  <2> QED BY <2>1, <2>2, <2>3
<1>10. h[n] = VisitAll(c, e, fs)
  <2>1. h[n] = iter[1 .. n]
    BY <1>1
  <2> HIDE DEF h
  <2> QED BY <1>7, <2>1
<1>11. \A i \in 0 .. n : h[i] \in InEvents(to, type)
  <2> DEFINE K == {k \in Nat : k <= n => h[k] \in InEvents(to, type)}
  <2> HIDE DEF h
  <2>1. 0 \in K
    BY <1>0, <1>8
  <2>2. ASSUME NEW k \in K PROVE k + 1 \in K
    <3> SUFFICES ASSUME k + 1 <= n PROVE h[k + 1] \in InEvents(to, type)
      OBVIOUS
    <3>1. PICK i \in 1 .. n : i = k + 1
      BY <1>1
    <3>2. h[i - 1] \in InEvents(to, type) /\ fs[i] \in FieldsOf
      BY <1>1, <3>1
    <3> QED BY <1>2, <1>9, <3>1, <3>2
  <2>3. K = Nat
    <3>1. K \in SUBSET Nat
      OBVIOUS
    <3> HIDE DEF K
    <3> QED BY <2>1, <2>2, <3>1, Induction
  <2> QED BY <1>1, <2>3
<1>12. h \in [0 .. n -> InEvents(to, type)]
  <2>1. h = [i \in 0 .. n |-> h[i]]
    OBVIOUS
  <2> HIDE DEF h
  <2> QED BY <1>11, <2>1
<1> HIDE DEF h
<1> QED BY <1>8, <1>9, <1>10, <1>12 DEF n, VisitAllRun

LEMMA VisitAllDone ==
  ASSUME NEW to, NEW type, NEW c \in InEvents(to, type), NEW e, NEW fs \in Seq(FieldsOf)
  PROVE  VisitAll(c, e, fs) \in InEvents(to, type)
<1>1. Len(fs) \in Nat
  BY LenProperties
<1>2. PICK h : VisitAllRun(h, to, type, c, e, fs)
  BY VisitAllFold
<1> QED BY <1>1, <1>2 DEF VisitAllRun

LEMMA NamedAtLastDone ==
  ASSUME NEW to, NEW type, NEW c \in InEvents(to, type), NEW e \in Callsites, NEW k
  PROVE  NamedAtLast(c, e, k) \in InEvents(to, type)
<1>1. Named(c, e.name) \in InEvents(to, type)
  BY SiteFacts, NamedDone DEF IsCallsite
<1> QED BY <1>1 DEF NamedAtLast

\* A field whose formatting panics is a field cut short.
LEMMA UntilDone ==
  ASSUME NEW fs \in Seq(FieldsOf), NEW k \in {0} \cup Panics(fs)
  PROVE  Until(fs, k) \in Seq(FieldsOf)
<1>1. CASE k = 0
  BY <1>1 DEF Until
<1>2. CASE k # 0
  <2>1. k \in 1 .. Len(fs) /\ fs[k].x.kind = "fmt" /\ Len(fs) \in Nat
    BY <1>2, LenProperties DEF Panics
  <2>2. \A i \in 1 .. Len(fs) : fs[i] \in FieldsOf
    BY ElementOfSeq
  <2>3. PICK m \in Int : m = k - 1 /\ \A i \in 1 .. m : fs[i] \in FieldsOf
    <3>1. PICK m \in Int : m = k - 1
      BY <2>1
    <3>2. \A i \in 1 .. m : i \in 1 .. Len(fs)
      BY <2>1, <3>1
    <3> QED BY <2>2, <3>1, <3>2
  <2>4. SubSeq(fs, 1, m) \in Seq(FieldsOf)
    BY <2>3, SubSeqProperties
  <2>5. PICK f \in FieldsOf : f = fs[k]
    BY <2>1, <2>2
  <2>6. f.x \in Values /\ f.x.kind = "fmt"
    BY <2>1, <2>5 DEF FieldsOf
  <2>7. PICK x \in Values : x = [f.x EXCEPT !.v = <<>>]
    <3>1. f.x \in [kind : {"str", "fmt"}, v : Bytes]
      BY <2>6 DEF Values
    <3>2. <<>> \in Bytes
      BY EmptySeq DEF Bytes
    <3>3. [f.x EXCEPT !.v = <<>>] \in [kind : {"str", "fmt"}, v : Bytes]
      BY <3>1, <3>2
    <3> QED BY <3>3 DEF Values
  <2>8. PICK g \in FieldsOf : g = [f EXCEPT !.x = x]
    BY DEF FieldsOf
  <2>9. [fs[k] EXCEPT !.x.v = <<>>] = g
    BY <2>5, <2>7, <2>8
  <2>10. Until(fs, k) = Append(SubSeq(fs, 1, m), g)
    BY <1>2, <2>3, <2>9 DEF Until
  <2> QED BY <2>4, <2>10, AppendProperties
<1> QED BY <1>1, <1>2

LEMMA OwnedDone ==
  ASSUME NEW x \in Values
  PROVE  Owned(x) \in Values
<1>1. PICK n \in Narrowed : n = Narrow(x)
  BY NarrowDone
<1>2. n \in Values
  BY DEF Narrowed, Values
<1>3. CASE n.kind = "fmt"
  <2>1. n \in [kind : {"str", "fmt"}, v : Bytes]
    BY <1>3 DEF Narrowed
  <2>2. [n EXCEPT !.kind = "str"] \in [kind : {"str", "fmt"}, v : Bytes]
    BY <2>1
  <2>3. [n EXCEPT !.kind = "str"] \in Values
    BY <2>2 DEF Values
  <2> QED BY <1>1, <1>3, <2>3 DEF Owned
<1>4. CASE n.kind # "fmt"
  BY <1>1, <1>2, <1>4 DEF Owned
<1> QED BY <1>3, <1>4

LEMMA SetDone ==
  ASSUME NEW stored \in Seq(FieldsOf), NEW f \in FieldsOf
  PROVE  Set(stored, f) \in Seq(FieldsOf)
<1>1. PICK x \in Values : x = Owned(f.x)
  BY OwnedDone DEF FieldsOf
<1>2. PICK new \in FieldsOf : new = [f EXCEPT !.x = x]
  BY DEF FieldsOf
<1>3. PICK at : at = {i \in DOMAIN stored : Static[stored[i].name] = Static[f.name]}
  OBVIOUS
<1>4. Set(stored, f) = IF at = {} THEN Append(stored, new)
                       ELSE [stored EXCEPT ![CHOOSE i \in at : TRUE] = new]
  <2>1. new = [f EXCEPT !.x = Owned(f.x)]
    BY <1>1, <1>2
  <2> HIDE <1>1, <1>2
  <2> QED BY <1>3, <2>1 DEF Set
<1>5. CASE at = {}
  BY <1>4, <1>5, AppendProperties
<1>6. CASE at # {}
  <2>1. PICK i \in at : i = CHOOSE j \in at : TRUE
    BY <1>6
  <2>2. i \in 1 .. Len(stored)
    BY <1>3, <2>1, LenProperties
  <2>3. [stored EXCEPT ![i] = new] \in Seq(FieldsOf)
    BY <2>2, ExceptSeq
  <2> QED BY <1>4, <1>6, <2>1, <2>3
<1> QED BY <1>5, <1>6

\* The fields recorded are stored one after the other.
SetAllRun(h, stored, fs) ==
  /\ h \in [0 .. Len(fs) -> Seq(FieldsOf)] /\ h[0] = stored /\ h[Len(fs)] = SetAll(stored, fs)
  /\ \A i \in 1 .. Len(fs) : h[i] = Set(h[i - 1], fs[i])

LEMMA SetAllFold ==
  ASSUME NEW stored \in Seq(FieldsOf), NEW fs \in Seq(FieldsOf)
  PROVE  \E h : SetAllRun(h, stored, fs)
<1> DEFINE n == Len(fs)
           G == [p \in Seq(FieldsOf) \X (1 .. n) |-> Set(p[1], fs[p[2]])]
           Folds(f) == f = [u \in SUBSET (1 .. n) |->
                             IF u = {} THEN stored ELSE Set(f[u \ {Max(u)}], fs[Max(u)])]
<1>0. stored \in Seq(FieldsOf)
  OBVIOUS
<1>1. n \in Nat /\ DOMAIN fs = 1 .. n /\ \A i \in 1 .. n : fs[i] \in FieldsOf
  BY LenProperties, ElementOfSeq
<1>2. \A a \in Seq(FieldsOf) : \A x \in FieldsOf : Set(a, x) \in Seq(FieldsOf)
  <2> TAKE a \in Seq(FieldsOf)
  <2> TAKE x \in FieldsOf
  <2> QED BY SetDone
<1>3. G \in [Seq(FieldsOf) \X (1 .. n) -> Seq(FieldsOf)]
  BY <1>1, <1>2
<1>4. PICK f \in [SUBSET (1 .. n) -> Seq(FieldsOf)] :
        f = [u \in SUBSET (1 .. n) |-> IF u = {} THEN stored ELSE G[<<f[u \ {Max(u)}], Max(u)>>]]
  <2>1. PICK V : V = Seq(FieldsOf)
    OBVIOUS
  <2>2. stored \in V /\ G \in [V \X (1 .. n) -> V]
    BY <1>0, <1>3, <2>1
  <2> HIDE DEF G, n
  <2>3. FoldsOver(V, stored, n, G)
    BY <1>1, <2>2, FoldOfSubsets
  <2> QED BY <2>1, <2>3 DEF FoldsOver
<1>5. Folds(f)
  <2>1. ASSUME NEW u \in SUBSET (1 .. n), u # {}
        PROVE  G[<<f[u \ {Max(u)}], Max(u)>>] = Set(f[u \ {Max(u)}], fs[Max(u)])
    <3>1. Max(u) \in 1 .. n /\ u \ {Max(u)} \in SUBSET (1 .. n)
      BY <1>1, <2>1, MaxOfRange
    <3> QED BY <3>1
  <2> HIDE DEF G, n
  <2> QED BY <1>4, <2>1
<1> DEFINE iter == CHOOSE g : Folds(g)
<1>6. Folds(iter)
  BY <1>5
<1>7. SetAll(stored, fs) = iter[1 .. n]
  BY <1>1 DEF SetAll, FoldLeft, MapThenFoldSet
<1> HIDE DEF iter, G, n
<1> DEFINE h == [i \in 0 .. n |-> iter[1 .. i]]
<1>8. h[0] = stored
  <2>1. iter[1 .. 0] = stored
    BY <1>6, SubsetsOfNone
  <2> QED BY <1>1, <2>1
<1>9. ASSUME NEW i \in 1 .. n PROVE h[i] = Set(h[i - 1], fs[i])
  <2>1. 1 .. i \in SUBSET (1 .. n) /\ 1 .. i # {} /\ Max(1 .. i) = i /\ (1 .. i) \ {i} = 1 .. i - 1
        /\ i - 1 \in 0 .. n
    BY <1>1, RangesOf
  <2>2. iter[1 .. i] = Set(iter[(1 .. i) \ {Max(1 .. i)}], fs[Max(1 .. i)])
    <3> PICK u : u = 1 .. i
      OBVIOUS
    <3> QED BY <1>6, <2>1
  <2>3. h[i] = iter[1 .. i] /\ h[i - 1] = iter[1 .. i - 1]
    BY <2>1
  <2> HIDE DEF h
  <2> QED BY <2>1, <2>2, <2>3
<1>10. h[n] = SetAll(stored, fs)
  <2>1. h[n] = iter[1 .. n]
    BY <1>1
  <2> HIDE DEF h
  <2> QED BY <1>7, <2>1
<1>11. \A i \in 0 .. n : h[i] \in Seq(FieldsOf)
  <2> DEFINE K == {k \in Nat : k <= n => h[k] \in Seq(FieldsOf)}
  <2> HIDE DEF h
  <2>1. 0 \in K
    BY <1>0, <1>8
  <2>2. ASSUME NEW k \in K PROVE k + 1 \in K
    <3> SUFFICES ASSUME k + 1 <= n PROVE h[k + 1] \in Seq(FieldsOf)
      OBVIOUS
    <3>1. PICK i \in 1 .. n : i = k + 1
      BY <1>1
    <3>2. h[i - 1] \in Seq(FieldsOf) /\ fs[i] \in FieldsOf
      BY <1>1, <3>1
    <3> QED BY <1>2, <1>9, <3>1, <3>2
  <2>3. K = Nat
    <3>1. K \in SUBSET Nat
      OBVIOUS
    <3> HIDE DEF K
    <3> QED BY <2>1, <2>2, <3>1, Induction
  <2> QED BY <1>1, <2>3
<1>12. h \in [0 .. n -> Seq(FieldsOf)]
  <2>1. h = [i \in 0 .. n |-> h[i]]
    OBVIOUS
  <2> HIDE DEF h
  <2> QED BY <1>11, <2>1
<1> HIDE DEF h
<1> QED BY <1>8, <1>9, <1>10, <1>12 DEF n, SetAllRun

LEMMA SetAllDone ==
  ASSUME NEW stored \in Seq(FieldsOf), NEW fs \in Seq(FieldsOf)
  PROVE  SetAll(stored, fs) \in Seq(FieldsOf)
<1>1. Len(fs) \in Nat
  BY LenProperties
<1>2. PICK h : SetAllRun(h, stored, fs)
  BY SetAllFold
<1> QED BY <1>1, <1>2 DEF SetAllRun

-----------------------------------------------------------------------------
(* Events begun.                                                            *)

LEMMA NextFlowDone ==
  ASSUME NEW flow \in Word
  PROVE  NextFlow(flow) \in Word
BY WordFacts DEF NextFlow, Word

LEMMA TrackAdds ==
  ASSUME NEW uuid \in Word
  PROVE  Adds(TrackUuid(uuid), EventIds)
<1>1. 11 \in Ids /\ 11 \in EventIds /\ uuid \in Nat /\ uuid < Words
  BY Numbers, WordIs DEF EventIds
<1> QED BY <1>1, AddsRedundant DEF TrackUuid, TrackEvent

LEMMA FlowAdds ==
  ASSUME NEW flow \in Word
  PROVE  Adds(FlowStart(flow), EventIds)
<1>1. 47 \in Ids /\ 47 \in EventIds /\ flow \in Nat /\ flow < Words
  BY Numbers, WordIs DEF EventIds
<1> QED BY <1>1, AddsFixed DEF FlowStart, TrackEvent

LEMMA BegunBetween ==
  ASSUME ClockFits, NEW to, NEW c \in Betweens(to), NEW type \in Word, NEW b, Adds(b, EventIds)
  PROVE  /\ Put(Event(Packet(c)), Type(type) \o b) \in InEvents(to, type)
         /\ Put(Event(Packet(c)), Type(type)) \in InEvents(to, type)
<1>1. PICK o \in Opens(to) : o = Packet(c)
  BY PacketDone
<1>2. Type(type) = VarintField(9, type)
  BY DEF Type, TrackEvent
<1>3. VarintField(9, type) \in Bytes
  BY WordIs, VarintBytes
<1>4. VarintField(9, type) \o <<>> = VarintField(9, type)
  BY <1>3, ConcatEmptySeq DEF Bytes
<1>5. Put(Event(o), VarintField(9, type) \o <<>>) \in InEvents(to, type)
  BY AddsNothing, EventBegun
<1>6. Put(Event(o), VarintField(9, type) \o b) \in InEvents(to, type)
  BY EventBegun
<1> QED BY <1>1, <1>2, <1>4, <1>5, <1>6

-----------------------------------------------------------------------------
(* What the reader makes of what a callback told.                           *)

TimeRead(r) == r.primary + r.now - r.base

LEMMA QuietRead ==
  ASSUME NEW a, a.events = <<>>, NEW f, QuietPacket(f)
  PROVE  ReadPacket(a, f).events = <<>>
<1>1. PICK p : p = Parse(f.bytes)
  OBVIOUS
<1>2. PICK r : r = ReadState(a.reader, p)
  OBVIOUS
<1>3. ReadPacket(a, f) = ReadAs(a, r, p)
  BY <1>1, <1>2 DEF QuietPacket, ReadPacket, ReadMessage, Trace
<1>4. Fields(p, 11) = <<>>
  BY <1>1 DEF QuietPacket
<1>5. ReadAs(a, r, p).events
        = a.events \o [i \in DOMAIN Fields(p, 11) |-> ReadEvent(r, p, Nested(p, 11)[i])]
  BY DEF ReadAs, TracePacket
<1>6. [i \in DOMAIN Fields(p, 11) |-> ReadEvent(r, p, Nested(p, 11)[i])] = <<>>
  BY <1>4
<1>7. <<>> \o <<>> = <<>>
  BY EmptySeq, ConcatEmptySeq
<1> QED BY <1>3, <1>5, <1>6, <1>7

LEMMA EventRead ==
  ASSUME NEW a, a.events = <<>>, NEW f, NEW id, NEW type, EventPacket(f, id, type)
  PROVE  \E e : /\ ReadPacket(a, f).events = <<e>> /\ e.type = type /\ e.sequence = id
               /\ e.time = TimeRead(ReadPacket(a, f).reader)
<1>1. PICK p : p = Parse(f.bytes)
  OBVIOUS
<1>2. PICK r : r = ReadState(a.reader, p)
  OBVIOUS
<1>3. ReadPacket(a, f) = ReadAs(a, r, p)
  BY <1>1, <1>2 DEF EventPacket, ReadPacket, ReadMessage, Trace
<1>4. PICK q \in Bytes : Fields(p, 11) = <<BytesField(11, q)>> /\ Fields(Parse(q), 9) = <<NumberField(9, type)>>
  BY <1>1 DEF EventPacket, HasEvent
<1>5. Fields(p, 10) = <<NumberField(10, id)>>
  BY <1>1 DEF EventPacket
<1>6. PICK e : e = ReadEvent(r, p, Parse(q))
  OBVIOUS
<1>7. ReadAs(a, r, p).events
        = a.events \o [i \in DOMAIN Fields(p, 11) |-> ReadEvent(r, p, Nested(p, 11)[i])]
  BY DEF ReadAs, TracePacket
<1>8. [i \in DOMAIN Fields(p, 11) |-> ReadEvent(r, p, Nested(p, 11)[i])] = <<e>>
  <2>1. PICK fs : fs = Fields(p, 11) /\ fs = <<BytesField(11, q)>>
    BY <1>4
  <2>2. Nested(p, 11) = [i \in DOMAIN fs |-> Parse(fs[i].bytes)]
    BY <2>1 DEF Nested
  <2>3. DOMAIN fs = {1} /\ fs[1].bytes = q
    BY <2>1 DEF BytesField
  <2>4. Nested(p, 11)[1] = Parse(q)
    BY <2>2, <2>3
  <2>5. [i \in {1} |-> ReadEvent(r, p, Nested(p, 11)[i])] = [i \in {1} |-> e]
    BY <1>6, <2>4
  <2>6. [i \in {1} |-> e] = <<e>>
    OBVIOUS
  <2> QED BY <2>1, <2>3, <2>5, <2>6
<1>9. <<>> \o <<e>> = <<e>>
  <2>1. <<e>> \in Seq({e})
    OBVIOUS
  <2> QED BY <2>1, ConcatEmptySeq
<1>10. e.type = type
  <2>1. Value(Parse(q), 9, 0) = NumberField(9, type).v
    <3>1. PICK fs : fs = Fields(Parse(q), 9) /\ fs = <<NumberField(9, type)>>
      BY <1>4
    <3>2. fs # <<>> /\ Len(fs) = 1 /\ fs[1] = NumberField(9, type)
      BY <3>1
    <3> QED BY <3>1, <3>2 DEF Value
  <2>2. NumberField(9, type).v = type
    BY DEF NumberField
  <2>3. e.type = Value(Parse(q), 9, 0)
    BY <1>6 DEF ReadEvent, TrackEvent
  <2> QED BY <2>1, <2>2, <2>3
<1>11. e.sequence = id
  <2>1. Value(p, 10, 0) = NumberField(10, id).v
    <3>1. PICK fs : fs = Fields(p, 10) /\ fs = <<NumberField(10, id)>>
      BY <1>5
    <3>2. fs # <<>> /\ Len(fs) = 1 /\ fs[1] = NumberField(10, id)
      BY <3>1
    <3> QED BY <3>1, <3>2 DEF Value
  <2>2. NumberField(10, id).v = id
    BY DEF NumberField
  <2>3. e.sequence = Value(p, 10, 0)
    BY <1>6 DEF ReadEvent, TracePacket
  <2> QED BY <2>1, <2>2, <2>3
<1>12. e.time = TimeRead(ReadPacket(a, f).reader)
  <2>1. ReadPacket(a, f).reader = r
    BY <1>3 DEF ReadAs
  <2>2. e.time = r.primary + r.now - r.base
    BY <1>6 DEF ReadEvent
  <2> QED BY <2>1, <2>2 DEF TimeRead
<1> QED BY <1>3, <1>7, <1>8, <1>9, <1>10, <1>11, <1>12

\* The packets before the last have no event, and the last has the one told.
LEMMA ToldRead ==
  ASSUME NEW a, a.events = <<>>, NEW out, NEW id, NEW type, Told(out, id, type), Len(out) < Long
  PROVE  \E e : /\ ReadPackets(a, Parse(out)).events = <<e>> /\ e.type = type /\ e.sequence = id
               /\ e.time = TimeRead(ReadPackets(a, Parse(out)).reader)
<1>1. PICK ps, f : SaysTold(out, id, type, ps, f)
  BY DEF Told
<1>2. ps \in Seq(Field) /\ f \in Field /\ AllQuiet(ps) /\ EventPacket(f, id, type)
  BY <1>1 DEF SaysTold
<1>3. PICK n \in Nat : n = Len(ps)
  BY <1>2, LenProperties
<1>4. PICK s \in Seq(Field) : s = ps \o <<f>> /\ s = Parse(out)
  <2>1. PICK s : s = ps \o <<f>>
    OBVIOUS
  <2>2. Codes(out, s)
    BY <1>1, <2>1 DEF SaysTold
  <2>3. s \in Seq(Field)
    BY <2>2 DEF Codes
  <2> QED BY <2>1, <2>2, <2>3, CodesParse
<1>5. Len(s) = n + 1 /\ s[n + 1] = f /\ \A i \in 1 .. n : s[i] = ps[i]
  <2>1. <<f>> \in Seq(Field) /\ Len(<<f>>) = 1 /\ <<f>>[1] = f
    BY <1>2
  <2>2. Len(s) = Len(ps) + Len(<<f>>) /\ \A i \in 1 .. Len(ps) + Len(<<f>>) :
          s[i] = IF i <= Len(ps) THEN ps[i] ELSE <<f>>[i - Len(ps)]
    BY <1>2, <1>4, <2>1, ConcatProperties
  <2> QED BY <1>3, <2>1, <2>2
<1>6. PICK k \in Nat : k = n + 1 /\ DOMAIN s = 1 .. k
  BY <1>4, <1>5, LenProperties
<1>7. PICK h : /\ h[0] = a /\ h[k] = ReadPackets(a, s)
               /\ \A i \in 1 .. k : h[i] = ReadPacket(h[i - 1], s[i])
  <2>1. PICK h : ReadRun(h, a, s, k)
    BY <1>6, ReadPacketsFold
  <2> QED BY <2>1 DEF ReadRun
<1> DEFINE K == {m \in Nat : m <= n => h[m].events = <<>>}
<1>8. 0 \in K
  BY <1>7
<1>9. ASSUME NEW m \in K PROVE m + 1 \in K
  <2> SUFFICES ASSUME m + 1 <= n PROVE h[m + 1].events = <<>>
    OBVIOUS
  <2>1. PICK i \in 1 .. n : i = m + 1 /\ i - 1 = m /\ i \in 1 .. k
    BY <1>6
  <2>2. h[i] = ReadPacket(h[i - 1], ps[i])
    BY <1>5, <1>7, <2>1
  <2>3. h[i - 1].events = <<>>
    BY <2>1
  <2>4. QuietPacket(ps[i])
    BY <1>2, <1>3 DEF AllQuiet
  <2> QED BY <2>1, <2>2, <2>3, <2>4, QuietRead
<1>10. h[n].events = <<>>
  <2>1. K \in SUBSET Nat
    OBVIOUS
  <2> HIDE DEF K
  <2>2. K = Nat
    BY <1>8, <1>9, <2>1, Induction
  <2> QED BY <2>2 DEF K
<1>11. h[k] = ReadPacket(h[n], f)
  <2>1. PICK i \in 1 .. k : i = k /\ i - 1 = n
    BY <1>6
  <2> QED BY <1>5, <1>6, <1>7, <2>1
<1> QED BY <1>2, <1>4, <1>7, <1>10, <1>11, EventRead

-----------------------------------------------------------------------------
(* The inductive invariant: what is kept of a thread's sequence between its  *)
(* callbacks is on time, has nothing pending and a buffer its prefix can be   *)
(* cut from; what its reader has come to is the time it last wrote; and what  *)
(* was heard of a thread's last event is what was meant.                     *)

LiveSpans ==
  [state : {"live"}, uuid : Word, parent : Word, site : SpanSites, fields : Seq(FieldsOf),
   under : Bytes, inside : SUBSET Threads, flow : Word]
SpanStates == {NoSpan, [state |-> "lost"]} \cup LiveSpans

Settled(s) ==
  /\ s \in SeqStates /\ s.fresh = <<>> /\ OnTime(s) /\ Framed(s, s.scratch)
  /\ s.initialized = s.started
Agree(hs, ms) ==
  \E h, m : /\ hs = <<h>> /\ ms = <<m>> /\ h.type = m.type /\ h.sequence = m.sequence
           /\ h.time = m.time /\ m.type # 0

SharedOK == config \in Configs /\ ClockFits /\ calls \in 0 .. MaxCalls /\ inner \in Inners
SequencesOK == DOMAIN seq = Threads /\ \A t \in Threads : seq[t] # NoSequence => Settled(seq[t])
SpansOK == spans \in [Spans -> SpanStates]
IdleOK == \A u \in idle : u.uuid \in Word
EventsOK ==
  /\ DOMAIN heard = Threads /\ DOMAIN meant = Threads
  /\ \A t \in Threads : meant[t] = <<>> \/ Agree(heard[t], meant[t])
TimesOK ==
  /\ DOMAIN reader = Threads
  /\ \A t \in Threads : Shape(reader[t]) /\ (seq[t] # NoSequence => Timed(seq[t], reader[t]))
IInv == SharedOK /\ SequencesOK /\ SpansOK /\ IdleOK /\ EventsOK /\ TimesOK

LEMMA InnersStart ==
  [uuid |-> UuidBase, sequence |-> 1, tid |-> 0, process |-> 0,
   described |-> FALSE, counters |-> Absent, flow |-> 1] \in Inners
<1>1. {0, 1} \subseteq Word /\ UuidBase \in Word
  BY SequenceAssumption, WordFacts DEF Word
<1>2. Absent \in [Addresses -> Word]
  BY <1>1 DEF Absent
<1> QED BY <1>1, <1>2 DEF Inners

LEMMA Invariance0 ==
  ASSUME Init
  PROVE  IInv
<1>1. SharedOK
  <2>1. Step \in Nat /\ Step + Realtime < Words /\ MaxCalls \in Nat
    BY SequenceAssumption
  <2>2. ClockFits
    BY <2>1 DEF Init, ClockFits
  <2>3. inner \in Inners
    BY InnersStart DEF Init
  <2> QED BY <2>1, <2>2, <2>3 DEF Init, SharedOK
<1>2. SequencesOK
  BY DEF Init, SequencesOK
<1>3. SpansOK
  <2>1. NoSpan \in SpanStates
    BY DEF SpanStates
  <2> QED BY <2>1 DEF Init, SpansOK
<1>4. IdleOK
  BY DEF Init, IdleOK
<1>5. EventsOK
  BY DEF Init, EventsOK
<1>6. TimesOK
  <2>1. Shape(NewReader)
    BY DEF Shape, NewReader
  <2> QED BY <2>1 DEF Init, TimesOK
<1> QED BY <1>1, <1>2, <1>3, <1>4, <1>5, <1>6 DEF IInv

\* A new sequence has nothing written.
LEMMA NewSettled ==
  ASSUME NEW id \in Word, NEW uuid \in Word, ClockFits
  PROVE  /\ NewSequence(id, uuid, clock) \in SeqStates
         /\ Settled(NewSequence(id, uuid, clock))
         /\ \A r : Shape(r) => Timed(NewSequence(id, uuid, clock), r)
<1>1. PICK s : s = NewSequence(id, uuid, clock)
  OBVIOUS
<1>2. clock \in Nat /\ 0 \in Word
  BY WordFacts DEF ClockFits, Word
<1>3. Absent \in [Addresses -> Nat] /\ Absent \in [Addresses -> Word] /\ \A a \in Addresses : Absent[a] = 0
  BY <1>2 DEF Absent
<1>4. ASSUME NEW next \in {0, 1} PROVE Interner(next) \in Interners
  <2>1. PICK n : n = Interner(next)
    OBVIOUS
  <2>2. n \in [map : [Addresses -> Nat], next : Nat, lastKey : Addresses \cup {0}, lastIid : Nat]
    BY <1>3, <2>1 DEF Interner
  <2>3. n.map = Absent /\ n.next = next /\ n.lastIid = 0
    BY <2>1 DEF Interner
  <2>4. Cardinality(Used(n.map)) \in Nat
    BY UsedFacts
  <2>5. n.next <= 1 + Cardinality(Used(n.map)) /\ n.lastIid <= n.next
    BY <2>3, <2>4
  <2>6. \A a \in Addresses : n.map[a] <= n.next
    BY <1>3, <2>3
  <2> QED BY <2>1, <2>2, <2>5, <2>6 DEF Interners
<1>5. PICK names \in [Tables -> Interners] :
        names = [n \in {"event", "note", "category"} |-> Interner(IF n = "note" THEN 1 ELSE 0)]
  BY <1>4 DEF Tables
<1>6. <<>> \in Located /\ <<>> \in Seq(FreshEntries) /\ <<>> \in Bytes
  BY EmptySeq DEF Located, Bytes
<1>7. s = [id |-> id, thread |-> uuid, anchor |-> clock, last |-> clock, prefix |-> 0, root |-> 0,
           initialized |-> FALSE, started |-> FALSE, names |-> names,
           levelName |-> FALSE, levels |-> {}, locations |-> <<>>, counters |-> Absent,
           fresh |-> <<>>, scratch |-> <<>>]
  BY <1>1, <1>5 DEF NewSequence
<1>8. s \in SeqStates
  BY <1>2, <1>3, <1>5, <1>6, <1>7 DEF SeqStates
<1>9. /\ s.fresh = <<>> /\ s.anchor = clock /\ s.last = clock /\ s.prefix = 0
      /\ s.initialized = FALSE /\ s.started = FALSE
  BY <1>7
<1>10. Settled(s)
  <2>1. s.initialized = s.started
    BY <1>9
  <2>2. OnTime(s) /\ Framed(s, s.scratch)
    BY <1>2, <1>9 DEF OnTime, Framed
  <2> QED BY <1>8, <1>9, <2>1, <2>2 DEF Settled
<1>11. ASSUME NEW r, Shape(r) PROVE Timed(s, r)
  BY <1>9, <1>11 DEF Timed
<1> QED BY <1>1, <1>8, <1>10, <1>11

LEMMA CallbackBetween ==
  ASSUME IInv, NEW t \in Threads, seq[t] # NoSequence
  PROVE  /\ Callback(t) \in Betweens(Sink(t)) /\ Callback(t) \in Calls
         /\ Callback(t).seq = seq[t] /\ Callback(t).inner = inner
         /\ seq[t] \in SeqStates /\ seq[t].thread \in Word /\ ClockFits
<1>1. Settled(seq[t]) /\ inner \in Inners /\ ClockFits
  BY DEF IInv, SequencesOK, SharedOK
<1>2. PICK c : c = Callback(t)
  OBVIOUS
<1>3. PICK s \in SeqStates :
        s = seq[t] /\ s.fresh = <<>> /\ OnTime(s) /\ Framed(s, s.scratch) /\ s.initialized = s.started
  BY <1>1 DEF Settled
<1>4. c = [seq |-> s, inner |-> inner, buf |-> <<>>, root |-> 0, event |-> 0,
           out |-> <<>>, samples |-> 0, named |-> FALSE]
  BY <1>2, <1>3 DEF Callback
<1>5. <<>> \in Bytes
  BY EmptySeq DEF Bytes
<1>6. c \in Calls
  BY <1>1, <1>4, <1>5 DEF Calls
<1>7. c.seq = s /\ c.buf = <<>> /\ c.out = <<>> /\ c.inner = inner
  BY <1>4
<1>8. c \in Betweens(Sink(t))
  <2>1. PICK to : to = Sink(t)
    OBVIOUS
  <2>2. to.id = s.id /\ to.reader = reader[t]
    BY <1>3, <2>1 DEF Sink
  <2>3. Timed(s, to.reader)
    BY <1>3, <2>2 DEF IInv, TimesOK
  <2>4. Clocked(c.out, to.reader, c.seq)
    BY <1>7, <2>3, ClockedNothing
  <2>5. c \in Betweens(to)
    BY <1>3, <1>6, <1>7, <2>2, <2>4, QuietNothing DEF Betweens
  <2> QED BY <2>1, <2>5
<1>9. s.thread \in Word
  BY DEF SeqStates
<1> QED BY <1>1, <1>2, <1>3, <1>6, <1>7, <1>8, <1>9

\* Time passes.
LEMMA TickDone ==
  ASSUME ClockFits, Tick
  PROVE  ClockFits' /\ \A s \in SeqStates : (OnTime(s) => s.anchor <= clock' /\ s.last <= clock')
<1>1. clock \in Nat /\ Step \in Nat /\ clock' = clock + Step /\ clock' + Realtime < Words
  BY SequenceAssumption DEF ClockFits, Tick
<1>2. ClockFits'
  BY <1>1 DEF ClockFits
<1>3. ASSUME NEW s \in SeqStates, OnTime(s) PROVE s.anchor <= clock' /\ s.last <= clock'
  <2>1. s.anchor \in Nat /\ s.last \in Nat
    BY DEF SeqStates
  <2> QED BY <1>1, <1>3, <2>1 DEF OnTime
<1> QED BY <1>2, <1>3

LEMMA SettledLater ==
  ASSUME ClockFits, Tick, NEW s, Settled(s)
  PROVE  Settled(s)'
<1>1. s \in SeqStates /\ s.fresh = <<>> /\ OnTime(s) /\ Framed(s, s.scratch)
  BY DEF Settled
<1>2. OnTime(s)'
  BY <1>1, TickDone DEF OnTime
<1> QED BY <1>1, <1>2 DEF Settled

LEMMA TimedLater ==
  ASSUME config' = config, NEW s, NEW r, Timed(s, r)
  PROVE  Timed(s, r)'
BY DEF Timed, Shape, Ahead

LEMMA FirstTimeIs ==
  ASSUME ClockFits
  PROVE  clock \in Nat /\ Ahead \in Nat /\ clock + Ahead = FirstTime
<1>1. clock \in Nat /\ Realtime \in Nat
  BY SequenceAssumption DEF ClockFits
<1>2. CASE config.native
  BY <1>1, <1>2 DEF Ahead, FirstTime
<1>3. CASE ~config.native
  BY <1>1, <1>3 DEF Ahead, FirstTime
<1> QED BY <1>2, <1>3

\* A callback that writes an event.
LEMMA WritesDone ==
  ASSUME IInv, NEW t \in Threads, Ready(t), NEW type, type # 0, NEW c \in Dones(Sink(t), type),
         NEW event, event.type = type, event.sequence = seq[t].id, event.time = FirstTime,
         Writes(t, c, event)
  PROVE  SharedOK' /\ SequencesOK' /\ EventsOK' /\ TimesOK'
<1>1. /\ config \in Configs /\ ClockFits /\ calls \in 0 .. MaxCalls /\ DOMAIN seq = Threads
      /\ DOMAIN heard = Threads /\ DOMAIN meant = Threads /\ DOMAIN reader = Threads
      /\ seq[t] # NoSequence
  BY DEF IInv, SharedOK, SequencesOK, EventsOK, TimesOK, Ready
<1>2. c \in Calls /\ c.seq \in SeqStates /\ c.inner \in Inners /\ Settled(c.seq)
  BY DEF Dones, Calls, Settled, Now
<1>3. PICK a : a = ReadPackets([reader |-> reader[t], events |-> <<>>, tracks |-> tracks],
                               Parse(c.out))
  OBVIOUS
<1>4. /\ Len(c.out) < 128 ^ LenBytes /\ heard' = [heard EXCEPT ![t] = a.events]
      /\ seq' = [seq EXCEPT ![t] = c.seq] /\ inner' = c.inner
      /\ meant' = [meant EXCEPT ![t] = <<event>>] /\ Tick /\ calls' = calls + 1 /\ config' = config
      /\ reader' = [reader EXCEPT ![t] = a.reader]
  BY <1>3 DEF Writes, Reads
<1>5. ClockFits'
  BY <1>1, <1>4, TickDone
<1>6. SharedOK'
  <2>1. MaxCalls \in Nat /\ calls < MaxCalls
    BY SequenceAssumption DEF Ready
  <2>2. calls' \in 0 .. MaxCalls
    BY <1>1, <1>4, <2>1
  <2> QED BY <1>1, <1>2, <1>4, <1>5, <2>2 DEF SharedOK
<1>7. SequencesOK'
  <2>1. ASSUME NEW u \in Threads, seq'[u] # NoSequence PROVE Settled(seq[u])'
    <3>1. PICK s : s = seq'[u]
      OBVIOUS
    <3>2. Settled(s)
      BY <1>1, <1>2, <1>4, <2>1, <3>1 DEF IInv, SequencesOK
    <3>3. Settled(s)'
      BY <1>1, <1>4, <3>2, SettledLater
    <3> QED BY <3>1, <3>3 DEF Settled, OnTime
  <2> QED BY <1>1, <1>4, <2>1 DEF SequencesOK
<1>8. Timed(c.seq, a.reader)
  <2>1. Len(c.out) < Long
    BY <1>4 DEF LenBytes, Long
  <2>2. Clocked(c.out, reader[t], c.seq)
    BY DEF Dones, Sink
  <2>3. PICK b : b = [reader |-> reader[t], events |-> <<>>, tracks |-> tracks]
    OBVIOUS
  <2>4. b.reader = reader[t]
    BY <2>3
  <2>5. Timed(c.seq, ReadPackets(b, Parse(c.out)).reader)
    BY <2>1, <2>2, <2>4 DEF Clocked, Leads
  <2> QED BY <1>3, <2>3, <2>5
<1>9. TimeRead(a.reader) = FirstTime
  <2>1. c.seq.started /\ c.seq.last = clock
    BY DEF Dones, Now
  <2> QED BY <1>1, <1>8, <2>1, FirstTimeIs DEF Timed, TimeRead
<1>10. EventsOK'
  <2>1. Len(c.out) < Long
    BY <1>4 DEF LenBytes, Long
  <2>2. Told(c.out, seq[t].id, type)
    BY DEF Dones, Sink
  <2>3. PICK e : a.events = <<e>> /\ e.type = type /\ e.sequence = seq[t].id /\ e.time = FirstTime
    <3>1. PICK b : b = [reader |-> reader[t], events |-> <<>>, tracks |-> tracks]
      OBVIOUS
    <3>2. b.events = <<>>
      BY <3>1
    <3>3. PICK e : /\ ReadPackets(b, Parse(c.out)).events = <<e>> /\ e.type = type
                   /\ e.sequence = seq[t].id
                   /\ e.time = TimeRead(ReadPackets(b, Parse(c.out)).reader)
      BY <2>1, <2>2, <3>2, ToldRead
    <3> QED BY <1>3, <1>9, <3>1, <3>3
  <2>4. heard'[t] = <<e>> /\ meant'[t] = <<event>>
    BY <1>1, <1>4, <2>3
  <2>5. Agree(heard'[t], meant'[t])
    BY <2>3, <2>4 DEF Agree
  <2>6. ASSUME NEW u \in Threads, u # t PROVE heard'[u] = heard[u] /\ meant'[u] = meant[u]
    BY <1>1, <1>4, <2>6
  <2>7. DOMAIN heard' = Threads /\ DOMAIN meant' = Threads
    BY <1>1, <1>4
  <2>8. ASSUME NEW u \in Threads PROVE meant'[u] = <<>> \/ Agree(heard'[u], meant'[u])
    <3>1. CASE u = t
      BY <2>5, <3>1
    <3>2. CASE u # t
      BY <2>6, <3>2 DEF IInv, EventsOK
    <3> QED BY <3>1, <3>2
  <2> QED BY <2>7, <2>8 DEF EventsOK, Agree
<1>11. TimesOK'
  <2>1. ASSUME NEW u \in Threads
        PROVE  Shape(reader[u])' /\ (seq'[u] # NoSequence => Timed(seq[u], reader[u])')
    <3>1. PICK s, r : s = seq'[u] /\ r = reader'[u]
      OBVIOUS
    <3>2. Shape(r) /\ (s # NoSequence => Timed(s, r))
      <4>1. CASE u = t
        BY <1>1, <1>4, <1>8, <3>1, <4>1 DEF Timed
      <4>2. CASE u # t
        BY <1>1, <1>4, <3>1, <4>2 DEF IInv, TimesOK
      <4> QED BY <4>1, <4>2
    <3>3. s # NoSequence => Timed(s, r)'
      BY <1>4, <3>2, TimedLater
    <3> QED BY <3>1, <3>2, <3>3 DEF Timed, Shape, Ahead
  <2> QED BY <1>1, <1>4, <2>1 DEF TimesOK
<1> QED BY <1>6, <1>7, <1>10, <1>11

-----------------------------------------------------------------------------
(* The actions.                                                             *)

LEMMA LiveSpan ==
  ASSUME IInv, NEW s \in Spans, Live(s)
  PROVE  spans[s] \in LiveSpans /\ spans[s].uuid \in Word
<1>1. spans[s] \in SpanStates /\ spans[s].state = "live"
  BY DEF IInv, SpansOK, Live
<1>2. NoSpan.state = "none" /\ [state |-> "lost"].state = "lost"
  BY DEF NoSpan
<1>3. spans[s] \in LiveSpans
  BY <1>1, <1>2 DEF SpanStates
<1> QED BY <1>3 DEF LiveSpans

LEMMA SpanUpdated ==
  ASSUME IInv, NEW s \in Spans, NEW d \in SpanStates, spans' = [spans EXCEPT ![s] = d]
  PROVE  SpansOK'
BY DEF IInv, SpansOK

LEMMA TypesAre ==
  /\ Types.begin = 1 /\ Types.end = 2 /\ Types.instant = 3
  /\ {1, 2, 3} \subseteq Word
BY WordFacts DEF Types, Word

LEMMA NewContextDone ==
  ASSUME IInv, NEW t \in Threads, NewContext(t)
  PROVE  IInv'
<1>1. /\ config \in Configs /\ ClockFits /\ calls \in 0 .. MaxCalls /\ DOMAIN seq = Threads
      /\ inner \in Inners /\ DOMAIN reader = Threads
  BY DEF IInv, SharedOK, SequencesOK, TimesOK
<1>2. PICK c : c = Callback(t)
  OBVIOUS
<1>3. /\ seq' = [seq EXCEPT ![t] = NewSequence(inner.sequence, NewUuid(c), clock)]
      /\ inner' = [Alloc(c).inner EXCEPT !.sequence = Unsigned(@ + 1)]
      /\ Tick /\ config' = config /\ spans' = spans /\ idle' = idle /\ calls' = calls
      /\ heard' = heard /\ meant' = meant /\ reader' = reader
  BY <1>2 DEF NewContext
<1>4. c.inner = inner
  BY <1>2 DEF Callback
<1>5. inner.uuid \in Word /\ inner.sequence \in Word /\ 0 \in Word
  BY <1>1, WordFacts DEF Inners, Word
<1>6. PICK uuid \in Word : uuid = NewUuid(c)
  BY <1>4, <1>5, WordFacts DEF NewUuid, Word
<1>7. PICK next \in Word : next = Unsigned(uuid + 1)
  BY UnsignedWord, WordIs
<1>8. PICK number \in Word : number = Unsigned(inner.sequence + 1)
  BY <1>5, UnsignedWord, WordIs
<1>9. inner' = [inner EXCEPT !.uuid = next, !.sequence = number]
  <2>1. Alloc(c).inner = [inner EXCEPT !.uuid = next]
    BY <1>2, <1>4, <1>6, <1>7 DEF Alloc, Callback
  <2>2. [inner EXCEPT !.uuid = next].sequence = inner.sequence
    BY <1>1 DEF Inners
  <2> QED BY <1>1, <1>3, <1>8, <2>1, <2>2 DEF Inners
<1>10. inner' \in Inners
  BY <1>1, <1>9 DEF Inners
<1>11. PICK s \in SeqStates :
         /\ s = NewSequence(inner.sequence, uuid, clock) /\ Settled(s)
         /\ \A r : Shape(r) => Timed(s, r)
  BY <1>1, <1>5, NewSettled
<1>12. ClockFits'
  BY <1>1, <1>3, TickDone
<1>13. SharedOK'
  BY <1>1, <1>3, <1>10, <1>12 DEF SharedOK
<1>14. SequencesOK'
  <2>1. ASSUME NEW u \in Threads, seq'[u] # NoSequence PROVE Settled(seq[u])'
    <3>1. PICK r : r = seq'[u]
      OBVIOUS
    <3>2. Settled(r)
      BY <1>1, <1>3, <1>6, <1>11, <2>1, <3>1 DEF IInv, SequencesOK
    <3>3. Settled(r)'
      BY <1>1, <1>3, <3>2, SettledLater
    <3> QED BY <3>1, <3>3 DEF Settled, OnTime
  <2> QED BY <1>1, <1>3, <2>1 DEF SequencesOK
<1>15. SpansOK' /\ IdleOK' /\ EventsOK'
  BY <1>3 DEF IInv, SpansOK, IdleOK, EventsOK
<1>16. TimesOK'
  <2>1. ASSUME NEW u \in Threads
        PROVE  Shape(reader[u])' /\ (seq'[u] # NoSequence => Timed(seq[u], reader[u])')
    <3>1. PICK v, r : v = seq'[u] /\ r = reader'[u]
      OBVIOUS
    <3>2. Shape(r) /\ (v # NoSequence => Timed(v, r))
      BY <1>1, <1>3, <1>6, <1>11, <3>1 DEF IInv, TimesOK
    <3>3. v # NoSequence => Timed(v, r)'
      BY <1>3, <3>2, TimedLater
    <3> QED BY <3>1, <3>2, <3>3 DEF Timed, Shape, Ahead
  <2> QED BY <1>1, <1>3, <2>1 DEF TimesOK
<1> QED BY <1>13, <1>14, <1>15, <1>16 DEF IInv

\* The type, sequence and time an event is meant to have.
LEMMA MeantAre ==
  ASSUME NEW t, NEW type, NEW track, NEW e
  PROVE  /\ NoEvent(t, type, track).type = type /\ NoEvent(t, type, track).sequence = seq[t].id
         /\ NoEvent(t, type, track).time = FirstTime
         /\ Described(NoEvent(t, type, track), e).type = type
         /\ Described(NoEvent(t, type, track), e).sequence = seq[t].id
         /\ Described(NoEvent(t, type, track), e).time = FirstTime
         /\ \A notes : LET m == [Described(NoEvent(t, type, track), e) EXCEPT !.notes = @ \o notes]
                       IN m.type = type /\ m.sequence = seq[t].id /\ m.time = FirstTime
         /\ \A notes, flows : LET m == [Described(NoEvent(t, type, track), e)
                                          EXCEPT !.notes = @ \o notes, !.flows = flows]
                              IN m.type = type /\ m.sequence = seq[t].id /\ m.time = FirstTime
         /\ \A name, notes, samples :
              LET m == [Described(NoEvent(t, type, track), e)
                          EXCEPT !.name = name, !.notes = notes, !.samples = samples]
              IN m.type = type /\ m.sequence = seq[t].id /\ m.time = FirstTime
<1>1. PICK time : time = FirstTime /\ time = IF config.native THEN clock ELSE clock + Realtime
  BY DEF FirstTime
<1>2. PICK n : n = [time |-> time, sequence |-> seq[t].id,
                    type |-> type, track |-> track, name |-> <<>>, category |-> <<>>, location |-> <<>>,
                    notes |-> <<>>, samples |-> <<>>, flows |-> {}]
  OBVIOUS
<1>3. NoEvent(t, type, track) = n
  BY <1>1, <1>2 DEF NoEvent
<1>4. PICK location : location = IF config.locations THEN Static[e.file] ELSE <<>>
  OBVIOUS
<1>5. PICK notes : notes = <<[name |-> LevelName, x |-> [kind |-> "text", v |-> LevelText[e.level]]]>>
  OBVIOUS
<1>6. PICK d : d = [n EXCEPT !.name = Static[e.name], !.category = Static[e.target],
                             !.location = location, !.notes = notes]
  OBVIOUS
<1>7. Described(NoEvent(t, type, track), e) = d
  BY <1>3, <1>4, <1>5, <1>6, Zenon DEF Described
<1>8. /\ n.type = type /\ n.sequence = seq[t].id
      /\ n.time = FirstTime /\ {"type", "sequence", "time"} \subseteq DOMAIN n
  BY <1>1, <1>2
<1>9. /\ d.type = type /\ d.sequence = seq[t].id
      /\ d.time = FirstTime /\ {"type", "sequence", "time"} \subseteq DOMAIN d
  BY <1>6, <1>8
<1> QED BY <1>3, <1>7, <1>8, <1>9

LEMMA NoEventIs ==
  ASSUME NEW t, NEW type, NEW track
  PROVE  \E n : /\ n = NoEvent(t, type, track) /\ n.type = type /\ n.sequence = seq[t].id
               /\ n.time = FirstTime /\ {"type", "sequence", "time"} \subseteq DOMAIN n
<1>1. PICK n : n = NoEvent(t, type, track)
  OBVIOUS
<1>2. /\ n.type = type /\ n.sequence = seq[t].id /\ n.time = FirstTime
      /\ {"type", "sequence", "time"} \subseteq DOMAIN n
  BY <1>1 DEF NoEvent, FirstTime
<1> QED BY <1>1, <1>2

LEMMA EventMeantAre ==
  ASSUME NEW t, NEW e, NEW fs, NEW k, NEW track, NEW uuids
  PROVE  /\ EventMeant(t, e, fs, k, track, uuids).type = Types.instant
         /\ EventMeant(t, e, fs, k, track, uuids).sequence = seq[t].id
         /\ EventMeant(t, e, fs, k, track, uuids).time = FirstTime
<1>1. PICK d : d = Described(NoEvent(t, Types.instant, track), e)
  OBVIOUS
<1>2. \E name, notes, samples :
        EventMeant(t, e, fs, k, track, uuids)
          = [d EXCEPT !.name = name, !.notes = notes, !.samples = samples]
  BY <1>1 DEF EventMeant
<1>3. PICK name, notes, samples :
        EventMeant(t, e, fs, k, track, uuids)
          = [d EXCEPT !.name = name, !.notes = notes, !.samples = samples]
  BY <1>2
<1> QED BY <1>1, <1>3, MeantAre

LEMMA OnEventDone ==
  ASSUME IInv, NEW t \in Threads, NEW e \in Events, NEW s \in Spans \cup {None},
         NEW k \in 0 .. Len(e.fields), OnEvent(t, e, s, k)
  PROVE  IInv'
<1>1. Ready(t) /\ k \in {0} \cup Panics(e.fields) /\ spans' = spans /\ idle' = idle
      /\ (s # None => Live(s)) /\ seq[t] # NoSequence
  BY DEF OnEvent, Ready
<1>2. e \in Callsites /\ e.fields \in Seq(FieldsOf)
  BY SiteFacts DEF Callsites, IsCallsite
<1>3. PICK to : to = Sink(t)
  OBVIOUS
<1>4. /\ Callback(t) \in Betweens(to) /\ seq[t].thread \in Word /\ ClockFits
  BY <1>1, <1>3, CallbackBetween
<1>5. PICK track \in Word : track = IF s = None THEN seq[t].thread ELSE spans[s].uuid
  <2>1. s # None => spans[s].uuid \in Word
    BY <1>1, LiveSpan
  <2> QED BY <1>4, <2>1
<1>6. PICK fs \in Seq(FieldsOf) : fs = Until(e.fields, k)
  BY <1>1, <1>2, UntilDone
<1>7. PICK w \in Betweens(to) : w = WithCounters(Callback(t), e)
  BY <1>2, <1>4, WithCountersDone
<1>8. PICK c \in InEvents(to, 3) : c = BeginInstant(w, track)
  <2>1. PICK b : b = IF track = w.seq.thread THEN <<>> ELSE TrackUuid(track)
    OBVIOUS
  <2>2. Adds(b, EventIds)
    BY <2>1, AddsNothing, TrackAdds
  <2>3. PICK type \in Word : type = 3 /\ type = Types.instant
    BY TypesAre
  <2>4. Put(Event(Packet(w)), Type(type) \o b) \in InEvents(to, type)
    BY <1>4, <2>2, BegunBetween
  <2>5. BeginInstant(w, track) = Put(Event(Packet(w)), Type(type) \o b)
    BY <2>1, <2>3, Zenon DEF BeginInstant
  <2> QED BY <2>3, <2>4, <2>5
<1>9. PICK d \in InEvents(to, 3) : d = NamedAtLast(VisitAll(Metadata(c, e), e, fs), e, k)
  <2>1. VisitAll(Metadata(c, e), e, fs) \in InEvents(to, 3)
    BY <1>2, MetadataDone, VisitAllDone
  <2> QED BY <1>2, <2>1, NamedAtLastDone
<1>10. PICK o \in Dones(to, 3) : o = EndEvent(d)
  BY EndEventDone
<1>11. PICK event : event = EventMeant(t, e, fs, k, track, d.seq.counters)
  OBVIOUS
<1>12. Writes(t, o, event)
  <2>1. WritesEvent(t, e, fs, k, track, d)
    BY <1>5, <1>6, <1>7, <1>8, <1>9, Zenon DEF OnEvent
  <2> QED BY <1>10, <1>11, <2>1 DEF WritesEvent
<1>13. event.type = 3 /\ event.sequence = seq[t].id /\ event.time = FirstTime
  BY <1>11, EventMeantAre, TypesAre
<1>14. SharedOK' /\ SequencesOK' /\ EventsOK' /\ TimesOK'
  <2>1. PICK type : type = 3 /\ type # 0
    OBVIOUS
  <2>2. o \in Dones(Sink(t), type)
    BY <1>3, <2>1
  <2> QED BY <1>1, <1>10, <1>12, <1>13, <2>1, <2>2, WritesDone
<1>15. SpansOK' /\ IdleOK'
  BY <1>1 DEF IInv, SpansOK, IdleOK
<1> QED BY <1>14, <1>15 DEF IInv

\* What a new span is stored as, and what its callback works on before it writes.
SpanData(e, p, k, uuid, parent, fs) ==
  IF k # 0 THEN [state |-> "lost"]
  ELSE [state |-> "live", uuid |-> uuid, parent |-> parent, site |-> e, fields |-> fs,
        under |-> IF p = None THEN <<>> ELSE Static[spans[p].site.name],
        inside |-> {}, flow |-> IF ThreadSlices THEN inner.flow ELSE 0]
SpanFields(e, k) == IF config.annotations THEN Until(e.fields, k) ELSE <<>>
SpanStart(t) ==
  IF ThreadSlices THEN [Callback(t) EXCEPT !.inner.flow = NextFlow(@)] ELSE Callback(t)
SpanCall(t, p) == IF p # None THEN SpanStart(t) ELSE ProcessTrack(SpanStart(t))

LEMMA SpanDataDone ==
  ASSUME IInv, NEW e \in SpanSites, NEW p \in Spans \cup {None}, p # None => Live(p), NEW k,
         NEW uuid \in Word, NEW parent \in Word, NEW fs \in Seq(FieldsOf)
  PROVE  SpanData(e, p, k, uuid, parent, fs) \in SpanStates
<1>1. CASE k # 0
  BY <1>1 DEF SpanData, SpanStates
<1>2. CASE k = 0
  <2>1. PICK under \in Bytes : under = IF p = None THEN <<>> ELSE Static[spans[p].site.name]
    <3>1. <<>> \in Bytes
      BY EmptySeq DEF Bytes
    <3>2. ASSUME p # None PROVE Static[spans[p].site.name] \in Bytes
      <4>1. spans[p].site \in Callsites
        BY <3>2, LiveSpan DEF LiveSpans, Callsites
      <4>2. spans[p].site.name \in Addresses
        BY <4>1, SiteFacts DEF IsCallsite
      <4> QED BY <4>2, SequenceAssumption
    <3> QED BY <3>1, <3>2
  <2>2. PICK flow \in Word : flow = IF ThreadSlices THEN inner.flow ELSE 0
    BY WordFacts DEF IInv, SharedOK, Inners, Word
  <2>3. PICK d \in LiveSpans :
          d = [state |-> "live", uuid |-> uuid, parent |-> parent, site |-> e, fields |-> fs,
               under |-> under, inside |-> {}, flow |-> flow]
    BY DEF LiveSpans
  <2>4. SpanData(e, p, k, uuid, parent, fs) = d
    BY <1>2, <2>1, <2>2, <2>3 DEF SpanData
  <2> QED BY <2>3, <2>4 DEF SpanStates
<1> QED BY <1>1, <1>2

LEMMA SpanCallDone ==
  ASSUME IInv, NEW t \in Threads, seq[t] # NoSequence, NEW p \in Spans \cup {None},
         p # None => Live(p)
  PROVE  /\ SpanStart(t) \in Betweens(Sink(t)) /\ SpanStart(t).inner \in Inners
         /\ SpanCall(t, p) \in Betweens(Sink(t)) /\ ParentOf(SpanCall(t, p), p) \in Word
<1>1. PICK c : c = Callback(t)
  OBVIOUS
<1>2. c \in Betweens(Sink(t)) /\ c \in Calls /\ c.inner \in Inners
  BY <1>1, CallbackBetween DEF Calls
<1>3. PICK d : d = SpanStart(t)
  OBVIOUS
<1>4. Renewed(c, d)
  <2>1. CASE ThreadSlices
    <3>1. PICK flow \in Word : flow = NextFlow(c.inner.flow)
      BY <1>2, NextFlowDone DEF Inners
    <3>2. PICK i \in Inners : i = [c.inner EXCEPT !.flow = flow]
      BY <1>2 DEF Inners
    <3>3. d = [c EXCEPT !.inner = i]
      BY <1>1, <1>3, <2>1, <3>1, <3>2 DEF SpanStart
    <3> QED BY <3>3 DEF Renewed
  <2>2. CASE ~ThreadSlices
    BY <1>1, <1>2, <1>3, <2>2, RenewedNone DEF SpanStart
  <2> QED BY <2>1, <2>2
<1>5. d \in Betweens(Sink(t)) /\ d \in Calls /\ d.inner \in Inners
  BY <1>2, <1>4, RenewedBetween, RenewedCall
<1>6. PICK e : e = SpanCall(t, p)
  OBVIOUS
<1>7. e \in Betweens(Sink(t)) /\ e.inner \in Inners
  <2>1. Renewed(d, e)
    BY <1>3, <1>5, <1>6, RenewedNone, ProcessTrackDone DEF SpanCall
  <2> QED BY <1>5, <2>1, RenewedBetween, RenewedCall
<1>8. ParentOf(e, p) \in Word
  <2>1. e.inner.process \in Word
    BY <1>7 DEF Inners
  <2>2. p # None => spans[p].uuid \in Word
    BY LiveSpan
  <2> QED BY <2>1, <2>2 DEF ParentOf
<1> QED BY <1>3, <1>5, <1>6, <1>7, <1>8

LEMMA OnNewSpanDone ==
  ASSUME IInv, NEW t \in Threads, NEW s \in Spans, NEW e \in SpanSites, NEW p \in Spans \cup {None},
         NEW k \in 0 .. Len(e.fields), OnNewSpan(t, s, e, p, k)
  PROVE  IInv'
<1>1. Ready(t) /\ k \in {0} \cup Panics(e.fields) /\ (p # None => Live(p)) /\ seq[t] # NoSequence
  BY DEF OnNewSpan, Ready
<1>2. e \in Callsites /\ e.fields \in Seq(FieldsOf) /\ e.name \in Addresses
  BY SiteFacts DEF Callsites, IsCallsite
<1>3. PICK to : to = Sink(t)
  OBVIOUS
<1>4. ClockFits
  BY DEF IInv, SharedOK
<1>5. PICK fields \in Seq(FieldsOf) : fields = SpanFields(e, k)
  <2>1. Until(e.fields, k) \in Seq(FieldsOf) /\ <<>> \in Seq(FieldsOf)
    BY <1>1, <1>2, UntilDone, EmptySeq
  <2> QED BY <2>1 DEF SpanFields
<1>6. PICK c0 \in Betweens(to) : c0 = SpanStart(t) /\ c0.inner \in Inners
  BY <1>1, <1>3, SpanCallDone
<1>7. PICK c1 \in Betweens(to) : c1 = SpanCall(t, p)
  BY <1>1, <1>3, SpanCallDone
<1>8. PICK parent \in Word : parent = ParentOf(c1, p)
  BY <1>1, <1>7, SpanCallDone
<1>9. PICK used : used = {u \in idle : u.name = e.name /\ u.parent = parent}
  OBVIOUS
<1>10. IF ~SpanSlices
         THEN /\ inner' = IF k = 0 THEN c0.inner ELSE inner
              /\ spans' = [spans EXCEPT ![s] = SpanData(e, p, k, 0, 0, SetAll(<<>>, fields))]
              /\ calls' = calls + 1
              /\ UNCHANGED <<config, clock, seq, idle, reader, tracks, heard, meant>>
         ELSE \E u \in used \cup {[uuid |-> NewUuid(c1), name |-> 0, parent |-> parent]} :
                LET c2 == IF u \in used THEN c1 ELSE CreateTrack(c1, e.name, parent)
                    c3 == Put(Event(Packet(c2)), Type(Types.begin) \o TrackUuid(u.uuid))
                    c4 == StoredFields(Metadata(Named(c3, e.name), e), fields)
                    event == Described(NoEvent(t, Types.begin, u.uuid), e)
                IN /\ Writes(t, EndEvent(c4), [event EXCEPT !.notes = @ \o Notes(fields)])
                   /\ spans' = [spans EXCEPT ![s] = SpanData(e, p, k, u.uuid, parent, <<>>)]
                   /\ idle' = idle \ {u}
  BY <1>5, <1>6, <1>7, <1>8, <1>9, ZenonT(120) DEF OnNewSpan, SpanData, SpanFields, SpanStart, SpanCall
<1>11. CASE ~SpanSlices
  <2>1. SetAll(<<>>, fields) \in Seq(FieldsOf) /\ 0 \in Word
    <3>1. PICK none \in Seq(FieldsOf) : none = <<>>
      BY EmptySeq
    <3>2. SetAll(none, fields) \in Seq(FieldsOf)
      BY SetAllDone
    <3> QED BY <3>1, <3>2, WordFacts DEF Word
  <2>2. SpanData(e, p, k, 0, 0, SetAll(<<>>, fields)) \in SpanStates
    BY <1>1, <2>1, SpanDataDone
  <2>3. SpansOK'
    BY <1>10, <1>11, <2>2, SpanUpdated
  <2>4. /\ config \in Configs /\ ClockFits /\ calls \in 0 .. MaxCalls /\ inner \in Inners
        /\ MaxCalls \in Nat /\ calls < MaxCalls
    BY <1>1, SequenceAssumption DEF IInv, SharedOK, Ready
  <2>5. calls' \in 0 .. MaxCalls
    BY <1>10, <1>11, <2>4
  <2>6. SharedOK'
    BY <1>6, <1>10, <1>11, <2>4, <2>5 DEF SharedOK, ClockFits
  <2>7. SequencesOK' /\ IdleOK' /\ EventsOK'
    BY <1>10, <1>11 DEF IInv, SequencesOK, Settled, OnTime, IdleOK, EventsOK
  <2>8. TimesOK'
    BY <1>10, <1>11 DEF IInv, TimesOK, Timed, Ahead
  <2> QED BY <2>3, <2>6, <2>7, <2>8 DEF IInv
<1>12. CASE SpanSlices
  <2>1. PICK u \in used \cup {[uuid |-> NewUuid(c1), name |-> 0, parent |-> parent]} :
          LET c2 == IF u \in used THEN c1 ELSE CreateTrack(c1, e.name, parent)
              c3 == Put(Event(Packet(c2)), Type(Types.begin) \o TrackUuid(u.uuid))
              c4 == StoredFields(Metadata(Named(c3, e.name), e), fields)
              event == Described(NoEvent(t, Types.begin, u.uuid), e)
          IN /\ Writes(t, EndEvent(c4), [event EXCEPT !.notes = @ \o Notes(fields)])
             /\ spans' = [spans EXCEPT ![s] = SpanData(e, p, k, u.uuid, parent, <<>>)]
             /\ idle' = idle \ {u}
    BY <1>10, <1>12
  <2>2. PICK uuid \in Word : uuid = u.uuid
    <3>1. c1 \in Calls
      BY DEF Betweens
    <3>2. NewUuid(c1) \in Word
      BY <3>1, AllocDone
    <3>3. u \in used => u.uuid \in Word
      BY <1>9 DEF IInv, IdleOK
    <3>4. [uuid |-> NewUuid(c1), name |-> 0, parent |-> parent].uuid \in Word
      BY <3>2
    <3> QED BY <2>1, <3>3, <3>4
  <2>3. PICK c2 \in Betweens(to) : c2 = IF u \in used THEN c1 ELSE CreateTrack(c1, e.name, parent)
    BY <1>2, <1>4, CreateTrackDone
  <2>4. PICK c3 \in InEvents(to, 1) : c3 = Put(Event(Packet(c2)), Type(Types.begin) \o TrackUuid(u.uuid))
    <3>1. PICK type \in Word : type = 1 /\ type = Types.begin
      BY TypesAre
    <3>2. Adds(TrackUuid(uuid), EventIds)
      BY TrackAdds
    <3>3. Put(Event(Packet(c2)), Type(type) \o TrackUuid(uuid)) \in InEvents(to, type)
      BY <1>4, <3>2, BegunBetween
    <3> QED BY <2>2, <3>1, <3>3
  <2>5. PICK c4 \in InEvents(to, 1) : c4 = StoredFields(Metadata(Named(c3, e.name), e), fields)
    BY <1>2, NamedDone, MetadataDone, StoredFieldsDone
  <2>6. PICK o \in Dones(to, 1) : o = EndEvent(c4)
    BY EndEventDone
  <2>7. PICK event : event = [Described(NoEvent(t, Types.begin, u.uuid), e) EXCEPT !.notes = @ \o Notes(fields)]
    OBVIOUS
  <2>8. /\ Writes(t, o, event) /\ idle' = idle \ {u}
        /\ spans' = [spans EXCEPT ![s] = SpanData(e, p, k, u.uuid, parent, <<>>)]
    BY <2>1, <2>3, <2>4, <2>5, <2>6, <2>7, Zenon
  <2>9. event.type = 1 /\ event.sequence = seq[t].id /\ event.time = FirstTime
    BY <2>7, MeantAre, TypesAre
  <2>10. SharedOK' /\ SequencesOK' /\ EventsOK' /\ TimesOK'
    <3>1. PICK type : type = 1 /\ type # 0
      OBVIOUS
    <3>2. o \in Dones(Sink(t), type)
      BY <1>3, <3>1
    <3> QED BY <1>1, <2>6, <2>8, <2>9, <3>1, <3>2, WritesDone
  <2>11. SpansOK'
    <3>1. SpanData(e, p, k, uuid, parent, <<>>) \in SpanStates
      BY <1>1, SpanDataDone, EmptySeq
    <3> QED BY <2>2, <2>8, <3>1, SpanUpdated
  <2>12. IdleOK'
    BY <2>8 DEF IInv, IdleOK
  <2> QED BY <2>10, <2>11, <2>12 DEF IInv
<1> QED BY <1>11, <1>12

\* Only the span changes, and the calls.
LEMMA OnRecordDone ==
  ASSUME IInv, NEW s \in Spans, NEW e \in SpanSites, OnRecord(s, e)
  PROVE  IInv'
<1>1. /\ calls < MaxCalls /\ Live(s) /\ calls' = calls + 1
      /\ spans' = [spans EXCEPT ![s].fields = SetAll(@, e.fields)]
      /\ UNCHANGED <<config, clock, inner, seq, idle, reader, tracks, heard, meant>>
  BY DEF OnRecord
<1>2. e.fields \in Seq(FieldsOf)
  BY SiteFacts DEF Callsites, IsCallsite
<1>3. PICK d \in LiveSpans : d = spans[s]
  BY <1>1, LiveSpan
<1>4. PICK fields \in Seq(FieldsOf) : fields = SetAll(d.fields, e.fields)
  BY <1>2, SetAllDone DEF LiveSpans
<1>5. PICK o \in LiveSpans : o = [d EXCEPT !.fields = fields]
  BY DEF LiveSpans
<1>6. spans' = [spans EXCEPT ![s] = o]
  BY <1>1, <1>3, <1>4, <1>5
<1>7. SpansOK'
  BY <1>6, SpanUpdated DEF SpanStates
<1>8. /\ config \in Configs /\ ClockFits /\ calls \in 0 .. MaxCalls /\ inner \in Inners
      /\ MaxCalls \in Nat
  BY SequenceAssumption DEF IInv, SharedOK
<1>9. calls' \in 0 .. MaxCalls
  BY <1>1, <1>8
<1>10. SharedOK'
  BY <1>1, <1>8, <1>9 DEF SharedOK, ClockFits
<1>11. SequencesOK' /\ IdleOK' /\ EventsOK' /\ TimesOK'
  BY <1>1 DEF IInv, SequencesOK, Settled, OnTime, IdleOK, EventsOK, TimesOK, Timed, Ahead
<1> QED BY <1>7, <1>10, <1>11 DEF IInv

\* Threads enter and leave a span.
LEMMA InsideDone ==
  ASSUME IInv, NEW s \in Spans, Live(s), NEW inside \in SUBSET Threads,
         spans' = [spans EXCEPT ![s].inside = inside]
  PROVE  SpansOK'
<1>1. PICK d \in LiveSpans : d = spans[s]
  BY LiveSpan
<1>2. PICK o \in LiveSpans : o = [d EXCEPT !.inside = inside]
  BY DEF LiveSpans
<1>3. spans' = [spans EXCEPT ![s] = o]
  BY <1>1, <1>2
<1> QED BY <1>3, SpanUpdated DEF SpanStates

LEMMA OnEnterDone ==
  ASSUME IInv, NEW t \in Threads, NEW s \in Spans, OnEnter(t, s)
  PROVE  IInv'
<1>1. /\ Ready(t) /\ Live(s) /\ seq[t] # NoSequence /\ idle' = idle
      /\ spans' = [spans EXCEPT ![s].inside = @ \cup {t}]
  BY DEF OnEnter, Ready
<1>2. PICK to : to = Sink(t)
  OBVIOUS
<1>3. Callback(t) \in Betweens(to) /\ ClockFits
  BY <1>1, <1>2, CallbackBetween
<1>4. PICK d \in LiveSpans : d = spans[s]
  BY <1>1, LiveSpan
<1>5. /\ d.site \in Callsites /\ d.site.name \in Addresses /\ d.fields \in Seq(FieldsOf)
      /\ d.uuid \in Word /\ d.flow \in Word /\ d.inside \in SUBSET Threads
  <2>1. d.site \in Callsites
    BY DEF LiveSpans, Callsites
  <2> QED BY <2>1, SiteFacts DEF LiveSpans, IsCallsite
<1>6. PICK fields \in Seq(FieldsOf) :
        fields = IF config.annotations /\ config.mode = "ThreadTracks" THEN d.fields ELSE <<>>
  BY <1>5, EmptySeq
<1>7. PICK flow : flow = (IF ThreadSlices THEN FlowStart(d.flow) ELSE <<>>) /\ Adds(flow, EventIds)
  BY <1>5, FlowAdds, AddsNothing
<1>8. PICK c1 \in InEvents(to, 1) : c1 = Put(Event(Packet(Callback(t))), Type(Types.begin))
  <2>1. PICK type \in Word : type = 1 /\ type = Types.begin
    BY TypesAre
  <2>2. Put(Event(Packet(Callback(t))), Type(type)) \in InEvents(to, type)
    BY <1>3, AddsNothing, BegunBetween
  <2> QED BY <2>1, <2>2
<1>9. PICK c2 \in InEvents(to, 1) :
        c2 = IF ThreadSlices THEN StoredFields(Metadata(Named(c1, d.site.name), d.site), fields)
             ELSE Named(Put(c1, TrackUuid(d.uuid)), PollName)
  <2>1. StoredFields(Metadata(Named(c1, d.site.name), d.site), fields) \in InEvents(to, 1)
    BY <1>5, NamedDone, MetadataDone, StoredFieldsDone
  <2>2. Named(Put(c1, TrackUuid(d.uuid)), PollName) \in InEvents(to, 1)
    <3>1. PollName \in Addresses
      BY SequenceAssumption
    <3> QED BY <1>5, <3>1, TrackAdds, PutEvent, NamedDone
  <2> QED BY <2>1, <2>2
<1>10. PICK o \in Dones(to, 1) : o = EndEvent(Put(c2, flow))
  BY <1>7, PutEvent, EndEventDone
<1>11. PICK event :
         event = IF ThreadSlices
                   THEN [Described(NoEvent(t, Types.begin, seq[t].thread), d.site)
                           EXCEPT !.notes = @ \o Notes(fields), !.flows = {d.flow}]
                   ELSE [NoEvent(t, Types.begin, d.uuid) EXCEPT !.name = Static[PollName]]
  OBVIOUS
<1>12. Writes(t, o, event)
  BY <1>4, <1>6, <1>7, <1>8, <1>9, <1>10, <1>11, Zenon DEF OnEnter
<1>13. event.type = 1 /\ event.sequence = seq[t].id /\ event.time = FirstTime
  <2>1. CASE ThreadSlices
    BY <1>11, <2>1, MeantAre, TypesAre
  <2>2. CASE ~ThreadSlices
    <3>1. PICK n : /\ n = NoEvent(t, Types.begin, d.uuid) /\ n.type = Types.begin
                   /\ n.sequence = seq[t].id /\ n.time = FirstTime
                   /\ {"type", "sequence", "time"} \subseteq DOMAIN n
      BY NoEventIs
    <3>2. event = [n EXCEPT !.name = Static[PollName]]
      BY <1>11, <2>2, <3>1
    <3> QED BY <3>1, <3>2, TypesAre
  <2> QED BY <2>1, <2>2
<1>14. SharedOK' /\ SequencesOK' /\ EventsOK' /\ TimesOK'
  <2>1. PICK type : type = 1 /\ type # 0
    OBVIOUS
  <2>2. o \in Dones(Sink(t), type)
    BY <1>2, <2>1
  <2> QED BY <1>1, <1>10, <1>12, <1>13, <2>1, <2>2, WritesDone
<1>15. SpansOK'
  <2>1. PICK inside \in SUBSET Threads : inside = d.inside \cup {t}
    BY <1>5
  <2>2. spans' = [spans EXCEPT ![s].inside = inside]
    BY <1>1, <1>4, <2>1
  <2> QED BY <1>1, <2>2, InsideDone
<1>16. IdleOK'
  BY <1>1 DEF IInv, IdleOK
<1> QED BY <1>14, <1>15, <1>16 DEF IInv

LEMMA OnExitDone ==
  ASSUME IInv, NEW t \in Threads, NEW s \in Spans, OnExit(t, s)
  PROVE  IInv'
<1>1. /\ Ready(t) /\ Live(s) /\ seq[t] # NoSequence /\ idle' = idle
      /\ spans' = [spans EXCEPT ![s].inside = @ \ {t}]
  BY DEF OnExit, Ready
<1>2. PICK to : to = Sink(t)
  OBVIOUS
<1>3. Callback(t) \in Betweens(to) /\ ClockFits /\ seq[t].thread \in Word
  BY <1>1, <1>2, CallbackBetween
<1>4. spans[s].uuid \in Word /\ spans[s].inside \in SUBSET Threads
  BY <1>1, LiveSpan DEF LiveSpans
<1>5. PICK track \in Word : track = IF ThreadSlices THEN seq[t].thread ELSE spans[s].uuid
  BY <1>3, <1>4
<1>6. PICK b : b = (IF ThreadSlices THEN <<>> ELSE TrackUuid(track)) /\ Adds(b, EventIds)
  BY TrackAdds, AddsNothing
<1>7. PICK c \in InEvents(to, 2) : c = Put(Event(Packet(Callback(t))), Type(Types.end) \o b)
  <2>1. PICK type \in Word : type = 2 /\ type = Types.end
    BY TypesAre
  <2>2. Put(Event(Packet(Callback(t))), Type(type) \o b) \in InEvents(to, type)
    BY <1>3, <1>6, BegunBetween
  <2> QED BY <2>1, <2>2
<1>8. PICK o \in Dones(to, 2) : o = EndEvent(c)
  BY EndEventDone
<1>9. PICK event : event = NoEvent(t, Types.end, track)
  OBVIOUS
<1>10. Writes(t, o, event)
  BY <1>5, <1>6, <1>7, <1>8, <1>9, Zenon DEF OnExit
<1>11. event.type = 2 /\ event.sequence = seq[t].id /\ event.time = FirstTime
  BY <1>9, MeantAre, TypesAre
<1>12. SharedOK' /\ SequencesOK' /\ EventsOK' /\ TimesOK'
  BY <1>1, <1>2, <1>8, <1>10, <1>11, WritesDone
<1>13. SpansOK'
  <2>1. PICK inside \in SUBSET Threads : inside = spans[s].inside \ {t}
    BY <1>4
  <2>2. spans' = [spans EXCEPT ![s].inside = inside]
    BY <1>1, <2>1
  <2> QED BY <1>1, <2>2, InsideDone
<1>14. IdleOK'
  BY <1>1 DEF IInv, IdleOK
<1> QED BY <1>12, <1>13, <1>14 DEF IInv

LEMMA OnCloseDone ==
  ASSUME IInv, NEW t \in Threads, NEW s \in Spans, OnClose(t, s)
  PROVE  IInv'
<1>1. /\ Ready(t) /\ Live(s) /\ seq[t] # NoSequence /\ spans' = [spans EXCEPT ![s] = NoSpan]
  BY DEF OnClose, Ready
<1>2. PICK to : to = Sink(t)
  OBVIOUS
<1>3. Callback(t) \in Betweens(to) /\ ClockFits
  BY <1>1, <1>2, CallbackBetween
<1>4. PICK d \in LiveSpans : d = spans[s]
  BY <1>1, LiveSpan
<1>5. d.fields \in Seq(FieldsOf) /\ d.uuid \in Word
  BY DEF LiveSpans
<1>6. PICK fields \in Seq(FieldsOf) : fields = IF config.annotations THEN d.fields ELSE <<>>
  BY <1>5, EmptySeq
<1>7. PICK c \in InEvents(to, 2) :
        c = Put(Event(Packet(Callback(t))), Type(Types.end) \o TrackUuid(d.uuid))
  <2>1. PICK type \in Word : type = 2 /\ type = Types.end
    BY TypesAre
  <2>2. Adds(TrackUuid(d.uuid), EventIds)
    BY <1>5, TrackAdds
  <2>3. Put(Event(Packet(Callback(t))), Type(type) \o TrackUuid(d.uuid)) \in InEvents(to, type)
    BY <1>3, <2>2, BegunBetween
  <2> QED BY <2>1, <2>3
<1>8. PICK o \in Dones(to, 2) : o = EndEvent(StoredFields(c, fields))
  BY StoredFieldsDone, EndEventDone
<1>9. PICK event : event = [NoEvent(t, Types.end, d.uuid) EXCEPT !.notes = Notes(fields)]
  OBVIOUS
<1>10. /\ Writes(t, o, event)
       /\ idle' = idle \cup {[uuid |-> d.uuid, name |-> d.site.name, parent |-> d.parent]}
  BY <1>4, <1>6, <1>7, <1>8, <1>9, Zenon DEF OnClose
<1>11. event.type = 2 /\ event.sequence = seq[t].id /\ event.time = FirstTime
  <2>1. PICK n : /\ n = NoEvent(t, Types.end, d.uuid) /\ n.type = Types.end
                 /\ n.sequence = seq[t].id /\ n.time = FirstTime
                 /\ {"type", "sequence", "time"} \subseteq DOMAIN n
    BY NoEventIs
  <2>2. event = [n EXCEPT !.notes = Notes(fields)]
    BY <1>9, <2>1
  <2> QED BY <2>1, <2>2, TypesAre
<1>12. SharedOK' /\ SequencesOK' /\ EventsOK' /\ TimesOK'
  BY <1>1, <1>2, <1>8, <1>10, <1>11, WritesDone
<1>13. SpansOK'
  <2>1. NoSpan \in SpanStates
    BY DEF SpanStates
  <2> QED BY <1>1, <2>1, SpanUpdated
<1>14. IdleOK'
  BY <1>5, <1>10 DEF IInv, IdleOK
<1> QED BY <1>12, <1>13, <1>14 DEF IInv

LEMMA Stuttering ==
  ASSUME IInv, UNCHANGED vars
  PROVE  IInv'
BY DEF vars, IInv, SharedOK, ClockFits, SequencesOK, Settled, OnTime, SpansOK, IdleOK, EventsOK,
       TimesOK, Timed, Ahead

LEMMA Invariance1 ==
  ASSUME IInv, [Next]_vars
  PROVE  IInv'
<1>1. CASE \E t \in Threads : NewContext(t)
  BY <1>1, NewContextDone
<1>2. CASE \E t \in Threads : \E e \in Events, s \in Spans \cup {None} :
             \E k \in 0 .. Len(e.fields) : OnEvent(t, e, s, k)
  BY <1>2, OnEventDone
<1>3. CASE \E t \in Threads : \E s \in Spans :
             \E e \in SpanSites, p \in (Spans \cup {None}) \ {s} :
               \E k \in 0 .. Len(e.fields) : OnNewSpan(t, s, e, p, k)
  BY <1>3, OnNewSpanDone
<1>4. CASE \E t \in Threads : \E s \in Spans : OnEnter(t, s)
  BY <1>4, OnEnterDone
<1>5. CASE \E t \in Threads : \E s \in Spans : OnExit(t, s)
  BY <1>5, OnExitDone
<1>6. CASE \E t \in Threads : \E s \in Spans : OnClose(t, s)
  BY <1>6, OnCloseDone
<1>7. CASE \E s \in Spans, e \in SpanSites : OnRecord(s, e)
  BY <1>7, OnRecordDone
<1>8. CASE UNCHANGED vars
  BY <1>8, Stuttering
<1> QED BY <1>1, <1>2, <1>3, <1>4, <1>5, <1>6, <1>7, <1>8 DEF Next

\* A buffer whose prefix is kept is no shorter than that.
LEMMA SettledTyped ==
  ASSUME NEW s, Settled(s)
  PROVE  /\ s.last <= clock /\ s.fresh = <<>> /\ s.prefix \in 0 .. Len(s.scratch)
         /\ \A b \in Range(s.scratch) : b \in 0 .. 255
<1>1. s \in SeqStates /\ s.fresh = <<>> /\ OnTime(s) /\ Framed(s, s.scratch)
  BY DEF Settled
<1>2. s.scratch \in Bytes /\ s.prefix \in Nat /\ s.id \in Word
  BY <1>1 DEF SeqStates
<1>3. Len(s.scratch) \in Nat
  BY <1>2, LenProperties DEF Bytes
<1>4. s.prefix <= Len(s.scratch)
  <2>1. CASE s.prefix = 0
    BY <1>3, <2>1
  <2>2. CASE s.prefix # 0
    <3>1. PICK p \in Bytes : p = PrefixBytes(s.id) /\ s.prefix = RootLen + Len(p) /\ After(s.scratch, p)
      BY <1>1, <1>2, <2>2, PrefixSays DEF Framed, PrefixLen
    <3>2. PICK r \in Bytes : Headed(s.scratch, p \o r)
      BY <3>1 DEF After
    <3>3. PICK z \in Bytes : Len(z) = LenBytes /\ s.scratch = (Tag(1, 2) \o z) \o (p \o r)
      BY <3>2 DEF Headed
    <3>4. PICK h \in Bytes : h = Tag(1, 2) \o z /\ Len(h) = Len(Tag(1, 2)) + Len(z)
      BY RootTag, Shifted
    <3>5. PICK q \in Bytes : q = p \o r /\ Len(q) = Len(p) + Len(r)
      BY Shifted
    <3>6. Len(s.scratch) = Len(h) + Len(q) /\ Len(p) \in Nat /\ Len(r) \in Nat
      BY <3>3, <3>4, <3>5, Shifted
    <3>7. s.prefix = Len(h) + Len(p) /\ Len(h) \in Nat
      BY <3>1, <3>3, <3>4, RootTag DEF RootLen
    <3> QED BY <3>5, <3>6, <3>7
  <2> QED BY <2>1, <2>2
<1>5. ASSUME NEW b \in Range(s.scratch) PROVE b \in 0 .. 255
  <2>1. PICK i \in DOMAIN s.scratch : b = s.scratch[i]
    BY DEF Range
  <2>2. i \in 1 .. Len(s.scratch)
    BY <1>2, LenProperties DEF Bytes
  <2> QED BY <1>2, <2>1, <2>2, ElementOfSeq DEF Bytes, Byte
<1> QED BY <1>1, <1>2, <1>3, <1>4, <1>5 DEF OnTime

\* What is kept between callbacks stays typed: sequence.rs goes on from it with the
\* clock no earlier than its last packet's, no interned data pending, and a scratch
\* buffer of bytes as long as the prefix it is cut to.
THEOREM TypeCorrect == Spec => []TypeOK
<1>1. Init => IInv
  BY Invariance0
<1>2. IInv /\ [Next]_vars => IInv'
  BY Invariance1
<1>3. IInv => TypeOK
  <2> SUFFICES ASSUME IInv PROVE TypeOK
    OBVIOUS
  <2>1. /\ config \in Configs /\ clock \in Nat /\ calls \in 0 .. MaxCalls /\ inner \in Inners
    BY DEF IInv, SharedOK, ClockFits
  <2>2. inner.uuid \in 0 .. Words - 1 /\ inner.process \in 0 .. Words - 1
    BY <2>1 DEF Inners, Word
  <2>3. ASSUME NEW t \in Threads, seq[t] # NoSequence PROVE Settled(seq[t])
    BY <2>3 DEF IInv, SequencesOK
  <2>4. ASSUME NEW s \in Spans PROVE spans[s].state \in {"none", "live", "lost"}
    BY DEF IInv, SpansOK, SpanStates, NoSpan, LiveSpans
  <2> QED BY <2>1, <2>2, <2>3, <2>4, SettledTyped DEF TypeOK
<1> QED BY <1>1, <1>2, <1>3, PTL DEF Spec

\* For every set of threads and spans, callsites, values and width of a word:
\* Packet::drop pushes whole packets only, and a callback that writes an event pushes
\* exactly one with it, of its own sequence and type, whatever the cut of the reused
\* buffer left in it and wherever a formatter panics.
THEOREM FramesCorrect == Spec => []PacketsFramed
<1>1. Init => IInv
  BY Invariance0
<1>2. IInv /\ [Next]_vars => IInv'
  BY Invariance1
<1>3. IInv => PacketsFramed
  <2> SUFFICES ASSUME IInv, NEW t \in Threads, meant[t] # <<>>
               PROVE  /\ Len(heard[t]) = 1 /\ heard[t][1] # NoPacket
                      /\ heard[t][1].type = meant[t][1].type
                      /\ heard[t][1].sequence = meant[t][1].sequence
    BY DEF PacketsFramed, Heard
  <2>1. PICK h, m : /\ heard[t] = <<h>> /\ meant[t] = <<m>>
                    /\ h.type = m.type /\ h.sequence = m.sequence /\ m.type # 0
    BY DEF IInv, EventsOK, Agree
  <2>2. h # NoPacket
    BY <2>1 DEF NoPacket
  <2> QED BY <2>1, <2>2
<1> QED BY <1>1, <1>2, <1>3, PTL DEF Spec

\* For every width of a word, step of the clock and offset of the realtime clock: the
\* time an importer gives the event of a callback, which sequence.rs writes as the
\* difference to its last packet on the incremental clock its first packet anchors at
\* the clock of the trace, is the time of the callback.
THEOREM ClockCorrect == Spec => []ClockTracks
<1>1. Init => IInv
  BY Invariance0
<1>2. IInv /\ [Next]_vars => IInv'
  BY Invariance1
<1>3. IInv => ClockTracks
  <2> SUFFICES ASSUME IInv, NEW t \in Threads, meant[t] # <<>>
               PROVE  heard[t][1].time = meant[t][1].time
    BY DEF ClockTracks, Heard
  <2>1. PICK h, m : heard[t] = <<h>> /\ meant[t] = <<m>> /\ h.time = m.time
    BY DEF IInv, EventsOK, Agree
  <2> QED BY <2>1
<1> QED BY <1>1, <1>2, <1>3, PTL DEF Spec
================================================================================
