------------------------------ MODULE TraceReader ------------------------------
(***************************************************************************)
(* What an importer makes of the packets of one sequence, by the protos of  *)
(* the trace format: the tables of interned strings, the incremental clock  *)
(* and the defaults a packet relies on, and the events and descriptors in   *)
(* it.  This is not code of the repository; it is what its output is for.   *)
(***************************************************************************)
EXTENDS Emit

NewReader ==
  [tables |-> [n \in DOMAIN Interned |-> {}], track |-> 0, clockId |-> 0,
   now |-> 0, base |-> 0, primary |-> 0]

Undefined == <<0>>   \* the text of no string
NoPacket == [type |-> 0]  \* what is not a packet
Lookup(r, table, iid) ==
  LET found == {e \in r.tables[table] : e.iid = iid}
  IN IF Cardinality(found) = 1 THEN (CHOOSE e \in found : TRUE).text ELSE Undefined

ReadCleared(r, p) == IF Value(p, TracePacket.flags, 0) % 2 = 1 THEN NewReader ELSE r

\* The interned data ms of a packet.
ReadEntries(r, ms) ==
  LET Read(e) == [iid |-> Value(e, Entry.iid, 0), text |-> Text(e, Entry.text)]
  IN IF ms = <<>> THEN r
     ELSE [r EXCEPT !.tables =
             [n \in DOMAIN @ |-> @[n] \cup {Read(e) : e \in Range(Nested(ms[1], Interned[n]))}]]

\* A timestamp on the incremental clock is a delta.
ReadTime(r, p) ==
  LET custom == Value(p, TracePacket.clockId, r.clockId) = ClockIds.custom
  IN [r EXCEPT !.now = @ + IF custom THEN Value(p, TracePacket.timestamp, 0) ELSE 0]

\* The defaults ds of a packet.
ReadDefaults(r, ds) ==
  IF ds = <<>> THEN r
  ELSE [r EXCEPT !.clockId = Value(ds[1], Defaults.clockId, 0),
                 !.track = Value(Nested(ds[1], Defaults.event)[1], EventDefaults.track, 0)]

\* The clock snapshots ss of a packet.
ReadClocks(r, ss) ==
  LET ClockAt(id) ==
        LET at == CHOOSE c \in Range(Nested(ss[1], Snapshot.clocks)) : Value(c, Clock.id, 0) = id
        IN Value(at, Clock.timestamp, 0)
  IN IF ss = <<>> THEN r
     ELSE [r EXCEPT !.now = ClockAt(ClockIds.custom), !.base = ClockAt(ClockIds.custom),
                    !.primary = ClockAt(Value(ss[1], Snapshot.primary, 0))]

\* The reader before the event of the packet.
ReadState(r, p) ==
  ReadClocks(
    ReadDefaults(
      ReadTime(ReadEntries(ReadCleared(r, p), Nested(p, TracePacket.interned)), p),
      Nested(p, TracePacket.defaults)),
    Nested(p, TracePacket.clocks))

ReadValue(r, a) ==
  CASE Has(a, Annotation.bool) -> [kind |-> "bool", v |-> Value(a, Annotation.bool, 0)]
    [] Has(a, Annotation.i64)  -> [kind |-> "i64", v |-> Signed(Value(a, Annotation.i64, 0))]
    [] Has(a, Annotation.u64)  -> [kind |-> "u64", v |-> Value(a, Annotation.u64, 0)]
    [] Has(a, Annotation.f64)  -> [kind |-> "f64", v |-> Value(a, Annotation.f64, 0)]
    [] Has(a, Annotation.text) -> [kind |-> "text", v |-> Text(a, Annotation.text)]
    [] OTHER -> [kind |-> "text", v |-> Lookup(r, "value", Value(a, Annotation.textIid, 0))]

\* The annotations ns of an event.
ReadNotes(r, ns) ==
  [i \in DOMAIN ns |-> [name |-> Lookup(r, "note", Value(ns[i], Annotation.nameIid, 0)),
                        x |-> ReadValue(r, ns[i])]]

\* The event ev of packet p.
ReadEvent(r, p, ev) ==
  LET Pairs(tag, track, value) ==
        [i \in DOMAIN Fields(ev, value) |->
          [track |-> Fields(ev, track)[i].v, kind |-> tag, v |-> Fields(ev, value)[i].v]]
  IN [time |-> r.primary + r.now - r.base,
      sequence |-> Value(p, TracePacket.sequence, 0),
      type |-> Value(ev, TrackEvent.type, 0),
      track |-> Value(ev, TrackEvent.track, r.track),
      name |-> IF Has(ev, TrackEvent.name) THEN Text(ev, TrackEvent.name)
               ELSE IF Has(ev, TrackEvent.nameIid)
                 THEN Lookup(r, "event", Value(ev, TrackEvent.nameIid, 0)) ELSE <<>>,
      category |-> IF Has(ev, TrackEvent.category)
                     THEN Lookup(r, "category", Value(ev, TrackEvent.category, 0)) ELSE <<>>,
      location |-> IF Has(ev, TrackEvent.location)
                     THEN Lookup(r, "location", Value(ev, TrackEvent.location, 0)) ELSE <<>>,
      notes |-> ReadNotes(r, Nested(ev, TrackEvent.annotation)),
      samples |-> Pairs("i64", TrackEvent.counterTrack, TrackEvent.counter)
                    \o Pairs("f64", TrackEvent.doubleTrack, TrackEvent.double),
      flows |-> {Fields(ev, TrackEvent.flow)[i].v : i \in DOMAIN Fields(ev, TrackEvent.flow)}]

ReadDescriptor(d) ==
  LET kind == CASE Has(d, Descriptor.process) -> "process"
                [] Has(d, Descriptor.thread)  -> "thread"
                [] Has(d, Descriptor.counter) -> "counter"
                [] OTHER -> "span"
  IN [uuid |-> Value(d, Descriptor.uuid, 0), kind |-> kind, name |-> Text(d, Descriptor.name),
      parent |-> Value(d, Descriptor.parent, 0),
      tid |-> IF kind = "thread" THEN Value(Nested(d, Descriptor.thread)[1], Thread.tid, 0) ELSE 0]

\* What reader r gets from packet p, after the events and tracks of a.
ReadAs(a, r, p) ==
  [reader |-> r,
   events |-> a.events \o [i \in DOMAIN Fields(p, TracePacket.event) |->
                             ReadEvent(r, p, Nested(p, TracePacket.event)[i])],
   tracks |-> a.tracks \cup {ReadDescriptor(d) : d \in Range(Nested(p, TracePacket.descriptor))}]
ReadMessage(a, id, p) ==
  IF id # Trace.packet \/ ~WellFormed(p) THEN [a EXCEPT !.events = Append(@, NoPacket)]
                                         ELSE ReadAs(a, ReadState(a.reader, p), p)
ReadPacket(a, f) == ReadMessage(a, f.id, Parse(f.bytes))
ReadPackets(a, fs) == FoldLeft(ReadPacket, a, fs)
================================================================================
