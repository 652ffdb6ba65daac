---------------------------------- MODULE Emit ---------------------------------
(***************************************************************************)
(* The writers of emit.rs: what each field of a trace message is written   *)
(* as, with the field numbers of its schema.  Text is a sequence of bytes.  *)
(***************************************************************************)
EXTENDS Proto

CONSTANT MaxExtraCounters  \* MAX_EXTRA_COUNTERS, 8

\* mod schema: one record per message of the Perfetto protos.
Trace        == [packet |-> 1]
TracePacket  == [clocks |-> 6, timestamp |-> 8, sequence |-> 10, event |-> 11,
                 interned |-> 12, flags |-> 13, clockId |-> 58, defaults |-> 59,
                 descriptor |-> 60, first |-> 87]
Flags        == [cleared |-> 1, needs |-> 2]
Defaults     == [event |-> 11, clockId |-> 58]
EventDefaults == [track |-> 11]
Snapshot     == [clocks |-> 1, primary |-> 2]
Clock        == [id |-> 1, timestamp |-> 2, incremental |-> 3]
ClockIds     == [realtime |-> 1, monotonic |-> 3, boottime |-> 6, custom |-> 64]
TrackEvent   == [category |-> 3, annotation |-> 4, type |-> 9, nameIid |-> 10, track |-> 11,
                 counter |-> 12, name |-> 23, counterTrack |-> 31, location |-> 34,
                 doubleTrack |-> 45, double |-> 46, flow |-> 47, terminating |-> 48]
Types        == [begin |-> 1, end |-> 2, instant |-> 3]
Descriptor   == [uuid |-> 1, name |-> 2, process |-> 3, thread |-> 4, parent |-> 5, counter |-> 8]
Process      == [pid |-> 1, cmdline |-> 2, name |-> 6]
Thread       == [pid |-> 1, tid |-> 2, name |-> 5]
Interned     == [category |-> 1, event |-> 2, note |-> 3, location |-> 4, value |-> 29]
Entry        == [iid |-> 1, text |-> 2, line |-> 4]  \* of every table above
Annotation   == [nameIid |-> 1, bool |-> 2, u64 |-> 3, i64 |-> 4, f64 |-> 5, text |-> 6,
                 textIid |-> 17]

-----------------------------------------------------------------------------
(* TrackEventWriter.                                                        *)

Type(type)      == VarintField(TrackEvent.type, type)
TrackUuid(uuid) == RedundantField(TrackEvent.track, uuid)
FlowStart(id)   == Fixed64Field(TrackEvent.flow, id)

LevelAnnotation(nameIid, valueIid) ==
  Message(TrackEvent.annotation,
          VarintField(Annotation.nameIid, nameIid) \o VarintField(Annotation.textIid, valueIid))

\* annotation_*: a value is a number of some type, or text, which is copied when
\* it is a string and streamed when it is formatted.
ValueField(x) ==
  CASE x.kind = "bool" -> VarintField(Annotation.bool, x.v)
    [] x.kind = "i64"  -> VarintField(Annotation.i64, Unsigned(x.v))
    [] x.kind = "u64"  -> VarintField(Annotation.u64, x.v)
    [] x.kind = "f64"  -> Fixed64Field(Annotation.f64, x.v)
    [] x.kind = "str"  -> StringField(Annotation.text, x.v)
    [] x.kind = "fmt"  -> FmtField(Annotation.text, x.v)

AnnotationField(nameIid, x) ==
  Message(TrackEvent.annotation, VarintField(Annotation.nameIid, nameIid) \o ValueField(x))

\* counter_i64 and counter_f64: a sample is paired with its track by position.
CounterField(uuid, x) ==
  IF x.kind = "f64"
    THEN RedundantField(TrackEvent.doubleTrack, uuid) \o Fixed64Field(TrackEvent.double, x.v)
    ELSE RedundantField(TrackEvent.counterTrack, uuid)
           \o VarintField(TrackEvent.counter, Unsigned(x.v))

EventName(x) == IF x.kind = "str" THEN StringField(TrackEvent.name, x.v)
                                  ELSE FmtField(TrackEvent.name, x.v)

-----------------------------------------------------------------------------
(* Descriptors.                                                             *)

TrackDescriptor(uuid, name, parent) ==
  Message(TracePacket.descriptor,
          RedundantField(Descriptor.uuid, uuid) \o StringField(Descriptor.name, name)
            \o RedundantField(Descriptor.parent, parent))

CounterDescriptor(uuid, name, parent) ==
  Message(TracePacket.descriptor,
          RedundantField(Descriptor.uuid, uuid) \o StringField(Descriptor.name, name)
            \o RedundantField(Descriptor.parent, parent) \o Message(Descriptor.counter, <<>>))
================================================================================
