----------------------------- MODULE PacketSequence -----------------------------
(***************************************************************************)
(* What one thread writes: the packets of sequence.rs, with the interning,  *)
(* the incremental clock and the reused prefix that make them short, the    *)
(* events the callbacks put in them and the fields the visitors add; and a  *)
(* reader, as an importer of the trace, that must get back what happened.   *)
(*                                                                         *)
(* A callback is one action.  What callbacks of two threads share here is a *)
(* counter, a flag, a map under its mutex and a cell set once, which each   *)
(* callback takes one operation on; what else they share is in Tracks, Layer *)
(* and SpanStore.  Static strings are their addresses, with a text each.    *)
(***************************************************************************)
EXTENDS TraceReader

CONSTANTS
  Threads, Spans, None,
  Static,      \* the text at each address of a static string
  PollName,    \* the address of "poll"
  LevelName,   \* the text "level"
  LevelText,   \* the text of each of the five levels
  ProcessName, \* text
  Pid,
  Realtime,    \* how far the wall clock is ahead of the monotonic ones
  Events, SpanSites,  \* callsites, with the values of their fields
  Configs,     \* configurations
  UuidBase,    \* where the random uuids start
  Step,        \* bound: what the clock advances by
  MaxCalls     \* bound: callbacks

Addresses == DOMAIN Static

\* The values a field takes, by their types.
Values ==
  [kind : {"bool"}, v : {0, 1}] \cup [kind : {"u64", "f64"}, v : Word]
    \cup [kind : {"i64"}, v : -(Words \div 2) .. (Words \div 2) - 1]
    \cup [kind : {"i128"}, v : Int] \cup [kind : {"u128"}, v : Nat]
    \cup [kind : {"str", "fmt"}, v : Bytes]
FieldsOf == [name : Addresses, counter : BOOLEAN, message : BOOLEAN, x : Values]

\* A callsite: the static metadata, with the values of its fields.
IsCallsite(e) ==
  /\ e.name \in Addresses /\ e.target \in Addresses /\ e.file \in Addresses
  /\ e.line \in Word /\ e.level \in 1 .. 5 /\ e.fields \in Seq(FieldsOf)

\* There are fewer strings and callsites than addresses.
Sites == {e.site : e \in Events \cup SpanSites}
Fewer(S) == IsFiniteSet(S) /\ Cardinality(S) + 2 < Words

ASSUME SequenceAssumption ==
  /\ None \notin Spans /\ 0 \notin Addresses /\ PollName \in Addresses
  /\ Static \in [Addresses -> Bytes] /\ Fewer(Addresses) /\ Fewer(Sites)
  /\ LevelName \in Bytes /\ LevelText \in [1 .. 5 -> Bytes] /\ ProcessName \in Bytes
  /\ Pid \in Word /\ Realtime \in Nat /\ Step \in Nat /\ Step + Realtime < Words
  /\ MaxExtraCounters \in Nat \ {0} /\ MaxCalls \in Nat /\ UuidBase \in Word
  /\ \A c \in Configs : c.mode \in {"SpanTracks", "ThreadTracks", "Both"}
  /\ \A e \in Events \cup SpanSites : IsCallsite(e)

VARIABLES
  config,  \* Config, and whether the platform has a trace clock and thread ids
  clock,   \* the trace clock
  inner,   \* the shared counters and flags of Inner
  seq,     \* the SequenceState of each thread that has one
  spans,   \* the stored spans
  idle,    \* the tracks of closed spans, to be reused for the same key
  calls,   \* how many callbacks there were
  reader,  \* the trace: the state of the reader on each sequence
  tracks,  \* the trace: the descriptors read
  heard,   \* the trace: the events read off the last callback of each thread
  meant    \* history: the event it stands for, if any

vars == <<config, clock, inner, seq, spans, idle, calls, reader, tracks, heard, meant>>

Absent == [a \in Addresses |-> 0]

Interner(next) == [map |-> Absent, next |-> next, lastKey |-> 0, lastIid |-> 0]

NoSequence == [id |-> 0]
NewSequence(id, uuid, now) ==
  [id |-> id, thread |-> uuid, anchor |-> now, last |-> now, prefix |-> 0, root |-> 0,
   initialized |-> FALSE, started |-> FALSE,
   names |-> [n \in {"event", "note", "category"} |-> Interner(IF n = "note" THEN 1 ELSE 0)],
   levelName |-> FALSE, levels |-> {}, locations |-> <<>>, counters |-> Absent,
   fresh |-> <<>>, scratch |-> <<>>]

NoSpan == [state |-> "none"]

Init ==
  /\ config \in Configs
  /\ clock = Step
  /\ inner = [uuid |-> UuidBase, sequence |-> 1, tid |-> 0, process |-> 0,
              described |-> FALSE, counters |-> Absent, flow |-> 1]
  /\ seq = [t \in Threads |-> NoSequence]
  /\ spans = [s \in Spans |-> NoSpan]
  /\ idle = {} /\ calls = 0
  /\ reader = [t \in Threads |-> NewReader]
  /\ tracks = {}
  /\ heard = [t \in Threads |-> <<>>]
  /\ meant = [t \in Threads |-> <<>>]

ThreadSlices == config.mode # "SpanTracks"
SpanSlices   == config.mode # "ThreadTracks"

-----------------------------------------------------------------------------
(* A callback works on c: its sequence, Inner, the packet it writes and the *)
(* bytes it has pushed.                                                     *)

Callback(t) == [seq |-> seq[t], inner |-> inner, buf |-> <<>>, root |-> 0, event |-> 0,
                out |-> <<>>, samples |-> 0, named |-> FALSE]

Put(c, bytes) == [c EXCEPT !.buf = @ \o bytes]

\* Variant: 0 is not skipped.
AnyUuid(c) == c.inner.uuid

\* alloc_uuid: the next uuid, but not 0.
NewUuid(c) == IF c.inner.uuid = 0 THEN 1 ELSE c.inner.uuid
Alloc(c)   == [c EXCEPT !.inner.uuid = Unsigned(NewUuid(c) + 1)]

\* alloc_flow_id: the number after this one, but not 0.
NextFlow(id) == IF id = Words - 1 THEN 1 ELSE id + 1

\* process_track_uuid
ProcessTrack(c) ==
  IF c.inner.process # 0 THEN c ELSE [Alloc(c) EXCEPT !.inner.process = NewUuid(c)]

-----------------------------------------------------------------------------
(* Interning.                                                               *)

\* Variant: a string found in the map does not become the last one's number.
HitKeepsIid(c, table, key) == [c EXCEPT !.seq.names[table].lastKey = key]

Hit(c, table, key) ==
  [c EXCEPT !.seq.names[table].lastKey = key, !.seq.names[table].lastIid = c.seq.names[table].map[key]]

\* intern, keyed by address; the iid of the last interned string stays at hand.
Iid(c, table) == c.seq.names[table].lastIid
Intern(c, table, key) ==
  LET n == c.seq.names[table]
  IN CASE n.lastKey = key -> c
       [] n.lastKey # key /\ n.map[key] # 0 -> Hit(c, table, key)
       [] OTHER ->
            [c EXCEPT
              !.seq.names[table] = [map |-> [n.map EXCEPT ![key] = n.next + 1],
                                    next |-> n.next + 1, lastKey |-> key, lastIid |-> n.next + 1],
              !.seq.fresh = Append(@, [table |-> table, iid |-> n.next + 1,
                                       text |-> Static[key], line |-> 0])]

\* intern_source_location, keyed by callsite.
Locate(c, e) ==
  IF Contains(c.seq.locations, e.site) THEN c
  ELSE [c EXCEPT !.seq.locations = Append(@, e.site),
                 !.seq.fresh = Append(@, [table |-> "location", iid |-> Len(c.seq.locations) + 1,
                                          text |-> Static[e.file], line |-> e.line])]
LocationIid(c, e) == CHOOSE i \in DOMAIN c.seq.locations : c.seq.locations[i] = e.site

\* register_level_name and register_level_value: reserved iids.
Level(c, level) ==
  LET c1 == IF c.seq.levelName THEN c
            ELSE [c EXCEPT !.seq.levelName = TRUE,
                           !.seq.fresh = Append(@, [table |-> "note", iid |-> 1,
                                                    text |-> LevelName, line |-> 0])]
  IN IF level \in c1.seq.levels THEN c1
     ELSE [c1 EXCEPT !.seq.levels = @ \cup {level},
                     !.seq.fresh = Append(@, [table |-> "value", iid |-> level,
                                              text |-> LevelText[level], line |-> 0])]

\* emit_interned_data: what the packet uses first.
InternedEntry(f) ==
  Message(Interned[f.table],
          VarintField(Entry.iid, f.iid) \o StringField(Entry.text, f.text)
            \o IF f.table = "location" THEN VarintField(Entry.line, f.line) ELSE <<>>)
Entries(fs) == FoldLeft(LAMBDA bytes, f : bytes \o InternedEntry(f), <<>>, fs)
Fresh(c) == Message(TracePacket.interned, Entries(c.seq.fresh))

\* Variant: it stays pending for the next packet.
EmitAgain(c) == IF c.seq.fresh = <<>> THEN c ELSE Put(c, Fresh(c))

EmitInterned(c) ==
  IF c.seq.fresh = <<>> THEN c ELSE [Put(c, Fresh(c)) EXCEPT !.seq.fresh = <<>>]

-----------------------------------------------------------------------------
(* Packets.                                                                 *)

\* initialize_first_packet
FirstPacket(c) ==
  [Put(c, VarintField(TracePacket.timestamp, IF config.native THEN clock ELSE clock + Realtime)
        \o VarintField(TracePacket.sequence, c.seq.id)
        \o VarintField(TracePacket.flags, Flags.cleared + Flags.needs)
        \o VarintField(TracePacket.first, 1)
        \o VarintField(TracePacket.clockId,
                       IF config.native THEN ClockIds.boottime ELSE ClockIds.realtime)
        \o Message(TracePacket.defaults,
             VarintField(Defaults.clockId, ClockIds.custom)
             \o Message(Defaults.event, RedundantField(EventDefaults.track, c.seq.thread))))
   EXCEPT !.seq.started = TRUE]

\* initialize_packet_prefix
Prefixed(c) ==
  LET p == Put(c, VarintField(TracePacket.sequence, c.seq.id)
                  \o VarintField(TracePacket.flags, Flags.needs))
  IN [p EXCEPT !.seq.prefix = Len(p.buf), !.seq.root = p.root]

\* The timestamp is what the clock advanced by since the last packet's.
Elapsed(c) == IF clock > c.seq.last THEN clock - c.seq.last ELSE 0
Stamped(c) == [Put(c, VarintField(TracePacket.timestamp, Elapsed(c))) EXCEPT !.seq.last = clock]

\* Variant: the buffer is not cut.
LastPacket(c) == c.seq.scratch

Prefix(c) == SubSeq(c.seq.scratch, 1, c.seq.prefix)

\* packet_without_initialization: the last packet's buffer is cut to its prefix,
\* whose length field is stale until the packet is finished.
Opened(c) ==
  IF c.seq.prefix # 0 THEN [c EXCEPT !.buf = Prefix(c), !.root = c.seq.root]
  ELSE LET b == Begin(<<>>, Trace.packet) IN [c EXCEPT !.buf = b, !.root = Token(b)]
RawPacket(c) ==
  CASE ~c.seq.started -> FirstPacket(Opened(c))
    [] c.seq.started /\ c.seq.prefix # 0 -> Stamped(Opened(c))
    [] OTHER -> Stamped(Prefixed(Opened(c)))

\* Packet::drop
Push(c) ==
  LET p == EmitInterned(c)
      b == Finish(p.buf, p.root)
  IN [p EXCEPT !.out = @ \o b, !.seq.scratch = b, !.buf = <<>>]

\* clock_snapshot: which instant of the trace clock the incremental clock is at.
ClockField(id, time) ==
  Message(Snapshot.clocks,
          VarintField(Clock.id, id) \o VarintField(Clock.timestamp, time)
            \o IF id = ClockIds.custom THEN VarintField(Clock.incremental, 1) ELSE <<>>)

\* Variant: the deltas go on from when the thread got its context.
AtAnchor(c) == c

AtSnapshot(c) == [c EXCEPT !.seq.last = clock]

ClockSnapshot(c) ==
  Push(Put(RawPacket(AtSnapshot(c)),
    Message(TracePacket.clocks,
      VarintField(Snapshot.primary,
                  IF config.native THEN ClockIds.boottime ELSE ClockIds.realtime)
      \o ClockField(ClockIds.custom, clock - c.seq.anchor)
      \o (IF config.native THEN ClockField(ClockIds.boottime, clock) ELSE <<>>)
      \o ClockField(ClockIds.realtime, clock + Realtime)
      \o (IF config.native THEN ClockField(ClockIds.monotonic, clock) ELSE <<>>))))

\* process_descriptor: by the first thread that gets here.
ProcessDescriptor(c) ==
  IF c.inner.described THEN c
  ELSE LET p == ProcessTrack([c EXCEPT !.inner.described = TRUE])
       IN Push(Put(RawPacket(p),
            Message(TracePacket.descriptor,
              RedundantField(Descriptor.uuid, p.inner.process)
              \o Message(Descriptor.process,
                   VarintField(Process.pid, Pid)
                   \o (IF config.arguments THEN StringField(Process.cmdline, ProcessName) ELSE <<>>)
                   \o StringField(Process.name, ProcessName)))))

\* thread_descriptor: where there is no thread id, one is made up.
ThreadDescriptor(c) ==
  LET p   == IF config.native THEN c ELSE [c EXCEPT !.inner.tid = Unsigned(@ + 1)]
      tid == Unsigned(Pid + IF config.native THEN c.seq.id ELSE c.inner.tid)
  IN Push(Put(RawPacket(p),
       Message(TracePacket.descriptor,
         RedundantField(Descriptor.uuid, p.seq.thread)
         \o Message(Descriptor.thread,
              VarintField(Thread.pid, Pid) \o VarintField(Thread.tid, tid)
              \o StringField(Thread.name, ProcessName)))))

\* packet, and the message of an event in it.
Packet(c) ==
  RawPacket(IF c.seq.initialized THEN c
            ELSE ThreadDescriptor(ProcessDescriptor(ClockSnapshot(
                   [c EXCEPT !.seq.initialized = TRUE]))))
Event(c) == LET b == Begin(c.buf, TracePacket.event) IN [c EXCEPT !.buf = b, !.event = Token(b)]
EndEvent(c) == Push([c EXCEPT !.buf = Finish(@, c.event)])

-----------------------------------------------------------------------------
(* Fields.  A field is [name, counter, message, x] with a value x, counter  *)
(* and message saying what its name is or begins with.                      *)

Display(v) == <<v % 128>>  \* the text of a number

\* 128-bit numbers are kept as numbers where they fit.
Narrow(x) ==
  CASE x.kind = "i128" -> IF x.v \in -(Words \div 2) .. (Words \div 2) - 1
                            THEN [kind |-> "i64", v |-> x.v]
                            ELSE [kind |-> "fmt", v |-> Display(x.v)]
    [] x.kind = "u128" -> IF x.v < Words THEN [kind |-> "u64", v |-> x.v]
                          ELSE [kind |-> "fmt", v |-> Display(x.v)]
    [] OTHER -> x

Annotate(c, f) ==
  LET c1 == Intern(c, "note", f.name)
  IN Put(c1, AnnotationField(Iid(c1, "note"), Narrow(f.x)))

\* StoreVisitor: text is kept as a string; a field recorded again is replaced.
Owned(x) == LET n == Narrow(x) IN IF n.kind = "fmt" THEN [n EXCEPT !.kind = "str"] ELSE n
Set(stored, f) ==
  LET new == [f EXCEPT !.x = Owned(f.x)]
      at  == {i \in DOMAIN stored : Static[stored[i].name] = Static[f.name]}
  IN IF at = {} THEN Append(stored, new) ELSE [stored EXCEPT ![CHOOSE i \in at : TRUE] = new]
SetAll(stored, fs) == FoldLeft(Set, stored, fs)

\* EventVisitor.
Numeric(f) == f.x.kind \in {"i64", "u64", "f64"}
Samples(c, f) ==
  /\ config.counters /\ f.counter /\ Numeric(f)
  /\ c.samples < MaxExtraCounters /\ c.seq.counters[f.name] # 0

\* Variant: what is over the limit goes with the annotations.
NotedIfEnabled(f) == config.annotations

Noted(f) == config.annotations \/ (config.counters /\ f.counter /\ Numeric(f))

Visit(c, e, f) ==
  CASE Samples(c, f) ->
         [Put(c, CounterField(c.seq.counters[f.name], f.x)) EXCEPT !.samples = @ + 1]
    [] ~Samples(c, f) /\ e.unnamed /\ ~c.named /\ f.message /\ f.x.kind \in {"str", "fmt"} ->
         [Put(c, EventName(f.x)) EXCEPT !.named = TRUE]
    [] OTHER -> IF Noted(f) THEN Annotate(c, f) ELSE c

\* User code that formats field k panics: the messages it is in are finished as
\* it unwinds, and nothing after it is written.
Panics(fs) == {k \in DOMAIN fs : fs[k].x.kind = "fmt"}
Until(fs, k) == IF k = 0 THEN fs ELSE Append(SubSeq(fs, 1, k - 1), [fs[k] EXCEPT !.x.v = <<>>])

-----------------------------------------------------------------------------
(* Events.                                                                  *)

Named(c, name) ==
  LET c1 == Intern(c, "event", name)
  IN Put(c1, VarintField(TrackEvent.nameIid, Iid(c1, "event")))

\* write_metadata
Metadata(c, e) ==
  LET c1 == IF ~config.locations THEN c
            ELSE LET l == Locate(c, e) IN Put(l, VarintField(TrackEvent.location, LocationIid(l, e)))
      c2 == Put(Level(c1, e.level), LevelAnnotation(1, e.level))
      c3 == Intern(c2, "category", e.target)
  IN Put(c3, VarintField(TrackEvent.category, Iid(c3, "category")))

\* write_stored_fields
StoredFields(c, fs) == FoldLeft(Annotate, c, fs)

\* Variant: each sequence takes a track of its own.
CounterOfSequence(c, name) == [Alloc(c) EXCEPT !.inner.counters[name] = NewUuid(c)]

\* create_counter_track; counter_track_uuid agrees on one for all threads.
CounterUuid(c, name) ==
  IF c.inner.counters[name] # 0 THEN c
  ELSE [Alloc(c) EXCEPT !.inner.counters[name] = NewUuid(c)]
CreateCounter(c, name) ==
  IF c.seq.counters[name] # 0 THEN c
  ELSE LET p == ProcessTrack(Packet(CounterUuid(c, name)))
           u == p.inner.counters[name]
       IN [Push(Put(p, CounterDescriptor(u, Static[name], p.inner.process)))
           EXCEPT !.seq.counters[name] = u]
CounterNames(e) ==
  FoldLeft(LAMBDA names, f : IF f.counter /\ Len(names) < MaxExtraCounters
                               THEN Append(names, f.name) ELSE names, <<>>, e.fields)

CreateCounters(c, names) == FoldLeft(CreateCounter, c, names)

\* create_span_track
CreateTrack(c, name, parent) ==
  LET p == Packet(Alloc(c)) IN Push(Put(p, TrackDescriptor(NewUuid(c), Static[name], parent)))

-----------------------------------------------------------------------------
(* The bytes written, and what they should say.                             *)

\* Time goes on.  Bound: the times written fit a word.
Tick == clock' = clock + Step /\ clock' + Realtime < Words

\* What the bytes a callback pushed say, with the event they should.  Bound: its
\* packets are within what the encoder panics at.
Reads(t, a) ==
  /\ reader' = [reader EXCEPT ![t] = a.reader]
  /\ tracks' = a.tracks
  /\ heard' = [heard EXCEPT ![t] = a.events]
Writes(t, c, event) ==
  /\ Len(c.out) < 128 ^ LenBytes
  /\ Reads(t, ReadPackets([reader |-> reader[t], events |-> <<>>, tracks |-> tracks],
                          Parse(c.out)))
  /\ seq' = [seq EXCEPT ![t] = c.seq]
  /\ inner' = c.inner
  /\ meant' = [meant EXCEPT ![t] = <<event>>]
  /\ Tick
  /\ calls' = calls + 1
  /\ UNCHANGED config

\* The events meant, in the reader's terms.
NoEvent(t, type, track) ==
  [time |-> IF config.native THEN clock ELSE clock + Realtime, sequence |-> seq[t].id,
   type |-> type, track |-> track, name |-> <<>>, category |-> <<>>, location |-> <<>>,
   notes |-> <<>>, samples |-> <<>>, flows |-> {}]
Meant(x) == LET n == Narrow(x)
            IN IF n.kind \in {"str", "fmt"} THEN [kind |-> "text", v |-> n.v] ELSE n
Notes(fs) == [i \in DOMAIN fs |-> [name |-> Static[fs[i].name], x |-> Meant(fs[i].x)]]
Described(event, e) ==
  [event EXCEPT !.name = Static[e.name], !.category = Static[e.target],
     !.location = IF config.locations THEN Static[e.file] ELSE <<>>,
     !.notes = <<[name |-> LevelName, x |-> [kind |-> "text", v |-> LevelText[e.level]]]>>]

\* A callback that may write has its context.
Ready(t) == calls < MaxCalls /\ seq[t] # NoSequence

-----------------------------------------------------------------------------
(* Actions.                                                                 *)

\* ThreadCtx::new, at the thread's first callback, whether that writes or not.
NewContext(t) ==
  /\ seq[t] = NoSequence
  /\ LET c == Callback(t)
     IN /\ seq' = [seq EXCEPT ![t] = NewSequence(inner.sequence, NewUuid(c), clock)]
        /\ inner' = [Alloc(c).inner EXCEPT !.sequence = Unsigned(@ + 1)]
  /\ Tick
  /\ UNCHANGED <<config, spans, idle, calls, reader, tracks, heard, meant>>

Live(s) == spans[s].state = "live"

\* The event a callsite e with fields fs stands for, whose counters have the tracks
\* uuids: the first counters are samples, and the first text a nameless event's name.
EventMeant(t, e, fs, k, track, uuids) ==
  LET event   == Described(NoEvent(t, Types.instant, track), e)
      numbers == {i \in DOMAIN fs : config.counters /\ fs[i].counter /\ Numeric(fs[i])}
      sampled == {i \in numbers : Cardinality({j \in numbers : j < i}) < MaxExtraCounters}
      names   == {i \in DOMAIN fs : e.unnamed /\ fs[i].message}
      rest    == SetToSortSeq({i \in DOMAIN fs : i \notin sampled \cup names
                                 /\ (config.annotations \/ i \in numbers)}, <)
      Sampled(tag, kinds) ==
        LET is == SetToSortSeq({i \in sampled : fs[i].x.kind \in kinds}, <)
        IN [i \in DOMAIN is |-> [track |-> uuids[fs[is[i]].name], kind |-> tag,
                                 v |-> Unsigned(fs[is[i]].x.v)]]
  IN [event EXCEPT
        !.name = IF names # {} THEN fs[Min(names)].x.v ELSE IF k # 0 THEN <<>> ELSE @,
        !.notes = @ \o Notes([i \in DOMAIN rest |-> fs[rest[i]]]),
        !.samples = Sampled("i64", {"i64", "u64"}) \o Sampled("f64", {"f64"})]

\* on_event, within span s or none: its counters' tracks, then the event.
WithCounters(c, e) ==
  IF config.counters THEN CreateCounters(c, CounterNames(e)) ELSE c
BeginInstant(c, track) ==
  Put(Event(Packet(c)), Type(Types.instant)
        \o IF track = c.seq.thread THEN <<>> ELSE TrackUuid(track))
VisitAll(c, e, fs) == FoldLeft(LAMBDA b, f : Visit(b, e, f), c, fs)
NamedAtLast(c, e, k) == IF k # 0 \/ c.named THEN c ELSE Named(c, e.name)

WritesEvent(t, e, fs, k, track, c) ==
  Writes(t, EndEvent(c), EventMeant(t, e, fs, k, track, c.seq.counters))
OnEvent(t, e, s, k) ==
  /\ Ready(t) /\ k \in {0} \cup Panics(e.fields)
  /\ s # None => Live(s) /\ config.mode = "SpanTracks"
  /\ LET track == IF s = None THEN seq[t].thread ELSE spans[s].uuid
         fs == Until(e.fields, k)
         c == BeginInstant(WithCounters(Callback(t), e), track)
     IN WritesEvent(t, e, fs, k, track, NamedAtLast(VisitAll(Metadata(c, e), e, fs), e, k))
  /\ UNCHANGED <<spans, idle>>


ParentOf(c, p) == IF p = None THEN c.inner.process ELSE spans[p].uuid

\* on_new_span under parent p or none.  A lifetime track is one that was used for
\* the same name and parent, or new.  A span whose attributes panic is not stored.
OnNewSpan(t, s, e, p, k) ==
  /\ Ready(t) /\ spans[s] = NoSpan /\ k \in {0} \cup Panics(e.fields)
  /\ p # None => Live(p)
  /\ LET fields == IF config.annotations THEN Until(e.fields, k) ELSE <<>>
         data(uuid, parent, fs) ==
           IF k # 0 THEN [state |-> "lost"]
           ELSE [state |-> "live", uuid |-> uuid, parent |-> parent, site |-> e, fields |-> fs,
                 under |-> IF p = None THEN <<>> ELSE Static[spans[p].site.name],
                 inside |-> {}, flow |-> IF ThreadSlices THEN inner.flow ELSE 0]
         c0 == IF ThreadSlices THEN [Callback(t) EXCEPT !.inner.flow = NextFlow(@)] ELSE Callback(t)
         c1 == IF p # None THEN c0 ELSE ProcessTrack(c0)
         parent == ParentOf(c1, p)
         used == {u \in idle : u.name = e.name /\ u.parent = parent}
     IN /\ config.annotations \/ k = 0
        /\ IF ~SpanSlices
             THEN /\ inner' = IF k = 0 THEN c0.inner ELSE inner
                  /\ spans' = [spans EXCEPT ![s] = data(0, 0, SetAll(<<>>, fields))]
                  /\ calls' = calls + 1
                  /\ UNCHANGED <<config, clock, seq, idle, reader, tracks, heard, meant>>
             ELSE \E u \in used \cup {[uuid |-> NewUuid(c1), name |-> 0, parent |-> parent]} :
                    LET c2 == IF u \in used THEN c1 ELSE CreateTrack(c1, e.name, parent)
                        c3 == Put(Event(Packet(c2)), Type(Types.begin) \o TrackUuid(u.uuid))
                        c4 == StoredFields(Metadata(Named(c3, e.name), e), fields)
                        event == Described(NoEvent(t, Types.begin, u.uuid), e)
                    IN /\ Writes(t, EndEvent(c4), [event EXCEPT !.notes = @ \o Notes(fields)])
                       /\ spans' = [spans EXCEPT ![s] = data(u.uuid, parent, <<>>)]
                       /\ idle' = idle \ {u}

\* on_record, of other values for the fields of the callsite.
OnRecord(s, e) ==
  /\ calls < MaxCalls /\ Live(s) /\ config.annotations /\ e.site = spans[s].site.site
  /\ spans' = [spans EXCEPT ![s].fields = SetAll(@, e.fields)]
  /\ calls' = calls + 1
  /\ UNCHANGED <<config, clock, inner, seq, idle, reader, tracks, heard, meant>>

\* on_enter and on_exit, where they write a slice.
OnEnter(t, s) ==
  /\ Ready(t) /\ Live(s) /\ t \notin spans[s].inside
  /\ ThreadSlices \/ config.polls
  /\ LET d == spans[s]
         fields == IF config.annotations /\ config.mode = "ThreadTracks" THEN d.fields ELSE <<>>
         flow == IF ThreadSlices THEN FlowStart(d.flow) ELSE <<>>
         c1 == Put(Event(Packet(Callback(t))), Type(Types.begin))
         c2 == IF ThreadSlices THEN StoredFields(Metadata(Named(c1, d.site.name), d.site), fields)
               ELSE Named(Put(c1, TrackUuid(d.uuid)), PollName)
         event == IF ThreadSlices
                    THEN [Described(NoEvent(t, Types.begin, seq[t].thread), d.site)
                            EXCEPT !.notes = @ \o Notes(fields), !.flows = {d.flow}]
                    ELSE [NoEvent(t, Types.begin, d.uuid) EXCEPT !.name = Static[PollName]]
     IN Writes(t, EndEvent(Put(c2, flow)), event)
  /\ spans' = [spans EXCEPT ![s].inside = @ \cup {t}]
  /\ UNCHANGED idle

OnExit(t, s) ==
  /\ Ready(t) /\ Live(s) /\ t \in spans[s].inside
  /\ LET track == IF ThreadSlices THEN seq[t].thread ELSE spans[s].uuid
         c == Put(Event(Packet(Callback(t))), Type(Types.end)
                \o IF ThreadSlices THEN <<>> ELSE TrackUuid(track))
     IN Writes(t, EndEvent(c), NoEvent(t, Types.end, track))
  /\ spans' = [spans EXCEPT ![s].inside = @ \ {t}]
  /\ UNCHANGED idle

\* on_close of a span with a lifetime slice.
OnClose(t, s) ==
  /\ Ready(t) /\ Live(s) /\ spans[s].inside = {} /\ SpanSlices
  /\ LET d == spans[s]
         fields == IF config.annotations THEN d.fields ELSE <<>>
         c == Put(Event(Packet(Callback(t))), Type(Types.end) \o TrackUuid(d.uuid))
     IN /\ Writes(t, EndEvent(StoredFields(c, fields)),
                  [NoEvent(t, Types.end, d.uuid) EXCEPT !.notes = Notes(fields)])
        /\ idle' = idle \cup {[uuid |-> d.uuid, name |-> d.site.name, parent |-> d.parent]}
  /\ spans' = [spans EXCEPT ![s] = NoSpan]

Next ==
  \/ \E t \in Threads :
       \/ NewContext(t)
       \/ \E e \in Events, s \in Spans \cup {None} :
            \E k \in 0 .. Len(e.fields) : OnEvent(t, e, s, k)
       \/ \E s \in Spans :
            \/ \E e \in SpanSites, p \in (Spans \cup {None}) \ {s} :
                 \E k \in 0 .. Len(e.fields) : OnNewSpan(t, s, e, p, k)
            \/ OnEnter(t, s) \/ OnExit(t, s) \/ OnClose(t, s)
  \/ \E s \in Spans, e \in SpanSites : OnRecord(s, e)
  \/ calls = MaxCalls /\ UNCHANGED vars

Spec == Init /\ [][Next]_vars

-----------------------------------------------------------------------------
(* Properties.                                                              *)

TypeOK ==
  /\ config \in Configs /\ clock \in Nat /\ calls \in 0 .. MaxCalls
  /\ \A t \in Threads : seq[t] # NoSequence =>
       /\ seq[t].last <= clock /\ seq[t].fresh = <<>>
       /\ seq[t].prefix \in 0 .. Len(seq[t].scratch)
       /\ \A b \in Range(seq[t].scratch) : b \in 0 .. 255
  /\ inner.uuid \in 0 .. Words - 1 /\ inner.process \in 0 .. Words - 1
  /\ \A s \in Spans : spans[s].state \in {"none", "live", "lost"}

\* What the last callback of t that wrote an event said, and should have.
Heard(t, P(_, _)) ==
  meant[t] # <<>> /\ Len(heard[t]) = 1 /\ heard[t][1] # NoPacket =>
    P(heard[t][1], meant[t][1])

\* Each callback pushes whole packets of its sequence, one of them its event,
\* whatever is left of the last packet in the reused buffer and wherever user
\* code panics in it.
PacketsFramed ==
  /\ \A t \in Threads : meant[t] # <<>> => Len(heard[t]) = 1 /\ heard[t][1] # NoPacket
  /\ \A t \in Threads : Heard(t, LAMBDA h, m : h.type = m.type /\ h.sequence = m.sequence)

\* The deltas of a sequence add up to the clock, whatever wrote in between and
\* however long the context was there before its first packet.
ClockTracks == \A t \in Threads : Heard(t, LAMBDA h, m : h.time = m.time)

\* A name by number is the name meant: its number is defined on this sequence,
\* once, no later than the packet that needs it.
NamesResolve ==
  \A t \in Threads : Heard(t, LAMBDA h, m :
    /\ h.name = m.name /\ h.category = m.category /\ h.location = m.location
    /\ {h.notes[i].name : i \in DOMAIN h.notes} = {m.notes[i].name : i \in DOMAIN m.notes})

\* Every value recorded is there once, in its order and bit for bit: as a sample of
\* its counter's track, for the first of them, or as an annotation.  What is read
\* of an unsigned sample past the signed range is its negative.
ValuesKept ==
  \A t \in Threads : Heard(t, LAMBDA h, m :
    h.notes = m.notes /\ h.samples = m.samples /\ h.flows = m.flows)


\* A uuid, never 0, is of one track, also when the random base wraps; there is one
\* process, and a thread's id is its own.
TracksDistinct ==
  /\ \A d \in tracks : d.uuid # 0
  /\ \A d, f \in tracks : d.uuid = f.uuid => d = f
  /\ Cardinality({d \in tracks : d.kind = "process"}) <= 1
  /\ \A d, f \in tracks : d.kind = "thread" /\ f.kind = "thread" /\ d.tid = f.tid => d = f

\* All threads plot a counter on one track: no two are described with its name,
\* as long as the name has one address.
CountersAgree ==
  \A d, f \in tracks : d.kind = "counter" /\ f.kind = "counter" /\ d.name = f.name => d = f
================================================================================
