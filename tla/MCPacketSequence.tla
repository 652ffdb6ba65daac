---------------------------- MODULE MCPacketSequence ----------------------------
(***************************************************************************)
(* Instances of PacketSequence for TLC: a few static strings, callsites and *)
(* values, and words of 16 bits, with uuids about to wrap.                 *)
(***************************************************************************)
EXTENDS PacketSequence, TLC

\* "message" is at two addresses.
Strings == 11 :> <<101>> @@ 12 :> <<102>> @@ 13 :> <<103>> @@ 14 :> <<104>> @@ 15 :> <<105>>
             @@ 16 :> <<106>> @@ 17 :> <<107>> @@ 18 :> <<109>> @@ 19 :> <<109>> @@ 20 :> <<110>>
Poll   == 20
Level_ == <<90>>
Levels == [l \in 1 .. 5 |-> <<90 + l>>]
Program == <<80>>

Field(name, kind, v) == [name |-> name, counter |-> name \in {14, 15, 16},
                         message |-> name \in {18, 19}, x |-> [kind |-> kind, v |-> v]]

\* A nameless event with its message formatted.
Hello == [site |-> 1, name |-> 11, target |-> 13, file |-> 17, line |-> 300, level |-> 3,
          unnamed |-> TRUE,
          fields |-> <<Field(12, "bool", 1), Field(18, "fmt", <<65>>), Field(16, "str", <<66>>)>>]

\* More numbers than counters.
Gauge == [site |-> 2, name |-> 12, target |-> 13, file |-> 17, line |-> 7, level |-> 5,
          unnamed |-> FALSE,
          fields |-> <<Field(14, "i64", -1), Field(15, "f64", 258), Field(16, "u64", 65535),
                       Field(19, "str", <<67>>)>>]

Work(v) == [site |-> 3, name |-> 12, target |-> 17, file |-> 17, line |-> 9, level |-> 3,
            unnamed |-> FALSE,
            fields |-> <<Field(12, "i128", v), Field(18, "fmt", <<68>>)>>]

AllEvents == {Hello, Gauge}
AllSites == {Work(-2), Work(40000)}

Config(mode, native, all) ==
  [mode |-> mode, native |-> native, annotations |-> all, polls |-> TRUE, counters |-> TRUE,
   locations |-> all, arguments |-> all]
AllConfigs == {Config("SpanTracks", TRUE, TRUE), Config("Both", FALSE, FALSE),
               Config("ThreadTracks", TRUE, TRUE)}

Symmetric == Permutations(Threads) \cup Permutations(Spans)
================================================================================
