--------------------------------- MODULE Layer ---------------------------------
(***************************************************************************)
(* The span callbacks of subscriber.rs in the three span modes: the slices *)
(* they draw on thread and lifetime tracks, the fields and the ends of     *)
(* follows_from flows they keep for a span until an event of it can carry  *)
(* them, and the boxes that hold these, which a thread recycles.           *)
(*                                                                         *)
(* An action is what a callback does while it has the span's state: get_mut*)
(* keeps it locked over the packet.  Which uuid a lifetime track has is the *)
(* business of Tracks, how the store finds a span that of SpanStore: here  *)
(* track s is that of span s, the poll flow of s is named s, and nothing    *)
(* is called from the user code of on_record (see ReentrantDropped there). *)
(***************************************************************************)
EXTENDS Naturals, Sequences, FiniteSets, SequencesExt

CONSTANTS Threads, Spans, None,
          Modes,       \* the span modes to check
          SpareBoxes,  \* retained boxes a thread keeps (4)
          MaxDepth,    \* bound: spans entered on a thread
          MaxFlows,    \* bound: calls of follows_from
          MayFail      \* bound: whether the writer may fail

ASSUME LayerAssumption ==
  /\ None \notin Spans \cup Threads /\ Spans \cap Threads = {}
  /\ {"no box", "no data"} \cap (Spans \cup {None}) = {}
  /\ Modes \subseteq {"SpanTracks", "ThreadTracks", "Both"}
  /\ SpareBoxes \in Nat /\ MaxDepth \in Nat /\ MaxFlows \in Nat /\ MayFail \in BOOLEAN

VARIABLES
  config,     \* span_mode, and poll_slices
  hasError,   \* Inner.has_error
  hasFollows, \* Inner.has_follows_from
  store,      \* the SpanData of each stored span
  spare,      \* ThreadCtx.retained_spans
  pc, work,   \* where each thread is in a callback, and on what
  status,     \* the registry: what it knows of a span
  entered,    \* the registry: the spans each thread is in
  flows,      \* history: the spans of each flow, by its id
  recorded,   \* history: spans whose fields were recorded after their creation
  stack,      \* the trace: the open slices of each track
  starts, terms,  \* the trace: which span started, terminated which flow
  shown,      \* the trace: whose fields and poll flow the events of s showed
  ended,      \* the trace: spans whose lifetime slice has an end
  repeated    \* the trace: whether an end of a flow was written twice

registry == <<status, entered>>
trace == <<stack, starts, terms, shown, ended>>
histories == <<flows, recorded, repeated>>
vars == <<config, hasError, hasFollows, store, spare, pc, work, registry, trace, histories>>

EmptyBox == [fields |-> {}, flows |-> <<>>, poll |-> None]  \* RetainedSpanData
NoBox    == [fields |-> {}, flows |-> <<>>, poll |-> "no box"]
NoData   == [tracked |-> FALSE, box |-> [NoBox EXCEPT !.poll = "no data"]]
Idle     == [span |-> None, pred |-> None, data |-> NoData, depth |-> 0, flow |-> 0]

Init ==
  /\ config \in [mode : Modes, polls : BOOLEAN]
  /\ hasError = FALSE /\ hasFollows = FALSE
  /\ store = [s \in Spans |-> NoData]
  /\ spare = [t \in Threads |-> <<>>]
  /\ pc = [t \in Threads |-> "idle"]
  /\ work = [t \in Threads |-> Idle]
  /\ status = [s \in Spans |-> "none"]
  /\ entered = [t \in Threads |-> <<>>]
  /\ flows = <<>> /\ recorded = {}
  /\ stack = [x \in Spans \cup Threads |-> <<>>]
  /\ starts = {} /\ terms = {}
  /\ shown = [s \in Spans |-> {}]
  /\ ended = {} /\ repeated = FALSE

ThreadSlices == config.mode # "SpanTracks"    \* emit_thread_slices
SpanSlices   == config.mode # "ThreadTracks"  \* emit_span_slices

\* acquire: the context is taken while user code formats attributes into a
\* packet, and nobody gets one after an error.
Borrowed(t) == pc[t] = "attrs" /\ SpanSlices
Acquires(t) == ~hasError /\ ~Borrowed(t)

\* User code that formats attributes may make any callback.
Calls(t) == pc[t] \in {"idle", "attrs"}

\* on_record holds the state of s while the fields are formatted.
Locked(s) == \E t \in Threads : pc[t] = "record" /\ work[t].span = s

Stored(s) == store[s] # NoData

-----------------------------------------------------------------------------
(* Boxes.                                                                   *)

\* Variant: a recycled box keeps its flows and poll flow.
ClearedFieldsOnly(b) == [b EXCEPT !.fields = {}]

Cleared(b) == EmptyBox

TakenBox(t) == IF Acquires(t) /\ spare[t] # <<>> THEN Head(spare[t]) ELSE EmptyBox
BoxTaken(t) ==
  spare' = [spare EXCEPT ![t] = IF Acquires(t) /\ @ # <<>> THEN Tail(@) ELSE @]

\* Variant: one slot more.
HasRoomPast(t) == Len(spare[t]) <= SpareBoxes

HasRoom(t) == Len(spare[t]) < SpareBoxes

\* Of a closed span: kept if the thread has room for it.
BoxReturned(t, b) ==
  spare' = [spare EXCEPT ![t] =
              IF b # NoBox /\ Acquires(t) /\ HasRoom(t) THEN Append(@, Cleared(b)) ELSE @]

\* The box of a stored span, which it gets when it first needs one.
BoxOf(t, s) == IF store[s].box = NoBox THEN TakenBox(t) ELSE store[s].box
BoxKept(t, s, b) ==
  /\ store' = [store EXCEPT ![s].box = b]
  /\ IF store[s].box = NoBox THEN BoxTaken(t) ELSE UNCHANGED spare

-----------------------------------------------------------------------------
(* Events of span s.                                                        *)

Ends(b, end) == {b.flows[i].id : i \in {i \in DOMAIN b.flows : b.flows[i].end = end}}

\* write_pending_flows: a flow has each of its ends once.
WritesFlows(s, b) ==
  /\ starts' = starts \cup (Ends(b, "start") \X {s})
  /\ terms' = terms \cup (Ends(b, "terminate") \X {s})
  /\ repeated' = (\/ repeated
                  \/ (Ends(b, "start") \X {s}) \cap starts # {}
                  \/ (Ends(b, "terminate") \X {s}) \cap terms # {})

NoFlows == UNCHANGED <<starts, terms, repeated>>

Opens(track, slice) == stack' = [stack EXCEPT ![track] = Append(@, slice)]
Closes(track) == stack' = [stack EXCEPT ![track] = IF @ = <<>> THEN @ ELSE Front(@)]
Shows(s, owners) == shown' = [shown EXCEPT ![s] = @ \cup (owners \ {None})]

-----------------------------------------------------------------------------
(* on_new_span.                                                             *)

\* Up to the recording of the attributes: in a mode with lifetime slices the
\* begin has been written, except for the attributes, and the context is kept.
NewSpan(t, s) ==
  /\ pc[t] = "idle" /\ status[s] = "none" /\ ~hasError
  /\ status' = [status EXCEPT ![s] = "opening"]
  /\ work' = [work EXCEPT ![t] =
       [Idle EXCEPT !.span = s, !.depth = Len(entered[t]),
        !.data = [tracked |-> SpanSlices,
                  box |-> IF ThreadSlices THEN [TakenBox(t) EXCEPT !.poll = s] ELSE NoBox]]]
  /\ IF ThreadSlices THEN BoxTaken(t) ELSE UNCHANGED spare
  /\ IF SpanSlices THEN Opens(s, "life") ELSE UNCHANGED stack
  /\ pc' = [pc EXCEPT ![t] = "attrs"]
  /\ UNCHANGED <<config, hasError, hasFollows, store, entered, starts, terms, shown,
                 ended, histories>>

\* The span is stored once its begin is written; only thread slices keep its
\* attributes.  What the user code entered it has left again.
Publish(t) ==
  /\ pc[t] = "attrs" /\ Len(entered[t]) = work[t].depth
  /\ LET s == work[t].span
     IN /\ store' = [store EXCEPT ![s] =
              IF SpanSlices THEN work[t].data
              ELSE [work[t].data EXCEPT !.box.fields = @ \cup {s}]]
        /\ status' = [status EXCEPT ![s] = "live"]
  /\ work' = [work EXCEPT ![t] = Idle]
  /\ pc' = [pc EXCEPT ![t] = "idle"]
  /\ UNCHANGED <<config, hasError, hasFollows, spare, entered, trace, histories>>

\* In user code, where no context can be had for a lifetime slice; and after an
\* error, when nothing is stored.
NewUntracked(t, s) ==
  /\ status[s] = "none"
  /\ Borrowed(t) \/ (Calls(t) /\ hasError)
  /\ status' = [status EXCEPT ![s] = "live"]
  /\ \/ hasError /\ UNCHANGED store
     \/ store' = [store EXCEPT ![s].box =
          IF ThreadSlices THEN [EmptyBox EXCEPT !.poll = s] ELSE NoBox]
  /\ UNCHANGED <<config, hasError, hasFollows, spare, pc, work, entered, trace, histories>>

-----------------------------------------------------------------------------
(* on_record.                                                               *)

\* The box is there and the state locked when the fields are formatted.
Record(t, s) ==
  /\ pc[t] = "idle" /\ status[s] = "live"
  /\ ~hasError /\ Stored(s) /\ ~Locked(s)
  /\ BoxKept(t, s, BoxOf(t, s))
  /\ pc' = [pc EXCEPT ![t] = "record"]
  /\ work' = [work EXCEPT ![t] = [Idle EXCEPT !.span = s]]
  /\ UNCHANGED <<config, hasError, hasFollows, registry, trace, histories>>

Recorded(t) ==
  /\ pc[t] = "record"
  /\ store' = [store EXCEPT ![work[t].span].box.fields = @ \cup {work[t].span}]
  /\ recorded' = recorded \cup {work[t].span}
  /\ pc' = [pc EXCEPT ![t] = "idle"]
  /\ work' = [work EXCEPT ![t] = Idle]
  /\ UNCHANGED <<config, hasError, hasFollows, spare, registry, trace, flows, repeated>>

-----------------------------------------------------------------------------
(* on_follows_from.  The caller has a handle of s, but the predecessor may  *)
(* close after it was seen in the registry.                                 *)

FollowsFrom(t, s, p) ==
  /\ pc[t] = "idle" /\ ~hasError /\ Len(flows) < MaxFlows
  /\ s # p /\ status[s] = "live" /\ status[p] = "live"
  /\ hasFollows' = TRUE
  /\ flows' = Append(flows, [from |-> p, to |-> s])
  /\ pc' = [pc EXCEPT ![t] = "start"]
  /\ work' = [work EXCEPT ![t] = [Idle EXCEPT !.span = s, !.pred = p, !.flow = Len(flows')]]
  /\ UNCHANGED <<config, hasError, store, spare, registry, trace, recorded, repeated>>

\* queue_flow, if s is still stored.
Queues(t, s, end) ==
  LET b == BoxOf(t, s)
  IN BoxKept(t, s, [b EXCEPT !.flows = Append(@, [end |-> end, id |-> work[t].flow])])

QueueStart(t) ==
  /\ pc[t] = "start" /\ ~Locked(work[t].pred)
  /\ IF Stored(work[t].pred)
       THEN Queues(t, work[t].pred, "start") /\ pc' = [pc EXCEPT ![t] = "terminate"]
            /\ UNCHANGED work
       ELSE /\ pc' = [pc EXCEPT ![t] = "idle"] /\ work' = [work EXCEPT ![t] = Idle]
            /\ UNCHANGED <<store, spare>>
  /\ UNCHANGED <<config, hasError, hasFollows, registry, trace, histories>>

QueueTerminate(t) ==
  /\ pc[t] = "terminate" /\ ~Locked(work[t].span)
  /\ IF Stored(work[t].span)
       THEN Queues(t, work[t].span, "terminate") ELSE UNCHANGED <<store, spare>>
  /\ pc' = [pc EXCEPT ![t] = "idle"]
  /\ work' = [work EXCEPT ![t] = Idle]
  /\ UNCHANGED <<config, hasError, hasFollows, registry, trace, histories>>

-----------------------------------------------------------------------------
(* on_enter and on_exit.  The registry enters and leaves the span first.     *)

\* Whether the callback writes a slice of s, and on which track.
Draws(t, s) ==
  /\ ThreadSlices \/ config.polls
  /\ Acquires(t) /\ Stored(s) /\ (ThreadSlices \/ store[s].tracked)
TrackOf(t, s) == IF ThreadSlices THEN t ELSE s
SliceOf(s)    == IF ThreadSlices THEN s ELSE "poll"

\* Variant: the queued flows stay queued.
KeepFlows(s) == UNCHANGED store

ClearFlows(s) ==
  store' = [store EXCEPT ![s].box = IF @ = NoBox THEN @ ELSE [@ EXCEPT !.flows = <<>>]]

Enter(t, s) ==
  /\ Calls(t) /\ status[s] = "live" /\ Len(entered[t]) < MaxDepth
  /\ entered' = [entered EXCEPT ![t] = Append(@, s)]
  /\ IF Draws(t, s)
       THEN /\ ~Locked(s)
            /\ Opens(TrackOf(t, s), SliceOf(s))
            /\ LET b == store[s].box
               IN Shows(s, IF b = NoBox THEN {} ELSE {b.poll} \cup
                             IF config.mode = "ThreadTracks" THEN b.fields ELSE {})
            /\ IF hasFollows
                 THEN WritesFlows(s, store[s].box) /\ ClearFlows(s)
                 ELSE NoFlows /\ UNCHANGED store
       ELSE UNCHANGED <<store, stack, starts, terms, shown, repeated>>
  /\ UNCHANGED <<config, hasError, hasFollows, spare, pc, work, status, ended, flows, recorded>>

\* Variant: an exit takes a context only where flows are to be written.
ExitDrawsThreadOnly(t, s) == ThreadSlices /\ Draws(t, s)

ExitDraws(t, s) == Draws(t, s)

\* Spans are exited innermost first, as their guards are dropped.
Exit(t) ==
  /\ Calls(t) /\ entered[t] # <<>>
  /\ pc[t] = "attrs" => Len(entered[t]) > work[t].depth
  /\ entered' = [entered EXCEPT ![t] = Front(@)]
  /\ LET s == Last(entered[t])
     IN IF ExitDraws(t, s)
          THEN /\ ~Locked(s)
               /\ Closes(TrackOf(t, s))
               /\ IF ThreadSlices /\ hasFollows
                    THEN WritesFlows(s, store[s].box) /\ ClearFlows(s)
                    ELSE NoFlows /\ UNCHANGED store
          ELSE UNCHANGED <<store, stack, starts, terms, repeated>>
  /\ UNCHANGED <<config, hasError, hasFollows, spare, pc, work, status, shown, ended,
                 flows, recorded>>

-----------------------------------------------------------------------------
(* on_close.  The registry closes a span nobody is in or has a handle of.   *)

MayClose(s) ==
  /\ status[s] = "live"
  /\ \A t \in Threads : work[t].span # s /\ ~Contains(entered[t], s)

\* Variant: the end is written before the stored fields and flows are added.
EndCarriesNothing(s, b) == NoFlows /\ UNCHANGED shown

EndCarries(s, b) == WritesFlows(s, b) /\ Shows(s, b.fields)

Close(t, s) ==
  /\ Calls(t) /\ MayClose(s) /\ ~Locked(s)
  /\ status' = [status EXCEPT ![s] = "closed"]
  /\ store' = [store EXCEPT ![s] = NoData]
  /\ LET b == IF Stored(s) THEN store[s].box ELSE NoBox
     IN /\ IF store[s].tracked /\ Acquires(t)
             THEN /\ Closes(s)
                  /\ EndCarries(s, b)
                  /\ ended' = ended \cup {s}
             ELSE UNCHANGED <<trace, repeated>>
        /\ BoxReturned(t, b)
  /\ UNCHANGED <<config, hasError, hasFollows, pc, work, entered, flows, recorded>>

\* record_error, in some drain.
WriterFails ==
  /\ MayFail /\ ~hasError
  /\ hasError' = TRUE
  /\ UNCHANGED <<config, hasFollows, store, spare, pc, work, registry, trace, histories>>

Next ==
  \/ \E t \in Threads :
       \/ \E s \in Spans :
            \/ NewSpan(t, s) \/ NewUntracked(t, s) \/ Record(t, s)
            \/ Enter(t, s) \/ Close(t, s)
            \/ \E p \in Spans : FollowsFrom(t, s, p)
       \/ Publish(t) \/ Recorded(t) \/ QueueStart(t) \/ QueueTerminate(t) \/ Exit(t)
  \/ WriterFails
  \/ (\A s \in Spans : status[s] = "closed") /\ UNCHANGED vars

Spec == Init /\ [][Next]_vars

-----------------------------------------------------------------------------
(* Properties.                                                              *)

Boxes == [fields : SUBSET Spans, poll : Spans \cup {None, "no box", "no data"},
          flows : Seq([end : {"start", "terminate"}, id : 1 .. MaxFlows])]
Data == [tracked : BOOLEAN, box : Boxes]

TypeOK ==
  /\ config \in [mode : Modes, polls : BOOLEAN]
  /\ hasError \in BOOLEAN /\ hasFollows \in BOOLEAN
  /\ store \in [Spans -> Data]
  /\ spare \in [Threads -> Seq(Boxes)] /\ entered \in [Threads -> Seq(Spans)]
  /\ \A t \in Threads : Len(spare[t]) <= SpareBoxes
  /\ pc \in [Threads -> {"idle", "attrs", "record", "start", "terminate"}]
  /\ work \in [Threads -> [span : Spans \cup {None}, pred : Spans \cup {None},
                           data : Data, depth : 0 .. MaxDepth, flow : 0 .. MaxFlows]]
  /\ status \in [Spans -> {"none", "opening", "live", "closed"}]
  /\ flows \in Seq([from : Spans, to : Spans])
  /\ recorded \subseteq Spans /\ ended \subseteq Spans
  /\ stack \in [Spans \cup Threads -> Seq(Spans \cup {"life", "poll"})]
  /\ starts \subseteq (1 .. Len(flows)) \X Spans
  /\ terms \subseteq (1 .. Len(flows)) \X Spans
  /\ shown \in [Spans -> SUBSET Spans]
  /\ repeated \in BOOLEAN

\* What t is in and could draw: not what user code entered while the context
\* was taken.
Visible(t) == IF Borrowed(t) THEN SubSeq(entered[t], 1, work[t].depth) ELSE entered[t]

Visits(s) == Cardinality(UNION {{t} \X {i \in DOMAIN Visible(t) : Visible(t)[i] = s} :
                                  t \in Threads})

\* The open slices of the trace are the spans the program is in: a thread track
\* nests what the thread entered, a lifetime track its span and a poll for every
\* visit of it, on whichever threads they are, and callbacks that user code
\* makes drop the begin and the end of a slice together.
SlicesMirrorExecution ==
  ~hasError =>
    /\ ThreadSlices => \A t \in Threads : stack[t] = Visible(t)
    /\ \A s \in Spans : Stored(s) /\ store[s].tracked =>
         stack[s] = <<"life">> \o
           [i \in 1 .. (IF config.polls /\ ~ThreadSlices THEN Visits(s) ELSE 0) |-> "poll"]
    /\ \A s \in ended : stack[s] = <<>>

\* An end of a flow is on an event of the span it belongs to, and once: flows
\* are cleared when they are written and box and flag never disagree.
FlowEndsRight ==
  /\ ~repeated
  /\ \A e \in starts : flows[e[1]].from = e[2]
  /\ \A e \in terms : flows[e[1]].to = e[2]

\* No queued flow and no recorded field is lost on a span that gets an end:
\* whatever was queued or recorded, from any thread, was written by then.
EndIsComplete ==
  /\ \A s \in ended : s \in recorded => s \in shown[s]
  /\ \A f \in DOMAIN flows :
       /\ flows[f].to \in ended /\ (\E s \in Spans : <<f, s>> \in starts) =>
            <<f, flows[f].to>> \in terms
       /\ flows[f].from \in ended /\ (\E s \in Spans : <<f, s>> \in terms) =>
            <<f, flows[f].from>> \in starts

\* Recycled boxes are empty, so no event shows a field or a poll flow of another
\* span.
BoxesOwn ==
  /\ \A t \in Threads : \A i \in DOMAIN spare[t] : spare[t][i] = EmptyBox
  /\ \A s \in Spans : shown[s] \subseteq {s}
================================================================================
