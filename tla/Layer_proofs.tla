------------------------------ MODULE Layer_proofs ------------------------------
(***************************************************************************)
(* Proofs about Layer for any number of threads and spans, any set of span *)
(* modes, retained boxes, depth and number of flows, and a writer that may *)
(* fail: recycled boxes carry nothing over, the ends of flows and the      *)
(* recorded fields reach the trace once and on their own span, and the     *)
(* open slices are the spans the program is in.                            *)
(***************************************************************************)
EXTENDS Layer, SequenceTheorems, SetLemmas

-----------------------------------------------------------------------------
(* The inductive invariant.                                                 *)

\* What a stored span can have in its box: its own fields and poll flow.
BoxOwn(s, b) == b = NoBox \/ (b.fields \subseteq {s} /\ b.poll \in {None, s})

\* The data of a span whose begin has been written.
Begun(s) == [tracked |-> SpanSlices,
             box |-> IF ThreadSlices THEN [EmptyBox EXCEPT !.poll = s] ELSE NoBox]

BoundInv ==
  /\ \A t \in Threads : Len(entered[t]) <= MaxDepth
  /\ Len(flows) <= MaxFlows

\* Only a live span is stored, with a box of its own.
StoreInv ==
  /\ \A s \in Spans : Stored(s) => status[s] = "live" /\ BoxOwn(s, store[s].box)
  /\ \A s \in Spans : status[s] = "live" /\ ~hasError => Stored(s)
  /\ \A s \in ended : status[s] = "closed"
  /\ BoxesOwn

\* What a callback works on is neither closed nor another callback's.
Opening(t) ==
  /\ work[t].span \in Spans /\ status[work[t].span] = "opening"
  /\ work[t].data = Begun(work[t].span) /\ work[t].depth <= Len(entered[t])
Recording(t) ==
  work[t].span \in Spans /\ Stored(work[t].span) /\ store[work[t].span].box # NoBox
Flowing(t) ==
  /\ work[t].span \in Spans /\ work[t].pred \in Spans
  /\ status[work[t].span] = "live" /\ status[work[t].pred] \in {"live", "closed"}
  /\ work[t].flow \in DOMAIN flows
  /\ flows[work[t].flow] = [from |-> work[t].pred, to |-> work[t].span]
InFlow(t) == pc[t] \in {"start", "terminate"}

OpeningInv   == \A t \in Threads : pc[t] = "attrs" => Opening(t)
RecordingInv == \A t \in Threads : pc[t] = "record" => Recording(t)
FlowingInv   == \A t \in Threads : InFlow(t) => Flowing(t)
OneOpening ==
  \A t, o \in Threads : pc[t] = "attrs" /\ pc[o] = "attrs" /\ work[o].span = work[t].span => t = o
OneFlowing ==
  \A t, o \in Threads : InFlow(t) /\ InFlow(o) /\ work[o].flow = work[t].flow => t = o
EnteredLive == \A t \in Threads : \A i \in DOMAIN entered[t] : status[entered[t][i]] = "live"

CallInv == /\ OpeningInv /\ RecordingInv /\ FlowingInv
           /\ OneOpening /\ OneFlowing /\ EnteredLive

\* A recorded field is in the span's box until an event of it shows the field.
FieldInv ==
  /\ \A s \in recorded : status[s] \in {"live", "closed"}
  /\ \A s \in recorded : Stored(s) => s \in store[s].box.fields
  /\ \A s \in recorded : s \in ended => s \in shown[s]

Queued(s, end) == IF Stored(s) THEN Ends(store[s].box, end) ELSE {}

StartOut(f) == <<f, flows[f].from>> \in starts \/ f \in Queued(flows[f].from, "start")
TermOut(f)  == <<f, flows[f].to>> \in terms \/ f \in Queued(flows[f].to, "terminate")

\* The span lost its state before it got an end, and will get none.
Gone(s) == ~Stored(s) /\ s \notin ended /\ status[s] \in {"live", "closed"}

AtWork(f) == \E t \in Threads : InFlow(t) /\ work[t].flow = f

\* What is queued is an end of the span's own flow, and is not written yet.
QueuedInv ==
  /\ \A s \in Spans : \A f \in Queued(s, "start") :
       f \in DOMAIN flows /\ flows[f].from = s /\ <<f, s>> \notin starts
  /\ \A s \in Spans : \A f \in Queued(s, "terminate") :
       f \in DOMAIN flows /\ flows[f].to = s /\ <<f, s>> \notin terms

\* The call that makes a flow queues its start first, if the predecessor is there.
WorkingInv ==
  \A t \in Threads :
    /\ pc[t] = "start" => ~StartOut(work[t].flow) /\ ~TermOut(work[t].flow)
    /\ pc[t] = "terminate" =>
         ~TermOut(work[t].flow) /\ (StartOut(work[t].flow) \/ Gone(work[t].pred))

\* Each end of a flow is queued or written, or its span is past writing it; if the
\* predecessor was not stored when the flow was made, neither is out.
Dropped(f) == ~StartOut(f) /\ ~TermOut(f)
Settled(f) == (StartOut(f) \/ Gone(flows[f].from)) /\ (TermOut(f) \/ Gone(flows[f].to))
SettledInv == \A f \in DOMAIN flows : AtWork(f) \/ Dropped(f) \/ Settled(f)

FlowInv == QueuedInv /\ WorkingInv /\ SettledInv /\ FlowEndsRight

\* What the threads are in and could draw, and where s is in it.
View == [t \in Threads |-> Visible(t)]
Positions(v, s) == UNION {{t} \X {i \in DOMAIN v[t] : v[t][i] = s} : t \in Threads}

\* Of the open slices of a track, while no error stops the trace: a thread track
\* has what the thread is in, a lifetime track its span and the span's visits.
Polled(n) == <<"life">> \o [i \in 1 .. n |-> "poll"]
Polls(s)  == IF config.polls /\ ~ThreadSlices THEN Cardinality(Positions(View, s)) ELSE 0
ThreadsMirror == ThreadSlices => \A t \in Threads : stack[t] = View[t]
SpansMirror ==
  \A s \in Spans : Stored(s) /\ store[s].tracked => stack[s] = Polled(Polls(s))
EndedMirror == \A s \in ended : stack[s] = <<>>

\* A lifetime track has its begin before the span is stored, and not earlier than
\* the span is made.
NoneMirror == \A s \in Spans : status[s] = "none" => stack[s] = <<>>
BeginMirror ==
  \A t \in Threads : pc[t] = "attrs" /\ SpanSlices => stack[work[t].span] = <<"life">>
Mirrors == ThreadsMirror /\ SpansMirror /\ EndedMirror /\ NoneMirror /\ BeginMirror

MirrorInv == /\ \A s \in Spans : IsFiniteSet(Positions(View, s))
             /\ ~hasError => Mirrors

IInv == TypeOK /\ BoundInv /\ StoreInv /\ CallInv /\ FieldInv /\ FlowInv /\ MirrorInv


USE DEF registry, trace, histories

-----------------------------------------------------------------------------
(* Boxes.                                                                   *)

\* The marks of no box and no data are not those of a box of a span.
LEMMA BoxFacts ==
  /\ EmptyBox \in Boxes /\ NoBox \in Boxes /\ NoData \in Data
  /\ EmptyBox # NoBox
  /\ EmptyBox.fields = {} /\ EmptyBox.poll = None /\ EmptyBox.flows = <<>>
  /\ NoBox.fields = {} /\ NoBox.poll = "no box" /\ NoBox.flows = <<>>
  /\ NoData.box.poll = "no data" /\ NoData.tracked = FALSE
  /\ \A s \in Spans : None # s /\ s \notin {"no box", "no data"}
  /\ None \notin {"no box", "no data"}
<1>1. <<>> \in Seq([end : {"start", "terminate"}, id : 1 .. MaxFlows])
  BY EmptySeq
<1>2. EmptyBox \in Boxes /\ NoBox \in Boxes
  BY <1>1 DEF EmptyBox, NoBox, Boxes
<1>3. [NoBox EXCEPT !.poll = "no data"] \in Boxes
  BY <1>1 DEF NoBox, Boxes
<1>4. NoData \in Data
  BY <1>3 DEF NoData, Data
<1>5. /\ \A s \in Spans : None # s /\ s \notin {"no box", "no data"}
      /\ None \notin {"no box", "no data"}
  BY LayerAssumption
<1>6. /\ EmptyBox.fields = {} /\ EmptyBox.poll = None /\ EmptyBox.flows = <<>>
      /\ NoBox.fields = {} /\ NoBox.poll = "no box" /\ NoBox.flows = <<>>
      /\ NoData.box.poll = "no data" /\ NoData.tracked = FALSE
  BY DEF EmptyBox, NoBox, NoData
<1> QED BY <1>2, <1>4, <1>5, <1>6

\* A new box with the poll flow of s.
LEMMA PollBox ==
  ASSUME NEW s \in Spans
  PROVE  LET b == [EmptyBox EXCEPT !.poll = s]
         IN /\ b \in Boxes /\ b # NoBox
            /\ b.fields = {} /\ b.poll = s /\ b.flows = <<>>
<1>1. <<>> \in Seq([end : {"start", "terminate"}, id : 1 .. MaxFlows])
  BY EmptySeq
<1> DEFINE b == [EmptyBox EXCEPT !.poll = s]
<1>2. b = [fields |-> {}, flows |-> <<>>, poll |-> s]
  BY DEF EmptyBox
<1> HIDE DEF b
<1>3. b \in Boxes /\ b.fields = {} /\ b.poll = s /\ b.flows = <<>>
  BY <1>1, <1>2 DEF Boxes
<1>4. b # NoBox
  BY <1>3, BoxFacts
<1> QED BY <1>3, <1>4 DEF b

\* The data of a span that has just begun: no fields, no flows.
LEMMA BegunFacts ==
  ASSUME NEW s \in Spans
  PROVE  /\ Begun(s) \in Data /\ Begun(s).tracked = SpanSlices
         /\ Begun(s).box \in Boxes /\ Begun(s).box.fields = {} /\ Begun(s).box.flows = <<>>
         /\ Begun(s).box = NoBox \/ Begun(s).box.poll = s
         /\ ThreadSlices => Begun(s).box # NoBox
<1> DEFINE b == IF ThreadSlices THEN [EmptyBox EXCEPT !.poll = s] ELSE NoBox
<1>1. /\ b \in Boxes /\ b.fields = {} /\ b.flows = <<>>
      /\ b = NoBox \/ b.poll = s
      /\ ThreadSlices => b # NoBox
  BY PollBox, BoxFacts
<1>2. SpanSlices \in BOOLEAN
  BY DEF SpanSlices
<1>3. Begun(s) = [tracked |-> SpanSlices, box |-> b]
  BY DEF Begun
<1> HIDE DEF b
<1>4. Begun(s) \in Data
  BY <1>1, <1>2, <1>3 DEF Data
<1>5. Begun(s).tracked = SpanSlices /\ Begun(s).box = b
  BY <1>3
<1> QED BY <1>1, <1>4, <1>5

SetBox(s, b) == store' = [store EXCEPT ![s].box = b]

\* A span whose box changes.
LEMMA BoxChange ==
  ASSUME TypeOK, NEW s \in Spans, NEW b \in Boxes, SetBox(s, b)
  PROVE  /\ store' \in [Spans -> Data]
         /\ store'[s].box = b /\ store'[s].tracked = store[s].tracked
         /\ \A r \in Spans \ {s} : store'[r] = store[r]
         /\ b.poll # "no data" => Stored(s)'
<1>1. store \in [Spans -> Data] /\ store[s] \in Data
  BY DEF TypeOK
<1> DEFINE d == [store[s] EXCEPT !.box = b]
<1>2. d \in Data /\ d.box = b /\ d.tracked = store[s].tracked
  BY <1>1 DEF Data
<1>3. store' = [store EXCEPT ![s] = d]
  BY DEF SetBox
<1> HIDE DEF d
<1>4. /\ store' \in [Spans -> Data] /\ store'[s] = d
      /\ \A r \in Spans \ {s} : store'[r] = store[r]
  BY <1>1, <1>2, <1>3
<1>5. b.poll # "no data" => store'[s] # NoData
  BY <1>2, <1>4, BoxFacts
<1> QED BY <1>2, <1>4, <1>5 DEF Stored

\* The boxes a thread keeps are empty, and not too many.
SpareOK ==
  /\ spare \in [Threads -> Seq(Boxes)]
  /\ \A t \in Threads : Len(spare[t]) <= SpareBoxes
  /\ \A t \in Threads : \A i \in DOMAIN spare[t] : spare[t][i] = EmptyBox

\* A box that is taken is empty.
LEMMA TakenFacts ==
  ASSUME SpareOK, NEW t \in Threads
  PROVE  TakenBox(t) = EmptyBox /\ (BoxTaken(t) => SpareOK')
<1>1. /\ spare[t] \in Seq(Boxes) /\ Len(spare[t]) <= SpareBoxes
      /\ \A i \in DOMAIN spare[t] : spare[t][i] = EmptyBox
  BY DEF SpareOK
<1>2. CASE ~(Acquires(t) /\ spare[t] # <<>>)
  <2>1. BoxTaken(t) => spare' = spare
    BY <1>2 DEF BoxTaken, SpareOK
  <2> QED BY <1>2, <2>1 DEF TakenBox, SpareOK
<1>3. CASE Acquires(t) /\ spare[t] # <<>>
  <2>1. /\ Tail(spare[t]) \in Seq(Boxes) /\ Len(Tail(spare[t])) = Len(spare[t]) - 1
        /\ \A i \in 1 .. Len(Tail(spare[t])) : Tail(spare[t])[i] = spare[t][i + 1]
        /\ Head(spare[t]) = spare[t][1] /\ Len(spare[t]) \in Nat \ {0}
    BY <1>1, <1>3, HeadTailProperties, LenProperties, EmptySeq
  <2>2. Head(spare[t]) = EmptyBox
    BY <1>1, <2>1, LenProperties
  <2>3. \A i \in DOMAIN Tail(spare[t]) : Tail(spare[t])[i] = EmptyBox
    BY <1>1, <2>1, LenProperties
  <2>0. SpareBoxes \in Nat
    BY LayerAssumption
  <2>4. Len(Tail(spare[t])) <= SpareBoxes
    <3> DEFINE m == Len(spare[t])
               n == Len(Tail(spare[t]))
    <3>1. n = m - 1 /\ m \in Nat /\ m <= SpareBoxes
      BY <1>1, <2>1
    <3>2. \A i, j \in Nat : i <= j => i - 1 <= j
      OBVIOUS
    <3> HIDE DEF m, n
    <3>3. n <= SpareBoxes
      BY <2>0, <3>1, <3>2
    <3> QED BY <3>3 DEF n
  <2>5. ASSUME BoxTaken(t) PROVE SpareOK'
    <3> DEFINE q == Tail(spare[t])
    <3>1. spare' = [spare EXCEPT ![t] = q]
      BY <1>3, <2>5 DEF BoxTaken
    <3>2. q \in Seq(Boxes) /\ Len(q) <= SpareBoxes /\ \A i \in DOMAIN q : q[i] = EmptyBox
      BY <2>1, <2>3, <2>4
    <3> HIDE DEF q
    <3> QED BY <3>1, <3>2 DEF SpareOK
  <2> QED BY <1>3, <2>2, <2>5 DEF TakenBox
<1> QED BY <1>2, <1>3

\* A box of a closed span leaves only empty boxes.
LEMMA ReturnedFacts ==
  ASSUME SpareOK, NEW t \in Threads, NEW b, BoxReturned(t, b)
  PROVE  SpareOK'
<1>1. /\ spare[t] \in Seq(Boxes) /\ Len(spare[t]) <= SpareBoxes
      /\ \A i \in DOMAIN spare[t] : spare[t][i] = EmptyBox
  BY DEF SpareOK
<1>2. CASE ~(b # NoBox /\ Acquires(t) /\ HasRoom(t))
  <2>1. spare' = spare
    BY <1>2 DEF BoxReturned, SpareOK
  <2> QED BY <2>1 DEF SpareOK
<1>3. CASE b # NoBox /\ Acquires(t) /\ HasRoom(t)
  <2> DEFINE q == Append(spare[t], EmptyBox)
  <2>1. spare' = [spare EXCEPT ![t] = q]
    BY <1>3 DEF BoxReturned, Cleared
  <2>2. /\ q \in Seq(Boxes) /\ Len(q) = Len(spare[t]) + 1
        /\ DOMAIN q = DOMAIN spare[t] \cup {Len(spare[t]) + 1}
        /\ q[Len(spare[t]) + 1] = EmptyBox
        /\ \A i \in DOMAIN spare[t] : q[i] = spare[t][i]
    <3>1. EmptyBox \in Boxes
      BY BoxFacts
    <3> HIDE DEF Cleared
    <3> QED BY <1>1, <3>1, AppendProperties, LenProperties
  <2>3. Len(spare[t]) \in Nat /\ SpareBoxes \in Nat
    BY <1>1, LenProperties, LayerAssumption
  <2>4. Len(q) <= SpareBoxes
    BY <1>3, <2>2, <2>3 DEF HasRoom
  <2>5. \A i \in DOMAIN q : q[i] = EmptyBox
    BY <1>1, <2>2
  <2> HIDE DEF q
  <2> QED BY <2>1, <2>2, <2>4, <2>5 DEF SpareOK
<1> QED BY <1>2, <1>3


-----------------------------------------------------------------------------
(* The store.                                                               *)

LEMMA InvType == IInv => TypeOK
BY DEF IInv

\* The box a stored span has or gets keeps its fields and flows.
LEMMA BoxOfFacts ==
  ASSUME TypeOK, StoreInv, NEW t \in Threads, NEW s \in Spans, Stored(s)
  PROVE  /\ BoxOf(t, s) \in Boxes /\ BoxOf(t, s) # NoBox
         /\ BoxOf(t, s).fields = store[s].box.fields
         /\ BoxOf(t, s).flows = store[s].box.flows
         /\ BoxOf(t, s).fields \subseteq {s} /\ BoxOf(t, s).poll \in {None, s}
<1>1. SpareOK
  BY DEF TypeOK, StoreInv, BoxesOwn, SpareOK
<1>2. TakenBox(t) = EmptyBox
  BY <1>1, TakenFacts
<1>3. store[s].box \in Boxes /\ BoxOwn(s, store[s].box)
  BY DEF TypeOK, Data, StoreInv
<1>4. CASE store[s].box = NoBox
  BY <1>2, <1>4, BoxFacts DEF BoxOf
<1>5. CASE store[s].box # NoBox
  BY <1>3, <1>5 DEF BoxOf, BoxOwn
<1> QED BY <1>4, <1>5

LEMMA KeptFacts ==
  ASSUME TypeOK, StoreInv, NEW t \in Threads, NEW s \in Spans, NEW b, BoxKept(t, s, b)
  PROVE  SetBox(s, b) /\ SpareOK'
<1>1. SpareOK
  BY DEF TypeOK, StoreInv, BoxesOwn, SpareOK
<1>2. CASE store[s].box = NoBox
  BY <1>1, <1>2, TakenFacts DEF BoxKept, SetBox
<1>3. CASE store[s].box # NoBox
  <2>1. spare' = spare
    BY <1>3 DEF BoxKept
  <2> QED BY <1>1, <2>1 DEF BoxKept, SetBox, SpareOK
<1> QED BY <1>2, <1>3

\* A stored span gets another box of its own.
Recast(s, b) == SetBox(s, b) /\ Stored(s) /\ b \in Boxes /\ BoxOwn(s, b)

LEMMA RecastFacts ==
  ASSUME TypeOK, NEW s \in Spans, NEW b, Recast(s, b)
  PROVE  /\ store' \in [Spans -> Data]
         /\ store'[s].box = b
         /\ \A r \in Spans : store'[r].tracked = store[r].tracked
         /\ \A r \in Spans \ {s} : store'[r] = store[r]
         /\ \A r \in Spans : Stored(r)' <=> Stored(r)
<1>1. b \in Boxes /\ SetBox(s, b) /\ b.poll # "no data" /\ Stored(s)
  BY BoxFacts DEF Recast, BoxOwn
<1>2. /\ store' \in [Spans -> Data]
      /\ store'[s].box = b /\ store'[s].tracked = store[s].tracked
      /\ \A r \in Spans \ {s} : store'[r] = store[r]
      /\ Stored(s)'
  BY <1>1, BoxChange
<1>3. \A r \in Spans \ {s} : Stored(r)' <=> Stored(r)
  BY <1>2 DEF Stored
<1> QED BY <1>1, <1>2, <1>3

\* The invariant of the store, when no span comes or goes.
LEMMA StoreFrame ==
  ASSUME StoreInv, SpareOK', UNCHANGED <<status, ended, shown>>,
         hasError => hasError',
         \A r \in Spans : Stored(r)' <=> Stored(r),
         \A r \in Spans : Stored(r) => BoxOwn(r, store'[r].box)
  PROVE  StoreInv'
<1>1. BoxesOwn'
  BY DEF StoreInv, BoxesOwn, SpareOK
<1>2. \A s \in Spans : Stored(s)' => status'[s] = "live" /\ BoxOwn(s, store'[s].box)
  BY DEF StoreInv
<1>3. \A s \in Spans : BoxOwn(s, store[s].box)' <=> BoxOwn(s, store'[s].box)
  BY DEF BoxOwn
<1>4. \A s \in Spans : status'[s] = "live" /\ ~hasError' => Stored(s)'
  BY DEF StoreInv
<1>5. \A s \in ended' : status'[s] = "closed"
  BY DEF StoreInv
<1> QED BY <1>1, <1>2, <1>3, <1>4, <1>5 DEF StoreInv

\* The invariant of the callbacks, when no call begins or ends and no span comes
\* or goes.
LEMMA CallFrame ==
  ASSUME CallInv, UNCHANGED <<config, pc, work, status, flows>>,
         \A t \in Threads : pc[t] = "attrs" => work[t].depth <= Len(entered'[t]),
         \A t \in Threads : \A i \in DOMAIN entered'[t] : status[entered'[t][i]] = "live",
         \A r \in Spans : Stored(r)' <=> Stored(r),
         \A r \in Spans : store[r].box # NoBox => store'[r].box # NoBox
  PROVE  CallInv'
<1>1. OpeningInv'
  BY DEF CallInv, OpeningInv, Opening, Begun, SpanSlices, ThreadSlices
<1>2. RecordingInv'
  BY DEF CallInv, RecordingInv, Recording
<1>3. FlowingInv'
  BY DEF CallInv, FlowingInv, Flowing, InFlow
<1>4. OneOpening' /\ OneFlowing' /\ EnteredLive'
  BY DEF CallInv, OneOpening, OneFlowing, EnteredLive, InFlow
<1> QED BY <1>1, <1>2, <1>3, <1>4 DEF CallInv


-----------------------------------------------------------------------------
(* Fields and flows.                                                        *)

\* The fields that were recorded, when the spans keep theirs.
LEMMA FieldFrame ==
  ASSUME FieldInv, UNCHANGED <<status, recorded, ended>>,
         \A r \in Spans : shown[r] \subseteq shown'[r],
         \A r \in Spans : Stored(r)' => Stored(r),
         \A r \in Spans : Stored(r) => store[r].box.fields \subseteq store'[r].box.fields,
         recorded \subseteq Spans
  PROVE  FieldInv'
BY DEF FieldInv

LEMMA NoEnds ==
  ASSUME NEW b, b.flows = <<>>, NEW end
  PROVE  Ends(b, end) = {}
BY DEF Ends

LEMMA SameEnds ==
  ASSUME NEW b, NEW c, c.flows = b.flows, NEW end
  PROVE  Ends(c, end) = Ends(b, end)
BY DEF Ends

Longer(b, c, end, f) ==
  \E S : \E e \in S : /\ e.end = end /\ e.id = f
                      /\ b.flows \in Seq(S) /\ c.flows = Append(b.flows, e)

\* Queueing an end of flow f adds f to the ends of its kind.
LEMMA MoreEnds ==
  ASSUME NEW b, NEW c, NEW end, NEW f, Longer(b, c, end, f)
  PROVE  /\ Ends(c, end) = Ends(b, end) \cup {f}
         /\ \A other : other # end => Ends(c, other) = Ends(b, other)
<1>a. PICK S : \E e \in S : /\ e.end = end /\ e.id = f
                           /\ b.flows \in Seq(S) /\ c.flows = Append(b.flows, e)
  BY DEF Longer
<1>b. PICK e \in S : /\ e.end = end /\ e.id = f
                    /\ b.flows \in Seq(S) /\ c.flows = Append(b.flows, e)
  BY <1>a
<1> DEFINE q == b.flows
           n == Len(q) + 1
<1>1. /\ DOMAIN q = 1 .. Len(q) /\ Len(q) \in Nat
      /\ DOMAIN Append(q, e) = 1 .. n
      /\ Append(q, e)[n] = e /\ \A i \in 1 .. Len(q) : Append(q, e)[i] = q[i]
  BY <1>b, AppendProperties, LenProperties
<1>2. e.end = end /\ e.id = f
  BY <1>b
<1>3. DOMAIN Append(q, e) = DOMAIN q \cup {n}
  BY <1>1
<1>4. c.flows = Append(q, e)
  BY <1>b
<1>5. \A x, y : y \in Ends(b, x) <=> \E i \in DOMAIN q : q[i].end = x /\ q[i].id = y
  BY DEF Ends
<1>6. \A x, y : y \in Ends(c, x) <=>
        \E i \in DOMAIN q \cup {n} : Append(q, e)[i].end = x /\ Append(q, e)[i].id = y
  BY <1>3, <1>4 DEF Ends
<1> DEFINE p == Append(q, e)
<1>7. \A x, y : y \in Ends(c, x) <=>
        \/ \E i \in DOMAIN q : q[i].end = x /\ q[i].id = y
        \/ end = x /\ f = y
  <2>1. p[n].end = end /\ p[n].id = f
    BY <1>1, <1>2
  <2>2. \A i \in DOMAIN q : p[i] = q[i]
    BY <1>1
  <2>3. \A x, y : y \in Ends(c, x) <=> \E i \in DOMAIN q \cup {n} : p[i].end = x /\ p[i].id = y
    BY <1>6
  <2> HIDE DEF p, q, n
  <2> QED BY <2>1, <2>2, <2>3
<1>8. \A x, y : y \in Ends(c, x) <=> y \in Ends(b, x) \/ (end = x /\ f = y)
  BY <1>5, <1>7
<1>9. \A y : y \in Ends(c, end) <=> y \in Ends(b, end) \cup {f}
  BY <1>8
<1>10. \A x : x # end => \A y : y \in Ends(c, x) <=> y \in Ends(b, x)
  BY <1>8
<1>11. Ends(c, end) = Ends(b, end) \cup {f}
  BY <1>9
<1>12. ASSUME NEW x, x # end PROVE Ends(c, x) = Ends(b, x)
  <2>1. \A y : y \in Ends(c, x) <=> y \in Ends(b, x)
    BY <1>10, <1>12
  <2> QED BY <2>1
<1> QED BY <1>11, <1>12

\* A flow is from a span to a span.
LEMMA FlowEnds ==
  ASSUME flows \in Seq([from : Spans, to : Spans])
  PROVE  /\ DOMAIN flows = 1 .. Len(flows) /\ Len(flows) \in Nat
         /\ \A f \in DOMAIN flows : flows[f].from \in Spans /\ flows[f].to \in Spans
<1>1. DOMAIN flows = 1 .. Len(flows) /\ Len(flows) \in Nat
  BY LenProperties
<1>2. \A f \in DOMAIN flows : flows[f] \in [from : Spans, to : Spans]
  BY <1>1, ElementOfSeq
<1>3. \A r \in [from : Spans, to : Spans] : r.from \in Spans /\ r.to \in Spans
  OBVIOUS
<1> QED BY <1>1, <1>2, <1>3

\* A call that makes a flow knows its spans.
LEMMA FlowsNamed ==
  ASSUME FlowingInv, NEW t \in Threads, InFlow(t)
  PROVE  /\ work[t].flow \in DOMAIN flows
         /\ work[t].span \in Spans /\ work[t].pred \in Spans
         /\ flows[work[t].flow].from = work[t].pred
         /\ flows[work[t].flow].to = work[t].span
<1>1. Flowing(t)
  BY DEF FlowingInv
<1>2. flows[work[t].flow] = [from |-> work[t].pred, to |-> work[t].span]
  BY <1>1 DEF Flowing
<1>3. /\ flows[work[t].flow].from = work[t].pred
      /\ flows[work[t].flow].to = work[t].span
  BY <1>2
<1> QED BY <1>1, <1>3 DEF Flowing

\* What a step may do to the ends of flows that are out without queueing one: an
\* end is lost only with a span that will never have an end.
LEMMA OutFrame ==
  ASSUME WorkingInv, SettledInv, FlowingInv, flows' = flows,
         flows \in Seq([from : Spans, to : Spans]),
         \A t \in Threads : InFlow(t) \/ InFlow(t)' => pc'[t] = pc[t] /\ work'[t] = work[t],
         \A s \in Spans : Gone(s) => Gone(s)',
         \A f \in DOMAIN flows : StartOut(f)' => StartOut(f),
         \A f \in DOMAIN flows : TermOut(f)' => TermOut(f),
         \A f \in DOMAIN flows : StartOut(f) => StartOut(f)' \/ Gone(flows[f].from)',
         \A f \in DOMAIN flows : TermOut(f) => TermOut(f)' \/ Gone(flows[f].to)'
  PROVE  WorkingInv' /\ SettledInv'
<1>1. \A t \in Threads : InFlow(t)' => pc'[t] = pc[t] /\ work'[t] = work[t] /\ InFlow(t)
  BY DEF InFlow
<1>2. \A t \in Threads : InFlow(t) => pc'[t] = pc[t] /\ work'[t] = work[t] /\ InFlow(t)'
  BY DEF InFlow
<1>3. \A f \in DOMAIN flows : flows[f].from \in Spans /\ flows[f].to \in Spans
  BY FlowEnds
<1>4. \A f : AtWork(f) => AtWork(f)'
  BY <1>2 DEF AtWork
<1>5. ASSUME NEW f \in DOMAIN flows, ~AtWork(f)', Settled(f) PROVE Settled(f)'
  BY <1>3, <1>5 DEF Settled
<1>6. SettledInv'
  BY <1>4, <1>5 DEF SettledInv, Dropped
<1>7. ASSUME NEW t \in Threads, pc'[t] = "start"
      PROVE  ~StartOut(work[t].flow)' /\ ~TermOut(work[t].flow)'
  <2>1. pc[t] = "start" /\ InFlow(t) /\ work'[t] = work[t]
    BY <1>1, <1>7 DEF InFlow
  <2>2. work[t].flow \in DOMAIN flows
    BY <2>1 DEF FlowingInv, Flowing
  <2> QED BY <2>1, <2>2 DEF WorkingInv
<1>8. ASSUME NEW t \in Threads, pc'[t] = "terminate"
      PROVE  ~TermOut(work[t].flow)' /\ (StartOut(work[t].flow)' \/ Gone(work[t].pred)')
  <2>1. pc[t] = "terminate" /\ InFlow(t) /\ work'[t] = work[t]
    BY <1>1, <1>8 DEF InFlow
  <2>2. /\ work[t].flow \in DOMAIN flows /\ work[t].pred \in Spans
        /\ flows[work[t].flow].from = work[t].pred
    BY <2>1, FlowsNamed
  <2> QED BY <2>1, <2>2 DEF WorkingInv
<1> QED BY <1>6, <1>7, <1>8 DEF WorkingInv


SameFlowCalls ==
  \A t \in Threads : InFlow(t) \/ InFlow(t)' => pc'[t] = pc[t] /\ work'[t] = work[t]
GoneStays == \A s \in Spans : Gone(s) => Gone(s)'

\* Where no flow is queued, written or lost.
LEMMA FlowSame ==
  ASSUME FlowInv, FlowingInv, flows \in Seq([from : Spans, to : Spans]),
         UNCHANGED <<flows, starts, terms, repeated>>, SameFlowCalls, GoneStays,
         \A s \in Spans : /\ Queued(s, "start")' = Queued(s, "start")
                          /\ Queued(s, "terminate")' = Queued(s, "terminate")
  PROVE  FlowInv'
<1>1. /\ \A f \in DOMAIN flows : StartOut(f)' <=> StartOut(f)
      /\ \A f \in DOMAIN flows : TermOut(f)' <=> TermOut(f)
  BY FlowEnds DEF StartOut, TermOut
<1>2. WorkingInv' /\ SettledInv'
  BY <1>1, OutFrame DEF FlowInv, SameFlowCalls, GoneStays
<1>3. QueuedInv' /\ FlowEndsRight'
  BY DEF FlowInv, QueuedInv, FlowEndsRight
<1> QED BY <1>2, <1>3 DEF FlowInv

\* Where a span without an end loses its state, and the flows queued on it.
LEMMA FlowLost ==
  ASSUME FlowInv, FlowingInv, flows \in Seq([from : Spans, to : Spans]), NEW s \in Spans,
         UNCHANGED <<flows, starts, terms, repeated>>, SameFlowCalls, GoneStays,
         Gone(s)', Queued(s, "start")' = {}, Queued(s, "terminate")' = {},
         \A r \in Spans \ {s} : /\ Queued(r, "start")' = Queued(r, "start")
                                /\ Queued(r, "terminate")' = Queued(r, "terminate")
  PROVE  FlowInv'
<1>1. /\ \A f \in DOMAIN flows : StartOut(f)' => StartOut(f)
      /\ \A f \in DOMAIN flows : TermOut(f)' => TermOut(f)
      /\ \A f \in DOMAIN flows : StartOut(f) => StartOut(f)' \/ flows[f].from = s
      /\ \A f \in DOMAIN flows : TermOut(f) => TermOut(f)' \/ flows[f].to = s
  BY FlowEnds DEF StartOut, TermOut
<1>2. WorkingInv' /\ SettledInv'
  BY <1>1, OutFrame DEF FlowInv, SameFlowCalls, GoneStays
<1>3. QueuedInv' /\ FlowEndsRight'
  BY DEF FlowInv, QueuedInv, FlowEndsRight
<1> QED BY <1>2, <1>3 DEF FlowInv

\* Where an event of s carries the flows queued on it.
LEMMA FlowWritten ==
  ASSUME FlowInv, FlowingInv, flows \in Seq([from : Spans, to : Spans]), NEW s \in Spans,
         Stored(s), WritesFlows(s, store[s].box), flows' = flows, SameFlowCalls, GoneStays,
         Queued(s, "start")' = {}, Queued(s, "terminate")' = {},
         \A r \in Spans \ {s} : /\ Queued(r, "start")' = Queued(r, "start")
                                /\ Queued(r, "terminate")' = Queued(r, "terminate")
  PROVE  FlowInv'
<1>1. /\ Ends(store[s].box, "start") = Queued(s, "start")
      /\ Ends(store[s].box, "terminate") = Queued(s, "terminate")
  BY DEF Queued
<1>2. /\ \A f, r : <<f, r>> \in starts' <=> <<f, r>> \in starts \/ (r = s /\ f \in Queued(s, "start"))
      /\ \A f, r : <<f, r>> \in terms' <=> <<f, r>> \in terms \/ (r = s /\ f \in Queued(s, "terminate"))
  BY <1>1 DEF WritesFlows
<1>3. /\ \A f \in DOMAIN flows : StartOut(f)' <=> StartOut(f)
      /\ \A f \in DOMAIN flows : TermOut(f)' <=> TermOut(f)
  BY <1>2, FlowEnds DEF StartOut, TermOut
<1>4. WorkingInv' /\ SettledInv'
  BY <1>3, OutFrame DEF FlowInv, SameFlowCalls, GoneStays
<1>5. QueuedInv'
  BY <1>2 DEF FlowInv, QueuedInv
<1>6. FlowEndsRight'
  <2>1. /\ (Ends(store[s].box, "start") \X {s}) \cap starts = {}
        /\ (Ends(store[s].box, "terminate") \X {s}) \cap terms = {}
    BY <1>1 DEF FlowInv, QueuedInv
  <2>2. repeated' = FALSE
    BY <2>1 DEF WritesFlows, FlowInv, FlowEndsRight
  <2>3. \A e \in starts' : flows[e[1]].from = e[2]
    BY <1>1 DEF WritesFlows, FlowInv, FlowEndsRight, QueuedInv
  <2>4. \A e \in terms' : flows[e[1]].to = e[2]
    BY <1>1 DEF WritesFlows, FlowInv, FlowEndsRight, QueuedInv
  <2> QED BY <2>2, <2>3, <2>4 DEF FlowEndsRight
<1> QED BY <1>4, <1>5, <1>6 DEF FlowInv

\* Clearing the flows of a stored span leaves it none.
LEMMA ClearFacts ==
  ASSUME TypeOK, StoreInv, NEW s \in Spans, Stored(s), ClearFlows(s)
  PROVE  /\ \E b : /\ Recast(s, b) /\ b.flows = <<>> /\ b.fields = store[s].box.fields
                   /\ (store[s].box = NoBox <=> b = NoBox)
<1>1. store[s].box \in Boxes /\ BoxOwn(s, store[s].box)
  BY DEF TypeOK, Data, StoreInv
<1>2. CASE store[s].box = NoBox
  <2>1. SetBox(s, NoBox)
    BY <1>2 DEF ClearFlows, SetBox
  <2>2. Recast(s, NoBox)
    BY <2>1, BoxFacts DEF Recast, BoxOwn
  <2> QED BY <1>2, <2>2, BoxFacts
<1>3. CASE store[s].box # NoBox
  <2> DEFINE b == [store[s].box EXCEPT !.flows = <<>>]
  <2>1. SetBox(s, b)
    BY <1>3 DEF ClearFlows, SetBox
  <2>2. <<>> \in Seq([end : {"start", "terminate"}, id : 1 .. MaxFlows])
    BY EmptySeq
  <2>3. /\ b \in Boxes /\ b.flows = <<>> /\ b.fields = store[s].box.fields
        /\ b.poll = store[s].box.poll
    BY <1>1, <2>2 DEF Boxes
  <2> HIDE DEF b
  <2>4. b # NoBox /\ BoxOwn(s, b)
    BY <1>1, <1>3, <2>3, BoxFacts DEF BoxOwn
  <2>5. Recast(s, b)
    BY <2>1, <2>3, <2>4 DEF Recast
  <2> QED BY <1>3, <2>3, <2>4, <2>5
<1> QED BY <1>2, <1>3


-----------------------------------------------------------------------------
(* Stacks and visits.                                                       *)

LEMMA FrontFacts ==
  ASSUME NEW S, NEW q \in Seq(S), q # <<>>
  PROVE  /\ Len(q) \in Nat \ {0} /\ DOMAIN q = 1 .. Len(q)
         /\ Front(q) \in Seq(S) /\ Len(Front(q)) = Len(q) - 1
         /\ DOMAIN Front(q) = 1 .. (Len(q) - 1)
         /\ \A i \in 1 .. (Len(q) - 1) : Front(q)[i] = q[i]
         /\ Last(q) = q[Len(q)] /\ Last(q) \in S
<1>1. Len(q) \in Nat \ {0} /\ DOMAIN q = 1 .. Len(q)
  BY EmptySeq, LenProperties
<1>2. \A i \in 1 .. (Len(q) - 1) : q[i] \in S
  BY <1>1, ElementOfSeq
<1>3. /\ Front(q) \in Seq(S) /\ Len(Front(q)) = Len(q) - 1
      /\ \A i \in 1 .. (Len(q) - 1) : Front(q)[i] = q[i]
  <2> DEFINE n == Len(q) - 1
  <2>1. n \in Nat /\ Front(q) = SubSeq(q, 1, n)
    BY <1>1 DEF Front
  <2>2. /\ SubSeq(q, 1, n) \in Seq(S)
        /\ Len(SubSeq(q, 1, n)) = (IF 1 <= n THEN n - 1 + 1 ELSE 0)
        /\ \A i \in 1 .. (n - 1 + 1) : SubSeq(q, 1, n)[i] = q[1 + i - 1]
    <3>1. 1 \in Int /\ n \in Int
      BY <2>1
    <3> HIDE DEF n
    <3> QED BY <1>2, <3>1, SubSeqProperties DEF n
  <2>3. (IF 1 <= n THEN n - 1 + 1 ELSE 0) = n /\ n - 1 + 1 = n
    <3> HIDE DEF n
    <3> QED BY <2>1
  <2>4. \A i \in 1 .. n : 1 + i - 1 = i
    OBVIOUS
  <2> QED BY <2>1, <2>2, <2>3, <2>4
<1>4. Last(q) = q[Len(q)] /\ Last(q) \in S
  BY <1>1, ElementOfSeq DEF Last
<1>5. DOMAIN Front(q) = 1 .. (Len(q) - 1)
  BY <1>3, LenProperties
<1> QED BY <1>1, <1>3, <1>4, <1>5

\* A lifetime track with n polls open.
LEMMA PolledFacts ==
  ASSUME NEW n \in Nat
  PROVE  /\ Polled(n) \in Seq({"life", "poll"}) /\ Len(Polled(n)) = n + 1
         /\ \A i \in 1 .. (n + 1) : Polled(n)[i] = IF i = 1 THEN "life" ELSE "poll"
<1> DEFINE S == {"life", "poll"}
           a == <<"life">>
           p == [i \in 1 .. n |-> "poll"]
<1>1. a \in Seq(S) /\ Len(a) = 1 /\ a[1] = "life"
  OBVIOUS
<1>2. p \in Seq(S) /\ Len(p) = n /\ \A i \in 1 .. n : p[i] = "poll"
  <2>1. p \in [1 .. n -> S]
    OBVIOUS
  <2>2. p \in Seq(S)
    BY <2>1, SeqDef
  <2>3. Len(p) = n
    BY <2>1, <2>2, LenProperties
  <2> QED BY <2>2, <2>3
<1>3. /\ a \o p \in Seq(S) /\ Len(a \o p) = 1 + n
      /\ \A i \in 1 .. 1 + n : (a \o p)[i] = IF i <= 1 THEN a[i] ELSE p[i - 1]
  <2> HIDE DEF S, a, p
  <2>1. /\ a \o p \in Seq(S) /\ Len(a \o p) = Len(a) + Len(p)
        /\ \A i \in 1 .. Len(a) + Len(p) :
             (a \o p)[i] = IF i <= Len(a) THEN a[i] ELSE p[i - Len(a)]
    BY <1>1, <1>2, ConcatProperties
  <2> QED BY <1>1, <1>2, <2>1
<1>4. \A i \in 1 .. (n + 1) : (a \o p)[i] = IF i = 1 THEN "life" ELSE "poll"
  <2> HIDE DEF S, a, p
  <2>1. TAKE i \in 1 .. (n + 1)
  <2>2. CASE i = 1
    BY <1>1, <1>3, <2>2
  <2>3. CASE i # 1
    <3>1. i - 1 \in 1 .. n /\ i \in 1 .. 1 + n /\ ~(i <= 1)
      BY <2>3
    <3> QED BY <1>2, <1>3, <2>3, <3>1
  <2> QED BY <2>2, <2>3
<1> QED BY <1>3, <1>4 DEF Polled

\* A poll begins and ends on top of a lifetime track.
LEMMA PolledStep ==
  ASSUME NEW n \in Nat
  PROVE  /\ Polled(0) = <<"life">> /\ Front(<<"life">>) = <<>>
         /\ Append(Polled(n), "poll") = Polled(n + 1)
         /\ Polled(n + 1) # <<>> /\ Front(Polled(n + 1)) = Polled(n)
<1> DEFINE S == {"life", "poll"}
<1>0. 0 \in Nat /\ n + 1 \in Nat /\ "poll" \in S /\ "life" \in S
  OBVIOUS
<1>1. Polled(0) = <<"life">>
  <2>1. Polled(0) \in Seq(S) /\ Len(Polled(0)) = 1 /\ Polled(0)[1] = "life"
    <3>1. 1 \in 1 .. (0 + 1) /\ 0 + 1 = 1
      OBVIOUS
    <3> QED BY <1>0, <3>1, PolledFacts
  <2>2. <<"life">> \in Seq(S) /\ Len(<<"life">>) = 1 /\ <<"life">>[1] = "life"
    OBVIOUS
  <2>3. \A i \in 1 .. 1 : i = 1
    OBVIOUS
  <2> HIDE DEF S
  <2> QED BY <2>1, <2>2, <2>3, SeqEqual
<1>2. Front(<<"life">>) = <<>>
  <2>1. <<"life">> \in Seq(S) /\ <<"life">> # <<>> /\ Len(<<"life">>) = 1
    OBVIOUS
  <2>2. Front(<<"life">>) \in Seq(S) /\ Len(Front(<<"life">>)) = 0
    <3> DEFINE q == <<"life">>
    <3>1. q \in Seq(S) /\ q # <<>> /\ Len(q) = 1
      BY <2>1
    <3> HIDE DEF q, S
    <3>2. Front(q) \in Seq(S) /\ Len(Front(q)) = 0
      BY <3>1, FrontFacts
    <3> QED BY <3>2 DEF q
  <2> QED BY <2>2, EmptySeq
<1>3. /\ Polled(n) \in Seq(S) /\ Len(Polled(n)) = n + 1
      /\ \A i \in 1 .. (n + 1) : Polled(n)[i] = IF i = 1 THEN "life" ELSE "poll"
  BY PolledFacts
<1>4. /\ Polled(n + 1) \in Seq(S) /\ Len(Polled(n + 1)) = n + 1 + 1
      /\ \A i \in 1 .. (n + 1 + 1) : Polled(n + 1)[i] = IF i = 1 THEN "life" ELSE "poll"
  BY <1>0, PolledFacts
<1> HIDE DEF S
<1>5. Append(Polled(n), "poll") = Polled(n + 1)
  <2> DEFINE a == Append(Polled(n), "poll")
  <2>1. /\ a \in Seq(S) /\ Len(a) = n + 1 + 1
        /\ \A i \in 1 .. (n + 1) : a[i] = Polled(n)[i]
        /\ a[n + 1 + 1] = "poll"
    <3>1. /\ a \in Seq(S) /\ Len(a) = Len(Polled(n)) + 1
          /\ \A i \in 1 .. Len(Polled(n)) : a[i] = Polled(n)[i]
          /\ a[Len(Polled(n)) + 1] = "poll"
      BY <1>0, <1>3, AppendProperties
    <3> HIDE DEF a
    <3> QED BY <1>3, <3>1
  <2> HIDE DEF a
  <2>2. \A i \in 1 .. Len(a) : a[i] = Polled(n + 1)[i]
    BY <1>3, <1>4, <2>1
  <2>3. a = Polled(n + 1)
    BY <1>4, <2>1, <2>2, SeqEqual
  <2> QED BY <2>3 DEF a
<1>6. Polled(n + 1) # <<>>
  BY <1>4, EmptySeq
<1>7. Front(Polled(n + 1)) = Polled(n)
  <2> DEFINE q == Polled(n + 1)
             p == Polled(n)
  <2>1. q \in Seq(S) /\ q # <<>> /\ Len(q) = n + 1 + 1 /\ p \in Seq(S) /\ Len(p) = n + 1
    BY <1>3, <1>4, <1>6
  <2>2. \A i \in 1 .. (n + 1) : q[i] = p[i]
    BY <1>3, <1>4
  <2> HIDE DEF q, p
  <2>3. /\ Front(q) \in Seq(S) /\ Len(Front(q)) = Len(q) - 1
        /\ \A i \in 1 .. (Len(q) - 1) : Front(q)[i] = q[i]
    BY <2>1, FrontFacts
  <2>4. Len(Front(q)) = Len(p) /\ \A i \in 1 .. Len(Front(q)) : Front(q)[i] = p[i]
    BY <2>1, <2>2, <2>3
  <2>5. Front(q) = p
    BY <2>1, <2>3, <2>4, SeqEqual
  <2> QED BY <2>5 DEF q, p
<1> QED BY <1>1, <1>2, <1>5, <1>6, <1>7


LEMMA PrefixFacts ==
  ASSUME NEW S, NEW q \in Seq(S), NEW d \in Nat, d <= Len(q)
  PROVE  /\ SubSeq(q, 1, d) \in Seq(S) /\ Len(SubSeq(q, 1, d)) = d
         /\ \A i \in 1 .. d : SubSeq(q, 1, d)[i] = q[i]
<1>1. Len(q) \in Nat /\ \A i \in 1 .. d : q[i] \in S
  BY LenProperties, ElementOfSeq
<1>2. 1 \in Int /\ d \in Int
  OBVIOUS
<1>3. /\ SubSeq(q, 1, d) \in Seq(S)
      /\ Len(SubSeq(q, 1, d)) = (IF 1 <= d THEN d - 1 + 1 ELSE 0)
      /\ \A i \in 1 .. (d - 1 + 1) : SubSeq(q, 1, d)[i] = q[1 + i - 1]
  BY <1>1, <1>2, SubSeqProperties
<1>4. (IF 1 <= d THEN d - 1 + 1 ELSE 0) = d /\ d - 1 + 1 = d
  OBVIOUS
<1>5. \A i \in 1 .. d : 1 + i - 1 = i
  OBVIOUS
<1> QED BY <1>3, <1>4, <1>5

\* What is below the depth d does not change while a thread enters and leaves
\* spans above it.
LEMMA PrefixSame ==
  ASSUME NEW S, NEW q \in Seq(S), NEW p \in Seq(S), NEW d \in Nat,
         d <= Len(q), d <= Len(p), \A i \in 1 .. d : p[i] = q[i]
  PROVE  SubSeq(p, 1, d) = SubSeq(q, 1, d)
<1>1. /\ SubSeq(q, 1, d) \in Seq(S) /\ Len(SubSeq(q, 1, d)) = d
      /\ \A i \in 1 .. d : SubSeq(q, 1, d)[i] = q[i]
  BY PrefixFacts
<1>2. /\ SubSeq(p, 1, d) \in Seq(S) /\ Len(SubSeq(p, 1, d)) = d
      /\ \A i \in 1 .. d : SubSeq(p, 1, d)[i] = p[i]
  BY PrefixFacts
<1> QED BY <1>1, <1>2, SeqEqual

LEMMA PositionsAre ==
  ASSUME NEW v, NEW s
  PROVE  \A x : x \in Positions(v, s) <=>
                  \E t \in Threads : \E i \in DOMAIN v[t] : v[t][i] = s /\ x = <<t, i>>
BY DEF Positions

\* s is what thread o has at depth i.
At(v, s, o, i) == o \in Threads /\ i \in DOMAIN v[o] /\ v[o][i] = s

LEMMA PairsAre ==
  ASSUME NEW v, NEW s
  PROVE  /\ \A x \in Positions(v, s) : x = <<x[1], x[2]>>
         /\ \A o, i : <<o, i>> \in Positions(v, s) <=> At(v, s, o, i)
<1>1. \A x \in Positions(v, s) : x = <<x[1], x[2]>>
  BY PositionsAre
<1>2. ASSUME NEW o, NEW i, <<o, i>> \in Positions(v, s)
      PROVE  At(v, s, o, i)
  <2>1. PICK t \in Threads : \E j \in DOMAIN v[t] : v[t][j] = s /\ <<o, i>> = <<t, j>>
    BY <1>2, PositionsAre
  <2> QED BY <2>1 DEF At
<1>3. ASSUME NEW o, NEW i, At(v, s, o, i)
      PROVE  <<o, i>> \in Positions(v, s)
  BY <1>3, PositionsAre DEF At
<1> QED BY <1>1, <1>2, <1>3

LEMMA SamePairs ==
  ASSUME NEW v, NEW w, NEW s, \A o, i : At(w, s, o, i) <=> At(v, s, o, i)
  PROVE  Positions(w, s) = Positions(v, s)
<1>1. \A x \in Positions(w, s) : x \in Positions(v, s)
  BY PairsAre
<1>2. \A x \in Positions(v, s) : x \in Positions(w, s)
  BY PairsAre
<1> QED BY <1>1, <1>2

OnlyMore(v, w, s, t, n) ==
  ~At(v, s, t, n) /\ \A o, i : At(w, s, o, i) <=> At(v, s, o, i) \/ (o = t /\ i = n)

LEMMA OnePairMore ==
  ASSUME NEW v, NEW w, NEW s, NEW t, NEW n, OnlyMore(v, w, s, t, n)
  PROVE  Positions(w, s) = Positions(v, s) \cup {<<t, n>>} /\ <<t, n>> \notin Positions(v, s)
<1> USE DEF OnlyMore
<1>1. \A x \in Positions(w, s) : x \in Positions(v, s) \cup {<<t, n>>}
  <2>1. TAKE x \in Positions(w, s)
  <2>2. x = <<x[1], x[2]>> /\ At(w, s, x[1], x[2])
    BY PairsAre
  <2>3. CASE At(v, s, x[1], x[2])
    BY <2>2, <2>3, PairsAre
  <2>4. CASE x[1] = t /\ x[2] = n
    BY <2>2, <2>4
  <2> QED BY <2>2, <2>3, <2>4
<1>2. \A x \in Positions(v, s) : x \in Positions(w, s)
  BY PairsAre
<1>3. <<t, n>> \in Positions(w, s) /\ <<t, n>> \notin Positions(v, s)
  BY PairsAre
<1> QED BY <1>1, <1>2, <1>3

\* B has one element more than A.
OneMore(A, B) == \E x : B = A \cup {x} /\ x \notin A

Pushed(v, w, t, s) == w = [v EXCEPT ![t] = Append(v[t], s)]

\* Entering s adds a visit of s and of no other span.
LEMMA PositionsAppend ==
  ASSUME NEW v \in [Threads -> Seq(Spans)], NEW t \in Threads, NEW s \in Spans,
         NEW w, Pushed(v, w, t, s)
  PROVE  /\ OneMore(Positions(v, s), Positions(w, s))
         /\ \A r \in Spans \ {s} : Positions(w, r) = Positions(v, r)
<1> DEFINE n == Len(v[t]) + 1
<1>1. n \notin DOMAIN v[t] /\ DOMAIN w[t] = DOMAIN v[t] \cup {n} /\ w[t][n] = s
      /\ \A i \in DOMAIN v[t] : w[t][i] = v[t][i]
  <2>0. v[t] \in Seq(Spans)
    OBVIOUS
  <2>1. w[t] = Append(v[t], s)
    BY DEF Pushed
  <2>2. /\ Append(v[t], s) \in Seq(Spans) /\ Len(Append(v[t], s)) = n
        /\ \A i \in 1 .. Len(v[t]) : Append(v[t], s)[i] = v[t][i]
        /\ Append(v[t], s)[n] = s
    BY <2>0, AppendProperties
  <2>3. DOMAIN Append(v[t], s) = 1 .. n
    BY <2>2, LenProperties
  <2>4. DOMAIN v[t] = 1 .. Len(v[t]) /\ Len(v[t]) \in Nat
    BY <2>0, LenProperties
  <2> QED BY <2>1, <2>2, <2>3, <2>4
<1>2. \A o \in Threads \ {t} : w[o] = v[o]
  BY DEF Pushed
<1> HIDE DEF n
<1>3. ~At(v, s, t, n)
  BY <1>1 DEF At
<1>4. \A o, i : At(w, s, o, i) <=> At(v, s, o, i) \/ (o = t /\ i = n)
  <2>1. ASSUME NEW o, NEW i PROVE At(w, s, o, i) <=> At(v, s, o, i) \/ (o = t /\ i = n)
    <3>1. CASE o \in Threads \ {t}
      BY <1>2, <3>1 DEF At
    <3>2. CASE o = t
      BY <1>1, <3>2 DEF At
    <3> QED BY <3>1, <3>2 DEF At
  <2> QED BY <2>1
<1>5. Positions(w, s) = Positions(v, s) \cup {<<t, n>>} /\ <<t, n>> \notin Positions(v, s)
  <2>1. OnlyMore(v, w, s, t, n)
    BY <1>3, <1>4 DEF OnlyMore
  <2> QED BY <2>1, OnePairMore
<1>6. ASSUME NEW r \in Spans \ {s} PROVE Positions(w, r) = Positions(v, r)
  <2>1. ASSUME NEW o, NEW i PROVE At(w, r, o, i) <=> At(v, r, o, i)
    <3>1. CASE o \in Threads \ {t}
      BY <1>2, <3>1 DEF At
    <3>2. CASE o = t
      BY <1>1, <3>2 DEF At
    <3> QED BY <3>1, <3>2 DEF At
  <2> QED BY <2>1, SamePairs
<1> QED BY <1>5, <1>6 DEF OneMore

\* A sequence is its front and its last element.
LEMMA FrontLast ==
  ASSUME NEW S, NEW q \in Seq(S), q # <<>>
  PROVE  q = Append(Front(q), Last(q))
<1> DEFINE n == Len(q) - 1
           a == Append(Front(q), Last(q))
<1>1. /\ Len(q) \in Nat \ {0} /\ Front(q) \in Seq(S) /\ Len(Front(q)) = n
      /\ \A i \in 1 .. n : Front(q)[i] = q[i]
      /\ Last(q) = q[Len(q)] /\ Last(q) \in S
  BY FrontFacts
<1>2. /\ a \in Seq(S) /\ Len(a) = Len(Front(q)) + 1
      /\ \A i \in 1 .. Len(Front(q)) : a[i] = Front(q)[i]
      /\ a[Len(Front(q)) + 1] = Last(q)
  BY <1>1, AppendProperties
<1>3. Len(a) = Len(q) /\ \A i \in 1 .. Len(q) : q[i] = a[i]
  <2> HIDE DEF a
  <2> QED BY <1>1, <1>2
<1> HIDE DEF a
<1>4. q = a
  BY <1>2, <1>3, SeqEqual
<1> QED BY <1>4 DEF a

Popped(v, w, t, s) ==
  v[t] # <<>> /\ s = Last(v[t]) /\ w = [v EXCEPT ![t] = Front(v[t])]

\* Leaving the innermost span ends a visit of it and of no other span.
LEMMA PositionsFront ==
  ASSUME NEW v \in [Threads -> Seq(Spans)], NEW t \in Threads, NEW w, NEW s,
         Popped(v, w, t, s)
  PROVE  /\ s \in Spans
         /\ OneMore(Positions(w, s), Positions(v, s))
         /\ \A r \in Spans \ {s} : Positions(w, r) = Positions(v, r)
<1>1. v[t] \in Seq(Spans)
  OBVIOUS
<1>2. Front(v[t]) \in Seq(Spans) /\ s \in Spans
  BY <1>1, FrontFacts DEF Popped
<1>3. w \in [Threads -> Seq(Spans)] /\ w[t] = Front(v[t])
  BY <1>2 DEF Popped
<1>4. v[t] = Append(w[t], s)
  BY <1>1, <1>3, FrontLast DEF Popped
<1>5. Pushed(w, v, t, s)
  BY <1>3, <1>4 DEF Pushed, Popped
<1>6. /\ OneMore(Positions(w, s), Positions(v, s))
      /\ \A r \in Spans \ {s} : Positions(v, r) = Positions(w, r)
  <2>1. s \in Spans /\ t \in Threads
    BY <1>2
  <2>2. w \in [Threads -> Seq(Spans)]
    BY <1>3
  <2> QED BY <2>1, <2>2, <1>5, PositionsAppend
<1> QED BY <1>2, <1>6

\* The number of visits, when one is more.
LEMMA OneVisitMore ==
  ASSUME NEW A, NEW B, OneMore(A, B), IsFiniteSet(A) \/ IsFiniteSet(B)
  PROVE  /\ IsFiniteSet(A) /\ IsFiniteSet(B)
         /\ Cardinality(A) \in Nat /\ Cardinality(B) = Cardinality(A) + 1
<1>1. PICK x : B = A \cup {x} /\ x \notin A
  BY DEF OneMore
<1>2. IsFiniteSet(A)
  <2>1. A \subseteq B
    BY <1>1
  <2> QED BY <2>1, FS_Subset
<1> QED BY <1>1, <1>2, FS_AddElement, FS_CardinalityType



-----------------------------------------------------------------------------
(* Types.                                                                   *)

Slices == Spans \cup {"life", "poll"}
Work == [span : Spans \cup {None}, pred : Spans \cup {None}, data : Data,
         depth : 0 .. MaxDepth, flow : 0 .. MaxFlows]

LEMMA IdleType == Idle \in Work
<1>1. 0 \in 0 .. MaxDepth /\ 0 \in 0 .. MaxFlows
  <2>1. MaxDepth \in Nat /\ MaxFlows \in Nat
    BY LayerAssumption
  <2>2. \A n \in Nat : 0 \in 0 .. n
    OBVIOUS
  <2> QED BY <2>1, <2>2
<1> QED BY <1>1, BoxFacts DEF Idle, Work

LEMMA OpensFacts ==
  ASSUME stack \in [Spans \cup Threads -> Seq(Slices)], NEW x \in Spans \cup Threads,
         NEW v \in Slices, Opens(x, v)
  PROVE  /\ stack' \in [Spans \cup Threads -> Seq(Slices)]
         /\ stack'[x] = Append(stack[x], v)
         /\ \A y \in (Spans \cup Threads) \ {x} : stack'[y] = stack[y]
<1>1. Append(stack[x], v) \in Seq(Slices)
  <2>1. stack[x] \in Seq(Slices)
    OBVIOUS
  <2> QED BY <2>1, AppendProperties
<1> QED BY <1>1 DEF Opens

LEMMA ClosesFacts ==
  ASSUME stack \in [Spans \cup Threads -> Seq(Slices)], NEW x \in Spans \cup Threads,
         Closes(x)
  PROVE  /\ stack' \in [Spans \cup Threads -> Seq(Slices)]
         /\ stack'[x] = IF stack[x] = <<>> THEN stack[x] ELSE Front(stack[x])
         /\ \A y \in (Spans \cup Threads) \ {x} : stack'[y] = stack[y]
<1> DEFINE q == IF stack[x] = <<>> THEN stack[x] ELSE Front(stack[x])
<1>1. q \in Seq(Slices)
  <2>1. stack[x] \in Seq(Slices)
    OBVIOUS
  <2>2. stack[x] # <<>> => Front(stack[x]) \in Seq(Slices)
    BY <2>1, FrontFacts
  <2> QED BY <2>1, <2>2
<1>2. stack' = [stack EXCEPT ![x] = q]
  BY DEF Closes
<1> HIDE DEF q
<1>3. /\ stack' \in [Spans \cup Threads -> Seq(Slices)] /\ stack'[x] = q
      /\ \A y \in (Spans \cup Threads) \ {x} : stack'[y] = stack[y]
  BY <1>1, <1>2
<1> QED BY <1>3 DEF q

\* The ends that are queued are of flows that exist.
LEMMA WrittenType ==
  ASSUME FlowInv, TypeOK, NEW s \in Spans, NEW b,
         \A f \in Ends(b, "start") \cup Ends(b, "terminate") : f \in DOMAIN flows,
         WritesFlows(s, b)
  PROVE  /\ starts' \subseteq (1 .. Len(flows)) \X Spans
         /\ terms' \subseteq (1 .. Len(flows)) \X Spans
         /\ repeated' \in BOOLEAN
<1>1. DOMAIN flows = 1 .. Len(flows)
  BY LenProperties DEF TypeOK
<1>2. starts \subseteq (1 .. Len(flows)) \X Spans /\ terms \subseteq (1 .. Len(flows)) \X Spans
  BY DEF TypeOK
<1>3. repeated' \in BOOLEAN
  BY DEF WritesFlows, TypeOK
<1> QED BY <1>1, <1>2, <1>3 DEF WritesFlows

\* The variables that few actions change.
LEMMA TypeFrame ==
  ASSUME TypeOK, SpareOK',
         config' = config, hasError' \in BOOLEAN, hasFollows' \in BOOLEAN,
         store' \in [Spans -> Data], entered' \in [Threads -> Seq(Spans)],
         pc' \in [Threads -> {"idle", "attrs", "record", "start", "terminate"}],
         work' \in [Threads -> Work],
         status' \in [Spans -> {"none", "opening", "live", "closed"}],
         flows' \in Seq([from : Spans, to : Spans]),
         recorded' \subseteq Spans, ended' \subseteq Spans,
         stack' \in [Spans \cup Threads -> Seq(Slices)],
         starts' \subseteq (1 .. Len(flows')) \X Spans,
         terms' \subseteq (1 .. Len(flows')) \X Spans,
         shown' \in [Spans -> SUBSET Spans], repeated' \in BOOLEAN
  PROVE  TypeOK'
BY DEF TypeOK, SpareOK, Slices, Work

\* TypeOK, in the words of the lemmas.
LEMMA TypeFacts ==
  ASSUME TypeOK, StoreInv
  PROVE  /\ SpareOK /\ work \in [Threads -> Work]
         /\ stack \in [Spans \cup Threads -> Seq(Slices)]
BY DEF TypeOK, StoreInv, BoxesOwn, SpareOK, Slices, Work


-----------------------------------------------------------------------------
(* Frames of the mirror, and of the flows of a span whose box changes.      *)

LEMMA ViewSame ==
  ASSUME UNCHANGED <<config, entered>>,
         \A t \in Threads : pc'[t] = "attrs" <=> pc[t] = "attrs",
         \A t \in Threads : pc[t] = "attrs" => work'[t] = work[t]
  PROVE  View' = View
<1>1. \A t \in Threads : Borrowed(t)' <=> Borrowed(t)
  BY DEF Borrowed, SpanSlices
<1>2. \A t \in Threads : Borrowed(t) => work'[t] = work[t]
  BY DEF Borrowed
<1>3. \A t \in Threads : Visible(t)' = Visible(t)
  BY <1>1, <1>2 DEF Visible
<1> QED BY <1>3 DEF View

LEMMA MirrorFrame ==
  ASSUME MirrorInv, UNCHANGED <<config, stack, ended>>, hasError => hasError',
         View' = View,
         \A s \in Spans : status'[s] = "none" => status[s] = "none",
         \A t \in Threads : pc'[t] = "attrs" => pc[t] = "attrs" /\ work'[t] = work[t],
         \A s \in Spans : Stored(s)' /\ store'[s].tracked => Stored(s) /\ store[s].tracked
  PROVE  MirrorInv'
<1>1. \A s \in Spans : IsFiniteSet(Positions(View, s))'
  BY DEF MirrorInv
<1>2. \A s \in Spans : Polls(s)' = Polls(s)
  BY DEF Polls, ThreadSlices
<1>3. ASSUME ~hasError' PROVE Mirrors'
  <2>1. Mirrors
    BY <1>3 DEF MirrorInv
  <2>2. ThreadsMirror'
    BY <2>1 DEF Mirrors, ThreadsMirror, ThreadSlices
  <2>3. SpansMirror'
    BY <1>2, <2>1 DEF Mirrors, SpansMirror
  <2>4. EndedMirror' /\ NoneMirror'
    BY <2>1 DEF Mirrors, EndedMirror, NoneMirror
  <2>5. BeginMirror'
    BY <2>1 DEF Mirrors, BeginMirror, SpanSlices
  <2> QED BY <2>2, <2>3, <2>4, <2>5 DEF Mirrors
<1> QED BY <1>1, <1>3 DEF MirrorInv

LEMMA RecastQueued ==
  ASSUME TypeOK, NEW s \in Spans, NEW b, Recast(s, b)
  PROVE  /\ \A end : Queued(s, end)' = Ends(b, end)
         /\ \A r \in Spans \ {s} : \A end : Queued(r, end)' = Queued(r, end)
<1>1. /\ store'[s].box = b /\ Stored(s)'
      /\ \A r \in Spans \ {s} : store'[r] = store[r] /\ (Stored(r)' <=> Stored(r))
  BY RecastFacts DEF Recast
<1> QED BY <1>1 DEF Queued

\* No flow is queued on a span that is not stored.
LEMMA NoneQueued ==
  ASSUME NEW s, ~Stored(s), NEW end
  PROVE  Queued(s, end) = {}
BY DEF Queued

-----------------------------------------------------------------------------
(* The actions, one by one.                                                 *)

LEMMA StepWriterFails ==
  ASSUME IInv, WriterFails
  PROVE  IInv'
<1> USE DEF WriterFails
<1>0. TypeOK /\ BoundInv /\ StoreInv /\ CallInv /\ FieldInv /\ FlowInv /\ MirrorInv
  BY DEF IInv
<1>1. TypeOK'
  BY <1>0 DEF TypeOK
<1>2. BoundInv'
  BY <1>0 DEF BoundInv
<1>3. \A s \in Spans : Stored(s)' <=> Stored(s)
  BY DEF Stored
<1>4. SpareOK'
  BY <1>0, TypeFacts DEF SpareOK
<1>5. StoreInv'
  <2>1. \A r \in Spans : Stored(r) => BoxOwn(r, store'[r].box)
    BY <1>0 DEF StoreInv
  <2> QED BY <1>0, <1>3, <1>4, <2>1, StoreFrame
<1>6. CallInv'
  BY <1>0, <1>3, CallFrame DEF CallInv, OpeningInv, Opening, EnteredLive
<1>7. FieldInv'
  <2>1. recorded \subseteq Spans
    BY <1>0 DEF TypeOK
  <2> QED BY <1>0, <1>3, <2>1, FieldFrame
<1>8. FlowInv'
  <2>1. SameFlowCalls
    BY DEF SameFlowCalls
  <2>2. GoneStays
    BY <1>3 DEF GoneStays, Gone
  <2>3. \A s \in Spans : /\ Queued(s, "start")' = Queued(s, "start")
                         /\ Queued(s, "terminate")' = Queued(s, "terminate")
    BY <1>3 DEF Queued
  <2> QED BY <1>0, <2>1, <2>2, <2>3, FlowSame DEF CallInv, TypeOK
<1>9. MirrorInv'
  <2>1. View' = View
    BY ViewSame
  <2> QED BY <1>0, <1>3, <2>1, MirrorFrame
<1> QED BY <1>1, <1>2, <1>5, <1>6, <1>7, <1>8, <1>9 DEF IInv

\* The step of a flow's making: neither end is out yet.
LEMMA StepFollowsFrom ==
  ASSUME IInv, NEW t \in Threads, NEW s \in Spans, NEW p \in Spans, FollowsFrom(t, s, p)
  PROVE  IInv'
<1>0. TypeOK /\ BoundInv /\ StoreInv /\ CallInv /\ FieldInv /\ FlowInv /\ MirrorInv
  BY DEF IInv
<1>a. PICK n \in Nat : n = Len(flows) + 1
  BY <1>0, LenProperties DEF TypeOK
<1> DEFINE e == [from |-> p, to |-> s]
           w == [Idle EXCEPT !.span = s, !.pred = p, !.flow = n]
<1>1. /\ pc[t] = "idle" /\ ~hasError /\ status[s] = "live" /\ status[p] = "live"
      /\ Len(flows) < MaxFlows /\ hasFollows' = TRUE
      /\ flows' = Append(flows, e)
      /\ pc' = [pc EXCEPT ![t] = "start"]
      /\ UNCHANGED <<config, hasError, store, spare, registry, trace, recorded, repeated>>
  BY DEF FollowsFrom
<1>2. flows \in Seq([from : Spans, to : Spans]) /\ e \in [from : Spans, to : Spans]
  BY <1>0 DEF TypeOK
<1>3. /\ flows' \in Seq([from : Spans, to : Spans]) /\ Len(flows') = n
      /\ DOMAIN flows = 1 .. Len(flows) /\ Len(flows) \in Nat
      /\ DOMAIN flows' = 1 .. n
      /\ flows'[n] = e /\ \A i \in 1 .. Len(flows) : flows'[i] = flows[i]
  BY <1>1, <1>2, <1>a, AppendProperties, LenProperties
<1>4. work' = [work EXCEPT ![t] = w]
  BY <1>3 DEF FollowsFrom
<1>5. /\ w \in Work /\ w.span = s /\ w.pred = p /\ w.flow = n
  <2>1. n \in 0 .. MaxFlows
    <3>1. MaxFlows \in Nat
      BY LayerAssumption
    <3> QED BY <1>1, <1>3, <1>a, <3>1
  <2> QED BY <2>1, IdleType DEF Idle, Work
<1>6. /\ DOMAIN flows' = DOMAIN flows \cup {n} /\ n \notin DOMAIN flows
      /\ \A i \in DOMAIN flows : flows'[i] = flows[i]
      /\ n <= MaxFlows /\ DOMAIN flows \subseteq DOMAIN flows'
  <2>1. MaxFlows \in Nat
    BY LayerAssumption
  <2> QED BY <1>1, <1>3, <1>a, <2>1
<1>7. e.from = p /\ e.to = s
  OBVIOUS
<1>10. work \in [Threads -> Work] /\ SpareOK /\ stack \in [Spans \cup Threads -> Seq(Slices)]
  BY <1>0, TypeFacts
<1> HIDE DEF e, w
<1>11. TypeOK'
  <2>1. SpareOK'
    BY <1>1, <1>10 DEF SpareOK
  <2>2. work' \in [Threads -> Work]
    BY <1>4, <1>5, <1>10
  <2>3. /\ starts' \subseteq (1 .. Len(flows')) \X Spans
        /\ terms' \subseteq (1 .. Len(flows')) \X Spans
    BY <1>0, <1>1, <1>3, <1>6 DEF TypeOK
  <2>4. pc' \in [Threads -> {"idle", "attrs", "record", "start", "terminate"}]
    BY <1>0, <1>1 DEF TypeOK
  <2>5. stack' \in [Spans \cup Threads -> Seq(Slices)] /\ hasError' \in BOOLEAN
        /\ hasFollows' \in BOOLEAN
    BY <1>0, <1>1, <1>10 DEF TypeOK
  <2>6. /\ config' = config /\ store' \in [Spans -> Data] /\ entered' \in [Threads -> Seq(Spans)]
        /\ status' \in [Spans -> {"none", "opening", "live", "closed"}]
        /\ recorded' \subseteq Spans /\ ended' \subseteq Spans
        /\ shown' \in [Spans -> SUBSET Spans] /\ repeated' \in BOOLEAN
    BY <1>0, <1>1 DEF TypeOK
  <2> QED BY <1>0, <1>3, <2>1, <2>2, <2>3, <2>4, <2>5, <2>6, TypeFrame
<1>12. BoundInv'
  BY <1>0, <1>1, <1>3, <1>6 DEF BoundInv
<1>13. \A r \in Spans : Stored(r)' <=> Stored(r)
  BY <1>1 DEF Stored
<1>14. StoreInv'
  <2>1. SpareOK' /\ \A r \in Spans : Stored(r) => BoxOwn(r, store'[r].box)
    BY <1>0, <1>1, <1>10 DEF StoreInv, SpareOK
  <2>2. UNCHANGED <<status, ended, shown>> /\ (hasError => hasError')
    BY <1>1
  <2> QED BY <1>0, <1>13, <2>1, <2>2, StoreFrame
<1>15. \A o \in Threads \ {t} : pc'[o] = pc[o] /\ work'[o] = work[o]
  BY <1>0, <1>1, <1>4, <1>10 DEF TypeOK
<1>16. pc'[t] = "start" /\ work'[t] = w
  BY <1>0, <1>1, <1>4, <1>10 DEF TypeOK
<1>17. CallInv'
  <2>1. OpeningInv'
    BY <1>0, <1>1, <1>15, <1>16 DEF CallInv, OpeningInv, Opening, Begun, SpanSlices, ThreadSlices
  <2>2. RecordingInv'
    BY <1>0, <1>1, <1>13, <1>15, <1>16 DEF CallInv, RecordingInv, Recording
  <2>3. FlowingInv'
    <3>1. Flowing(t)'
      BY <1>1, <1>3, <1>5, <1>6, <1>16 DEF Flowing, e
    <3>2. ASSUME NEW o \in Threads \ {t}, InFlow(o)' PROVE Flowing(o)'
      <4>1. Flowing(o)
        BY <1>0, <1>15, <3>2 DEF CallInv, FlowingInv, InFlow
      <4> QED BY <1>1, <1>6, <1>15, <4>1 DEF Flowing
    <3> QED BY <3>1, <3>2 DEF FlowingInv
  <2>4. OneOpening'
    BY <1>0, <1>15, <1>16 DEF CallInv, OneOpening
  <2>5. OneFlowing'
    <3>1. \A o \in Threads \ {t} : InFlow(o) => work[o].flow # n
      BY <1>0, <1>6 DEF CallInv, FlowingInv, Flowing
    <3> QED BY <1>0, <1>5, <1>15, <1>16, <3>1 DEF CallInv, OneFlowing, InFlow
  <2>6. EnteredLive'
    BY <1>0, <1>1 DEF CallInv, EnteredLive
  <2> QED BY <2>1, <2>2, <2>3, <2>4, <2>5, <2>6 DEF CallInv
<1>18. FieldInv'
  <2>1. recorded \subseteq Spans
    BY <1>0 DEF TypeOK
  <2> QED BY <1>0, <1>1, <1>13, <2>1, FieldFrame
<1>19. FlowInv'
  <2>1. \A r \in Spans : \A end : Queued(r, end)' = Queued(r, end)
    BY <1>1, <1>13 DEF Queued
  <2>2. \A f \in DOMAIN flows : flows'[f].from \in Spans /\ flows'[f].to \in Spans
    BY <1>2, <1>6, FlowEnds
  <2>3. \A f \in DOMAIN flows : (StartOut(f)' <=> StartOut(f)) /\ (TermOut(f)' <=> TermOut(f))
    BY <1>1, <1>6, <2>1, <2>2 DEF StartOut, TermOut
  <2>4. ~StartOut(n)' /\ ~TermOut(n)'
    <3>1. flows'[n].from = p /\ flows'[n].to = s
      BY <1>3, <1>7
    <3>2. n \notin Queued(p, "start") /\ n \notin Queued(s, "terminate")
      BY <1>0, <1>6 DEF FlowInv, QueuedInv
    <3>3. <<n, p>> \notin starts' /\ <<n, s>> \notin terms'
      BY <1>0, <1>1, <1>3, <1>6 DEF TypeOK
    <3> QED BY <2>1, <3>1, <3>2, <3>3 DEF StartOut, TermOut
  <2>5. \A r \in Spans : Gone(r) => Gone(r)'
    BY <1>1, <1>13 DEF Gone
  <2>6. QueuedInv'
    BY <1>0, <1>1, <1>6, <2>1 DEF FlowInv, QueuedInv
  <2>7. WorkingInv'
    <3>1. ASSUME NEW o \in Threads \ {t}, InFlow(o)
          PROVE  work[o].flow \in DOMAIN flows /\ work[o].pred \in Spans
      BY <1>0, <3>1, FlowsNamed DEF CallInv
    <3>2. \A o \in Threads \ {t} : pc'[o] = "start" =>
             ~StartOut(work[o].flow)' /\ ~TermOut(work[o].flow)'
      BY <1>0, <1>15, <2>3, <3>1 DEF FlowInv, WorkingInv, InFlow
    <3>3. \A o \in Threads \ {t} : pc'[o] = "terminate" =>
             ~TermOut(work[o].flow)' /\ (StartOut(work[o].flow)' \/ Gone(work[o].pred)')
      BY <1>0, <1>15, <2>3, <2>5, <3>1 DEF FlowInv, WorkingInv, InFlow
    <3>4. ~StartOut(work[t].flow)' /\ ~TermOut(work[t].flow)'
      BY <1>5, <1>16, <2>4
    <3> QED BY <1>16, <3>2, <3>3, <3>4 DEF WorkingInv
  <2>8. SettledInv'
    <3>1. AtWork(n)'
      BY <1>5, <1>16 DEF AtWork, InFlow
    <3>2. \A f \in DOMAIN flows : AtWork(f) => AtWork(f)'
      BY <1>1, <1>15 DEF AtWork, InFlow
    <3>3. \A f \in DOMAIN flows : Dropped(f) => Dropped(f)'
      BY <2>3 DEF Dropped
    <3>4. \A f \in DOMAIN flows : Settled(f) => Settled(f)'
      BY <1>6, <2>2, <2>3, <2>5 DEF Settled
    <3> QED BY <1>0, <1>6, <3>1, <3>2, <3>3, <3>4 DEF FlowInv, SettledInv
  <2>9. FlowEndsRight'
    <3>1. \A x \in starts : x[1] \in DOMAIN flows
      BY <1>0, <1>3 DEF TypeOK
    <3>2. \A x \in terms : x[1] \in DOMAIN flows
      BY <1>0, <1>3 DEF TypeOK
    <3> QED BY <1>0, <1>1, <1>6, <3>1, <3>2 DEF FlowInv, FlowEndsRight
  <2> QED BY <2>6, <2>7, <2>8, <2>9 DEF FlowInv
<1>20. MirrorInv'
  <2>1. View' = View
    BY <1>1, <1>15, <1>16, ViewSame
  <2>2. \A o \in Threads : pc'[o] = "attrs" => pc[o] = "attrs" /\ work'[o] = work[o]
    BY <1>15, <1>16
  <2> QED BY <1>0, <1>1, <1>13, <2>1, <2>2, MirrorFrame
<1> QED BY <1>11, <1>12, <1>14, <1>17, <1>18, <1>19, <1>20 DEF IInv


\* The thread of a step that gives a stored span another box goes on or returns.
CallMoves(t) ==
  /\ \A o \in Threads \ {t} : pc'[o] = pc[o] /\ work'[o] = work[o]
  /\ \/ pc'[t] = "idle"
     \/ pc'[t] = "record" /\ Recording(t)'
     \/ InFlow(t) /\ pc'[t] \in {"start", "terminate"} /\ work'[t] = work[t]

LEMMA CallStep ==
  ASSUME CallInv, NEW t \in Threads, CallMoves(t),
         UNCHANGED <<config, status, flows, entered>>,
         \A r \in Spans : Stored(r) => Stored(r)',
         \A r \in Spans : store[r].box # NoBox => store'[r].box # NoBox
  PROVE  CallInv'
<1>1. OpeningInv'
  BY DEF CallInv, CallMoves, OpeningInv, Opening, Begun, SpanSlices, ThreadSlices
<1>2. RecordingInv'
  <2>1. ASSUME NEW o \in Threads \ {t}, pc'[o] = "record" PROVE Recording(o)'
    BY <2>1 DEF CallInv, CallMoves, RecordingInv, Recording
  <2>2. pc'[t] = "record" => Recording(t)'
    BY DEF CallMoves
  <2> QED BY <2>1, <2>2 DEF RecordingInv
<1>3. FlowingInv'
  <2>1. \A o \in Threads : InFlow(o)' => InFlow(o) /\ work'[o] = work[o]
    BY DEF CallMoves, InFlow
  <2> QED BY <2>1 DEF CallInv, FlowingInv, Flowing
<1>4. OneOpening' /\ EnteredLive'
  BY DEF CallInv, CallMoves, OneOpening, EnteredLive
<1>5. OneFlowing'
  <2>1. \A o \in Threads : InFlow(o)' => InFlow(o) /\ work'[o] = work[o]
    BY DEF CallMoves, InFlow
  <2> QED BY <2>1 DEF CallInv, OneFlowing
<1> QED BY <1>1, <1>2, <1>3, <1>4, <1>5 DEF CallInv

\* What a step that gives a stored span another box keeps, of the rest.
LEMMA RecastStep ==
  ASSUME IInv, NEW t \in Threads, NEW s \in Spans, NEW b, Recast(s, b), b # NoBox,
         SpareOK', CallMoves(t), pc[t] # "attrs",
         UNCHANGED <<config, hasError, hasFollows, registry, trace, flows, repeated>>,
         recorded' \subseteq Spans,
         pc' \in [Threads -> {"idle", "attrs", "record", "start", "terminate"}],
         work' \in [Threads -> Work]
  PROVE  /\ TypeOK' /\ BoundInv' /\ StoreInv' /\ CallInv' /\ MirrorInv'
         /\ GoneStays
<1>0. TypeOK /\ BoundInv /\ StoreInv /\ CallInv /\ FieldInv /\ FlowInv /\ MirrorInv
  BY DEF IInv
<1>1. /\ store' \in [Spans -> Data] /\ store'[s].box = b
      /\ \A r \in Spans : store'[r].tracked = store[r].tracked
      /\ \A r \in Spans \ {s} : store'[r] = store[r]
      /\ \A r \in Spans : Stored(r)' <=> Stored(r)
  BY <1>0, RecastFacts
<1>2. TypeOK'
  <2>1. stack' \in [Spans \cup Threads -> Seq(Slices)]
    BY <1>0, TypeFacts
  <2>2. /\ config' = config /\ hasError' \in BOOLEAN /\ hasFollows' \in BOOLEAN
        /\ entered' \in [Threads -> Seq(Spans)]
        /\ status' \in [Spans -> {"none", "opening", "live", "closed"}]
        /\ ended' \subseteq Spans
        /\ shown' \in [Spans -> SUBSET Spans] /\ repeated' \in BOOLEAN
    BY <1>0 DEF TypeOK
  <2>3. /\ flows' \in Seq([from : Spans, to : Spans])
        /\ starts' \subseteq (1 .. Len(flows')) \X Spans
        /\ terms' \subseteq (1 .. Len(flows')) \X Spans
    BY <1>0 DEF TypeOK
  <2> QED BY <1>0, <1>1, <2>1, <2>2, <2>3, TypeFrame
<1>3. BoundInv'
  BY <1>0 DEF BoundInv
<1>4. StoreInv'
  <2>1. BoxOwn(s, store'[s].box)
    BY <1>1 DEF Recast
  <2>2. \A r \in Spans : Stored(r) => BoxOwn(r, store'[r].box)
    BY <1>0, <1>1, <2>1 DEF StoreInv
  <2>3. hasError => hasError'
    OBVIOUS
  <2> QED BY <1>0, <1>1, <2>2, <2>3, StoreFrame
<1>5. CallInv'
  <2>1. \A r \in Spans : store[r].box # NoBox => store'[r].box # NoBox
    BY <1>1
  <2> QED BY <1>0, <1>1, <2>1, CallStep
<1>6. \A o \in Threads : (pc'[o] = "attrs" <=> pc[o] = "attrs")
        /\ (pc[o] = "attrs" => work'[o] = work[o])
  BY DEF CallMoves
<1>7. MirrorInv'
  <2>1. View' = View
    BY <1>6, ViewSame
  <2>2. \A o \in Threads : pc'[o] = "attrs" => pc[o] = "attrs" /\ work'[o] = work[o]
    BY <1>6
  <2> QED BY <1>0, <1>1, <2>1, <2>2, MirrorFrame
<1>8. GoneStays
  BY <1>1 DEF GoneStays, Gone
<1> QED BY <1>2, <1>3, <1>4, <1>5, <1>7, <1>8

LEMMA StepRecord ==
  ASSUME IInv, NEW t \in Threads, NEW s \in Spans, Record(t, s)
  PROVE  IInv'
<1>0. TypeOK /\ BoundInv /\ StoreInv /\ CallInv /\ FieldInv /\ FlowInv /\ MirrorInv
  BY DEF IInv
<1>1. /\ pc[t] = "idle" /\ Stored(s)
      /\ BoxKept(t, s, BoxOf(t, s))
      /\ pc' = [pc EXCEPT ![t] = "record"]
      /\ UNCHANGED <<config, hasError, hasFollows, registry, trace, histories>>
  BY DEF Record
<1> DEFINE w == [Idle EXCEPT !.span = s]
<1>2. work' = [work EXCEPT ![t] = w]
  BY DEF Record
<1>3. w \in Work /\ w.span = s
  BY IdleType DEF Idle, Work
<1> HIDE DEF w
<1>4. work \in [Threads -> Work]
  BY <1>0, TypeFacts
<1>5. PICK b : /\ b = BoxOf(t, s) /\ b \in Boxes /\ b # NoBox /\ BoxOwn(s, b)
               /\ b.fields = store[s].box.fields /\ b.flows = store[s].box.flows
  BY <1>0, <1>1, BoxOfFacts DEF BoxOwn
<1>6. Recast(s, b) /\ SpareOK'
  BY <1>0, <1>1, <1>5, KeptFacts DEF Recast
<1>7. /\ store'[s].box = b
      /\ \A r \in Spans \ {s} : store'[r] = store[r]
      /\ \A r \in Spans : Stored(r)' <=> Stored(r)
  BY <1>0, <1>6, RecastFacts
<1>8. CallMoves(t)
  <2>1. pc'[t] = "record" /\ work'[t] = w
    BY <1>0, <1>1, <1>2, <1>4 DEF TypeOK
  <2>2. \A o \in Threads \ {t} : pc'[o] = pc[o] /\ work'[o] = work[o]
    BY <1>0, <1>1, <1>2, <1>4 DEF TypeOK
  <2>3. Recording(t)'
    BY <1>1, <1>3, <1>5, <1>7, <2>1 DEF Recording
  <2> QED BY <2>1, <2>2, <2>3 DEF CallMoves
<1>9. /\ TypeOK' /\ BoundInv' /\ StoreInv' /\ CallInv' /\ MirrorInv'
      /\ GoneStays
  <2>1. recorded' \subseteq Spans /\ pc' \in [Threads -> {"idle", "attrs", "record", "start", "terminate"}]
    BY <1>0, <1>1 DEF TypeOK
  <2>2. work' \in [Threads -> Work]
    BY <1>2, <1>3, <1>4
  <2> QED BY <1>1, <1>5, <1>6, <1>8, <2>1, <2>2, RecastStep
<1>10. FieldInv'
  <2>1. recorded \subseteq Spans
    BY <1>0 DEF TypeOK
  <2>2. \A r \in Spans : store[r].box.fields \subseteq store'[r].box.fields
    BY <1>5, <1>7
  <2> QED BY <1>0, <1>1, <1>7, <2>1, <2>2, FieldFrame
<1>11. FlowInv'
  <2>1. SameFlowCalls
    BY <1>0, <1>1, <1>2, <1>4, <1>8 DEF SameFlowCalls, InFlow, TypeOK, CallMoves
  <2>2. \A r \in Spans : /\ Queued(r, "start")' = Queued(r, "start")
                         /\ Queued(r, "terminate")' = Queued(r, "terminate")
    <3>1. \A end : Queued(s, end)' = Queued(s, end)
      <4>1. \A end : Queued(s, end)' = Ends(b, end)
        BY <1>0, <1>6, RecastQueued
      <4>2. \A end : Queued(s, end) = Ends(store[s].box, end)
        BY <1>1 DEF Queued
      <4>3. \A end : Ends(b, end) = Ends(store[s].box, end)
        BY <1>5, SameEnds
      <4> QED BY <4>1, <4>2, <4>3
    <3> QED BY <1>0, <1>6, <3>1, RecastQueued
  <2> QED BY <1>0, <1>1, <1>9, <2>1, <2>2, FlowSame DEF CallInv, TypeOK
<1> QED BY <1>9, <1>10, <1>11 DEF IInv


\* The fields of a callback reach the box, which is there since the call began.
LEMMA StepRecorded ==
  ASSUME IInv, NEW t \in Threads, Recorded(t)
  PROVE  IInv'
<1>0. TypeOK /\ BoundInv /\ StoreInv /\ CallInv /\ FieldInv /\ FlowInv /\ MirrorInv
  BY DEF IInv
<1>1. pc[t] = "record"
  BY DEF Recorded
<1>2. PICK s \in Spans : s = work[t].span /\ Stored(s) /\ store[s].box # NoBox
  BY <1>0, <1>1 DEF CallInv, RecordingInv, Recording
<1>3. /\ pc' = [pc EXCEPT ![t] = "idle"] /\ work' = [work EXCEPT ![t] = Idle]
      /\ recorded' = recorded \cup {s}
      /\ UNCHANGED <<config, hasError, hasFollows, spare, registry, trace, flows, repeated>>
  BY <1>2 DEF Recorded
<1>4. work \in [Threads -> Work] /\ SpareOK
  BY <1>0, TypeFacts
<1>5. /\ store[s].box \in Boxes
      /\ store[s].box.fields \subseteq {s} /\ store[s].box.poll \in {None, s}
  BY <1>0, <1>2 DEF TypeOK, Data, StoreInv, BoxOwn
<1>6. PICK b : b = [store[s].box EXCEPT !.fields = @ \cup {s}]
  OBVIOUS
<1>7. /\ b \in Boxes /\ b.fields = store[s].box.fields \cup {s}
      /\ b.poll = store[s].box.poll /\ b.flows = store[s].box.flows
  BY <1>5, <1>6 DEF Boxes
<1>8. b # NoBox /\ BoxOwn(s, b)
  BY <1>5, <1>7, BoxFacts DEF BoxOwn
<1>9. SetBox(s, b)
  BY <1>0, <1>2, <1>6 DEF Recorded, SetBox, TypeOK, Data
<1>10. Recast(s, b) /\ SpareOK'
  BY <1>2, <1>3, <1>4, <1>7, <1>8, <1>9 DEF Recast, SpareOK
<1>11. /\ store'[s].box = b
       /\ \A r \in Spans \ {s} : store'[r] = store[r]
       /\ \A r \in Spans : Stored(r)' <=> Stored(r)
  BY <1>0, <1>10, RecastFacts
<1>12. CallMoves(t)
  BY <1>0, <1>3, <1>4 DEF TypeOK, CallMoves
<1>13. /\ TypeOK' /\ BoundInv' /\ StoreInv' /\ CallInv' /\ MirrorInv'
       /\ GoneStays
  <2>1. recorded' \subseteq Spans /\ pc' \in [Threads -> {"idle", "attrs", "record", "start", "terminate"}]
    BY <1>0, <1>3 DEF TypeOK
  <2>2. work' \in [Threads -> Work]
    BY <1>3, <1>4, IdleType
  <2> QED BY <1>1, <1>3, <1>8, <1>10, <1>12, <2>1, <2>2, RecastStep
<1>14. FieldInv'
  <2>1. recorded \subseteq Spans
    BY <1>0 DEF TypeOK
  <2>2. status[s] = "live" /\ s \notin ended
    BY <1>0, <1>2 DEF StoreInv
  <2>3. s \in store'[s].box.fields
    BY <1>7, <1>11
  <2> QED BY <1>0, <1>3, <1>11, <2>1, <2>2, <2>3 DEF FieldInv
<1>15. FlowInv'
  <2>1. SameFlowCalls
    BY <1>0, <1>1, <1>3, <1>4, <1>12 DEF SameFlowCalls, InFlow, TypeOK, CallMoves
  <2>2. \A r \in Spans : /\ Queued(r, "start")' = Queued(r, "start")
                         /\ Queued(r, "terminate")' = Queued(r, "terminate")
    <3>1. \A end : Queued(s, end)' = Queued(s, end)
      <4>1. \A end : Queued(s, end)' = Ends(b, end)
        BY <1>0, <1>10, RecastQueued
      <4>2. \A end : Queued(s, end) = Ends(store[s].box, end)
        BY <1>2 DEF Queued
      <4>3. \A end : Ends(b, end) = Ends(store[s].box, end)
        BY <1>7, SameEnds
      <4> QED BY <4>1, <4>2, <4>3
    <3> QED BY <1>0, <1>10, <3>1, RecastQueued
  <2> QED BY <1>0, <1>3, <1>13, <2>1, <2>2, FlowSame DEF CallInv, TypeOK
<1> QED BY <1>13, <1>14, <1>15 DEF IInv

\* queue_flow adds the flow to the ends of the span, and keeps the fields.
LEMMA QueuesFacts ==
  ASSUME IInv, NEW t \in Threads, NEW s \in Spans, Stored(s), InFlow(t),
         NEW end \in {"start", "terminate"}, Queues(t, s, end)
  PROVE  /\ SpareOK'
         /\ \E b : /\ Recast(s, b) /\ b # NoBox /\ b.fields = store[s].box.fields
                   /\ Ends(b, end) = Queued(s, end) \cup {work[t].flow}
                   /\ \A other : other # end => Ends(b, other) = Queued(s, other)
<1>0. TypeOK /\ StoreInv /\ CallInv
  BY DEF IInv
<1> DEFINE End == [end : {"start", "terminate"}, id : 1 .. MaxFlows]
<1>1. PICK c : /\ c = BoxOf(t, s) /\ c \in Boxes /\ c # NoBox
               /\ c.fields = store[s].box.fields /\ c.flows = store[s].box.flows
               /\ c.fields \subseteq {s} /\ c.poll \in {None, s}
  BY <1>0, BoxOfFacts
<1>2. PICK e : e = [end |-> end, id |-> work[t].flow]
  OBVIOUS
<1>3. e \in End
  <2>1. work[t].flow \in 1 .. Len(flows) /\ Len(flows) \in Nat /\ Len(flows) <= MaxFlows
    BY <1>0, FlowsNamed, LenProperties DEF CallInv, TypeOK, IInv, BoundInv
  <2>2. MaxFlows \in Nat
    BY LayerAssumption
  <2>3. work[t].flow \in 1 .. MaxFlows
    BY <2>1, <2>2
  <2> QED BY <1>2, <2>3
<1>4. c.flows \in Seq(End)
  BY <1>1 DEF Boxes
<1>5. PICK b : b = [c EXCEPT !.flows = Append(c.flows, e)]
  OBVIOUS
<1>6. /\ b \in Boxes /\ b.fields = c.fields /\ b.poll = c.poll
      /\ b.flows = Append(c.flows, e)
  <2>1. Append(c.flows, e) \in Seq(End)
    BY <1>3, <1>4, AppendProperties
  <2> QED BY <1>1, <1>5, <2>1 DEF Boxes
<1>7. BoxKept(t, s, b)
  BY <1>1, <1>2, <1>5 DEF Queues
<1>8. SetBox(s, b) /\ SpareOK'
  BY <1>0, <1>7, KeptFacts
<1>9. b # NoBox /\ BoxOwn(s, b)
  BY <1>1, <1>6, BoxFacts DEF BoxOwn
<1>10. Recast(s, b)
  BY <1>6, <1>8, <1>9 DEF Recast
<1>11. /\ Ends(b, end) = Ends(c, end) \cup {work[t].flow}
       /\ \A other : other # end => Ends(b, other) = Ends(c, other)
  <2>1. e.end = end /\ e.id = work[t].flow
    BY <1>2
  <2>2. b.flows = Append(c.flows, e)
    BY <1>6
  <2>3. Longer(c, b, end, work[t].flow)
    BY <1>3, <1>4, <2>1, <2>2 DEF Longer
  <2> QED BY <2>3, MoreEnds
<1>12. \A x : Ends(c, x) = Queued(s, x)
  <2>1. \A x : Ends(c, x) = Ends(store[s].box, x)
    BY <1>1, SameEnds
  <2> QED BY <2>1 DEF Queued
<1>13. b.fields = store[s].box.fields
  BY <1>1, <1>6
<1>14. /\ Ends(b, end) = Queued(s, end) \cup {work[t].flow}
       /\ \A other : other # end => Ends(b, other) = Queued(s, other)
  BY <1>11, <1>12
<1> QED BY <1>8, <1>9, <1>10, <1>13, <1>14


\* A step of the call that makes flow f.
LEMMA FlowOfOne ==
  ASSUME FlowInv, FlowingInv, OneFlowing, flows \in Seq([from : Spans, to : Spans]),
         NEW t \in Threads, InFlow(t), NEW f, f = work[t].flow,
         UNCHANGED <<flows, starts, terms, repeated>>, GoneStays,
         \A o \in Threads \ {t} : pc'[o] = pc[o] /\ work'[o] = work[o],
         \A e \in DOMAIN flows \ {f} :
           (StartOut(e)' <=> StartOut(e)) /\ (TermOut(e)' <=> TermOut(e)),
         QueuedInv', pc'[t] # "start",
         pc'[t] = "terminate" =>
           /\ work'[t] = work[t]
           /\ ~TermOut(f)' /\ (StartOut(f)' \/ Gone(work[t].pred)'),
         AtWork(f)' \/ Dropped(f)' \/ Settled(f)'
  PROVE  FlowInv'
<1>1. FlowEndsRight'
  BY DEF FlowInv, FlowEndsRight
<1>2. \A e \in DOMAIN flows : flows[e].from \in Spans /\ flows[e].to \in Spans
  BY FlowEnds
<1>3. \A o \in Threads \ {t} : InFlow(o) =>
        work[o].flow \in DOMAIN flows \ {f} /\ work[o].pred \in Spans
  BY FlowsNamed DEF OneFlowing
<1>4. WorkingInv'
  <2>1. ASSUME NEW o \in Threads \ {t}, pc'[o] = "start"
        PROVE  ~StartOut(work[o].flow)' /\ ~TermOut(work[o].flow)'
    BY <1>3, <2>1 DEF FlowInv, WorkingInv, InFlow
  <2>2. ASSUME NEW o \in Threads \ {t}, pc'[o] = "terminate"
        PROVE  ~TermOut(work[o].flow)' /\ (StartOut(work[o].flow)' \/ Gone(work[o].pred)')
    BY <1>3, <2>2 DEF FlowInv, WorkingInv, InFlow, GoneStays
  <2>3. pc'[t] = "terminate" =>
          ~TermOut(work[t].flow)' /\ (StartOut(work[t].flow)' \/ Gone(work[t].pred)')
    OBVIOUS
  <2> QED BY <2>1, <2>2, <2>3 DEF WorkingInv
<1>5. SettledInv'
  <2>1. ASSUME NEW e \in DOMAIN flows \ {f}, AtWork(e) PROVE AtWork(e)'
    BY <2>1 DEF AtWork, InFlow
  <2>2. ASSUME NEW e \in DOMAIN flows \ {f}, Dropped(e) PROVE Dropped(e)'
    BY <2>2 DEF Dropped
  <2>3. ASSUME NEW e \in DOMAIN flows \ {f}, Settled(e) PROVE Settled(e)'
    BY <1>2, <2>3 DEF Settled, GoneStays
  <2> QED BY <2>1, <2>2, <2>3 DEF FlowInv, SettledInv
<1> QED BY <1>1, <1>4, <1>5 DEF FlowInv

\* The call is over, and its end of the flow had no box to be queued in.
LEMMA StepQueueNone ==
  ASSUME IInv, NEW t \in Threads, InFlow(t),
         pc' = [pc EXCEPT ![t] = "idle"], work' = [work EXCEPT ![t] = Idle],
         UNCHANGED <<config, hasError, hasFollows, store, spare, registry, trace, histories>>,
         Dropped(work[t].flow) \/ Settled(work[t].flow)
  PROVE  IInv'
<1>0. TypeOK /\ BoundInv /\ StoreInv /\ CallInv /\ FieldInv /\ FlowInv /\ MirrorInv
  BY DEF IInv
<1>1. PICK f \in DOMAIN flows : f = work[t].flow
  BY <1>0, FlowsNamed DEF CallInv
<1>2. work \in [Threads -> Work] /\ SpareOK /\ stack \in [Spans \cup Threads -> Seq(Slices)]
  BY <1>0, TypeFacts
<1>3. flows \in Seq([from : Spans, to : Spans]) /\ recorded \subseteq Spans
  BY <1>0 DEF TypeOK
<1>4. /\ \A r \in Spans : Stored(r)' <=> Stored(r)
      /\ \A r \in Spans : \A end : Queued(r, end)' = Queued(r, end)
  BY DEF Stored, Queued
<1>5. CallMoves(t) /\ pc'[t] = "idle"
  BY <1>0, <1>2 DEF TypeOK, CallMoves
<1>6. TypeOK'
  <2>1. pc' \in [Threads -> {"idle", "attrs", "record", "start", "terminate"}]
    BY <1>0 DEF TypeOK
  <2>2. work' \in [Threads -> Work]
    BY <1>2, IdleType
  <2>3. SpareOK'
    BY <1>2 DEF SpareOK
  <2>4. /\ config' = config /\ hasError' \in BOOLEAN /\ hasFollows' \in BOOLEAN
        /\ store' \in [Spans -> Data] /\ entered' \in [Threads -> Seq(Spans)]
        /\ status' \in [Spans -> {"none", "opening", "live", "closed"}]
        /\ recorded' \subseteq Spans /\ ended' \subseteq Spans
        /\ shown' \in [Spans -> SUBSET Spans] /\ repeated' \in BOOLEAN
    BY <1>0 DEF TypeOK
  <2>5. /\ starts' \subseteq (1 .. Len(flows')) \X Spans
        /\ terms' \subseteq (1 .. Len(flows')) \X Spans
    BY <1>0 DEF TypeOK
  <2> QED BY <1>0, <1>2, <1>3, <2>1, <2>2, <2>3, <2>4, <2>5, TypeFrame
<1>7. BoundInv'
  BY <1>0 DEF BoundInv
<1>8. StoreInv'
  <2>1. SpareOK' /\ \A r \in Spans : Stored(r) => BoxOwn(r, store'[r].box)
    BY <1>0, <1>2 DEF StoreInv, SpareOK
  <2>2. hasError => hasError'
    OBVIOUS
  <2> QED BY <1>0, <1>4, <2>1, <2>2, StoreFrame
<1>9. CallInv'
  BY <1>0, <1>4, <1>5, CallStep
<1>10. FieldInv'
  BY <1>0, <1>3, <1>4, FieldFrame
<1>11. GoneStays
  BY <1>4 DEF GoneStays, Gone
<1>12. FlowInv'
  <2>1. \A e \in DOMAIN flows : (StartOut(e)' <=> StartOut(e)) /\ (TermOut(e)' <=> TermOut(e))
    BY <1>3, <1>4, FlowEnds DEF StartOut, TermOut
  <2>2. QueuedInv'
    BY <1>0, <1>4 DEF FlowInv, QueuedInv
  <2>3. Dropped(f)' \/ Settled(f)'
    BY <1>1, <1>3, <1>11, <2>1, FlowEnds DEF Dropped, Settled, GoneStays
  <2>4. \A o \in Threads \ {t} : pc'[o] = pc[o] /\ work'[o] = work[o]
    BY <1>5 DEF CallMoves
  <2> QED BY <1>0, <1>1, <1>3, <1>5, <1>11, <2>1, <2>2, <2>3, <2>4, FlowOfOne DEF CallInv
<1>13. MirrorInv'
  <2>1. \A o \in Threads : (pc'[o] = "attrs" <=> pc[o] = "attrs")
          /\ (pc[o] = "attrs" => work'[o] = work[o])
    BY <1>5 DEF CallMoves, InFlow
  <2>2. View' = View
    BY <2>1, ViewSame
  <2>3. hasError => hasError'
    OBVIOUS
  <2> QED BY <1>0, <1>4, <2>1, <2>2, <2>3, MirrorFrame
<1> QED BY <1>6, <1>7, <1>8, <1>9, <1>10, <1>12, <1>13 DEF IInv

\* The start of a flow is queued on its predecessor, or the flow is dropped.
LEMMA StepQueueStart ==
  ASSUME IInv, NEW t \in Threads, QueueStart(t)
  PROVE  IInv'
<1>0. TypeOK /\ BoundInv /\ StoreInv /\ CallInv /\ FieldInv /\ FlowInv /\ MirrorInv
  BY DEF IInv
<1>1. /\ pc[t] = "start" /\ InFlow(t)
      /\ UNCHANGED <<config, hasError, hasFollows, registry, trace, histories>>
  BY DEF QueueStart, InFlow
<1>2. PICK s \in Spans : s = work[t].pred
  BY <1>0, <1>1, FlowsNamed DEF CallInv
<1>3. PICK f \in DOMAIN flows : f = work[t].flow
  BY <1>0, <1>1, FlowsNamed DEF CallInv
<1>4. flows[f].from = s /\ flows[f].to = work[t].span
  BY <1>0, <1>1, <1>2, <1>3, FlowsNamed DEF CallInv
<1>5. ~StartOut(f) /\ ~TermOut(f)
  BY <1>0, <1>1, <1>3 DEF FlowInv, WorkingInv
<1>6. work \in [Threads -> Work] /\ SpareOK
  BY <1>0, TypeFacts
<1>7. flows \in Seq([from : Spans, to : Spans]) /\ recorded \subseteq Spans
  BY <1>0 DEF TypeOK
<1>8. CASE Stored(s)
  <2>1. /\ Queues(t, s, "start") /\ pc' = [pc EXCEPT ![t] = "terminate"] /\ work' = work
    BY <1>2, <1>8 DEF QueueStart
  <2>2. SpareOK'
    BY <1>1, <1>8, <2>1, QueuesFacts
  <2>3. PICK b : /\ Recast(s, b) /\ b # NoBox /\ b.fields = store[s].box.fields
                 /\ Ends(b, "start") = Queued(s, "start") \cup {work[t].flow}
                 /\ \A other : other # "start" => Ends(b, other) = Queued(s, other)
    BY <1>1, <1>8, <2>1, QueuesFacts
  <2>4. /\ store'[s].box = b
        /\ \A r \in Spans \ {s} : store'[r] = store[r]
        /\ \A r \in Spans : Stored(r)' <=> Stored(r)
    BY <1>0, <2>3, RecastFacts
  <2>5. CallMoves(t)
    BY <1>0, <1>1, <2>1 DEF TypeOK, CallMoves
  <2>6. /\ TypeOK' /\ BoundInv' /\ StoreInv' /\ CallInv' /\ MirrorInv'
        /\ GoneStays
    <3>1. pc' \in [Threads -> {"idle", "attrs", "record", "start", "terminate"}]
      BY <1>0, <2>1 DEF TypeOK
    <3> QED BY <1>1, <1>6, <1>7, <2>1, <2>2, <2>3, <2>5, <3>1, RecastStep
  <2>7. FieldInv'
    <3>1. \A r \in Spans : store[r].box.fields \subseteq store'[r].box.fields
      BY <2>3, <2>4
    <3> QED BY <1>0, <1>1, <1>7, <2>4, <3>1, FieldFrame
  <2>8. /\ Queued(s, "start")' = Queued(s, "start") \cup {f}
        /\ Queued(s, "terminate")' = Queued(s, "terminate")
        /\ \A r \in Spans \ {s} : /\ Queued(r, "start")' = Queued(r, "start")
                                  /\ Queued(r, "terminate")' = Queued(r, "terminate")
    BY <1>0, <1>3, <2>3, RecastQueued
  <2>9. FlowInv'
    <3>1. /\ \A e \in DOMAIN flows \ {f} : StartOut(e)' <=> StartOut(e)
          /\ \A e \in DOMAIN flows : TermOut(e)' <=> TermOut(e)
          /\ StartOut(f)'
      BY <1>1, <1>4, <1>7, <2>8, FlowEnds DEF StartOut, TermOut
    <3>2. QueuedInv'
      <4>1. <<f, s>> \notin starts
        BY <1>4, <1>5 DEF StartOut
      <4> QED BY <1>0, <1>1, <1>4, <2>8, <4>1 DEF FlowInv, QueuedInv
    <3>3. pc'[t] = "terminate" /\ InFlow(t)'
      BY <1>0, <2>1 DEF TypeOK, InFlow
    <3>4. AtWork(f)'
      BY <1>3, <2>1, <3>3 DEF AtWork
    <3>5. ~TermOut(f)' /\ StartOut(f)' /\ work'[t] = work[t]
      BY <1>5, <2>1, <3>1
    <3>6. \A o \in Threads \ {t} : pc'[o] = pc[o] /\ work'[o] = work[o]
      BY <2>5 DEF CallMoves
    <3> QED BY <1>0, <1>1, <1>3, <1>7, <2>6, <3>1, <3>2, <3>3, <3>4, <3>5, <3>6, FlowOfOne
            DEF CallInv
  <2> QED BY <2>6, <2>7, <2>9 DEF IInv
<1>9. CASE ~Stored(s)
  <2>1. /\ pc' = [pc EXCEPT ![t] = "idle"] /\ work' = [work EXCEPT ![t] = Idle]
        /\ UNCHANGED <<store, spare>>
    BY <1>2, <1>9 DEF QueueStart
  <2> QED BY <1>1, <2>1, <1>3, <1>5, StepQueueNone DEF Dropped
<1> QED BY <1>8, <1>9

\* The terminate is queued on the span itself, where the start is out or past.
LEMMA StepQueueTerminate ==
  ASSUME IInv, NEW t \in Threads, QueueTerminate(t)
  PROVE  IInv'
<1>0. TypeOK /\ BoundInv /\ StoreInv /\ CallInv /\ FieldInv /\ FlowInv /\ MirrorInv
  BY DEF IInv
<1>1. /\ pc[t] = "terminate" /\ InFlow(t)
      /\ pc' = [pc EXCEPT ![t] = "idle"] /\ work' = [work EXCEPT ![t] = Idle]
      /\ UNCHANGED <<config, hasError, hasFollows, registry, trace, histories>>
  BY DEF QueueTerminate, InFlow
<1>2. PICK s \in Spans : s = work[t].span
  BY <1>0, <1>1, FlowsNamed DEF CallInv
<1>3. PICK f \in DOMAIN flows : f = work[t].flow
  BY <1>0, <1>1, FlowsNamed DEF CallInv
<1>4. flows[f].to = s /\ flows[f].from = work[t].pred /\ work[t].pred \in Spans
  BY <1>0, <1>1, <1>2, <1>3, FlowsNamed DEF CallInv
<1>5. ~TermOut(f) /\ (StartOut(f) \/ Gone(flows[f].from)) /\ status[s] = "live"
  BY <1>0, <1>1, <1>2, <1>3, <1>4 DEF FlowInv, WorkingInv, CallInv, FlowingInv, Flowing
<1>6. work \in [Threads -> Work] /\ SpareOK
  BY <1>0, TypeFacts
<1>7. flows \in Seq([from : Spans, to : Spans]) /\ recorded \subseteq Spans
  BY <1>0 DEF TypeOK
<1>8. CASE Stored(s)
  <2>1. Queues(t, s, "terminate")
    BY <1>2, <1>8 DEF QueueTerminate
  <2>2. SpareOK'
    BY <1>1, <1>8, <2>1, QueuesFacts
  <2>3. PICK b : /\ Recast(s, b) /\ b # NoBox /\ b.fields = store[s].box.fields
                 /\ Ends(b, "terminate") = Queued(s, "terminate") \cup {work[t].flow}
                 /\ \A other : other # "terminate" => Ends(b, other) = Queued(s, other)
    BY <1>1, <1>8, <2>1, QueuesFacts
  <2>4. /\ store'[s].box = b
        /\ \A r \in Spans \ {s} : store'[r] = store[r]
        /\ \A r \in Spans : Stored(r)' <=> Stored(r)
    BY <1>0, <2>3, RecastFacts
  <2>5. CallMoves(t) /\ pc'[t] = "idle"
    BY <1>0, <1>1, <1>6 DEF TypeOK, CallMoves
  <2>6. /\ TypeOK' /\ BoundInv' /\ StoreInv' /\ CallInv' /\ MirrorInv'
        /\ GoneStays
    <3>1. pc' \in [Threads -> {"idle", "attrs", "record", "start", "terminate"}]
      BY <1>0, <1>1 DEF TypeOK
    <3>2. work' \in [Threads -> Work]
      BY <1>1, <1>6, IdleType
    <3> QED BY <1>1, <1>7, <2>2, <2>3, <2>5, <3>1, <3>2, RecastStep
  <2>7. FieldInv'
    <3>1. \A r \in Spans : store[r].box.fields \subseteq store'[r].box.fields
      BY <2>3, <2>4
    <3> QED BY <1>0, <1>1, <1>7, <2>4, <3>1, FieldFrame
  <2>8. /\ Queued(s, "terminate")' = Queued(s, "terminate") \cup {f}
        /\ Queued(s, "start")' = Queued(s, "start")
        /\ \A r \in Spans \ {s} : /\ Queued(r, "start")' = Queued(r, "start")
                                  /\ Queued(r, "terminate")' = Queued(r, "terminate")
    BY <1>0, <1>3, <2>3, RecastQueued
  <2>9. FlowInv'
    <3>1. /\ \A e \in DOMAIN flows : StartOut(e)' <=> StartOut(e)
          /\ \A e \in DOMAIN flows \ {f} : TermOut(e)' <=> TermOut(e)
          /\ TermOut(f)'
      BY <1>1, <1>4, <1>7, <2>8, FlowEnds DEF StartOut, TermOut
    <3>2. QueuedInv'
      <4>1. <<f, s>> \notin terms
        BY <1>4, <1>5 DEF TermOut
      <4> QED BY <1>0, <1>1, <1>4, <2>8, <4>1 DEF FlowInv, QueuedInv
    <3>3. Settled(f)'
      BY <1>1, <1>4, <1>5, <2>6, <3>1 DEF Settled, GoneStays
    <3>4. \A o \in Threads \ {t} : pc'[o] = pc[o] /\ work'[o] = work[o]
      BY <2>5 DEF CallMoves
    <3> QED BY <1>0, <1>1, <1>3, <1>7, <2>5, <2>6, <3>1, <3>2, <3>3, <3>4, FlowOfOne
            DEF CallInv
  <2> QED BY <2>6, <2>7, <2>9 DEF IInv
<1>9. CASE ~Stored(s)
  <2>1. UNCHANGED <<store, spare>>
    BY <1>2, <1>9 DEF QueueTerminate
  <2>2. Gone(s)
    BY <1>0, <1>5, <1>9 DEF Gone, StoreInv
  <2>3. Settled(f)
    BY <1>4, <1>5, <2>2 DEF Settled
  <2> QED BY <1>1, <1>3, <2>1, <2>3, StepQueueNone
<1> QED BY <1>8, <1>9


\* A span that is new to the registry, or still opening, was seen by no one.
LEMMA Unseen ==
  ASSUME StoreInv, CallInv, FieldInv, NEW s \in Spans, status[s] \in {"none", "opening"}
  PROVE  /\ ~Stored(s) /\ s \notin ended /\ s \notin recorded
         /\ \A o \in Threads : \A i \in DOMAIN entered[o] : entered[o][i] # s
         /\ \A o \in Threads : pc[o] = "record" => work[o].span # s
         /\ \A o \in Threads : InFlow(o) => work[o].span # s /\ work[o].pred # s
         /\ status[s] = "none" => \A o \in Threads : pc[o] = "attrs" => work[o].span # s
<1>1. ~Stored(s) /\ s \notin ended
  BY DEF StoreInv
<1>2. s \notin recorded
  BY DEF FieldInv
<1>3. \A o \in Threads : \A i \in DOMAIN entered[o] : entered[o][i] # s
  BY DEF CallInv, EnteredLive
<1>4. \A o \in Threads : pc[o] = "record" => work[o].span # s
  BY <1>1 DEF CallInv, RecordingInv, Recording
<1>5. \A o \in Threads : InFlow(o) => work[o].span # s /\ work[o].pred # s
  BY DEF CallInv, FlowingInv, Flowing
<1>6. status[s] = "none" => \A o \in Threads : pc[o] = "attrs" => work[o].span # s
  BY DEF CallInv, OpeningInv, Opening
<1> QED BY <1>1, <1>2, <1>3, <1>4, <1>5, <1>6

\* A span without a lifetime slice: it has no flows and no fields yet.
LEMMA StepNewUntracked ==
  ASSUME IInv, NEW t \in Threads, NEW s \in Spans, NewUntracked(t, s)
  PROVE  IInv'
<1>0. TypeOK /\ BoundInv /\ StoreInv /\ CallInv /\ FieldInv /\ FlowInv /\ MirrorInv
  BY DEF IInv
<1>1. /\ status[s] = "none" /\ status' = [status EXCEPT ![s] = "live"]
      /\ UNCHANGED <<config, hasError, hasFollows, spare, pc, work, entered, trace, histories>>
  BY DEF NewUntracked
<1>2. /\ ~Stored(s) /\ s \notin ended /\ s \notin recorded
      /\ \A o \in Threads : pc[o] = "attrs" => work[o].span # s
      /\ \A o \in Threads : \A i \in DOMAIN entered[o] : entered[o][i] # s
      /\ \A o \in Threads : InFlow(o) => work[o].span # s /\ work[o].pred # s
  BY <1>0, <1>1, Unseen
<1>3. SpareOK /\ stack \in [Spans \cup Threads -> Seq(Slices)] /\ work \in [Threads -> Work]
  BY <1>0, TypeFacts
<1>4. PICK b : b = IF ThreadSlices THEN [EmptyBox EXCEPT !.poll = s] ELSE NoBox
  OBVIOUS
<1>5. b \in Boxes /\ b.flows = <<>> /\ b.poll # "no data" /\ BoxOwn(s, b)
  BY <1>4, PollBox, BoxFacts DEF BoxOwn
<1>6. (hasError /\ store' = store) \/ SetBox(s, b)
  BY <1>4 DEF NewUntracked, SetBox
<1>7. store[s] = NoData /\ store[s].tracked = FALSE /\ store \in [Spans -> Data]
  BY <1>0, <1>2, BoxFacts DEF Stored, TypeOK
<1>8. /\ store' \in [Spans -> Data] /\ store'[s].tracked = FALSE
      /\ \A r \in Spans \ {s} : store'[r] = store[r]
      /\ ~hasError => Stored(s)'
      /\ Stored(s)' => store'[s].box = b
  <2>1. CASE hasError /\ store' = store
    BY <1>2, <1>7, <2>1 DEF Stored
  <2>2. CASE SetBox(s, b)
    BY <1>0, <1>5, <1>7, <2>2, BoxChange
  <2> QED BY <1>6, <2>1, <2>2
<1>9. \A r \in Spans \ {s} : Stored(r)' <=> Stored(r)
  BY <1>8 DEF Stored
<1>10. status'[s] = "live" /\ \A r \in Spans \ {s} : status'[r] = status[r]
  BY <1>0, <1>1 DEF TypeOK
<1>11. TypeOK'
  <2>1. SpareOK' /\ status' \in [Spans -> {"none", "opening", "live", "closed"}]
    BY <1>0, <1>1, <1>3 DEF SpareOK, TypeOK
  <2>2. /\ config' = config /\ hasError' \in BOOLEAN /\ hasFollows' \in BOOLEAN
        /\ entered' \in [Threads -> Seq(Spans)]
        /\ pc' \in [Threads -> {"idle", "attrs", "record", "start", "terminate"}]
        /\ recorded' \subseteq Spans /\ ended' \subseteq Spans
        /\ shown' \in [Spans -> SUBSET Spans] /\ repeated' \in BOOLEAN
    BY <1>0, <1>1 DEF TypeOK
  <2>3. /\ flows' \in Seq([from : Spans, to : Spans])
        /\ starts' \subseteq (1 .. Len(flows')) \X Spans
        /\ terms' \subseteq (1 .. Len(flows')) \X Spans
    BY <1>0, <1>1 DEF TypeOK
  <2>4. stack' \in [Spans \cup Threads -> Seq(Slices)] /\ work' \in [Threads -> Work]
    BY <1>1, <1>3
  <2> QED BY <1>0, <1>8, <2>1, <2>2, <2>3, <2>4, TypeFrame
<1>12. BoundInv'
  BY <1>0, <1>1 DEF BoundInv
<1>13. StoreInv'
  <2>1. \A r \in Spans : Stored(r)' => status'[r] = "live" /\ BoxOwn(r, store[r].box)'
    <3>1. Stored(s)' => BoxOwn(s, store[s].box)'
      BY <1>5, <1>8 DEF BoxOwn
    <3>2. \A r \in Spans \ {s} : Stored(r)' => status'[r] = "live" /\ BoxOwn(r, store[r].box)'
      BY <1>0, <1>8, <1>9, <1>10 DEF StoreInv, BoxOwn
    <3> QED BY <1>10, <3>1, <3>2
  <2>2. \A r \in Spans : status'[r] = "live" /\ ~hasError' => Stored(r)'
    BY <1>0, <1>1, <1>8, <1>9, <1>10 DEF StoreInv
  <2>3. \A r \in ended' : status'[r] = "closed"
    BY <1>0, <1>1, <1>2, <1>10 DEF StoreInv, TypeOK
  <2>4. BoxesOwn'
    BY <1>0, <1>1 DEF StoreInv, BoxesOwn
  <2> QED BY <2>1, <2>2, <2>3, <2>4 DEF StoreInv
<1>14. CallInv'
  <2>1. OpeningInv'
    BY <1>0, <1>1, <1>2, <1>10 DEF CallInv, OpeningInv, Opening, Begun, SpanSlices, ThreadSlices
  <2>2. RecordingInv'
    BY <1>0, <1>1, <1>2, <1>8, <1>9 DEF CallInv, RecordingInv, Recording
  <2>3. FlowingInv'
    <3>1. ASSUME NEW o \in Threads, InFlow(o)' PROVE Flowing(o)'
      <4>1. InFlow(o) /\ Flowing(o) /\ work'[o] = work[o] /\ flows' = flows
        BY <1>0, <1>1, <3>1 DEF CallInv, FlowingInv, InFlow
      <4>2. work[o].span # s /\ work[o].pred # s
        BY <1>2, <4>1
      <4> QED BY <1>10, <4>1, <4>2 DEF Flowing
    <3> QED BY <3>1 DEF FlowingInv
  <2>4. OneOpening' /\ OneFlowing'
    BY <1>0, <1>1 DEF CallInv, OneOpening, OneFlowing, InFlow
  <2>5. EnteredLive'
    <3>1. \A o \in Threads : \A i \in DOMAIN entered[o] : entered[o][i] \in Spans \ {s}
      BY <1>0, <1>2, ElementOfSeq, LenProperties DEF TypeOK
    <3> QED BY <1>0, <1>1, <1>10, <3>1 DEF CallInv, EnteredLive
  <2> QED BY <2>1, <2>2, <2>3, <2>4, <2>5 DEF CallInv
<1>15. FieldInv'
  <2>1. \A r \in recorded : r \in Spans \ {s}
    BY <1>0, <1>2 DEF TypeOK
  <2> QED BY <1>0, <1>1, <1>8, <1>9, <1>10, <2>1 DEF FieldInv
<1>16. FlowInv'
  <2>1. SameFlowCalls
    BY <1>1 DEF SameFlowCalls
  <2>2. GoneStays
    BY <1>1, <1>9, <1>10 DEF GoneStays, Gone
  <2>3. \A end : Queued(s, end)' = {} /\ Queued(s, end) = {}
    BY <1>2, <1>5, <1>8, NoEnds DEF Queued
  <2>4. \A r \in Spans \ {s} : \A end : Queued(r, end)' = Queued(r, end)
    BY <1>8, <1>9 DEF Queued
  <2>5. \A r \in Spans : /\ Queued(r, "start")' = Queued(r, "start")
                         /\ Queued(r, "terminate")' = Queued(r, "terminate")
    BY <2>3, <2>4
  <2> QED BY <1>0, <1>1, <2>1, <2>2, <2>5, FlowSame DEF CallInv, TypeOK
<1>17. MirrorInv'
  <2>1. View' = View
    BY <1>1, ViewSame
  <2>2. \A r \in Spans : status'[r] = "none" => status[r] = "none"
    BY <1>10
  <2>3. \A r \in Spans : Stored(r)' /\ store'[r].tracked => Stored(r) /\ store[r].tracked
    BY <1>8, <1>9
  <2> QED BY <1>0, <1>1, <2>1, <2>2, <2>3, MirrorFrame
<1> QED BY <1>11, <1>12, <1>13, <1>14, <1>15, <1>16, <1>17 DEF IInv


\* The begin is written, on a track of its own, before the span is stored.
LEMMA StepNewSpan ==
  ASSUME IInv, NEW t \in Threads, NEW s \in Spans, NewSpan(t, s)
  PROVE  IInv'
<1>0. TypeOK /\ BoundInv /\ StoreInv /\ CallInv /\ FieldInv /\ FlowInv /\ MirrorInv
  BY DEF IInv
<1>1. /\ pc[t] = "idle" /\ status[s] = "none" /\ ~hasError
      /\ status' = [status EXCEPT ![s] = "opening"] /\ pc' = [pc EXCEPT ![t] = "attrs"]
      /\ UNCHANGED <<config, hasError, hasFollows, store, entered, starts, terms, shown,
                     ended, histories>>
  BY DEF NewSpan
<1>2. /\ ~Stored(s) /\ s \notin ended /\ s \notin recorded
      /\ \A o \in Threads : pc[o] = "attrs" => work[o].span # s
      /\ \A o \in Threads : \A i \in DOMAIN entered[o] : entered[o][i] # s
      /\ \A o \in Threads : InFlow(o) => work[o].span # s /\ work[o].pred # s
      /\ \A o \in Threads : pc[o] = "record" => work[o].span # s
  BY <1>0, <1>1, Unseen
<1>3. SpareOK /\ stack \in [Spans \cup Threads -> Seq(Slices)] /\ work \in [Threads -> Work]
  BY <1>0, TypeFacts
<1>4. SpareOK'
  <2>1. CASE ThreadSlices
    BY <1>3, <2>1, TakenFacts DEF NewSpan
  <2>2. CASE ~ThreadSlices
    <3>1. spare' = spare
      BY <2>2 DEF NewSpan
    <3> QED BY <1>3, <3>1 DEF SpareOK
  <2> QED BY <2>1, <2>2
<1>5. PICK w : w = [Idle EXCEPT !.span = s, !.depth = Len(entered[t]), !.data = Begun(s)]
  OBVIOUS
<1>6. work' = [work EXCEPT ![t] = w]
  <2>1. TakenBox(t) = EmptyBox
    BY <1>3, TakenFacts
  <2> QED BY <1>5, <2>1 DEF NewSpan, Begun
<1>7. w \in Work /\ w.span = s /\ w.depth = Len(entered[t]) /\ w.data = Begun(s)
  <2>1. Len(entered[t]) \in 0 .. MaxDepth
    <3>1. Len(entered[t]) \in Nat /\ Len(entered[t]) <= MaxDepth
      BY <1>0, LenProperties DEF TypeOK, BoundInv
    <3>2. MaxDepth \in Nat
      BY LayerAssumption
    <3> QED BY <3>1, <3>2
  <2>2. Begun(s) \in Data
    BY BegunFacts
  <2> QED BY <1>5, <2>1, <2>2, IdleType DEF Idle, Work
<1>8. /\ pc'[t] = "attrs" /\ work'[t] = w
      /\ \A o \in Threads \ {t} : pc'[o] = pc[o] /\ work'[o] = work[o]
      /\ status'[s] = "opening" /\ \A r \in Spans \ {s} : status'[r] = status[r]
  BY <1>0, <1>1, <1>3, <1>6 DEF TypeOK
<1>9. /\ stack' \in [Spans \cup Threads -> Seq(Slices)]
      /\ SpanSlices => stack'[s] = Append(stack[s], "life")
      /\ \A y \in (Spans \cup Threads) \ {s} : stack'[y] = stack[y]
      /\ ~SpanSlices => stack' = stack
  <2>1. CASE SpanSlices
    BY <1>3, <2>1, OpensFacts DEF NewSpan, Slices
  <2>2. CASE ~SpanSlices
    BY <1>3, <2>2 DEF NewSpan
  <2> QED BY <2>1, <2>2
<1>10. \A r \in Spans : (Stored(r)' <=> Stored(r)) /\ store'[r] = store[r]
  BY <1>1 DEF Stored
<1>11. TypeOK'
  <2>1. status' \in [Spans -> {"none", "opening", "live", "closed"}]
    BY <1>0, <1>1 DEF TypeOK
  <2>2. /\ config' = config /\ hasError' \in BOOLEAN /\ hasFollows' \in BOOLEAN
        /\ store' \in [Spans -> Data] /\ entered' \in [Threads -> Seq(Spans)]
        /\ recorded' \subseteq Spans /\ ended' \subseteq Spans
        /\ shown' \in [Spans -> SUBSET Spans] /\ repeated' \in BOOLEAN
    BY <1>0, <1>1 DEF TypeOK
  <2>3. /\ flows' \in Seq([from : Spans, to : Spans])
        /\ starts' \subseteq (1 .. Len(flows')) \X Spans
        /\ terms' \subseteq (1 .. Len(flows')) \X Spans
    BY <1>0, <1>1 DEF TypeOK
  <2>4. work' \in [Threads -> Work]
    BY <1>3, <1>6, <1>7
  <2>5. pc' \in [Threads -> {"idle", "attrs", "record", "start", "terminate"}]
    BY <1>0, <1>1 DEF TypeOK
  <2> QED BY <1>0, <1>4, <1>9, <2>1, <2>2, <2>3, <2>4, <2>5, TypeFrame
<1>12. BoundInv'
  BY <1>0, <1>1 DEF BoundInv
<1>13. StoreInv'
  <2>1. \A r \in Spans : Stored(r)' => status'[r] = "live" /\ BoxOwn(r, store[r].box)'
    BY <1>0, <1>2, <1>8, <1>10 DEF StoreInv, BoxOwn
  <2>2. \A r \in Spans : status'[r] = "live" /\ ~hasError' => Stored(r)'
    BY <1>0, <1>1, <1>8, <1>10 DEF StoreInv
  <2>3. \A r \in ended' : status'[r] = "closed"
    BY <1>0, <1>1, <1>2, <1>8 DEF StoreInv, TypeOK
  <2>4. BoxesOwn'
    BY <1>0, <1>1, <1>4 DEF StoreInv, BoxesOwn, SpareOK
  <2> QED BY <2>1, <2>2, <2>3, <2>4 DEF StoreInv
<1>14. CallInv'
  <2>1. OpeningInv'
    <3>1. Opening(t)'
      <4>1. Begun(s)' = Begun(s)
        BY <1>1 DEF Begun, SpanSlices, ThreadSlices
      <4>2. Len(entered[t]) <= Len(entered[t])
        BY <1>0, LenProperties DEF TypeOK
      <4> QED BY <1>1, <1>7, <1>8, <4>1, <4>2 DEF Opening, Begun
    <3>2. ASSUME NEW o \in Threads \ {t}, pc'[o] = "attrs" PROVE Opening(o)'
      <4>1. Opening(o) /\ work'[o] = work[o] /\ work[o].span # s
        BY <1>0, <1>2, <1>8, <3>2 DEF CallInv, OpeningInv
      <4> QED BY <1>1, <1>8, <4>1 DEF Opening, Begun, SpanSlices, ThreadSlices
    <3> QED BY <3>1, <3>2 DEF OpeningInv
  <2>2. RecordingInv'
    BY <1>0, <1>8, <1>10 DEF CallInv, RecordingInv, Recording
  <2>3. FlowingInv'
    <3>1. ASSUME NEW o \in Threads, InFlow(o)' PROVE Flowing(o)'
      <4>0. o # t
        BY <1>8, <3>1 DEF InFlow
      <4>1. InFlow(o) /\ Flowing(o) /\ work'[o] = work[o] /\ flows' = flows
        BY <1>0, <1>1, <1>8, <3>1, <4>0 DEF CallInv, FlowingInv, InFlow
      <4>2. work[o].span # s /\ work[o].pred # s
        BY <1>2, <4>1
      <4> QED BY <1>8, <4>1, <4>2 DEF Flowing
    <3> QED BY <3>1 DEF FlowingInv
  <2>4. OneOpening'
    BY <1>0, <1>2, <1>7, <1>8 DEF CallInv, OneOpening
  <2>5. OneFlowing'
    BY <1>0, <1>8 DEF CallInv, OneFlowing, InFlow
  <2>6. EnteredLive'
    <3>1. \A o \in Threads : \A i \in DOMAIN entered[o] : entered[o][i] \in Spans \ {s}
      BY <1>0, <1>2, ElementOfSeq, LenProperties DEF TypeOK
    <3> QED BY <1>0, <1>1, <1>8, <3>1 DEF CallInv, EnteredLive
  <2> QED BY <2>1, <2>2, <2>3, <2>4, <2>5, <2>6 DEF CallInv
<1>15. FieldInv'
  <2>1. \A r \in recorded : r \in Spans \ {s}
    BY <1>0, <1>2 DEF TypeOK
  <2> QED BY <1>0, <1>1, <1>8, <1>10, <2>1 DEF FieldInv
<1>16. FlowInv'
  <2>1. SameFlowCalls
    BY <1>1, <1>8 DEF SameFlowCalls, InFlow
  <2>2. GoneStays
    BY <1>1, <1>8, <1>10 DEF GoneStays, Gone
  <2>3. \A r \in Spans : /\ Queued(r, "start")' = Queued(r, "start")
                         /\ Queued(r, "terminate")' = Queued(r, "terminate")
    BY <1>10 DEF Queued
  <2> QED BY <1>0, <1>1, <2>1, <2>2, <2>3, FlowSame DEF CallInv, TypeOK
<1>17. MirrorInv'
  <2>1. View' = View
    <3>1. \A o \in Threads \ {t} : Visible(o)' = Visible(o)
      BY <1>1, <1>8 DEF Visible, Borrowed, SpanSlices
    <3>2. Visible(t)' = Visible(t)
      <4>1. SubSeq(entered[t], 1, Len(entered[t])) = entered[t]
        BY <1>0, SubSeqFull DEF TypeOK
      <4> QED BY <1>1, <1>7, <1>8, <4>1 DEF Visible, Borrowed
    <3> QED BY <3>1, <3>2 DEF View
  <2>2. \A r \in Spans : IsFiniteSet(Positions(View, r))'
    BY <1>0, <2>1 DEF MirrorInv
  <2>3. Mirrors
    BY <1>0, <1>1 DEF MirrorInv
  <2>4. \A r \in Spans : Polls(r)' = Polls(r)
    BY <1>1, <2>1 DEF Polls, ThreadSlices
  <2>5. s \notin Threads
    BY LayerAssumption
  <2>6. ThreadsMirror'
    BY <1>1, <1>9, <2>1, <2>3, <2>5 DEF Mirrors, ThreadsMirror, ThreadSlices
  <2>7. SpansMirror'
    BY <1>2, <1>9, <1>10, <2>3, <2>4 DEF Mirrors, SpansMirror
  <2>8. EndedMirror'
    BY <1>0, <1>1, <1>2, <1>9, <2>3 DEF Mirrors, EndedMirror, TypeOK
  <2>9. NoneMirror'
    BY <1>8, <1>9, <2>3 DEF Mirrors, NoneMirror
  <2>10. BeginMirror'
    <3>1. SpanSlices => stack'[s] = <<"life">>
      BY <1>1, <1>9, <2>3 DEF Mirrors, NoneMirror
    <3>2. ASSUME NEW o \in Threads \ {t}, pc'[o] = "attrs", SpanSlices'
          PROVE  stack'[work'[o].span] = <<"life">>
      <4>1. pc[o] = "attrs" /\ SpanSlices /\ work'[o] = work[o]
        BY <1>1, <1>8, <3>2 DEF SpanSlices
      <4>2. work[o].span \in Spans \ {s}
        BY <1>0, <1>2, <4>1 DEF CallInv, OpeningInv, Opening
      <4> QED BY <1>9, <2>3, <4>1, <4>2 DEF Mirrors, BeginMirror
    <3> QED BY <1>1, <1>7, <1>8, <3>1, <3>2 DEF BeginMirror, SpanSlices
  <2> QED BY <2>2, <2>6, <2>7, <2>8, <2>9, <2>10 DEF MirrorInv, Mirrors
<1> QED BY <1>11, <1>12, <1>13, <1>14, <1>15, <1>16, <1>17 DEF IInv


\* What a thread could draw is the beginning of what it is in.
LEMMA VisibleFacts ==
  ASSUME TypeOK, OpeningInv, NEW t \in Threads
  PROVE  /\ Visible(t) \in Seq(Spans) /\ DOMAIN Visible(t) \subseteq DOMAIN entered[t]
         /\ \A i \in DOMAIN Visible(t) : Visible(t)[i] = entered[t][i]
<1>1. entered[t] \in Seq(Spans) /\ DOMAIN entered[t] = 1 .. Len(entered[t]) /\ Len(entered[t]) \in Nat
  BY LenProperties DEF TypeOK
<1>2. CASE ~Borrowed(t)
  BY <1>1, <1>2 DEF Visible
<1>3. CASE Borrowed(t)
  <2>1. PICK d : d = work[t].depth
    OBVIOUS
  <2>2. d \in Nat /\ d <= Len(entered[t])
    <3>1. d \in 0 .. MaxDepth
      BY <2>1 DEF TypeOK
    <3>2. d <= Len(entered[t])
      BY <1>3, <2>1 DEF Borrowed, OpeningInv, Opening
    <3>3. MaxDepth \in Nat
      BY LayerAssumption
    <3> QED BY <3>1, <3>2, <3>3
  <2>3. PICK q : q = Visible(t)
    OBVIOUS
  <2>4. q = SubSeq(entered[t], 1, d)
    BY <1>3, <2>1, <2>3 DEF Visible
  <2>5. q \in Seq(Spans) /\ Len(q) = d /\ \A i \in 1 .. d : q[i] = entered[t][i]
    BY <1>1, <2>2, <2>4, PrefixFacts
  <2>6. DOMAIN q = 1 .. d
    BY <2>5, LenProperties
  <2> QED BY <1>1, <2>2, <2>3, <2>5, <2>6
<1> QED BY <1>2, <1>3

LEMMA NotVisited ==
  ASSUME TypeOK, OpeningInv, NEW s \in Spans,
         \A o \in Threads : \A i \in DOMAIN entered[o] : entered[o][i] # s
  PROVE  Positions(View, s) = {}
<1>1. \A o \in Threads : \A i \in DOMAIN View[o] : View[o][i] # s
  BY VisibleFacts DEF View
<1> QED BY <1>1, PositionsAre

\* The span is stored with the begin that its lifetime track has.
LEMMA StepPublish ==
  ASSUME IInv, NEW t \in Threads, Publish(t)
  PROVE  IInv'
<1>0. TypeOK /\ BoundInv /\ StoreInv /\ CallInv /\ FieldInv /\ FlowInv /\ MirrorInv
  BY DEF IInv
<1>1. /\ pc[t] = "attrs" /\ Len(entered[t]) = work[t].depth
      /\ work' = [work EXCEPT ![t] = Idle] /\ pc' = [pc EXCEPT ![t] = "idle"]
      /\ UNCHANGED <<config, hasError, hasFollows, spare, entered, trace, histories>>
  BY DEF Publish
<1>2. PICK s \in Spans : /\ s = work[t].span /\ status[s] = "opening"
                         /\ work[t].data = Begun(s)
  BY <1>0, <1>1 DEF CallInv, OpeningInv, Opening
<1>3. /\ ~Stored(s) /\ s \notin ended /\ s \notin recorded
      /\ \A o \in Threads : \A i \in DOMAIN entered[o] : entered[o][i] # s
      /\ \A o \in Threads : InFlow(o) => work[o].span # s /\ work[o].pred # s
      /\ \A o \in Threads : pc[o] = "record" => work[o].span # s
  BY <1>0, <1>2, Unseen
<1>4. \A o \in Threads \ {t} : pc[o] = "attrs" => work[o].span # s
  BY <1>0, <1>1, <1>2 DEF CallInv, OneOpening
<1>5. SpareOK /\ stack \in [Spans \cup Threads -> Seq(Slices)] /\ work \in [Threads -> Work]
  BY <1>0, TypeFacts
<1>6. PICK d : d = IF SpanSlices THEN Begun(s)
                   ELSE [Begun(s) EXCEPT !.box.fields = Begun(s).box.fields \cup {s}]
  OBVIOUS
<1>7. /\ store' = [store EXCEPT ![s] = d]
      /\ status' = [status EXCEPT ![s] = "live"]
  BY <1>2, <1>6 DEF Publish
<1>8. /\ d \in Data /\ d.tracked = SpanSlices /\ d.box.flows = <<>>
      /\ BoxOwn(s, d.box) /\ d # NoData
  <2>1. /\ Begun(s) \in Data /\ Begun(s).tracked = SpanSlices
        /\ Begun(s).box \in Boxes /\ Begun(s).box.fields = {} /\ Begun(s).box.flows = <<>>
        /\ Begun(s).box = NoBox \/ Begun(s).box.poll = s
        /\ ThreadSlices => Begun(s).box # NoBox
    BY BegunFacts
  <2>2. CASE SpanSlices
    <3>1. d = Begun(s)
      BY <1>6, <2>2
    <3>2. BoxOwn(s, d.box)
      BY <2>1, <3>1 DEF BoxOwn
    <3>3. d # NoData
      BY <2>1, <2>2, <3>1, BoxFacts
    <3> QED BY <2>1, <3>1, <3>2, <3>3
  <2>3. CASE ~SpanSlices
    <3>1. ThreadSlices
      BY <2>3 DEF ThreadSlices, SpanSlices
    <3>2. PICK b : b = [Begun(s).box EXCEPT !.fields = Begun(s).box.fields \cup {s}]
      OBVIOUS
    <3>3. /\ b \in Boxes /\ b.fields = {s} /\ b.flows = <<>> /\ b.poll = s
      BY <2>1, <3>1, <3>2 DEF Boxes
    <3>4. d = [Begun(s) EXCEPT !.box = b]
      BY <1>6, <2>1, <2>3, <3>2 DEF Data
    <3>5. d \in Data /\ d.tracked = SpanSlices /\ d.box = b
      BY <2>1, <3>3, <3>4 DEF Data
    <3>6. BoxOwn(s, d.box)
      BY <3>3, <3>5 DEF BoxOwn
    <3>7. d # NoData
      BY <3>3, <3>5, BoxFacts
    <3> QED BY <3>3, <3>5, <3>6, <3>7
  <2> QED BY <2>2, <2>3
<1>9. /\ store' \in [Spans -> Data] /\ store'[s] = d
      /\ \A r \in Spans \ {s} : store'[r] = store[r]
      /\ Stored(s)'
  BY <1>0, <1>7, <1>8 DEF TypeOK, Stored
<1>10. \A r \in Spans \ {s} : Stored(r)' <=> Stored(r)
  BY <1>9 DEF Stored
<1>11. /\ pc'[t] = "idle" /\ work'[t] = Idle
       /\ \A o \in Threads \ {t} : pc'[o] = pc[o] /\ work'[o] = work[o]
       /\ status'[s] = "live" /\ \A r \in Spans \ {s} : status'[r] = status[r]
  BY <1>0, <1>1, <1>5, <1>7 DEF TypeOK
<1>12. TypeOK'
  <2>1. SpareOK' /\ status' \in [Spans -> {"none", "opening", "live", "closed"}]
    BY <1>0, <1>1, <1>5, <1>7 DEF SpareOK, TypeOK
  <2>2. /\ config' = config /\ hasError' \in BOOLEAN /\ hasFollows' \in BOOLEAN
        /\ entered' \in [Threads -> Seq(Spans)]
        /\ recorded' \subseteq Spans /\ ended' \subseteq Spans
        /\ shown' \in [Spans -> SUBSET Spans] /\ repeated' \in BOOLEAN
    BY <1>0, <1>1 DEF TypeOK
  <2>3. /\ flows' \in Seq([from : Spans, to : Spans])
        /\ starts' \subseteq (1 .. Len(flows')) \X Spans
        /\ terms' \subseteq (1 .. Len(flows')) \X Spans
    BY <1>0, <1>1 DEF TypeOK
  <2>4. stack' \in [Spans \cup Threads -> Seq(Slices)] /\ work' \in [Threads -> Work]
    BY <1>1, <1>5, IdleType
  <2>5. pc' \in [Threads -> {"idle", "attrs", "record", "start", "terminate"}]
    BY <1>0, <1>1 DEF TypeOK
  <2> QED BY <1>0, <1>9, <2>1, <2>2, <2>3, <2>4, <2>5, TypeFrame
<1>13. BoundInv'
  BY <1>0, <1>1 DEF BoundInv
<1>14. StoreInv'
  <2>1. \A r \in Spans : Stored(r)' => status'[r] = "live" /\ BoxOwn(r, store[r].box)'
    <3>1. BoxOwn(s, store[s].box)'
      BY <1>8, <1>9 DEF BoxOwn
    <3>2. \A r \in Spans \ {s} : Stored(r)' => status'[r] = "live" /\ BoxOwn(r, store[r].box)'
      BY <1>0, <1>9, <1>10, <1>11 DEF StoreInv, BoxOwn
    <3> QED BY <1>11, <3>1, <3>2
  <2>2. \A r \in Spans : status'[r] = "live" /\ ~hasError' => Stored(r)'
    BY <1>0, <1>1, <1>9, <1>10, <1>11 DEF StoreInv
  <2>3. \A r \in ended' : status'[r] = "closed"
    BY <1>0, <1>1, <1>3, <1>11 DEF StoreInv, TypeOK
  <2>4. BoxesOwn'
    BY <1>0, <1>1 DEF StoreInv, BoxesOwn
  <2> QED BY <2>1, <2>2, <2>3, <2>4 DEF StoreInv
<1>15. CallInv'
  <2>1. OpeningInv'
    <3>1. ASSUME NEW o \in Threads, pc'[o] = "attrs" PROVE Opening(o)'
      <4>0. o # t
        BY <1>11, <3>1
      <4>1. Opening(o) /\ work'[o] = work[o] /\ work[o].span # s
        BY <1>0, <1>4, <1>11, <3>1, <4>0 DEF CallInv, OpeningInv
      <4> QED BY <1>1, <1>11, <4>1 DEF Opening, Begun, SpanSlices, ThreadSlices
    <3> QED BY <3>1 DEF OpeningInv
  <2>2. RecordingInv'
    BY <1>0, <1>3, <1>9, <1>10, <1>11 DEF CallInv, RecordingInv, Recording
  <2>3. FlowingInv'
    <3>1. ASSUME NEW o \in Threads, InFlow(o)' PROVE Flowing(o)'
      <4>0. o # t
        BY <1>11, <3>1 DEF InFlow
      <4>1. InFlow(o) /\ Flowing(o) /\ work'[o] = work[o] /\ flows' = flows
        BY <1>0, <1>1, <1>11, <3>1, <4>0 DEF CallInv, FlowingInv, InFlow
      <4>2. work[o].span # s /\ work[o].pred # s
        BY <1>3, <4>1
      <4> QED BY <1>11, <4>1, <4>2 DEF Flowing
    <3> QED BY <3>1 DEF FlowingInv
  <2>4. OneOpening' /\ OneFlowing'
    BY <1>0, <1>11 DEF CallInv, OneOpening, OneFlowing, InFlow
  <2>5. EnteredLive'
    <3>1. \A o \in Threads : \A i \in DOMAIN entered[o] : entered[o][i] \in Spans \ {s}
      BY <1>0, <1>3, ElementOfSeq, LenProperties DEF TypeOK
    <3> QED BY <1>0, <1>1, <1>11, <3>1 DEF CallInv, EnteredLive
  <2> QED BY <2>1, <2>2, <2>3, <2>4, <2>5 DEF CallInv
<1>16. FieldInv'
  <2>1. \A r \in recorded : r \in Spans \ {s}
    BY <1>0, <1>3 DEF TypeOK
  <2> QED BY <1>0, <1>1, <1>9, <1>10, <1>11, <2>1 DEF FieldInv
<1>17. FlowInv'
  <2>1. SameFlowCalls
    BY <1>1, <1>11 DEF SameFlowCalls, InFlow
  <2>2. GoneStays
    BY <1>1, <1>2, <1>10, <1>11 DEF GoneStays, Gone
  <2>3. \A end : Queued(s, end)' = {} /\ Queued(s, end) = {}
    BY <1>3, <1>8, <1>9, NoEnds DEF Queued
  <2>4. \A r \in Spans \ {s} : \A end : Queued(r, end)' = Queued(r, end)
    BY <1>9, <1>10 DEF Queued
  <2>5. \A r \in Spans : /\ Queued(r, "start")' = Queued(r, "start")
                         /\ Queued(r, "terminate")' = Queued(r, "terminate")
    BY <2>3, <2>4
  <2> QED BY <1>0, <1>1, <2>1, <2>2, <2>5, FlowSame DEF CallInv, TypeOK
<1>18. MirrorInv'
  <2>1. View' = View
    <3>1. \A o \in Threads \ {t} : Visible(o)' = Visible(o)
      BY <1>1, <1>11 DEF Visible, Borrowed, SpanSlices
    <3>2. Visible(t)' = Visible(t)
      <4>1. SubSeq(entered[t], 1, Len(entered[t])) = entered[t]
        BY <1>0, SubSeqFull DEF TypeOK
      <4> QED BY <1>1, <1>11, <4>1 DEF Visible, Borrowed
    <3> QED BY <3>1, <3>2 DEF View
  <2>2. \A r \in Spans : IsFiniteSet(Positions(View, r))'
    BY <1>0, <2>1 DEF MirrorInv
  <2>3. ASSUME ~hasError' PROVE Mirrors'
    <3>1. Mirrors
      BY <1>0, <1>1, <2>3 DEF MirrorInv
    <3>2. \A r \in Spans : Polls(r)' = Polls(r)
      BY <1>1, <2>1 DEF Polls, ThreadSlices
    <3>3. ThreadsMirror'
      BY <1>1, <2>1, <3>1 DEF Mirrors, ThreadsMirror, ThreadSlices
    <3>4. SpansMirror'
      <4>1. Polls(s) = 0
        BY <1>0, <1>3, NotVisited, FS_EmptySet DEF CallInv, Polls
      <4>2. store'[s].tracked => stack[s] = Polled(0)
        <5>1. store'[s].tracked => SpanSlices
          BY <1>8, <1>9
        <5>2. 0 \in Nat
          OBVIOUS
        <5>3. Polled(0) = <<"life">>
          BY <5>2, PolledStep
        <5> QED BY <1>1, <1>2, <3>1, <5>1, <5>3 DEF Mirrors, BeginMirror
      <4>3. \A r \in Spans \ {s} : Stored(r)' /\ store'[r].tracked => stack[r] = Polled(Polls(r))
        BY <1>9, <1>10, <3>1 DEF Mirrors, SpansMirror
      <4> QED BY <1>1, <3>2, <4>1, <4>2, <4>3 DEF SpansMirror
    <3>5. EndedMirror'
      BY <1>1, <3>1 DEF Mirrors, EndedMirror
    <3>6. NoneMirror'
      BY <1>1, <1>11, <3>1 DEF Mirrors, NoneMirror
    <3>7. BeginMirror'
      BY <1>1, <1>11, <3>1 DEF Mirrors, BeginMirror, SpanSlices
    <3> QED BY <3>3, <3>4, <3>5, <3>6, <3>7 DEF Mirrors
  <2> QED BY <2>2, <2>3 DEF MirrorInv
<1> QED BY <1>12, <1>13, <1>14, <1>15, <1>16, <1>17, <1>18 DEF IInv


\* A callback that writes the flows of s, or leaves flows and store alone.
Carried(s) ==
  \/ Stored(s) /\ WritesFlows(s, store[s].box) /\ ClearFlows(s)
  \/ NoFlows /\ store' = store

LEMMA CarriedFacts ==
  ASSUME IInv, NEW s \in Spans, Carried(s),
         UNCHANGED <<config, hasError, pc, work, status, ended, flows, recorded, spare>>
  PROVE  /\ store' \in [Spans -> Data]
         /\ starts' \subseteq (1 .. Len(flows')) \X Spans
         /\ terms' \subseteq (1 .. Len(flows')) \X Spans
         /\ repeated' \in BOOLEAN
         /\ \A r \in Spans : Stored(r)' <=> Stored(r)
         /\ \A r \in Spans : store'[r].tracked = store[r].tracked
         /\ \A r \in Spans : store'[r].box.fields = store[r].box.fields
         /\ \A r \in Spans : store[r].box # NoBox => store'[r].box # NoBox
         /\ \A r \in Spans : Stored(r) => BoxOwn(r, store'[r].box)
         /\ FlowInv'
<1>0. TypeOK /\ StoreInv /\ CallInv /\ FlowInv
  BY DEF IInv
<1>1. SameFlowCalls
  BY DEF SameFlowCalls
<1>2. flows \in Seq([from : Spans, to : Spans])
  BY <1>0 DEF TypeOK
<1>3. CASE NoFlows /\ store' = store
  <2> USE DEF NoFlows
  <2>1. \A r \in Spans : Stored(r)' <=> Stored(r)
    BY <1>3 DEF Stored
  <2>2. GoneStays
    BY <2>1 DEF GoneStays, Gone
  <2>3. \A r \in Spans : /\ Queued(r, "start")' = Queued(r, "start")
                         /\ Queued(r, "terminate")' = Queued(r, "terminate")
    BY <1>3, <2>1 DEF Queued
  <2>4. FlowInv'
    BY <1>0, <1>1, <1>2, <1>3, <2>2, <2>3, FlowSame DEF CallInv
  <2>5. /\ store' \in [Spans -> Data]
        /\ starts' \subseteq (1 .. Len(flows')) \X Spans
        /\ terms' \subseteq (1 .. Len(flows')) \X Spans
        /\ repeated' \in BOOLEAN
    BY <1>0, <1>3 DEF TypeOK
  <2>6. \A r \in Spans : Stored(r) => BoxOwn(r, store'[r].box)
    BY <1>0, <1>3 DEF StoreInv
  <2> QED BY <1>3, <2>1, <2>4, <2>5, <2>6
<1>4. CASE Stored(s) /\ WritesFlows(s, store[s].box) /\ ClearFlows(s)
  <2>1. PICK b : /\ Recast(s, b) /\ b.flows = <<>> /\ b.fields = store[s].box.fields
                 /\ (store[s].box = NoBox <=> b = NoBox)
    BY <1>0, <1>4, ClearFacts
  <2>2. /\ store' \in [Spans -> Data] /\ store'[s].box = b
        /\ \A r \in Spans : store'[r].tracked = store[r].tracked
        /\ \A r \in Spans \ {s} : store'[r] = store[r]
        /\ \A r \in Spans : Stored(r)' <=> Stored(r)
    BY <1>0, <2>1, RecastFacts
  <2>3. \A end : Queued(s, end)' = {}
    BY <1>0, <2>1, RecastQueued, NoEnds
  <2>4. \A r \in Spans \ {s} : \A end : Queued(r, end)' = Queued(r, end)
    BY <1>0, <2>1, RecastQueued
  <2>5. GoneStays
    BY <2>2 DEF GoneStays, Gone
  <2>6. FlowInv'
    BY <1>0, <1>1, <1>2, <1>4, <2>3, <2>4, <2>5, FlowWritten DEF CallInv
  <2>7. /\ starts' \subseteq (1 .. Len(flows')) \X Spans
        /\ terms' \subseteq (1 .. Len(flows')) \X Spans
        /\ repeated' \in BOOLEAN
    <3>1. \A f \in Ends(store[s].box, "start") \cup Ends(store[s].box, "terminate") :
            f \in DOMAIN flows
      BY <1>0, <1>4 DEF FlowInv, QueuedInv, Queued
    <3> QED BY <1>0, <1>4, <3>1, WrittenType
  <2>8. \A r \in Spans : Stored(r) => BoxOwn(r, store'[r].box)
    <3>1. BoxOwn(s, store'[s].box)
      BY <2>1, <2>2 DEF Recast
    <3> QED BY <1>0, <2>2, <3>1 DEF StoreInv
  <2>9. \A r \in Spans : /\ store'[r].box.fields = store[r].box.fields
                         /\ store[r].box # NoBox => store'[r].box # NoBox
    BY <2>1, <2>2
  <2> QED BY <2>2, <2>6, <2>7, <2>8, <2>9
<1> QED BY <1>3, <1>4 DEF Carried

\* Where a thread is after it entered or left a span.
LEMMA EnterView ==
  ASSUME TypeOK, OpeningInv, NEW t \in Threads, NEW s \in Spans,
         entered' = [entered EXCEPT ![t] = Append(entered[t], s)],
         UNCHANGED <<config, pc, work>>
  PROVE  /\ View \in [Threads -> Seq(Spans)]
         /\ Borrowed(t) => View' = View
         /\ ~Borrowed(t) => Pushed(View, View', t, s)
<1>1. \A o \in Threads \ {t} : Visible(o)' = Visible(o)
  BY DEF TypeOK, Visible, Borrowed, SpanSlices
<1>2. entered'[t] = Append(entered[t], s) /\ (Borrowed(t)' <=> Borrowed(t))
  BY DEF TypeOK, Borrowed, SpanSlices
<1>3. View \in [Threads -> Seq(Spans)]
  BY VisibleFacts DEF View
<1>4. CASE Borrowed(t)
  <2>1. PICK d : d = work[t].depth
    OBVIOUS
  <2>2. d \in Nat /\ d <= Len(entered[t])
    <3>1. d \in 0 .. MaxDepth
      BY <2>1 DEF TypeOK
    <3>2. d <= Len(entered[t])
      BY <1>4, <2>1 DEF Borrowed, OpeningInv, Opening
    <3>3. MaxDepth \in Nat
      BY LayerAssumption
    <3> QED BY <3>1, <3>2, <3>3
  <2>3. SubSeq(Append(entered[t], s), 1, d) = SubSeq(entered[t], 1, d)
    <3>1. PICK q : q = entered[t] /\ q \in Seq(Spans)
      BY DEF TypeOK
    <3>2. PICK p : p = Append(q, s)
      OBVIOUS
    <3>3. p \in Seq(Spans) /\ Len(p) = Len(q) + 1 /\ \A i \in 1 .. Len(q) : p[i] = q[i]
      BY <3>1, <3>2, AppendProperties
    <3>4. Len(q) \in Nat
      BY <3>1, LenProperties
    <3>5. d <= Len(q) /\ d <= Len(p) /\ \A i \in 1 .. d : p[i] = q[i]
      BY <2>2, <3>1, <3>3, <3>4
    <3>6. SubSeq(p, 1, d) = SubSeq(q, 1, d)
      BY <2>2, <3>1, <3>3, <3>5, PrefixSame
    <3> QED BY <3>1, <3>2, <3>6
  <2>4. Visible(t)' = Visible(t)
    BY <1>2, <1>4, <2>1, <2>3 DEF Visible
  <2>5. View' = View
    <3>1. \A o \in Threads : Visible(o)' = Visible(o)
      BY <1>1, <2>4
    <3> QED BY <3>1 DEF View
  <2> QED BY <1>3, <1>4, <2>5
<1>5. CASE ~Borrowed(t)
  <2>1. Visible(t)' = Append(Visible(t), s)
    BY <1>2, <1>5 DEF Visible
  <2>2. /\ View'[t] = Append(View[t], s) /\ \A o \in Threads \ {t} : View'[o] = View[o]
        /\ DOMAIN View' = Threads /\ DOMAIN View = Threads
        /\ View' = [o \in Threads |-> View'[o]]
    BY <1>1, <2>1 DEF View
  <2>3. View' = [View EXCEPT ![t] = Append(View[t], s)]
    BY <2>2
  <2> QED BY <1>3, <1>5, <2>3 DEF Pushed
<1> QED BY <1>3, <1>4, <1>5

LEMMA ExitView ==
  ASSUME TypeOK, OpeningInv, NEW t \in Threads, entered[t] # <<>>,
         pc[t] = "attrs" => Len(entered[t]) > work[t].depth,
         entered' = [entered EXCEPT ![t] = Front(entered[t])],
         UNCHANGED <<config, pc, work>>
  PROVE  /\ View \in [Threads -> Seq(Spans)]
         /\ Borrowed(t) => View' = View
         /\ ~Borrowed(t) => Popped(View, View', t, Last(entered[t]))
<1>1. \A o \in Threads \ {t} : Visible(o)' = Visible(o)
  BY DEF TypeOK, Visible, Borrowed, SpanSlices
<1>2. entered'[t] = Front(entered[t]) /\ (Borrowed(t)' <=> Borrowed(t))
  BY DEF TypeOK, Borrowed, SpanSlices
<1>3. View \in [Threads -> Seq(Spans)]
  BY VisibleFacts DEF View
<1>4. CASE Borrowed(t)
  <2>1. PICK d : d = work[t].depth
    OBVIOUS
  <2>2. d \in Nat /\ d < Len(entered[t])
    <3>1. d \in 0 .. MaxDepth
      BY <2>1 DEF TypeOK
    <3>2. d < Len(entered[t])
      <4>1. Len(entered[t]) > d
        BY <1>4, <2>1 DEF Borrowed
      <4> QED BY <4>1
    <3>3. MaxDepth \in Nat
      BY LayerAssumption
    <3> QED BY <3>1, <3>2, <3>3
  <2>3. SubSeq(Front(entered[t]), 1, d) = SubSeq(entered[t], 1, d)
    <3>1. PICK q : q = entered[t] /\ q \in Seq(Spans) /\ q # <<>>
      BY DEF TypeOK
    <3>2. PICK p : p = Front(q)
      OBVIOUS
    <3>3. /\ p \in Seq(Spans) /\ Len(p) = Len(q) - 1 /\ Len(q) \in Nat \ {0}
          /\ \A i \in 1 .. (Len(q) - 1) : p[i] = q[i]
      BY <3>1, <3>2, FrontFacts
    <3>5. d <= Len(q) /\ d <= Len(p) /\ \A i \in 1 .. d : p[i] = q[i]
      BY <2>2, <3>1, <3>3
    <3>6. SubSeq(p, 1, d) = SubSeq(q, 1, d)
      BY <2>2, <3>1, <3>3, <3>5, PrefixSame
    <3> QED BY <3>1, <3>2, <3>6
  <2>4. Visible(t)' = Visible(t)
    BY <1>2, <1>4, <2>1, <2>3 DEF Visible
  <2>5. View' = View
    <3>1. \A o \in Threads : Visible(o)' = Visible(o)
      BY <1>1, <2>4
    <3> QED BY <3>1 DEF View
  <2> QED BY <1>3, <1>4, <2>5
<1>5. CASE ~Borrowed(t)
  <2>1. Visible(t)' = Front(Visible(t)) /\ Visible(t) = entered[t]
    BY <1>2, <1>5 DEF Visible
  <2>2. /\ View'[t] = Front(View[t]) /\ \A o \in Threads \ {t} : View'[o] = View[o]
        /\ DOMAIN View' = Threads /\ DOMAIN View = Threads /\ View[t] = entered[t]
        /\ View' = [o \in Threads |-> View'[o]]
    BY <1>1, <2>1 DEF View
  <2>3. View' = [View EXCEPT ![t] = Front(View[t])]
    BY <2>2
  <2> QED BY <1>3, <1>5, <2>2, <2>3 DEF Popped
<1> QED BY <1>3, <1>4, <1>5


\* A callback that enters or leaves a span: what it keeps but for the slices.
LEMMA VisitStep ==
  ASSUME IInv, NEW t \in Threads, NEW s \in Spans, Carried(s),
         UNCHANGED <<config, hasError, hasFollows, spare, pc, work, status, ended, flows,
                     recorded>>,
         entered' \in [Threads -> Seq(Spans)],
         \A o \in Threads : Len(entered'[o]) <= MaxDepth,
         \A o \in Threads : pc[o] = "attrs" => work[o].depth <= Len(entered'[o]),
         \A o \in Threads : \A i \in DOMAIN entered'[o] : status[entered'[o][i]] = "live",
         stack' \in [Spans \cup Threads -> Seq(Slices)],
         shown' \in [Spans -> SUBSET Spans],
         \A r \in Spans : shown[r] \subseteq shown'[r] /\ shown'[r] \subseteq {r}
  PROVE  /\ TypeOK' /\ BoundInv' /\ StoreInv' /\ CallInv' /\ FieldInv' /\ FlowInv'
         /\ \A r \in Spans : Stored(r)' <=> Stored(r)
         /\ \A r \in Spans : store'[r].tracked = store[r].tracked
<1>0. TypeOK /\ BoundInv /\ StoreInv /\ CallInv /\ FieldInv /\ FlowInv
  BY DEF IInv
<1>1. /\ store' \in [Spans -> Data]
      /\ starts' \subseteq (1 .. Len(flows')) \X Spans
      /\ terms' \subseteq (1 .. Len(flows')) \X Spans
      /\ repeated' \in BOOLEAN
      /\ \A r \in Spans : Stored(r)' <=> Stored(r)
      /\ \A r \in Spans : store'[r].tracked = store[r].tracked
      /\ \A r \in Spans : store'[r].box.fields = store[r].box.fields
      /\ \A r \in Spans : store[r].box # NoBox => store'[r].box # NoBox
      /\ \A r \in Spans : Stored(r) => BoxOwn(r, store'[r].box)
      /\ FlowInv'
  BY CarriedFacts
<1>2. SpareOK /\ work \in [Threads -> Work]
  BY <1>0, TypeFacts
<1>3. TypeOK'
  <2>1. SpareOK' /\ work' \in [Threads -> Work]
    BY <1>2 DEF SpareOK
  <2>2. /\ config' = config /\ hasError' \in BOOLEAN /\ hasFollows' \in BOOLEAN
        /\ pc' \in [Threads -> {"idle", "attrs", "record", "start", "terminate"}]
        /\ status' \in [Spans -> {"none", "opening", "live", "closed"}]
        /\ recorded' \subseteq Spans /\ ended' \subseteq Spans
        /\ flows' \in Seq([from : Spans, to : Spans])
    BY <1>0 DEF TypeOK
  <2> QED BY <1>0, <1>1, <2>1, <2>2, TypeFrame
<1>4. BoundInv'
  BY <1>0 DEF BoundInv
<1>5. StoreInv'
  <2>1. \A r \in Spans : Stored(r)' => status'[r] = "live" /\ BoxOwn(r, store[r].box)'
    BY <1>0, <1>1 DEF StoreInv, BoxOwn
  <2>2. \A r \in Spans : status'[r] = "live" /\ ~hasError' => Stored(r)'
    BY <1>0, <1>1 DEF StoreInv
  <2>3. \A r \in ended' : status'[r] = "closed"
    BY <1>0 DEF StoreInv
  <2>4. BoxesOwn'
    BY <1>0 DEF StoreInv, BoxesOwn
  <2> QED BY <2>1, <2>2, <2>3, <2>4 DEF StoreInv
<1>6. CallInv'
  BY <1>0, <1>1, CallFrame
<1>7. FieldInv'
  <2>1. recorded \subseteq Spans
    BY <1>0 DEF TypeOK
  <2> QED BY <1>0, <1>1, <2>1, FieldFrame
<1> QED BY <1>1, <1>3, <1>4, <1>5, <1>6, <1>7

\* The mirror, where a visit of s begins: on the thread's track, on the track of
\* s, or on none.
LEMMA MirrorEnter ==
  ASSUME IInv, NEW t \in Threads, NEW s \in Spans, ~Borrowed(t), Pushed(View, View', t, s),
         View \in [Threads -> Seq(Spans)], status[s] = "live",
         UNCHANGED <<config, hasError, pc, work, status, ended>>,
         \A r \in Spans : Stored(r)' <=> Stored(r),
         \A r \in Spans : store'[r].tracked = store[r].tracked,
         ~hasError /\ Draws(t, s) => Opens(TrackOf(t, s), SliceOf(s)),
         ~hasError /\ ~Draws(t, s) => stack' = stack
  PROVE  MirrorInv'
<1>0. TypeOK /\ StoreInv /\ CallInv /\ MirrorInv
  BY DEF IInv
<1>1. /\ OneMore(Positions(View, s), Positions(View', s))
      /\ \A r \in Spans \ {s} : Positions(View', r) = Positions(View, r)
  BY PositionsAppend
<1>2. /\ IsFiniteSet(Positions(View', s)) /\ Cardinality(Positions(View, s)) \in Nat
      /\ Cardinality(Positions(View', s)) = Cardinality(Positions(View, s)) + 1
  BY <1>0, <1>1, OneVisitMore DEF MirrorInv
<1>3. \A r \in Spans : IsFiniteSet(Positions(View, r))'
  BY <1>0, <1>1, <1>2 DEF MirrorInv
<1>4. ASSUME ~hasError' PROVE Mirrors'
  <2>1. Mirrors /\ ~hasError /\ Acquires(t) /\ Stored(s)
    BY <1>0, <1>4 DEF MirrorInv, Acquires, StoreInv
  <2>2. stack \in [Spans \cup Threads -> Seq(Slices)] /\ s \notin ended
    BY <1>0, TypeFacts DEF StoreInv
  <2>3. Spans \cap Threads = {}
    BY LayerAssumption
  <2>4. \A r \in Spans \ {s} : Polls(r)' = Polls(r)
    BY <1>1 DEF Polls, ThreadSlices
  <2>5. \A o \in Threads : pc[o] = "attrs" => work[o].span \in Spans \ {s}
    BY <1>0 DEF CallInv, OpeningInv, Opening
  <2>6. CASE ThreadSlices
    <3>1. stack' = [stack EXCEPT ![t] = Append(stack[t], s)]
      BY <2>1, <2>6 DEF Draws, Opens, TrackOf, SliceOf
    <3>2. ThreadsMirror'
      BY <2>1, <2>2, <2>6, <3>1 DEF Mirrors, ThreadsMirror, ThreadSlices, Pushed
    <3>3. \A r \in Spans : stack'[r] = stack[r]
      BY <2>2, <2>3, <3>1
    <3>4. \A r \in Spans : Polls(r)' = Polls(r)
      BY <2>6 DEF Polls, ThreadSlices
    <3>5. SpansMirror'
      BY <2>1, <3>3, <3>4 DEF Mirrors, SpansMirror
    <3>6. EndedMirror'
      BY <1>0, <2>1, <3>3 DEF Mirrors, EndedMirror, TypeOK
    <3>7. NoneMirror'
      BY <2>1, <3>3 DEF Mirrors, NoneMirror
    <3>8. BeginMirror'
      BY <2>1, <2>5, <3>3 DEF Mirrors, BeginMirror, SpanSlices
    <3> QED BY <3>2, <3>5, <3>6, <3>7, <3>8 DEF Mirrors
  <2>7. CASE ~ThreadSlices
    <3>1. ThreadsMirror'
      BY <2>7 DEF ThreadsMirror, ThreadSlices
    <3>2. \A r \in Spans \ {s} : stack'[r] = stack[r]
      <4>1. CASE Draws(t, s)
        <5>1. stack' = [stack EXCEPT ![s] = Append(stack[s], "poll")]
          BY <2>1, <2>7, <4>1 DEF Opens, TrackOf, SliceOf
        <5> QED BY <2>2, <5>1
      <4>2. CASE ~Draws(t, s)
        BY <2>1, <4>2
      <4> QED BY <4>1, <4>2
    <3>3. store[s].tracked => stack'[s] = Polled(Polls(s)')
      <4>1. ASSUME store[s].tracked, config.polls PROVE stack'[s] = Polled(Polls(s)')
        <5>1. stack'[s] = Append(stack[s], "poll")
          <6>1. Draws(t, s)
            BY <2>1, <2>7, <4>1 DEF Draws
          <6>2. stack' = [stack EXCEPT ![s] = Append(stack[s], "poll")]
            BY <2>1, <2>7, <6>1 DEF Opens, TrackOf, SliceOf
          <6> QED BY <2>2, <6>2
        <5>2. PICK n \in Nat : n = Cardinality(Positions(View, s))
          BY <1>2
        <5>3. Polls(s) = n /\ Polls(s)' = n + 1
          BY <1>2, <2>7, <4>1, <5>2 DEF Polls, ThreadSlices
        <5>4. stack[s] = Polled(n)
          BY <2>1, <4>1, <5>3 DEF Mirrors, SpansMirror
        <5> QED BY <5>1, <5>3, <5>4, PolledStep
      <4>2. ASSUME store[s].tracked, ~config.polls PROVE stack'[s] = Polled(Polls(s)')
        <5>1. stack' = stack
          BY <2>1, <2>7, <4>2 DEF Draws
        <5>2. Polls(s) = 0 /\ Polls(s)' = 0
          BY <4>2 DEF Polls
        <5> QED BY <2>1, <4>2, <5>1, <5>2 DEF Mirrors, SpansMirror
      <4> QED BY <4>1, <4>2
    <3>4. SpansMirror'
      BY <2>1, <2>4, <3>2, <3>3 DEF Mirrors, SpansMirror
    <3>5. EndedMirror'
      BY <1>0, <2>1, <2>2, <3>2 DEF Mirrors, EndedMirror, TypeOK
    <3>6. NoneMirror'
      BY <2>1, <3>2 DEF Mirrors, NoneMirror
    <3>7. BeginMirror'
      BY <2>1, <2>5, <3>2 DEF Mirrors, BeginMirror, SpanSlices
    <3> QED BY <3>1, <3>4, <3>5, <3>6, <3>7 DEF Mirrors
  <2> QED BY <2>6, <2>7
<1> QED BY <1>3, <1>4 DEF MirrorInv


\* The mirror, where the innermost visit of a thread ends.
LEMMA MirrorExit ==
  ASSUME IInv, NEW t \in Threads, NEW s \in Spans, ~Borrowed(t), Popped(View, View', t, s),
         View \in [Threads -> Seq(Spans)], status[s] = "live",
         UNCHANGED <<config, hasError, pc, work, status, ended>>,
         \A r \in Spans : Stored(r)' <=> Stored(r),
         \A r \in Spans : store'[r].tracked = store[r].tracked,
         ~hasError /\ Draws(t, s) => Closes(TrackOf(t, s)),
         ~hasError /\ ~Draws(t, s) => stack' = stack
  PROVE  MirrorInv'
<1>0. TypeOK /\ StoreInv /\ CallInv /\ MirrorInv
  BY DEF IInv
<1>1. /\ OneMore(Positions(View', s), Positions(View, s))
      /\ \A r \in Spans \ {s} : Positions(View', r) = Positions(View, r)
  BY PositionsFront
<1>2. /\ IsFiniteSet(Positions(View', s)) /\ Cardinality(Positions(View', s)) \in Nat
      /\ Cardinality(Positions(View, s)) = Cardinality(Positions(View', s)) + 1
  BY <1>0, <1>1, OneVisitMore DEF MirrorInv
<1>3. \A r \in Spans : IsFiniteSet(Positions(View, r))'
  BY <1>0, <1>1, <1>2 DEF MirrorInv
<1>4. ASSUME ~hasError' PROVE Mirrors'
  <2>1. Mirrors /\ ~hasError /\ Acquires(t) /\ Stored(s)
    BY <1>0, <1>4 DEF MirrorInv, Acquires, StoreInv
  <2>2. stack \in [Spans \cup Threads -> Seq(Slices)] /\ s \notin ended
    BY <1>0, TypeFacts DEF StoreInv
  <2>3. Spans \cap Threads = {}
    BY LayerAssumption
  <2>4. \A r \in Spans \ {s} : Polls(r)' = Polls(r)
    BY <1>1 DEF Polls, ThreadSlices
  <2>5. \A o \in Threads : pc[o] = "attrs" => work[o].span \in Spans \ {s}
    BY <1>0 DEF CallInv, OpeningInv, Opening
  <2>6. CASE ThreadSlices
    <3>1. stack' = [stack EXCEPT ![t] = IF stack[t] = <<>> THEN stack[t] ELSE Front(stack[t])]
      BY <2>1, <2>6 DEF Draws, Closes, TrackOf
    <3>2. ThreadsMirror'
      <4>1. stack[t] = View[t] /\ stack[t] # <<>>
        BY <2>1, <2>6 DEF Mirrors, ThreadsMirror, Popped
      <4>2. stack'[t] = View'[t]
        BY <2>2, <3>1, <4>1 DEF Popped
      <4>3. \A o \in Threads \ {t} : stack'[o] = View'[o]
        BY <2>1, <2>2, <2>6, <3>1 DEF Mirrors, ThreadsMirror, Popped
      <4> QED BY <4>2, <4>3 DEF ThreadsMirror
    <3>3. \A r \in Spans : stack'[r] = stack[r]
      BY <2>2, <2>3, <3>1
    <3>4. \A r \in Spans : Polls(r)' = Polls(r)
      BY <2>6 DEF Polls, ThreadSlices
    <3>5. SpansMirror'
      BY <2>1, <3>3, <3>4 DEF Mirrors, SpansMirror
    <3>6. EndedMirror'
      BY <1>0, <2>1, <3>3 DEF Mirrors, EndedMirror, TypeOK
    <3>7. NoneMirror'
      BY <2>1, <3>3 DEF Mirrors, NoneMirror
    <3>8. BeginMirror'
      BY <2>1, <2>5, <3>3 DEF Mirrors, BeginMirror, SpanSlices
    <3> QED BY <3>2, <3>5, <3>6, <3>7, <3>8 DEF Mirrors
  <2>7. CASE ~ThreadSlices
    <3>1. ThreadsMirror'
      BY <2>7 DEF ThreadsMirror, ThreadSlices
    <3>2. \A r \in Spans \ {s} : stack'[r] = stack[r]
      <4>1. CASE Draws(t, s)
        BY <2>1, <2>2, <2>7, <4>1 DEF Closes, TrackOf
      <4>2. CASE ~Draws(t, s)
        BY <2>1, <4>2
      <4> QED BY <4>1, <4>2
    <3>3. store[s].tracked => stack'[s] = Polled(Polls(s)')
      <4>1. ASSUME store[s].tracked, config.polls PROVE stack'[s] = Polled(Polls(s)')
        <5>1. stack'[s] = IF stack[s] = <<>> THEN stack[s] ELSE Front(stack[s])
          <6>1. Draws(t, s)
            BY <2>1, <2>7, <4>1 DEF Draws
          <6> QED BY <2>1, <2>2, <2>7, <6>1 DEF Closes, TrackOf
        <5>2. PICK n \in Nat : n = Cardinality(Positions(View', s))
          BY <1>2
        <5>3. Polls(s) = n + 1 /\ Polls(s)' = n
          BY <1>2, <2>7, <4>1, <5>2 DEF Polls, ThreadSlices
        <5>4. stack[s] = Polled(n + 1)
          BY <2>1, <4>1, <5>3 DEF Mirrors, SpansMirror
        <5>5. Polled(n + 1) # <<>> /\ Front(Polled(n + 1)) = Polled(n)
          BY <5>2, PolledStep
        <5> QED BY <5>1, <5>3, <5>4, <5>5
      <4>2. ASSUME store[s].tracked, ~config.polls PROVE stack'[s] = Polled(Polls(s)')
        <5>1. stack' = stack
          BY <2>1, <2>7, <4>2 DEF Draws
        <5>2. Polls(s) = 0 /\ Polls(s)' = 0
          BY <4>2 DEF Polls
        <5> QED BY <2>1, <4>2, <5>1, <5>2 DEF Mirrors, SpansMirror
      <4> QED BY <4>1, <4>2
    <3>4. SpansMirror'
      BY <2>1, <2>4, <3>2, <3>3 DEF Mirrors, SpansMirror
    <3>5. EndedMirror'
      BY <1>0, <2>1, <2>2, <3>2 DEF Mirrors, EndedMirror, TypeOK
    <3>6. NoneMirror'
      BY <2>1, <3>2 DEF Mirrors, NoneMirror
    <3>7. BeginMirror'
      BY <2>1, <2>5, <3>2 DEF Mirrors, BeginMirror, SpanSlices
    <3> QED BY <3>1, <3>4, <3>5, <3>6, <3>7 DEF Mirrors
  <2> QED BY <2>6, <2>7
<1> QED BY <1>3, <1>4 DEF MirrorInv

\* The mirror where the thread's context is taken, and nothing is drawn.
LEMMA MirrorBorrowed ==
  ASSUME IInv, View' = View,
         UNCHANGED <<config, hasError, pc, work, status, ended>>, stack' = stack,
         \A r \in Spans : Stored(r)' <=> Stored(r),
         \A r \in Spans : store'[r].tracked = store[r].tracked
  PROVE  MirrorInv'
<1>1. hasError => hasError'
  OBVIOUS
<1> QED BY <1>1, MirrorFrame DEF IInv

LEMMA StepEnter ==
  ASSUME IInv, NEW t \in Threads, NEW s \in Spans, Enter(t, s)
  PROVE  IInv'
<1>0. TypeOK /\ BoundInv /\ StoreInv /\ CallInv /\ MirrorInv
  BY DEF IInv
<1>1. /\ status[s] = "live" /\ Len(entered[t]) < MaxDepth
      /\ entered' = [entered EXCEPT ![t] = Append(entered[t], s)]
      /\ UNCHANGED <<config, hasError, hasFollows, spare, pc, work, status, ended, flows,
                     recorded>>
  BY DEF Enter
<1>2. stack \in [Spans \cup Threads -> Seq(Slices)] /\ entered \in [Threads -> Seq(Spans)]
  BY <1>0, TypeFacts DEF TypeOK
<1>3. entered[t] \in Seq(Spans) /\ Len(entered[t]) \in Nat /\ DOMAIN entered[t] = 1 .. Len(entered[t])
  BY <1>2, LenProperties
<1>4. PICK q : q = Append(entered[t], s)
  OBVIOUS
<1>5. /\ q \in Seq(Spans) /\ Len(q) = Len(entered[t]) + 1
      /\ \A i \in 1 .. Len(entered[t]) : q[i] = entered[t][i]
      /\ q[Len(entered[t]) + 1] = s /\ DOMAIN q = 1 .. Len(q)
  BY <1>3, <1>4, AppendProperties, LenProperties
<1>6. /\ entered' \in [Threads -> Seq(Spans)] /\ entered'[t] = q
      /\ \A o \in Threads \ {t} : entered'[o] = entered[o]
  BY <1>1, <1>2, <1>4, <1>5
<1>7. \A o \in Threads : Len(entered'[o]) <= MaxDepth
  <2>1. MaxDepth \in Nat
    BY LayerAssumption
  <2>2. Len(q) <= MaxDepth
    BY <1>1, <1>3, <1>5, <2>1
  <2> QED BY <1>0, <1>6, <2>2 DEF BoundInv
<1>8. \A o \in Threads : pc[o] = "attrs" => work[o].depth <= Len(entered'[o])
  <2>1. \A o \in Threads : pc[o] = "attrs" => work[o].depth <= Len(entered[o])
    BY <1>0 DEF CallInv, OpeningInv, Opening
  <2>2. pc[t] = "attrs" => work[t].depth <= Len(q)
    <3>1. PICK d : d = work[t].depth /\ d \in 0 .. MaxDepth
      BY <1>0 DEF TypeOK
    <3>2. MaxDepth \in Nat
      BY LayerAssumption
    <3>3. d <= Len(entered[t]) => d <= Len(q)
      BY <1>3, <1>5, <3>1, <3>2
    <3> QED BY <2>1, <3>1, <3>3
  <2> QED BY <1>6, <2>1, <2>2
<1>9. \A o \in Threads : \A i \in DOMAIN entered'[o] : status[entered'[o][i]] = "live"
  <2>1. \A i \in DOMAIN q : status[q[i]] = "live"
    BY <1>0, <1>1, <1>3, <1>5 DEF CallInv, EnteredLive
  <2> QED BY <1>0, <1>6, <2>1 DEF CallInv, EnteredLive
<1>10. CASE Draws(t, s)
  <2>1. /\ Opens(TrackOf(t, s), SliceOf(s)) /\ Acquires(t) /\ Stored(s)
        /\ LET b == store[s].box
           IN Shows(s, IF b = NoBox THEN {} ELSE {b.poll} \cup
                         IF config.mode = "ThreadTracks" THEN b.fields ELSE {})
        /\ IF hasFollows
             THEN WritesFlows(s, store[s].box) /\ ClearFlows(s)
             ELSE NoFlows /\ UNCHANGED store
    BY <1>10 DEF Enter, Draws
  <2>2. Carried(s)
    BY <2>1 DEF Carried
  <2>3. stack' \in [Spans \cup Threads -> Seq(Slices)]
    <3>1. TrackOf(t, s) \in Spans \cup Threads /\ SliceOf(s) \in Slices
      BY DEF TrackOf, SliceOf, Slices
    <3> QED BY <1>2, <2>1, <3>1, OpensFacts
  <2>4. /\ shown' \in [Spans -> SUBSET Spans]
        /\ \A r \in Spans : shown[r] \subseteq shown'[r] /\ shown'[r] \subseteq {r}
    <3>1. PICK x : /\ x = (IF store[s].box = NoBox THEN {} ELSE {store[s].box.poll} \cup
                            IF config.mode = "ThreadTracks" THEN store[s].box.fields ELSE {})
                   /\ Shows(s, x)
      BY <2>1
    <3>2. x \ {None} \subseteq {s}
      <4>1. BoxOwn(s, store[s].box)
        BY <1>0, <2>1 DEF StoreInv
      <4> QED BY <3>1, <4>1 DEF BoxOwn
    <3>3. PICK y : y = shown[s] \cup (x \ {None})
      OBVIOUS
    <3>4. shown' = [shown EXCEPT ![s] = y]
      BY <3>1, <3>3 DEF Shows
    <3>5. /\ shown \in [Spans -> SUBSET Spans]
          /\ \A r \in Spans : shown[r] \subseteq {r}
      BY <1>0 DEF TypeOK, StoreInv, BoxesOwn
    <3>6. y \in SUBSET Spans /\ shown[s] \subseteq y /\ y \subseteq {s}
      BY <3>2, <3>3, <3>5
    <3> QED BY <3>4, <3>5, <3>6
  <2>5. /\ TypeOK' /\ BoundInv' /\ StoreInv' /\ CallInv' /\ FieldInv' /\ FlowInv'
        /\ \A r \in Spans : Stored(r)' <=> Stored(r)
        /\ \A r \in Spans : store'[r].tracked = store[r].tracked
    BY <1>1, <1>6, <1>7, <1>8, <1>9, <2>2, <2>3, <2>4, VisitStep
  <2>6. ~Borrowed(t) /\ Pushed(View, View', t, s) /\ View \in [Threads -> Seq(Spans)]
    BY <1>0, <1>1, <2>1, EnterView DEF Acquires, CallInv
  <2>7. MirrorInv'
    BY <1>1, <1>10, <2>1, <2>5, <2>6, MirrorEnter
  <2> QED BY <2>5, <2>7 DEF IInv
<1>11. CASE ~Draws(t, s)
  <2>1. UNCHANGED <<store, stack, starts, terms, shown, repeated>>
    BY <1>11 DEF Enter
  <2>2. Carried(s)
    BY <2>1 DEF Carried, NoFlows
  <2>3. /\ stack' \in [Spans \cup Threads -> Seq(Slices)]
        /\ shown' \in [Spans -> SUBSET Spans]
        /\ \A r \in Spans : shown[r] \subseteq shown'[r] /\ shown'[r] \subseteq {r}
    BY <1>0, <1>2, <2>1 DEF TypeOK, StoreInv, BoxesOwn
  <2>4. /\ TypeOK' /\ BoundInv' /\ StoreInv' /\ CallInv' /\ FieldInv' /\ FlowInv'
        /\ \A r \in Spans : Stored(r)' <=> Stored(r)
        /\ \A r \in Spans : store'[r].tracked = store[r].tracked
    BY <1>1, <1>6, <1>7, <1>8, <1>9, <2>2, <2>3, VisitStep
  <2>5. /\ View \in [Threads -> Seq(Spans)]
        /\ Borrowed(t) => View' = View
        /\ ~Borrowed(t) => Pushed(View, View', t, s)
    BY <1>0, <1>1, EnterView DEF CallInv
  <2>6. CASE Borrowed(t)
    <3>1. MirrorInv'
      BY <1>1, <2>1, <2>4, <2>5, <2>6, MirrorBorrowed
    <3> QED BY <2>4, <3>1 DEF IInv
  <2>7. CASE ~Borrowed(t)
    <3>1. MirrorInv'
      BY <1>1, <1>11, <2>1, <2>4, <2>5, <2>7, MirrorEnter
    <3> QED BY <2>4, <3>1 DEF IInv
  <2> QED BY <2>6, <2>7
<1> QED BY <1>10, <1>11


LEMMA StepExit ==
  ASSUME IInv, NEW t \in Threads, Exit(t)
  PROVE  IInv'
<1>0. TypeOK /\ BoundInv /\ StoreInv /\ CallInv /\ MirrorInv
  BY DEF IInv
<1>1. /\ entered[t] # <<>> /\ (pc[t] = "attrs" => Len(entered[t]) > work[t].depth)
      /\ entered' = [entered EXCEPT ![t] = Front(entered[t])]
      /\ UNCHANGED <<config, hasError, hasFollows, spare, pc, work, status, shown, ended,
                     flows, recorded>>
  BY DEF Exit
<1>2. stack \in [Spans \cup Threads -> Seq(Slices)] /\ entered \in [Threads -> Seq(Spans)]
  BY <1>0, TypeFacts DEF TypeOK
<1>3. PICK q : q = Front(entered[t])
  OBVIOUS
<1>4. /\ q \in Seq(Spans) /\ Len(q) = Len(entered[t]) - 1
      /\ DOMAIN q = 1 .. (Len(entered[t]) - 1)
      /\ Len(entered[t]) \in Nat \ {0} /\ DOMAIN entered[t] = 1 .. Len(entered[t])
      /\ \A i \in 1 .. (Len(entered[t]) - 1) : q[i] = entered[t][i]
      /\ Last(entered[t]) \in Spans /\ Last(entered[t]) = entered[t][Len(entered[t])]
  BY <1>1, <1>2, <1>3, FrontFacts
<1>5. PICK s \in Spans : s = Last(entered[t]) /\ status[s] = "live"
  BY <1>0, <1>4 DEF CallInv, EnteredLive
<1>6. /\ entered' \in [Threads -> Seq(Spans)] /\ entered'[t] = q
      /\ \A o \in Threads \ {t} : entered'[o] = entered[o]
  BY <1>1, <1>2, <1>3, <1>4
<1>7. \A o \in Threads : Len(entered'[o]) <= MaxDepth
  <2>1. MaxDepth \in Nat
    BY LayerAssumption
  <2>2. Len(entered[t]) <= MaxDepth
    BY <1>0 DEF BoundInv
  <2>3. Len(q) <= MaxDepth
    BY <1>4, <2>1, <2>2
  <2> QED BY <1>0, <1>6, <2>3 DEF BoundInv
<1>8. \A o \in Threads : pc[o] = "attrs" => work[o].depth <= Len(entered'[o])
  <2>1. \A o \in Threads : pc[o] = "attrs" => work[o].depth <= Len(entered[o])
    BY <1>0 DEF CallInv, OpeningInv, Opening
  <2>2. pc[t] = "attrs" => work[t].depth <= Len(q)
    <3>1. PICK d : d = work[t].depth /\ d \in 0 .. MaxDepth
      BY <1>0 DEF TypeOK
    <3>2. MaxDepth \in Nat
      BY LayerAssumption
    <3>3. Len(entered[t]) > d => d <= Len(q)
      BY <1>4, <3>1, <3>2
    <3> QED BY <1>1, <3>1, <3>3
  <2> QED BY <1>6, <2>1, <2>2
<1>9. \A o \in Threads : \A i \in DOMAIN entered'[o] : status[entered'[o][i]] = "live"
  <2>1. \A i \in DOMAIN q : status[q[i]] = "live"
    BY <1>0, <1>4 DEF CallInv, EnteredLive
  <2> QED BY <1>0, <1>6, <2>1 DEF CallInv, EnteredLive
<1>10. /\ shown' \in [Spans -> SUBSET Spans]
       /\ \A r \in Spans : shown[r] \subseteq shown'[r] /\ shown'[r] \subseteq {r}
  BY <1>0, <1>1 DEF TypeOK, StoreInv, BoxesOwn
<1>11. /\ View \in [Threads -> Seq(Spans)]
       /\ Borrowed(t) => View' = View
       /\ ~Borrowed(t) => Popped(View, View', t, s)
  BY <1>0, <1>1, <1>5, ExitView DEF CallInv
<1>12. CASE Draws(t, s)
  <2>1. /\ Closes(TrackOf(t, s)) /\ Acquires(t) /\ Stored(s)
        /\ IF ThreadSlices /\ hasFollows
             THEN WritesFlows(s, store[s].box) /\ ClearFlows(s)
             ELSE NoFlows /\ UNCHANGED store
    BY <1>5, <1>12 DEF Exit, ExitDraws, Draws
  <2>2. Carried(s)
    BY <2>1 DEF Carried
  <2>3. stack' \in [Spans \cup Threads -> Seq(Slices)]
    <3>1. TrackOf(t, s) \in Spans \cup Threads
      BY DEF TrackOf
    <3> QED BY <1>2, <2>1, <3>1, ClosesFacts
  <2>4. /\ TypeOK' /\ BoundInv' /\ StoreInv' /\ CallInv' /\ FieldInv' /\ FlowInv'
        /\ \A r \in Spans : Stored(r)' <=> Stored(r)
        /\ \A r \in Spans : store'[r].tracked = store[r].tracked
    BY <1>1, <1>6, <1>7, <1>8, <1>9, <1>10, <2>2, <2>3, VisitStep
  <2>5. ~Borrowed(t)
    BY <2>1 DEF Acquires
  <2>6. MirrorInv'
    BY <1>1, <1>5, <1>11, <1>12, <2>1, <2>4, <2>5, MirrorExit
  <2> QED BY <2>4, <2>6 DEF IInv
<1>13. CASE ~Draws(t, s)
  <2>1. UNCHANGED <<store, stack, starts, terms, repeated>>
    BY <1>5, <1>13 DEF Exit, ExitDraws
  <2>2. Carried(s)
    BY <2>1 DEF Carried, NoFlows
  <2>3. stack' \in [Spans \cup Threads -> Seq(Slices)]
    BY <1>2, <2>1
  <2>4. /\ TypeOK' /\ BoundInv' /\ StoreInv' /\ CallInv' /\ FieldInv' /\ FlowInv'
        /\ \A r \in Spans : Stored(r)' <=> Stored(r)
        /\ \A r \in Spans : store'[r].tracked = store[r].tracked
    BY <1>1, <1>6, <1>7, <1>8, <1>9, <1>10, <2>2, <2>3, VisitStep
  <2>5. CASE Borrowed(t)
    <3>1. MirrorInv'
      BY <1>1, <1>11, <2>1, <2>4, <2>5, MirrorBorrowed
    <3> QED BY <2>4, <3>1 DEF IInv
  <2>6. CASE ~Borrowed(t)
    <3>1. MirrorInv'
      BY <1>1, <1>5, <1>11, <1>13, <2>1, <2>4, <2>6, MirrorExit
    <3> QED BY <2>4, <3>1 DEF IInv
  <2> QED BY <2>5, <2>6
<1> QED BY <1>12, <1>13

\* The span leaves the store: with an end that carries what its box holds, or,
\* where none can be written, without one.
LEMMA StepClose ==
  ASSUME IInv, NEW t \in Threads, NEW s \in Spans, Close(t, s)
  PROVE  IInv'
<1>0. TypeOK /\ BoundInv /\ StoreInv /\ CallInv /\ FieldInv /\ FlowInv /\ MirrorInv
  BY DEF IInv
<1>1. /\ status[s] = "live" /\ ~Locked(s)
      /\ \A o \in Threads : work[o].span # s /\ ~Contains(entered[o], s)
      /\ status' = [status EXCEPT ![s] = "closed"] /\ store' = [store EXCEPT ![s] = NoData]
      /\ UNCHANGED <<config, hasError, hasFollows, pc, work, entered, flows, recorded>>
  BY DEF Close, MayClose
<1>2. PICK b : /\ b = (IF Stored(s) THEN store[s].box ELSE NoBox)
               /\ BoxReturned(t, b)
               /\ IF store[s].tracked /\ Acquires(t)
                    THEN Closes(s) /\ EndCarries(s, b) /\ ended' = ended \cup {s}
                    ELSE UNCHANGED <<trace, repeated>>
  BY DEF Close
<1>3. /\ SpareOK /\ SpareOK' /\ work \in [Threads -> Work]
      /\ stack \in [Spans \cup Threads -> Seq(Slices)]
  BY <1>0, <1>2, TypeFacts, ReturnedFacts
<1>4. /\ store' \in [Spans -> Data] /\ store'[s] = NoData /\ ~Stored(s)'
      /\ \A r \in Spans \ {s} : store'[r] = store[r]
  BY <1>0, <1>1, BoxFacts DEF TypeOK, Stored
<1>5. \A r \in Spans \ {s} : Stored(r)' <=> Stored(r)
  BY <1>4 DEF Stored
<1>6. /\ status'[s] = "closed" /\ \A r \in Spans \ {s} : status'[r] = status[r]
      /\ status' \in [Spans -> {"none", "opening", "live", "closed"}]
  BY <1>0, <1>1 DEF TypeOK
<1>7. s \notin ended /\ (store[s].tracked => Stored(s))
  BY <1>0, <1>1, BoxFacts DEF StoreInv, Stored
<1>8. \A o \in Threads : \A i \in DOMAIN entered[o] : entered[o][i] \in Spans \ {s}
  <2>1. \A o \in Threads : \A i \in DOMAIN entered[o] : entered[o][i] \in Spans
    BY <1>0, ElementOfSeq, LenProperties DEF TypeOK
  <2>2. \A o \in Threads : DOMAIN entered[o] = 1 .. Len(entered[o])
    BY <1>0, LenProperties DEF TypeOK
  <2> QED BY <1>1, <2>1, <2>2 DEF Contains
<1>9. \A end : Queued(s, end)' = {}
  BY <1>4 DEF Queued
<1>10. \A r \in Spans \ {s} : \A end : Queued(r, end)' = Queued(r, end)
  BY <1>4, <1>5 DEF Queued
<1>11. SameFlowCalls
  BY <1>1 DEF SameFlowCalls
<1>12. flows \in Seq([from : Spans, to : Spans]) /\ recorded \subseteq Spans
  BY <1>0 DEF TypeOK
<1>13. BoundInv'
  BY <1>0, <1>1 DEF BoundInv
<1>14. CallInv'
  <2>1. OpeningInv'
    BY <1>0, <1>1, <1>6 DEF CallInv, OpeningInv, Opening, Begun, SpanSlices, ThreadSlices
  <2>2. RecordingInv'
    <3>1. \A o \in Threads : pc[o] = "record" => work[o].span \in Spans \ {s}
      BY <1>0, <1>1 DEF CallInv, RecordingInv, Recording
    <3> QED BY <1>0, <1>1, <1>4, <1>5, <3>1 DEF CallInv, RecordingInv, Recording
  <2>3. FlowingInv'
    <3>1. ASSUME NEW o \in Threads, InFlow(o)' PROVE Flowing(o)'
      <4>1. InFlow(o) /\ Flowing(o) /\ work'[o] = work[o] /\ flows' = flows
        BY <1>0, <1>1, <3>1 DEF CallInv, FlowingInv, InFlow
      <4>2. work[o].span # s
        BY <1>1
      <4> QED BY <1>6, <4>1, <4>2 DEF Flowing
    <3> QED BY <3>1 DEF FlowingInv
  <2>4. OneOpening' /\ OneFlowing'
    BY <1>0, <1>1 DEF CallInv, OneOpening, OneFlowing, InFlow
  <2>5. EnteredLive'
    BY <1>0, <1>1, <1>6, <1>8 DEF CallInv, EnteredLive
  <2> QED BY <2>1, <2>2, <2>3, <2>4, <2>5 DEF CallInv
<1>15. View' = View
  BY <1>1, ViewSame
<1>16. \A r \in Spans : Polls(r)' = Polls(r)
  BY <1>1, <1>15 DEF Polls, ThreadSlices
<1>17. \A o \in Threads : pc[o] = "attrs" => work[o].span \in Spans \ {s}
  BY <1>0, <1>1 DEF CallInv, OpeningInv, Opening
<1>18. CASE store[s].tracked /\ Acquires(t)
  <2>1. /\ Closes(s) /\ WritesFlows(s, b) /\ Shows(s, b.fields) /\ ended' = ended \cup {s}
        /\ Stored(s) /\ b = store[s].box /\ ~hasError
    BY <1>2, <1>7, <1>18 DEF EndCarries, Acquires
  <2>2. /\ stack' \in [Spans \cup Threads -> Seq(Slices)]
        /\ stack'[s] = IF stack[s] = <<>> THEN stack[s] ELSE Front(stack[s])
        /\ \A y \in (Spans \cup Threads) \ {s} : stack'[y] = stack[y]
    BY <1>3, <2>1, ClosesFacts
  <2>3. /\ shown' \in [Spans -> SUBSET Spans]
        /\ \A r \in Spans : shown[r] \subseteq shown'[r] /\ shown'[r] \subseteq {r}
        /\ s \in b.fields => s \in shown'[s]
    <3>1. b.fields \subseteq {s} /\ s # None
      BY <1>0, <2>1, BoxFacts DEF StoreInv, BoxOwn
    <3>2. PICK y : y = shown[s] \cup (b.fields \ {None})
      OBVIOUS
    <3>3. shown' = [shown EXCEPT ![s] = y]
      BY <2>1, <3>2 DEF Shows
    <3>4. /\ shown \in [Spans -> SUBSET Spans]
          /\ \A r \in Spans : shown[r] \subseteq {r}
      BY <1>0 DEF TypeOK, StoreInv, BoxesOwn
    <3>5. /\ y \in SUBSET Spans /\ shown[s] \subseteq y /\ y \subseteq {s}
          /\ s \in b.fields => s \in y
      BY <3>1, <3>2, <3>4
    <3> QED BY <3>3, <3>4, <3>5
  <2>4. FlowInv'
    <3>1. GoneStays
      BY <1>5, <1>6, <2>1 DEF GoneStays, Gone
    <3> QED BY <1>0, <1>1, <1>9, <1>10, <1>11, <1>12, <2>1, <3>1, FlowWritten DEF CallInv
  <2>5. /\ starts' \subseteq (1 .. Len(flows')) \X Spans
        /\ terms' \subseteq (1 .. Len(flows')) \X Spans
        /\ repeated' \in BOOLEAN
    <3>1. \A f \in Ends(b, "start") \cup Ends(b, "terminate") : f \in DOMAIN flows
      BY <1>0, <2>1 DEF FlowInv, QueuedInv, Queued
    <3> QED BY <1>0, <1>1, <2>1, <3>1, WrittenType
  <2>6. TypeOK'
    <3>1. /\ config' = config /\ hasError' \in BOOLEAN /\ hasFollows' \in BOOLEAN
          /\ pc' \in [Threads -> {"idle", "attrs", "record", "start", "terminate"}]
          /\ entered' \in [Threads -> Seq(Spans)] /\ work' \in [Threads -> Work]
          /\ recorded' \subseteq Spans /\ ended' \subseteq Spans
          /\ flows' \in Seq([from : Spans, to : Spans])
      BY <1>0, <1>1, <1>3, <2>1 DEF TypeOK
    <3> QED BY <1>0, <1>3, <1>4, <1>6, <2>2, <2>3, <2>5, <3>1, TypeFrame
  <2>7. StoreInv'
    <3>1. \A r \in Spans : Stored(r)' => status'[r] = "live" /\ BoxOwn(r, store[r].box)'
      BY <1>0, <1>4, <1>5, <1>6 DEF StoreInv, BoxOwn
    <3>2. \A r \in Spans : status'[r] = "live" /\ ~hasError' => Stored(r)'
      BY <1>0, <1>1, <1>5, <1>6 DEF StoreInv
    <3>3. \A r \in ended' : status'[r] = "closed"
      BY <1>0, <1>6, <2>1 DEF StoreInv, TypeOK
    <3>4. BoxesOwn'
      BY <1>3, <2>3 DEF BoxesOwn, SpareOK
    <3> QED BY <3>1, <3>2, <3>3, <3>4 DEF StoreInv
  <2>8. FieldInv'
    <3>1. s \in recorded => s \in b.fields
      BY <1>0, <2>1 DEF FieldInv
    <3> QED BY <1>0, <1>1, <1>4, <1>5, <1>6, <1>12, <2>1, <2>3, <3>1 DEF FieldInv
  <2>9. MirrorInv'
    <3>1. Mirrors
      BY <1>0, <2>1 DEF MirrorInv
    <3>2. stack'[s] = <<>>
      <4>1. Polls(s) = 0
        BY <1>0, <1>8, NotVisited, FS_EmptySet DEF CallInv, Polls
      <4>2. 0 \in Nat
        OBVIOUS
      <4>3. stack[s] = <<"life">>
        BY <1>18, <2>1, <3>1, <4>1, <4>2, PolledStep DEF Mirrors, SpansMirror
      <4>4. stack[s] # <<>>
        BY <4>3
      <4>5. Front(<<"life">>) = <<>>
        BY <4>2, PolledStep
      <4> QED BY <2>2, <4>3, <4>4, <4>5
    <3>3. s \notin Threads
      BY LayerAssumption
    <3>4. ThreadsMirror'
      BY <1>1, <1>15, <2>2, <3>1, <3>3 DEF Mirrors, ThreadsMirror, ThreadSlices
    <3>5. SpansMirror'
      BY <1>4, <1>5, <1>16, <2>2, <3>1 DEF Mirrors, SpansMirror
    <3>6. EndedMirror'
      BY <1>0, <2>1, <2>2, <3>1, <3>2 DEF Mirrors, EndedMirror, TypeOK
    <3>7. NoneMirror'
      BY <1>6, <2>2, <3>1 DEF Mirrors, NoneMirror
    <3>8. BeginMirror'
      BY <1>1, <1>17, <2>2, <3>1 DEF Mirrors, BeginMirror, SpanSlices
    <3>9. \A r \in Spans : IsFiniteSet(Positions(View, r))'
      BY <1>0, <1>15 DEF MirrorInv
    <3> QED BY <3>4, <3>5, <3>6, <3>7, <3>8, <3>9 DEF MirrorInv, Mirrors
  <2> QED BY <1>13, <1>14, <2>4, <2>6, <2>7, <2>8, <2>9 DEF IInv
<1>19. CASE ~(store[s].tracked /\ Acquires(t))
  <2>1. UNCHANGED <<trace, repeated>>
    BY <1>2, <1>19
  <2>2. FlowInv'
    <3>1. Gone(s)'
      BY <1>4, <1>6, <1>7, <2>1 DEF Gone
    <3>2. GoneStays
      BY <1>5, <1>6, <2>1, <3>1 DEF GoneStays, Gone
    <3> QED BY <1>0, <1>1, <1>9, <1>10, <1>11, <1>12, <2>1, <3>1, <3>2, FlowLost DEF CallInv
  <2>3. TypeOK'
    <3>1. /\ config' = config /\ hasError' \in BOOLEAN /\ hasFollows' \in BOOLEAN
          /\ pc' \in [Threads -> {"idle", "attrs", "record", "start", "terminate"}]
          /\ entered' \in [Threads -> Seq(Spans)] /\ work' \in [Threads -> Work]
          /\ recorded' \subseteq Spans /\ ended' \subseteq Spans
          /\ flows' \in Seq([from : Spans, to : Spans])
      BY <1>0, <1>1, <1>3, <2>1 DEF TypeOK
    <3>2. /\ starts' \subseteq (1 .. Len(flows')) \X Spans
          /\ terms' \subseteq (1 .. Len(flows')) \X Spans
          /\ repeated' \in BOOLEAN /\ shown' \in [Spans -> SUBSET Spans]
          /\ stack' \in [Spans \cup Threads -> Seq(Slices)]
      BY <1>0, <1>1, <1>3, <2>1 DEF TypeOK
    <3> QED BY <1>0, <1>3, <1>4, <1>6, <3>1, <3>2, TypeFrame
  <2>4. StoreInv'
    <3>1. \A r \in Spans : Stored(r)' => status'[r] = "live" /\ BoxOwn(r, store[r].box)'
      BY <1>0, <1>4, <1>5, <1>6 DEF StoreInv, BoxOwn
    <3>2. \A r \in Spans : status'[r] = "live" /\ ~hasError' => Stored(r)'
      BY <1>0, <1>1, <1>5, <1>6 DEF StoreInv
    <3>3. \A r \in ended' : status'[r] = "closed"
      BY <1>0, <1>6, <2>1 DEF StoreInv, TypeOK
    <3>4. BoxesOwn'
      BY <1>0, <1>3, <2>1 DEF StoreInv, BoxesOwn, SpareOK
    <3> QED BY <3>1, <3>2, <3>3, <3>4 DEF StoreInv
  <2>5. FieldInv'
    BY <1>0, <1>1, <1>4, <1>5, <1>6, <1>12, <2>1 DEF FieldInv
  <2>6. MirrorInv'
    <3>1. \A r \in Spans : status'[r] = "none" => status[r] = "none"
      BY <1>6
    <3>2. \A r \in Spans : Stored(r)' /\ store'[r].tracked => Stored(r) /\ store[r].tracked
      BY <1>4, <1>5
    <3>3. hasError => hasError'
      BY <1>1
    <3> QED BY <1>0, <1>1, <1>15, <2>1, <3>1, <3>2, <3>3, MirrorFrame
  <2> QED BY <1>13, <1>14, <2>2, <2>3, <2>4, <2>5, <2>6 DEF IInv
<1> QED BY <1>18, <1>19

-----------------------------------------------------------------------------
(* The invariant.                                                           *)

LEMMA StepStutter ==
  ASSUME IInv, UNCHANGED vars
  PROVE  IInv'
<1> USE DEF vars
<1>0. TypeOK /\ BoundInv /\ StoreInv /\ CallInv /\ FieldInv /\ FlowInv /\ MirrorInv
  BY DEF IInv
<1>1. TypeOK'
  BY <1>0 DEF TypeOK
<1>2. BoundInv'
  BY <1>0 DEF BoundInv
<1>3. \A s \in Spans : Stored(s)' <=> Stored(s)
  BY DEF Stored
<1>4. SpareOK'
  BY <1>0, TypeFacts DEF SpareOK
<1>5. StoreInv'
  <2>1. \A r \in Spans : Stored(r) => BoxOwn(r, store'[r].box)
    BY <1>0 DEF StoreInv
  <2> QED BY <1>0, <1>3, <1>4, <2>1, StoreFrame
<1>6. CallInv'
  BY <1>0, <1>3, CallFrame DEF CallInv, OpeningInv, Opening, EnteredLive
<1>7. FieldInv'
  <2>1. recorded \subseteq Spans
    BY <1>0 DEF TypeOK
  <2> QED BY <1>0, <1>3, <2>1, FieldFrame
<1>8. FlowInv'
  <2>1. SameFlowCalls
    BY DEF SameFlowCalls
  <2>2. GoneStays
    BY <1>3 DEF GoneStays, Gone
  <2>3. \A s \in Spans : /\ Queued(s, "start")' = Queued(s, "start")
                         /\ Queued(s, "terminate")' = Queued(s, "terminate")
    BY <1>3 DEF Queued
  <2> QED BY <1>0, <2>1, <2>2, <2>3, FlowSame DEF CallInv, TypeOK
<1>9. MirrorInv'
  <2>1. View' = View
    BY ViewSame
  <2> QED BY <1>0, <1>3, <2>1, MirrorFrame
<1> QED BY <1>1, <1>2, <1>5, <1>6, <1>7, <1>8, <1>9 DEF IInv

LEMMA InitInv == Init => IInv
<1> SUFFICES ASSUME Init PROVE IInv
  OBVIOUS
<1> USE DEF Init
<1>1. 0 <= SpareBoxes /\ 0 <= MaxDepth /\ 0 <= MaxFlows
  <2>1. SpareBoxes \in Nat /\ MaxDepth \in Nat /\ MaxFlows \in Nat
    BY LayerAssumption
  <2>2. \A n \in Nat : 0 <= n
    OBVIOUS
  <2> QED BY <2>1, <2>2
<1>2. TypeOK
  <2>1. SpareOK
    BY <1>1, EmptySeq DEF SpareOK
  <2>2. store \in [Spans -> Data] /\ work \in [Threads -> Work]
    BY BoxFacts, IdleType
  <2>3. /\ entered \in [Threads -> Seq(Spans)] /\ flows \in Seq([from : Spans, to : Spans])
        /\ stack \in [Spans \cup Threads -> Seq(Slices)]
    BY EmptySeq
  <2> QED BY <2>1, <2>2, <2>3 DEF TypeOK, SpareOK, Slices, Work
<1>3. BoundInv
  BY <1>1, EmptySeq DEF BoundInv
<1>4. \A s \in Spans : ~Stored(s) /\ status[s] = "none"
  BY DEF Stored
<1>5. StoreInv
  BY <1>4, EmptySeq DEF StoreInv, BoxesOwn
<1>6. \A t \in Threads : pc[t] = "idle" /\ DOMAIN entered[t] = {}
  BY EmptySeq
<1>7. CallInv
  BY <1>6 DEF CallInv, OpeningInv, RecordingInv, FlowingInv, OneOpening, OneFlowing,
              EnteredLive, InFlow
<1>8. FieldInv
  BY DEF FieldInv
<1>9. FlowInv
  <2>1. DOMAIN flows = {}
    BY EmptySeq
  <2>2. QueuedInv
    BY <1>4, NoneQueued DEF QueuedInv
  <2>3. WorkingInv /\ SettledInv
    BY <1>6, <2>1 DEF WorkingInv, SettledInv
  <2>4. FlowEndsRight
    BY DEF FlowEndsRight
  <2> QED BY <2>2, <2>3, <2>4 DEF FlowInv
<1>10. MirrorInv
  <2>1. \A s \in Spans : Positions(View, s) = {}
    BY <1>2, <1>6, <1>7, NotVisited DEF CallInv
  <2>2. \A t \in Threads : View[t] = stack[t]
    BY <1>6 DEF View, Visible, Borrowed
  <2>3. Mirrors
    BY <1>4, <1>6, <2>2 DEF Mirrors, ThreadsMirror, SpansMirror, EndedMirror, NoneMirror,
                             BeginMirror
  <2> QED BY <2>1, <2>3, FS_EmptySet DEF MirrorInv
<1> QED BY <1>2, <1>3, <1>5, <1>7, <1>8, <1>9, <1>10 DEF IInv

LEMMA NextInv == IInv /\ [Next]_vars => IInv'
<1> SUFFICES ASSUME IInv, [Next]_vars PROVE IInv'
  OBVIOUS
<1>1. ASSUME NEW t \in Threads, NEW s \in Spans,
             NewSpan(t, s) \/ NewUntracked(t, s) \/ Record(t, s) \/ Enter(t, s) \/ Close(t, s)
      PROVE  IInv'
  BY <1>1, StepNewSpan, StepNewUntracked, StepRecord, StepEnter, StepClose
<1>2. ASSUME NEW t \in Threads, NEW s \in Spans, NEW p \in Spans, FollowsFrom(t, s, p)
      PROVE  IInv'
  BY <1>2, StepFollowsFrom
<1>3. ASSUME NEW t \in Threads,
             Publish(t) \/ Recorded(t) \/ QueueStart(t) \/ QueueTerminate(t) \/ Exit(t)
      PROVE  IInv'
  BY <1>3, StepPublish, StepRecorded, StepQueueStart, StepQueueTerminate, StepExit
<1>4. CASE WriterFails
  BY <1>4, StepWriterFails
<1>5. CASE UNCHANGED vars
  BY <1>5, StepStutter
<1> QED BY <1>1, <1>2, <1>3, <1>4, <1>5 DEF Next

\* The inductive invariant holds in every reachable state.
THEOREM Inductive == Spec => []IInv
  BY InitInv, NextInv, PTL DEF Spec

-----------------------------------------------------------------------------
(* The properties.                                                          *)

\* Visits counts the places a span has in what the threads are in.
LEMMA VisitsCount ==
  ASSUME NEW s
  PROVE  Visits(s) = Cardinality(Positions(View, s))
<1> DEFINE U == UNION {{t} \X {i \in DOMAIN Visible(t) : Visible(t)[i] = s} : t \in Threads}
<1>1. \A x : x \in U <=> \E t \in Threads : \E i \in DOMAIN Visible(t) :
                            Visible(t)[i] = s /\ x = <<t, i>>
  OBVIOUS
<1>2. \A t \in Threads : View[t] = Visible(t)
  BY DEF View
<1>3. \A x : x \in U <=> x \in Positions(View, s)
  BY <1>1, <1>2, PositionsAre
<1>4. U = Positions(View, s)
  <2> HIDE DEF U
  <2> QED BY <1>3
<1> QED BY <1>4 DEF Visits

LEMMA MirrorsShown == IInv => SlicesMirrorExecution
<1> SUFFICES ASSUME IInv, ~hasError PROVE SlicesMirrorExecution
  BY DEF SlicesMirrorExecution
<1>1. Mirrors
  BY DEF IInv, MirrorInv
<1>2. ThreadSlices => \A t \in Threads : stack[t] = Visible(t)
  BY <1>1 DEF Mirrors, ThreadsMirror, View
<1>3. ASSUME NEW s \in Spans, Stored(s), store[s].tracked
      PROVE  stack[s] = <<"life">> \o
               [i \in 1 .. (IF config.polls /\ ~ThreadSlices THEN Visits(s) ELSE 0) |-> "poll"]
  <2>1. stack[s] = Polled(Polls(s))
    BY <1>1, <1>3 DEF Mirrors, SpansMirror
  <2>2. Polls(s) = IF config.polls /\ ~ThreadSlices THEN Visits(s) ELSE 0
    BY VisitsCount DEF Polls
  <2> QED BY <2>1, <2>2 DEF Polled
<1>4. \A s \in ended : stack[s] = <<>>
  BY <1>1 DEF Mirrors, EndedMirror
<1> QED BY <1>2, <1>3, <1>4 DEF SlicesMirrorExecution

\* A span that got an end has no flow queued and is past losing its state.
LEMMA EndedFacts ==
  ASSUME TypeOK, StoreInv, NEW s \in ended
  PROVE  /\ status[s] = "closed" /\ ~Gone(s)
         /\ \A end : Queued(s, end) = {}
<1>1. s \in Spans /\ status[s] = "closed"
  BY DEF TypeOK, StoreInv
<1>2. ~Stored(s)
  BY <1>1 DEF StoreInv
<1> QED BY <1>1, <1>2, NoneQueued DEF Gone

LEMMA EndsWritten == IInv => EndIsComplete
<1> SUFFICES ASSUME IInv PROVE EndIsComplete
  OBVIOUS
<1>0. TypeOK /\ StoreInv /\ CallInv /\ FieldInv /\ FlowInv
  BY DEF IInv
<1>1. \A s \in ended : s \in recorded => s \in shown[s]
  BY <1>0 DEF FieldInv
<1>2. ASSUME NEW f \in DOMAIN flows, flows[f].to \in ended, NEW s \in Spans, <<f, s>> \in starts
      PROVE  <<f, flows[f].to>> \in terms
  <2>1. StartOut(f)
    BY <1>0, <1>2 DEF FlowInv, FlowEndsRight, StartOut
  <2>2. ~AtWork(f)
    <3> SUFFICES ASSUME NEW t \in Threads, InFlow(t), work[t].flow = f PROVE FALSE
      BY DEF AtWork
    <3>1. pc[t] # "start"
      BY <1>0, <2>1 DEF FlowInv, WorkingInv
    <3>2. status[flows[f].to] = "live"
      <4>1. Flowing(t)
        BY <1>0 DEF CallInv, FlowingInv
      <4>2. flows[f].to = work[t].span
        BY <4>1 DEF Flowing
      <4> QED BY <4>1, <4>2 DEF Flowing
    <3>3. status[flows[f].to] = "closed"
      BY <1>0, <1>2, EndedFacts
    <3> QED BY <3>2, <3>3
  <2>3. Settled(f)
    BY <1>0, <2>1, <2>2 DEF FlowInv, SettledInv, Dropped
  <2> QED BY <1>0, <1>2, <2>3, EndedFacts DEF Settled, TermOut
<1>3. ASSUME NEW f \in DOMAIN flows, flows[f].from \in ended, NEW s \in Spans, <<f, s>> \in terms
      PROVE  <<f, flows[f].from>> \in starts
  <2>1. TermOut(f)
    BY <1>0, <1>3 DEF FlowInv, FlowEndsRight, TermOut
  <2>2. ~AtWork(f)
    BY <1>0, <2>1 DEF FlowInv, WorkingInv, AtWork, InFlow
  <2>3. Settled(f)
    BY <1>0, <2>1, <2>2 DEF FlowInv, SettledInv, Dropped
  <2> QED BY <1>0, <1>3, <2>3, EndedFacts DEF Settled, StartOut
<1> QED BY <1>1, <1>2, <1>3 DEF EndIsComplete

\* Every variable of subscriber.rs's callbacks keeps its type, for any number of
\* threads and spans; a thread keeps at most SpareBoxes boxes (return_retained_span).
THEOREM TypeCorrect == Spec => []TypeOK
<1>1. IInv => TypeOK
  BY DEF IInv
<1> QED BY <1>1, Inductive, PTL

\* A box that on_close gives back is empty, so that no event of the next span that
\* takes it shows the fields or the poll flow of the last one.
THEOREM RecycledBoxesEmpty == Spec => []BoxesOwn
<1>1. IInv => BoxesOwn
  BY DEF IInv, StoreInv
<1> QED BY <1>1, Inductive, PTL

\* write_pending_flows writes an end of a flow once, on an event of the span it
\* belongs to, whichever enter, exit or end of that span comes first.
THEOREM FlowEndsOnce == Spec => []FlowEndsRight
<1>1. IInv => FlowEndsRight
  BY DEF IInv, FlowInv
<1> QED BY <1>1, Inductive, PTL

\* The end that on_close writes has all that is left of the span: fields that
\* on_record kept, and ends of flows that on_follows_from queued, from any thread.
THEOREM EndsCarryAll == Spec => []EndIsComplete
  BY EndsWritten, Inductive, PTL

\* Until an error stops the trace its open slices are the spans that the program is
\* in, per thread and per lifetime track: on_new_span, on_enter, on_exit and on_close
\* drop the begin and the end of a slice together.
THEOREM SlicesMirrorSpans == Spec => []SlicesMirrorExecution
  BY MirrorsShown, Inductive, PTL
================================================================================
