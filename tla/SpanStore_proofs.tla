--------------------------- MODULE SpanStore_proofs ---------------------------
(***************************************************************************)
(* Proofs about SpanStore for any number of frames, spans, shards and slots *)
(* and any assignment of spans to shards: its references are valid and the  *)
(* two tiers with their locks implement one map.                           *)
(***************************************************************************)
EXTENDS SpanStore, SetLemmas

Finds == {"get", "get_mut", "record"}

\* What a frame in an operation is there for: its span is in the state that the
\* operation was called in, and is inserted and taken by one frame.
CallInv ==
  /\ \A f \in Frames : pc[f] = "idle" <=> call[f] = NoCall
  /\ \A f \in Frames : pc[f] \in {"held", "written"} => call[f].op \in Finds
  /\ \A f \in Frames : pc[f] = "written" => call[f].op # "get"
  /\ \A f \in Frames :
       /\ call[f].op = "insert" => status[Span(f)] = "storing"
       /\ call[f].op = "take"   => status[Span(f)] = "closing"
       /\ call[f].op \in Finds  => status[Span(f)] \in {"known", "closing", "gone"}
  /\ \A f, g \in Frames :
       call[f].op \in {"insert", "take"} /\ call[g] = call[f] => f = g

\* A span is stored from its insertion to its removal, in one slot of its shard or
\* in the overflow map.
HomeInv ==
  /\ \A h \in Shards, i \in Indices :
       slots[h][i].id # None => ShardOf[slots[h][i].id] = h /\ slots[h][i].id \notin DOMAIN over
  /\ \A h \in Shards, i, j \in Indices :
       slots[h][i].id # None /\ slots[h][j].id = slots[h][i].id => i = j
  /\ \A s \in Spans :
       status[s] \in {"known", "closing"} <=> At(ShardOf[s], s) # {} \/ s \in DOMAIN over

\* A frame that went on to the overflow map cannot have missed its span: spans do
\* not move to the slots.
SearchInv == \A f \in Frames : pc[f] = "over" => At(Shard(f), Span(f)) = {}

\* A reference is to its span's entry, whose lock it keeps.
RefInv ==
  \A f \in Frames : Holds(f) =>
    IF ref[f] # 0
      THEN slots[Shard(f)][ref[f]].id = Span(f) /\ lock[Shard(f)] = f
      ELSE /\ Span(f) \in DOMAIN over
           /\ IF call[f].op = "get" THEN f \in readers[Over(f)] ELSE writer[Over(f)] = f

IInv == TypeOK /\ CallInv /\ HomeInv /\ SearchInv /\ RefInv

USE DEF Ops, Finds, NoCall, tiers, locks

-----------------------------------------------------------------------------
(* Types.                                                                   *)

\* The first free slot, and the first slot of a span, is one of them.
LEMMA FirstIn ==
  ASSUME NEW S \in SUBSET Indices, S # {}
  PROVE  First(S) \in S /\ First(S) \in Indices /\ First(S) # 0
<1>1. S \in SUBSET Nat /\ Indices \subseteq Nat \ {0}
  BY SpanStoreAssumption DEF Indices
<1>2. \E i \in S : \A j \in S : i <= j
  BY <1>1, Least
<1>3. First(S) \in S
  BY <1>2 DEF First
<1> QED BY <1>1, <1>3

LEMMA FirstAt ==
  ASSUME NEW h, NEW s, At(h, s) # {}
  PROVE  /\ First(At(h, s)) \in Indices /\ First(At(h, s)) # 0
         /\ slots[h][First(At(h, s))].id = s
<1>1. At(h, s) \in SUBSET Indices
  BY DEF At
<1>2. First(At(h, s)) \in At(h, s) /\ First(At(h, s)) \in Indices /\ First(At(h, s)) # 0
  BY <1>1, FirstIn
<1> QED BY <1>2 DEF At

LEMMA InitType == Init => TypeOK
  BY SpanStoreAssumption DEF Init, TypeOK, Empty, Indices

\* A frame that is not idle is in an operation on a span of some shards.
LEMMA CallType ==
  ASSUME IInv, NEW f \in Frames, pc[f] # "idle"
  PROVE  /\ call[f] \in [op : Ops, span : Spans]
         /\ call[f].op \in Ops /\ Span(f) \in Spans
         /\ Shard(f) \in Shards /\ Over(f) \in OverShards
<1>1. call[f] \in [op : Ops, span : Spans]
  BY DEF IInv, TypeOK, CallInv
<1> QED BY <1>1, SpanStoreAssumption DEF Span, Shard, Over

\* A slot that gets an entry.
LEMMA SlotType ==
  ASSUME TypeOK, NEW h \in Shards, NEW i \in Indices,
         NEW e \in [id : Spans \cup {None}, value : Nat], SetSlot(h, i, e)
  PROVE  /\ slots' \in [Shards -> [Indices -> [id : Spans \cup {None}, value : Nat]]]
         /\ slots'[h][i] = e
         /\ \A g \in Shards, j \in Indices : ~(g = h /\ j = i) => slots'[g][j] = slots[g][j]
  BY DEF TypeOK, SetSlot

LEMMA ReturnType ==
  ASSUME IInv, NEW f \in Frames, pc[f] # "idle", Return(f)
  PROVE  /\ pc' \in [Frames -> {"idle", "fast", "over", "held", "written"}]
         /\ call' \in [Frames -> [op : Ops, span : Spans] \cup {NoCall}]
         /\ status' \in [Spans -> {"new", "storing", "known", "closing", "gone"}]
  BY DEF Return, Goto, IInv, TypeOK

LEMMA NextType ==
  ASSUME IInv, [Next]_vars
  PROVE  TypeOK'
<1> USE SpanStoreAssumption
<1>1. ASSUME NEW f \in Frames, NEW op \in Ops, NEW s \in Spans, Call(f, op, s)
      PROVE  TypeOK'
  BY <1>1 DEF IInv, TypeOK, Call, Goto
<1>2. ASSUME NEW f \in Frames, FastInsert(f) PROVE TypeOK'
  <2>1. CASE Free(Shard(f)) # {}
    <3>1. First(Free(Shard(f))) \in Indices
      BY <2>1, FirstIn DEF Free
    <3>2. slots' \in [Shards -> [Indices -> [id : Spans \cup {None}, value : Nat]]]
      BY <1>2, <2>1, <3>1, CallType, SlotType DEF IInv, FastInsert
    <3> QED BY <1>2, <2>1, <3>2, ReturnType DEF IInv, TypeOK, FastInsert
  <2>2. CASE Free(Shard(f)) = {}
    BY <1>2, <2>2 DEF IInv, TypeOK, FastInsert, Goto
  <2> QED BY <2>1, <2>2
<1>3. ASSUME NEW f \in Frames, FastTake(f) PROVE TypeOK'
  <2> DEFINE h == Shard(f)
             i == First(At(h, Span(f)))
  <2>1. CASE At(h, Span(f)) # {}
    <3>1. i \in Indices /\ h \in Shards
      BY <1>3, <2>1, FirstIn, CallType DEF At, FastTake
    <3>2. slots' \in [Shards -> [Indices -> [id : Spans \cup {None}, value : Nat]]]
      BY <1>3, <2>1, <3>1, SlotType DEF IInv, FastTake, Empty
    <3>3. slots[h][i].value \in Nat
      BY <3>1 DEF IInv, TypeOK
    <3>4. answer' \in [Frames -> Nat \cup {None}]
      BY <1>3, <2>1, <3>3 DEF IInv, TypeOK, FastTake, Answer
    <3> QED BY <1>3, <2>1, <3>2, <3>4, ReturnType DEF IInv, TypeOK, FastTake
  <2>2. CASE At(h, Span(f)) = {}
    BY <1>3, <2>2 DEF IInv, TypeOK, FastTake, Goto
  <2> QED BY <2>1, <2>2
<1>4. ASSUME NEW f \in Frames, FastFind(f) PROVE TypeOK'
  <2> DEFINE h == Shard(f)
             i == First(At(h, Span(f)))
  <2>1. CASE At(h, Span(f)) # {}
    <3>1. i \in Indices /\ h \in Shards
      BY <1>4, <2>1, FirstIn, CallType DEF At, FastFind
    <3>2. slots[h][i].value \in Nat
      BY <3>1 DEF IInv, TypeOK
    <3>3. /\ lock' = [lock EXCEPT ![h] = f]
          /\ ref' = [ref EXCEPT ![f] = i]
          /\ answer' = [answer EXCEPT ![f] = slots[h][i].value]
          /\ pc' = [pc EXCEPT ![f] = "held"]
          /\ UNCHANGED <<tiers, readers, writer, call, status, calls>>
      BY <1>4, <2>1 DEF FastFind, Goto, Answer
    <3> QED BY <3>1, <3>2, <3>3 DEF IInv, TypeOK
  <2>2. CASE At(h, Span(f)) = {}
    BY <1>4, <2>2 DEF IInv, TypeOK, FastFind, Goto
  <2> QED BY <2>1, <2>2
<1>5. ASSUME NEW f \in Frames, OverInsert(f) PROVE TypeOK'
  <2>1. /\ DOMAIN over' \subseteq Spans /\ \A s \in DOMAIN over' : over'[s] \in Nat
    BY <1>5, CallType DEF IInv, TypeOK, OverInsert
  <2> QED BY <1>5, <2>1, ReturnType DEF IInv, TypeOK, OverInsert
<1>6. ASSUME NEW f \in Frames, OverMiss(f) PROVE TypeOK'
  BY <1>6, ReturnType DEF IInv, TypeOK, OverMiss, Answer
<1>7. ASSUME NEW f \in Frames, OverHold(f) PROVE TypeOK'
  <2>1. Over(f) \in OverShards
    BY <1>7, CallType DEF OverHold
  <2>2. /\ readers' \in [OverShards -> SUBSET Frames]
        /\ writer' \in [OverShards -> Frames \cup {None}]
    <3>1. CASE call[f].op = "get"
      <4>1. readers[Over(f)] \cup {f} \in SUBSET Frames
        BY <2>1 DEF IInv, TypeOK
      <4>2. readers' = [readers EXCEPT ![Over(f)] = readers[Over(f)] \cup {f}]
        BY <1>7, <3>1 DEF OverHold
      <4>3. readers' \in [OverShards -> SUBSET Frames]
        BY <4>1, <4>2 DEF IInv, TypeOK
      <4>4. UNCHANGED writer
        BY <1>7, <3>1 DEF OverHold
      <4> QED BY <4>3, <4>4 DEF IInv, TypeOK
    <3>2. CASE call[f].op # "get"
      BY <1>7, <2>1, <3>2 DEF IInv, TypeOK, OverHold
    <3> QED BY <3>1, <3>2
  <2> QED BY <1>7, <2>2 DEF IInv, TypeOK, OverHold, Goto, Answer
<1>8. ASSUME NEW f \in Frames, OverTake(f) PROVE TypeOK'
  <2>1. /\ DOMAIN over' \subseteq Spans /\ \A s \in DOMAIN over' : over'[s] \in Nat
    BY <1>8 DEF IInv, TypeOK, OverTake, Restrict
  <2> QED BY <1>8, <2>1, ReturnType DEF IInv, TypeOK, OverTake, Answer
<1>9. ASSUME NEW f \in Frames, Write(f) PROVE TypeOK'
  <2>1. Shard(f) \in Shards
    BY <1>9, CallType DEF Write
  <2>2. slots' \in [Shards -> [Indices -> [id : Spans \cup {None}, value : Nat]]]
    <3> DEFINE e == slots[Shard(f)][ref[f]]
    <3>1. CASE ref[f] # 0
      <4>1. ref[f] \in Indices /\ e \in [id : Spans \cup {None}, value : Nat]
        BY <2>1, <3>1 DEF IInv, TypeOK
      <4>2. [e EXCEPT !.value = @ + 1] \in [id : Spans \cup {None}, value : Nat]
        BY <4>1
      <4>3. SetSlot(Shard(f), ref[f], [e EXCEPT !.value = @ + 1])
        BY <1>9, <3>1 DEF Write, SetSlot
      <4> QED BY <2>1, <4>1, <4>2, <4>3, SlotType DEF IInv
    <3>2. CASE ref[f] = 0
      BY <1>9, <3>2 DEF IInv, TypeOK, Write
    <3> QED BY <3>1, <3>2
  <2>3. DOMAIN over' \subseteq Spans /\ \A s \in DOMAIN over' : over'[s] \in Nat
    BY <1>9 DEF IInv, TypeOK, Write
  <2> QED BY <1>9, <2>2, <2>3 DEF IInv, TypeOK, Write, Goto
<1>10. ASSUME NEW f \in Frames, Release(f) PROVE TypeOK'
  <2>1. /\ lock' \in [Shards -> Frames \cup {None}]
        /\ readers' \in [OverShards -> SUBSET Frames]
        /\ writer' \in [OverShards -> Frames \cup {None}]
    BY <1>10 DEF IInv, TypeOK, Release
  <2> QED BY <1>10, <2>1, ReturnType DEF IInv, TypeOK, Release
<1>11. CASE UNCHANGED vars
  BY <1>11 DEF IInv, TypeOK, vars
<1> QED
  BY <1>1, <1>2, <1>3, <1>4, <1>5, <1>6, <1>7, <1>8, <1>9, <1>10, <1>11
     DEF Next, Operation, Done

-----------------------------------------------------------------------------
(* Who is at work on what.                                                  *)

LEMMA InitInv == Init => IInv
<1> SUFFICES ASSUME Init PROVE IInv
  OBVIOUS
<1>1. TypeOK
  BY InitType
<1>2. CallInv
  BY DEF Init, CallInv
<1>3. HomeInv
  BY SpanStoreAssumption DEF Init, HomeInv, At, Empty
<1>4. SearchInv /\ RefInv
  BY DEF Init, SearchInv, RefInv, Holds
<1> QED BY <1>1, <1>2, <1>3, <1>4 DEF IInv

\* A frame that moves on within its operation.
LEMMA MoveCall ==
  ASSUME IInv, NEW f \in Frames, NEW l \in {"over", "held", "written"}, Goto(f, l),
         UNCHANGED <<call, status>>, pc[f] # "idle",
         l # "over" => call[f].op \in Finds, l = "written" => call[f].op # "get"
  PROVE  CallInv'
  BY DEF IInv, TypeOK, CallInv, Goto, Span

\* A frame whose operation is over leaves those of the others alone, for no other
\* one inserts or takes the span that it inserted or took.
LEMMA ReturnCall ==
  ASSUME IInv, TypeOK', NEW f \in Frames, pc[f] # "idle", Return(f)
  PROVE  /\ CallInv'
         /\ pc'[f] = "idle" /\ call'[f] = NoCall
         /\ \A g \in Frames \ {f} : pc'[g] = pc[g] /\ call'[g] = call[g]
         /\ \A s \in Spans \ {Span(f)} : status'[s] = status[s]
         /\ status'[Span(f)] = CASE call[f].op = "insert" -> "known"
                                 [] call[f].op = "take"   -> "gone"
                                 [] OTHER                 -> status[Span(f)]
<1>1. /\ pc'[f] = "idle" /\ call'[f] = NoCall
      /\ \A g \in Frames \ {f} : pc'[g] = pc[g] /\ call'[g] = call[g]
      /\ \A s \in Spans \ {Span(f)} : status'[s] = status[s]
      /\ status'[Span(f)] = CASE call[f].op = "insert" -> "known"
                              [] call[f].op = "take"   -> "gone"
                              [] OTHER                 -> status[Span(f)]
  BY CallType DEF Return, Goto, IInv, TypeOK
<1>2. ASSUME NEW g \in Frames, g # f, pc[g] # "idle", Span(g) = Span(f)
      PROVE  \/ status'[Span(g)] = status[Span(g)]
             \/ call[g].op \in Finds /\ status'[Span(g)] \in {"known", "gone"}
  <2>1. call[g] \in [op : Ops, span : Spans] /\ call[f] \in [op : Ops, span : Spans]
    BY <1>2, CallType
  <2>2. CASE call[f].op \in {"insert", "take"}
    <3>1. call[g].op # call[f].op
      BY <1>2, <2>1, <2>2 DEF Span, IInv, CallInv
    <3> QED BY <1>1, <1>2, <2>1, <2>2, <3>1 DEF IInv, CallInv
  <2>3. CASE call[f].op \notin {"insert", "take"}
    BY <1>1, <1>2, <2>3
  <2> QED BY <2>2, <2>3
<1>3. ASSUME NEW g \in Frames, g # f
      PROVE  /\ call'[g].op = "insert" => status'[Span(g)'] = "storing"
             /\ call'[g].op = "take"   => status'[Span(g)'] = "closing"
             /\ call'[g].op \in Finds  => status'[Span(g)'] \in {"known", "closing", "gone"}
  <2>1. call'[g] = call[g] /\ Span(g)' = Span(g)
    BY <1>1, <1>3 DEF Span
  <2>2. CASE pc[g] = "idle"
    BY <2>1, <2>2 DEF IInv, CallInv
  <2>3. CASE pc[g] # "idle" /\ Span(g) = Span(f)
    BY <1>2, <1>3, <2>1, <2>3 DEF IInv, CallInv
  <2>4. CASE pc[g] # "idle" /\ Span(g) # Span(f)
    <3>1. Span(g) \in Spans \ {Span(f)}
      BY <2>4, CallType
    <3> QED BY <1>1, <2>1, <3>1 DEF IInv, CallInv
  <2> QED BY <2>2, <2>3, <2>4
<1>4. \A g, k \in Frames :
        call'[g].op \in {"insert", "take"} /\ call'[k] = call'[g] => g = k
  BY <1>1 DEF IInv, CallInv
<1>5. \A g \in Frames :
        /\ pc'[g] = "idle" <=> call'[g] = NoCall
        /\ pc'[g] \in {"held", "written"} => call'[g].op \in Finds
        /\ pc'[g] = "written" => call'[g].op # "get"
  BY <1>1 DEF IInv, CallInv
<1>6. /\ call'[f].op = "insert" => status'[Span(f)'] = "storing"
      /\ call'[f].op = "take"   => status'[Span(f)'] = "closing"
      /\ call'[f].op \in Finds  => status'[Span(f)'] \in {"known", "closing", "gone"}
  BY <1>1
<1> QED BY <1>1, <1>3, <1>4, <1>5, <1>6 DEF CallInv

-----------------------------------------------------------------------------
(* The steps.                                                               *)

\* A frame that starts an operation.
LEMMA CallKeeps ==
  ASSUME IInv, TypeOK', NEW f \in Frames, NEW op \in Ops, NEW s \in Spans, Call(f, op, s)
  PROVE  IInv'
<1>1. /\ pc[f] = "idle" /\ pc'[f] = "fast" /\ call[f] = NoCall
      /\ call'[f] = [op |-> op, span |-> s]
      /\ \A g \in Frames \ {f} : pc'[g] = pc[g] /\ call'[g] = call[g]
      /\ \A t \in Spans \ {s} : status'[t] = status[t]
      /\ op = "insert" => status[s] = "new" /\ status'[s] = "storing"
      /\ op = "take" => status[s] = "known" /\ status'[s] = "closing"
      /\ op \in Finds => status[s] \in {"known", "closing", "gone"} /\ status'[s] = status[s]
  BY DEF Call, Goto, MayCall, IInv, TypeOK, CallInv
<1>2. UNCHANGED <<slots, over, lock, readers, writer, ref, answer>>
  BY DEF Call
<1>3. \A g \in Frames \ {f} : Span(g)' = Span(g) /\ Shard(g)' = Shard(g) /\ Over(g)' = Over(g)
  BY <1>1 DEF Span, Shard, Over
<1>4. CallInv'
  <2>1. ASSUME NEW g \in Frames
        PROVE  /\ call'[g].op = "insert" => status'[Span(g)'] = "storing"
               /\ call'[g].op = "take"   => status'[Span(g)'] = "closing"
               /\ call'[g].op \in Finds  => status'[Span(g)'] \in {"known", "closing", "gone"}
    <3>1. CASE g = f
      BY <1>1, <3>1 DEF Span
    <3>2. CASE g # f /\ call[g] # NoCall
      <4>1. Span(g) \in Spans /\ call'[g] = call[g] /\ Span(g)' = Span(g)
        BY <1>1, <1>3, <3>2, CallType DEF IInv, CallInv
      <4>2. CASE Span(g) = s
        BY <1>1, <4>1, <4>2 DEF IInv, CallInv
      <4>3. CASE Span(g) # s
        BY <1>1, <4>1, <4>3 DEF IInv, CallInv
      <4> QED BY <4>2, <4>3
    <3>3. CASE g # f /\ call[g] = NoCall
      BY <1>1, <3>3
    <3> QED BY <3>1, <3>2, <3>3
  <2>2. \A g, k \in Frames :
          call'[g].op \in {"insert", "take"} /\ call'[k] = call'[g] => g = k
    <3>1. ASSUME NEW g \in Frames, g # f, op \in {"insert", "take"} PROVE call'[g] # call'[f]
      <4>1. op = "insert" => status[s] # "storing"
        BY <1>1
      <4>2. op = "take" => status[s] # "closing"
        BY <1>1
      <4> QED BY <1>1, <3>1, <4>1, <4>2 DEF IInv, CallInv, Span
    <3> QED BY <1>1, <3>1 DEF IInv, CallInv
  <2>3. \A g \in Frames :
          /\ pc'[g] = "idle" <=> call'[g] = NoCall
          /\ pc'[g] \in {"held", "written"} => call'[g].op \in Finds
          /\ pc'[g] = "written" => call'[g].op # "get"
    BY <1>1 DEF IInv, CallInv
  <2> QED BY <2>1, <2>2, <2>3 DEF CallInv
<1>5. HomeInv'
  BY <1>1, <1>2 DEF IInv, HomeInv, At, TypeOK
<1>6. SearchInv'
  BY <1>1, <1>2, <1>3 DEF IInv, SearchInv, At
<1>7. RefInv'
  BY <1>1, <1>2, <1>3 DEF IInv, RefInv, Holds
<1> QED BY <1>4, <1>5, <1>6, <1>7 DEF IInv

\* What the other frames hold and search for is the same when the locks and tiers
\* stay and one frame's operation is over.
LEMMA OthersSame ==
  ASSUME IInv, NEW f \in Frames, UNCHANGED ref,
         \A g \in Frames \ {f} : pc'[g] = pc[g] /\ call'[g] = call[g]
  PROVE  \A g \in Frames \ {f} :
           /\ Span(g)' = Span(g) /\ Shard(g)' = Shard(g) /\ Over(g)' = Over(g)
           /\ Holds(g)' = Holds(g) /\ ref'[g] = ref[g]
  BY DEF Span, Shard, Over, Holds

\* A frame that does not find its span in the slots asks the overflow map.
LEMMA GoesOn ==
  ASSUME IInv, TypeOK', NEW f \in Frames, pc[f] = "fast", At(Shard(f), Span(f)) = {},
         Goto(f, "over"), UNCHANGED <<slots, over, lock, readers, writer, call, status, ref>>
  PROVE  IInv'
<1>1. CallInv'
  BY MoveCall
<1>2. HomeInv'
  BY DEF IInv, HomeInv, At
<1>3. pc'[f] = "over" /\ \A g \in Frames \ {f} : pc'[g] = pc[g]
  BY DEF Goto, IInv, TypeOK
<1>4. SearchInv'
  <2>1. \A g \in Frames : At(Shard(g), Span(g))' = At(Shard(g), Span(g))
    BY DEF At, Shard, Span
  <2> QED BY <1>3, <2>1 DEF IInv, SearchInv
<1>5. RefInv'
  BY <1>3 DEF IInv, RefInv, Holds, Shard, Span, Over
<1> QED BY <1>1, <1>2, <1>4, <1>5 DEF IInv

LEMMA FastInsertKeeps ==
  ASSUME IInv, TypeOK', NEW f \in Frames, FastInsert(f)
  PROVE  IInv'
<1>1. PICK h \in Shards, s \in Spans :
      /\ h = Shard(f) /\ s = Span(f) /\ ShardOf[s] = h /\ pc[f] # "idle"
      /\ pc[f] = "fast" /\ call[f].op = "insert" /\ lock[h] = None
      /\ UNCHANGED <<over, lock, readers, writer, ref, answer, calls>>
  BY CallType DEF FastInsert, Shard
<1>2. CASE Free(h) # {}
  <2>1. PICK i \in Indices : i = First(Free(h)) /\ slots[h][i] = Empty
    BY <1>2, FirstIn DEF Free
  <2>2. Return(f) /\ SetSlot(h, i, [id |-> s, value |-> 0])
    BY <1>1, <1>2, <2>1 DEF FastInsert
  <2>3. /\ slots'[h][i] = [id |-> s, value |-> 0]
        /\ \A g \in Shards, j \in Indices : ~(g = h /\ j = i) => slots'[g][j] = slots[g][j]
    BY <1>1, <2>1, <2>2, SlotType DEF IInv
  <2>4. /\ CallInv'
        /\ pc'[f] = "idle" /\ status'[s] = "known" /\ status[s] = "storing"
        /\ \A g \in Frames \ {f} : pc'[g] = pc[g] /\ call'[g] = call[g]
        /\ \A t \in Spans \ {s} : status'[t] = status[t]
    BY <1>1, <2>2, ReturnCall DEF IInv, CallInv
  <2>5. /\ At(ShardOf[s], s) = {} /\ s \notin DOMAIN over
    BY <1>1, <2>4 DEF IInv, HomeInv
  <2>6. /\ \A g \in Shards, t \in Spans : t # s => At(g, t)' = At(g, t)
        /\ At(h, s)' = {i}
    <3>1. \A g \in Shards, t \in Spans, j \in Indices :
            t # s => (slots'[g][j].id = t <=> slots[g][j].id = t)
      BY <2>1, <2>3, SpanStoreAssumption DEF Empty
    <3>2. \A j \in Indices : slots[h][j].id # s
      BY <1>1, <2>5 DEF At
    <3>3. \A j \in Indices : slots'[h][j].id = s <=> j = i
      BY <1>1, <2>1, <2>3, <3>2
    <3>4. \A g \in Shards, t \in Spans : t # s => At(g, t)' = At(g, t)
      BY <3>1 DEF At
    <3> QED BY <2>1, <3>3, <3>4 DEF At
  <2>7. HomeInv'
    <3>1. \A g \in Shards, j \in Indices : slots'[g][j].id # None =>
            ShardOf[slots'[g][j].id] = g /\ slots'[g][j].id \notin DOMAIN over'
      BY <1>1, <2>1, <2>3, <2>5 DEF IInv, HomeInv
    <3>2. \A g \in Shards, j, k \in Indices :
            slots'[g][j].id # None /\ slots'[g][k].id = slots'[g][j].id => j = k
      BY <1>1, <2>1, <2>3, <2>5 DEF IInv, HomeInv, At
    <3>3. \A t \in Spans : status'[t] \in {"known", "closing"}
            <=> At(ShardOf[t], t)' # {} \/ t \in DOMAIN over'
      <4>1. status'[s] = "known" /\ At(ShardOf[s], s)' # {}
        BY <1>1, <2>4, <2>6
      <4>2. ASSUME NEW t \in Spans, t # s
            PROVE  status'[t] \in {"known", "closing"}
                     <=> At(ShardOf[t], t)' # {} \/ t \in DOMAIN over'
        <5>1. status'[t] = status[t] /\ At(ShardOf[t], t)' = At(ShardOf[t], t)
          BY <2>4, <2>6, <4>2, SpanStoreAssumption
        <5> QED BY <1>1, <5>1 DEF IInv, HomeInv
      <4> QED BY <4>1, <4>2
    <3> QED BY <3>1, <3>2, <3>3 DEF HomeInv
  <2>8. \A g \in Frames \ {f} :
           /\ Span(g)' = Span(g) /\ Shard(g)' = Shard(g) /\ Over(g)' = Over(g)
           /\ Holds(g)' = Holds(g) /\ ref'[g] = ref[g]
    BY <1>1, <2>4, OthersSame
  <2>9. SearchInv'
    <3>1. ASSUME NEW g \in Frames, pc'[g] = "over" PROVE At(Shard(g), Span(g))' = {}
      <4>1. g # f /\ pc[g] = "over"
        BY <2>4, <3>1
      <4>2. Span(g) \in Spans /\ Shard(g) \in Shards /\ call[g].op \in Ops
            /\ call[g] \in [op : Ops, span : Spans] /\ call[f] \in [op : Ops, span : Spans]
        BY <1>1, <4>1, CallType
      <4>3. Span(g) # s
        BY <1>1, <2>4, <4>1, <4>2 DEF IInv, CallInv, Span
      <4> QED BY <2>6, <2>8, <4>1, <4>2, <4>3 DEF IInv, SearchInv, At
    <3> QED BY <3>1 DEF SearchInv
  <2>10. RefInv'
    <3>1. ASSUME NEW g \in Frames, Holds(g)' , g # f
          PROVE  IF ref[g] # 0
                   THEN slots'[Shard(g)][ref[g]].id = Span(g) /\ lock[Shard(g)] = g
                   ELSE /\ Span(g) \in DOMAIN over
                        /\ IF call[g].op = "get" THEN g \in readers[Over(g)] ELSE writer[Over(g)] = g
      <4>1. Holds(g) /\ Shard(g) \in Shards
        BY <2>8, <3>1, CallType DEF Holds
      <4>2. CASE ref[g] # 0
        <5>1. Shard(g) # h /\ ref[g] \in Indices
          BY <1>1, <4>1, <4>2, SpanStoreAssumption DEF IInv, RefInv, TypeOK
        <5> QED BY <2>3, <4>1, <4>2, <5>1 DEF IInv, RefInv
      <4>3. CASE ref[g] = 0
        BY <4>1, <4>3 DEF IInv, RefInv
      <4> QED BY <4>2, <4>3
    <3>2. ~Holds(f)'
      BY <2>4 DEF Holds
    <3> QED BY <1>1, <2>4, <2>8, <3>1, <3>2 DEF RefInv
  <2> QED BY <2>4, <2>7, <2>9, <2>10 DEF IInv
<1>3. CASE Free(h) = {}
  <2>1. Goto(f, "over") /\ UNCHANGED <<slots, call, status>>
    BY <1>1, <1>3 DEF FastInsert
  <2>2. At(h, s) = {}
    BY <1>1 DEF IInv, HomeInv, CallInv
  <2> QED BY <1>1, <2>1, <2>2, GoesOn
<1> QED BY <1>2, <1>3

LEMMA FastTakeKeeps ==
  ASSUME IInv, TypeOK', NEW f \in Frames, FastTake(f)
  PROVE  IInv'
<1>1. PICK h \in Shards, s \in Spans :
      /\ h = Shard(f) /\ s = Span(f) /\ ShardOf[s] = h /\ pc[f] # "idle"
      /\ pc[f] = "fast" /\ call[f].op = "take" /\ lock[h] = None
      /\ UNCHANGED <<over, lock, readers, writer, ref, calls>>
  BY CallType DEF FastTake, Shard
<1>2. CASE At(h, s) # {}
  <2>1. PICK i \in Indices : i = First(At(h, s)) /\ slots[h][i].id = s
    BY <1>2, FirstAt
  <2>2. Return(f) /\ SetSlot(h, i, Empty)
    BY <1>1, <1>2, <2>1 DEF FastTake
  <2>3. /\ slots'[h][i] = Empty
        /\ \A g \in Shards, j \in Indices : ~(g = h /\ j = i) => slots'[g][j] = slots[g][j]
    BY <1>1, <2>1, <2>2, SlotType DEF IInv, Empty
  <2>4. /\ CallInv'
        /\ pc'[f] = "idle" /\ status'[s] = "gone"
        /\ \A g \in Frames \ {f} : pc'[g] = pc[g] /\ call'[g] = call[g]
        /\ \A t \in Spans \ {s} : status'[t] = status[t]
    BY <1>1, <2>2, ReturnCall
  <2>5. /\ s \notin DOMAIN over /\ s # None
        /\ \A g \in Shards, j \in Indices : slots[g][j].id = s => g = h /\ j = i
    BY <1>1, <2>1, SpanStoreAssumption DEF IInv, HomeInv
  <2>6. \A g \in Shards, t \in Spans : At(g, t)' = IF t = s THEN {} ELSE At(g, t)
    <3>1. \A g \in Shards, t \in Spans, j \in Indices :
            slots'[g][j].id = t <=> t # s /\ slots[g][j].id = t
      BY <2>1, <2>3, <2>5, SpanStoreAssumption DEF Empty
    <3> QED BY <3>1 DEF At
  <2>7. HomeInv'
    <3>1. \A g \in Shards, j \in Indices : slots'[g][j].id # None =>
            ShardOf[slots'[g][j].id] = g /\ slots'[g][j].id \notin DOMAIN over'
      BY <1>1, <2>3 DEF IInv, HomeInv, Empty
    <3>2. \A g \in Shards, j, k \in Indices :
            slots'[g][j].id # None /\ slots'[g][k].id = slots'[g][j].id => j = k
      BY <2>1, <2>3 DEF IInv, HomeInv, Empty
    <3>3. \A t \in Spans : status'[t] \in {"known", "closing"}
            <=> At(ShardOf[t], t)' # {} \/ t \in DOMAIN over'
      <4>1. status'[s] = "gone" /\ At(ShardOf[s], s)' = {} /\ s \notin DOMAIN over'
        BY <1>1, <2>4, <2>5, <2>6
      <4>2. ASSUME NEW t \in Spans, t # s
            PROVE  status'[t] \in {"known", "closing"}
                     <=> At(ShardOf[t], t)' # {} \/ t \in DOMAIN over'
        <5>1. status'[t] = status[t] /\ At(ShardOf[t], t)' = At(ShardOf[t], t)
          BY <2>4, <2>6, <4>2, SpanStoreAssumption
        <5> QED BY <1>1, <5>1 DEF IInv, HomeInv
      <4> QED BY <4>1, <4>2
    <3> QED BY <3>1, <3>2, <3>3 DEF HomeInv
  <2>8. \A g \in Frames \ {f} :
           /\ Span(g)' = Span(g) /\ Shard(g)' = Shard(g) /\ Over(g)' = Over(g)
           /\ Holds(g)' = Holds(g) /\ ref'[g] = ref[g]
    BY <1>1, <2>4, OthersSame
  <2>9. SearchInv'
    <3>1. ASSUME NEW g \in Frames, pc'[g] = "over" PROVE At(Shard(g), Span(g))' = {}
      <4>1. g # f /\ pc[g] = "over" /\ Span(g) \in Spans /\ Shard(g) \in Shards
        BY <2>4, <3>1, CallType
      <4>2. At(Shard(g), Span(g)) = {}
        BY <4>1 DEF IInv, SearchInv
      <4>3. \A j \in Indices : slots'[Shard(g)][j].id # Span(g)
        BY <2>3, <4>1, <4>2, SpanStoreAssumption DEF At, Empty
      <4> QED BY <2>8, <4>1, <4>3 DEF At
    <3> QED BY <3>1 DEF SearchInv
  <2>10. RefInv'
    <3>1. ASSUME NEW g \in Frames, Holds(g)' , g # f
          PROVE  IF ref[g] # 0
                   THEN slots'[Shard(g)][ref[g]].id = Span(g) /\ lock[Shard(g)] = g
                   ELSE /\ Span(g) \in DOMAIN over
                        /\ IF call[g].op = "get" THEN g \in readers[Over(g)] ELSE writer[Over(g)] = g
      <4>1. Holds(g) /\ Shard(g) \in Shards
        BY <2>8, <3>1, CallType DEF Holds
      <4>2. CASE ref[g] # 0
        <5>1. Shard(g) # h /\ ref[g] \in Indices
          BY <1>1, <4>1, <4>2, SpanStoreAssumption DEF IInv, RefInv, TypeOK
        <5> QED BY <2>3, <4>1, <4>2, <5>1 DEF IInv, RefInv
      <4>3. CASE ref[g] = 0
        BY <4>1, <4>3 DEF IInv, RefInv
      <4> QED BY <4>2, <4>3
    <3>2. ~Holds(f)'
      BY <2>4 DEF Holds
    <3> QED BY <1>1, <2>4, <2>8, <3>1, <3>2 DEF RefInv
  <2> QED BY <2>4, <2>7, <2>9, <2>10 DEF IInv
<1>3. CASE At(h, s) = {}
  BY <1>1, <1>3, GoesOn DEF FastTake
<1> QED BY <1>2, <1>3

\* A step that stores and removes nothing.
LEMMA SameHomes ==
  ASSUME IInv, DOMAIN over' = DOMAIN over, status' = status,
         \A g \in Shards, j \in Indices : slots'[g][j].id = slots[g][j].id
  PROVE  HomeInv' /\ \A g \in Shards, t \in Spans : At(g, t)' = At(g, t)
<1>1. \A g \in Shards, t \in Spans : At(g, t)' = At(g, t)
  BY DEF At
<1>2. HomeInv'
  BY <1>1, SpanStoreAssumption DEF IInv, HomeInv
<1> QED BY <1>1, <1>2

LEMMA FastFindKeeps ==
  ASSUME IInv, TypeOK', NEW f \in Frames, FastFind(f)
  PROVE  IInv'
<1>1. PICK h \in Shards, s \in Spans :
      /\ h = Shard(f) /\ s = Span(f) /\ ShardOf[s] = h /\ pc[f] # "idle"
      /\ pc[f] = "fast" /\ call[f].op \in Finds /\ lock[h] = None
      /\ UNCHANGED <<slots, over, readers, writer, call, status, calls>>
  BY CallType DEF FastFind, Shard
<1>2. CASE At(h, s) # {}
  <2>1. PICK i \in Indices : i # 0 /\ i = First(At(h, s)) /\ slots[h][i].id = s
    BY <1>2, FirstAt
  <2>2. /\ lock' = [lock EXCEPT ![h] = f] /\ ref' = [ref EXCEPT ![f] = i] /\ Goto(f, "held")
    BY <1>1, <1>2, <2>1 DEF FastFind
  <2>3. /\ lock'[h] = f /\ \A g \in Shards \ {h} : lock'[g] = lock[g]
        /\ ref'[f] = i /\ pc'[f] = "held"
        /\ \A g \in Frames \ {f} : ref'[g] = ref[g] /\ pc'[g] = pc[g]
    BY <2>2 DEF Goto, IInv, TypeOK
  <2>4. CallInv'
    BY <1>1, <2>2, MoveCall
  <2>5. HomeInv'
    BY <1>1, SameHomes
  <2>6. SearchInv'
    BY <1>1, <2>3 DEF IInv, SearchInv, At, Shard, Span
  <2>7. RefInv'
    <3>1. ASSUME NEW g \in Frames, Holds(g)'
          PROVE  IF ref'[g] # 0
                   THEN slots[Shard(g)][ref'[g]].id = Span(g) /\ lock'[Shard(g)] = g
                   ELSE /\ Span(g) \in DOMAIN over
                        /\ IF call[g].op = "get" THEN g \in readers[Over(g)] ELSE writer[Over(g)] = g
      <4>1. CASE g = f
        BY <1>1, <2>1, <2>3, <4>1
      <4>2. CASE g # f
        <5>1. Holds(g) /\ ref'[g] = ref[g] /\ Shard(g) \in Shards
          BY <2>3, <3>1, <4>2, CallType DEF Holds
        <5>2. ref[g] # 0 => Shard(g) # h
          BY <1>1, <5>1, SpanStoreAssumption DEF IInv, RefInv
        <5> QED BY <2>3, <5>1, <5>2 DEF IInv, RefInv
      <4> QED BY <4>1, <4>2
    <3> QED BY <1>1, <3>1 DEF RefInv, Shard, Span, Over
  <2> QED BY <2>4, <2>5, <2>6, <2>7 DEF IInv
<1>3. CASE At(h, s) = {}
  BY <1>1, <1>3, GoesOn DEF FastFind
<1> QED BY <1>2, <1>3

LEMMA OverInsertKeeps ==
  ASSUME IInv, TypeOK', NEW f \in Frames, OverInsert(f)
  PROVE  IInv'
<1>1. PICK s \in Spans, q \in OverShards :
      /\ s = Span(f) /\ q = Over(f) /\ q = OverShardOf[s]
      /\ pc[f] # "idle" /\ pc[f] = "over" /\ call[f].op = "insert"
      /\ DOMAIN over' = DOMAIN over \cup {s}
      /\ Return(f) /\ UNCHANGED <<slots, lock, readers, writer, ref, answer, calls>>
  BY CallType DEF OverInsert, Over
<1>2. /\ CallInv'
      /\ pc'[f] = "idle" /\ status'[s] = "known" /\ status[s] = "storing"
      /\ \A g \in Frames \ {f} : pc'[g] = pc[g] /\ call'[g] = call[g]
      /\ \A t \in Spans \ {s} : status'[t] = status[t]
  BY <1>1, ReturnCall DEF IInv, CallInv
<1>3. At(ShardOf[s], s) = {} /\ s \notin DOMAIN over
  BY <1>1, <1>2 DEF IInv, HomeInv
<1>4. \A g \in Frames \ {f} :
         /\ Span(g)' = Span(g) /\ Shard(g)' = Shard(g) /\ Over(g)' = Over(g)
         /\ Holds(g)' = Holds(g) /\ ref'[g] = ref[g]
  BY <1>1, <1>2, OthersSame
<1>5. HomeInv'
  <2>1. \A h \in Shards, i \in Indices : slots[h][i].id # s
    BY <1>1, <1>3, SpanStoreAssumption DEF At, IInv, HomeInv
  <2>2. \A t \in Spans : At(ShardOf[t], t)' = At(ShardOf[t], t)
    BY <1>1 DEF At
  <2> QED BY <1>1, <1>2, <2>1, <2>2 DEF IInv, HomeInv
<1>6. SearchInv'
  BY <1>1, <1>2, <1>4 DEF IInv, SearchInv, At
<1>7. RefInv'
  <2>1. ~Holds(f)'
    BY <1>2 DEF Holds
  <2> QED BY <1>1, <1>2, <1>4, <2>1 DEF IInv, RefInv
<1> QED BY <1>2, <1>5, <1>6, <1>7 DEF IInv

\* An operation that returns without a change to the tiers, the locks of others or
\* what is stored.
LEMMA ReturnKeeps ==
  ASSUME IInv, TypeOK', NEW f \in Frames, pc[f] # "idle", call[f].op \in Finds,
         Return(f), UNCHANGED tiers,
         \A g \in Frames \ {f} :
           /\ ref'[g] = ref[g]
           /\ \A h \in Shards : lock[h] = g => lock'[h] = g
           /\ \A q \in OverShards : g \in readers[q] => g \in readers'[q]
           /\ \A q \in OverShards : writer[q] = g => writer'[q] = g
  PROVE  IInv'
<1>1. /\ CallInv' /\ pc'[f] = "idle" /\ status' = status
      /\ \A g \in Frames \ {f} : pc'[g] = pc[g] /\ call'[g] = call[g]
  <2>1. status' = [status EXCEPT ![Span(f)] = status[Span(f)]]
    BY DEF Return
  <2>2. status' = status
    BY <2>1 DEF IInv, TypeOK
  <2> QED BY <2>2, ReturnCall
<1>2. \A g \in Frames \ {f} :
         /\ Span(g)' = Span(g) /\ Shard(g)' = Shard(g) /\ Over(g)' = Over(g)
         /\ Holds(g)' = Holds(g)
  BY <1>1 DEF Span, Shard, Over, Holds
<1>3. HomeInv'
  BY <1>1, SameHomes
<1>4. SearchInv'
  BY <1>1, <1>2 DEF IInv, SearchInv, At
<1>5. RefInv'
  <2>1. ASSUME NEW g \in Frames, Holds(g)'
        PROVE  /\ g # f /\ Holds(g) /\ ref'[g] = ref[g] /\ call'[g] = call[g]
               /\ Shard(g) \in Shards /\ Over(g) \in OverShards
    BY <1>1, <1>2, <2>1, CallType DEF Holds
  <2> QED BY <1>2, <2>1 DEF IInv, RefInv
<1> QED BY <1>1, <1>3, <1>4, <1>5 DEF IInv

\* Only a find misses its span: one that is being taken is stored.
LEMMA OverMissKeeps ==
  ASSUME IInv, TypeOK', NEW f \in Frames, OverMiss(f)
  PROVE  IInv'
<1>1. /\ pc[f] # "idle" /\ Span(f) \in Spans /\ pc[f] = "over" /\ Span(f) \notin DOMAIN over
      /\ call[f].op \in Finds \cup {"take"}
      /\ Return(f) /\ UNCHANGED <<tiers, locks, ref>>
  BY CallType DEF OverMiss
<1>2. At(ShardOf[Span(f)], Span(f)) = {}
  BY <1>1 DEF IInv, SearchInv, Shard
<1>3. call[f].op # "take"
  BY <1>1, <1>2 DEF IInv, HomeInv, CallInv
<1>4. call[f].op \in Finds
  BY <1>1, <1>3
<1> QED BY <1>1, <1>4, ReturnKeeps

LEMMA OverHoldKeeps ==
  ASSUME IInv, TypeOK', NEW f \in Frames, OverHold(f)
  PROVE  IInv'
<1>1. PICK q \in OverShards :
      /\ q = Over(f) /\ pc[f] # "idle" /\ pc[f] = "over" /\ call[f].op \in Finds
      /\ Span(f) \in DOMAIN over
      /\ ref' = [ref EXCEPT ![f] = 0] /\ Goto(f, "held")
      /\ UNCHANGED <<slots, over, lock, call, status, calls>>
  BY CallType DEF OverHold
<1>2. /\ ref'[f] = 0 /\ pc'[f] = "held"
      /\ \A g \in Frames \ {f} : ref'[g] = ref[g] /\ pc'[g] = pc[g]
  BY <1>1 DEF Goto, IInv, TypeOK
<1>3. /\ \A p \in OverShards : readers[p] \subseteq readers'[p]
      /\ \A p \in OverShards : writer[p] # None => writer'[p] = writer[p]
      /\ call[f].op = "get" => f \in readers'[q]
      /\ call[f].op # "get" => writer'[q] = f
  <2>1. CASE call[f].op = "get"
    BY <1>1, <2>1 DEF OverHold, IInv, TypeOK
  <2>2. CASE call[f].op # "get"
    BY <1>1, <2>2 DEF OverHold, Unlocked, IInv, TypeOK
  <2> QED BY <2>1, <2>2
<1>4. CallInv'
  BY <1>1, MoveCall
<1>5. HomeInv'
  BY <1>1, SameHomes
<1>6. SearchInv'
  BY <1>1, <1>2 DEF IInv, SearchInv, At, Shard, Span
<1>7. RefInv'
  <2>1. ASSUME NEW g \in Frames, Holds(g)'
        PROVE  IF ref'[g] # 0
                 THEN slots[Shard(g)][ref'[g]].id = Span(g) /\ lock[Shard(g)] = g
                 ELSE /\ Span(g) \in DOMAIN over
                      /\ IF call[g].op = "get" THEN g \in readers'[Over(g)] ELSE writer'[Over(g)] = g
    <3>1. CASE g = f
      BY <1>1, <1>2, <1>3, <3>1
    <3>2. CASE g # f
      <4>1. Holds(g) /\ ref'[g] = ref[g] /\ Over(g) \in OverShards
        BY <1>2, <2>1, <3>2, CallType DEF Holds
      <4> QED BY <1>3, <4>1, SpanStoreAssumption DEF IInv, RefInv
    <3> QED BY <3>1, <3>2
  <2> QED BY <1>1, <2>1 DEF RefInv, Shard, Span, Over
<1> QED BY <1>4, <1>5, <1>6, <1>7 DEF IInv

LEMMA OverTakeKeeps ==
  ASSUME IInv, TypeOK', NEW f \in Frames, OverTake(f)
  PROVE  IInv'
<1>1. PICK s \in Spans, q \in OverShards :
      /\ s = Span(f) /\ q = Over(f) /\ q = OverShardOf[s] /\ s \in DOMAIN over
      /\ pc[f] # "idle" /\ pc[f] = "over" /\ call[f].op = "take"
      /\ writer[q] = None /\ readers[q] = {}
      /\ DOMAIN over' = DOMAIN over \ {s}
      /\ Return(f) /\ UNCHANGED <<slots, lock, readers, writer, ref, calls>>
  BY CallType DEF OverTake, Over, Unlocked, Restrict
<1>2. /\ CallInv'
      /\ pc'[f] = "idle" /\ status'[s] = "gone"
      /\ \A g \in Frames \ {f} : pc'[g] = pc[g] /\ call'[g] = call[g]
      /\ \A t \in Spans \ {s} : status'[t] = status[t]
  BY <1>1, ReturnCall
<1>3. At(ShardOf[s], s) = {}
  BY <1>1 DEF IInv, SearchInv, Shard
<1>4. \A g \in Frames \ {f} :
         /\ Span(g)' = Span(g) /\ Shard(g)' = Shard(g) /\ Over(g)' = Over(g)
         /\ Holds(g)' = Holds(g) /\ ref'[g] = ref[g]
  BY <1>1, <1>2, OthersSame
<1>5. HomeInv'
  <2>1. \A t \in Spans : At(ShardOf[t], t)' = At(ShardOf[t], t)
    BY <1>1 DEF At
  <2>2. \A t \in Spans : status'[t] \in {"known", "closing"}
          <=> At(ShardOf[t], t)' # {} \/ t \in DOMAIN over'
    BY <1>1, <1>2, <1>3, <2>1 DEF IInv, HomeInv
  <2> QED BY <1>1, <2>2 DEF IInv, HomeInv
<1>6. SearchInv'
  BY <1>1, <1>2, <1>4 DEF IInv, SearchInv, At
<1>7. RefInv'
  <2>1. ASSUME NEW g \in Frames, Holds(g)'
        PROVE  /\ g # f /\ Holds(g) /\ call'[g] = call[g]
               /\ ref[g] = 0 => Span(g) # s
    <3>1. g # f /\ Holds(g) /\ call'[g] = call[g]
      BY <1>2, <1>4, <2>1 DEF Holds
    <3>2. Over(g) = OverShardOf[Span(g)]
      BY DEF Over
    <3> QED BY <1>1, <3>1, <3>2, SpanStoreAssumption DEF IInv, RefInv
  <2> QED BY <1>1, <1>4, <2>1 DEF IInv, RefInv
<1> QED BY <1>2, <1>5, <1>6, <1>7 DEF IInv

LEMMA WriteKeeps ==
  ASSUME IInv, TypeOK', NEW f \in Frames, Write(f)
  PROVE  IInv'
<1>1. /\ pc[f] # "idle" /\ call[f].op \in Finds \ {"get"} /\ Goto(f, "written")
      /\ UNCHANGED <<lock, readers, writer, call, ref, status>>
      /\ Shard(f) \in Shards
  BY CallType DEF Write
<1>2. /\ pc'[f] = "written" /\ pc[f] = "held"
      /\ \A g \in Frames \ {f} : pc'[g] = pc[g]
  BY <1>1 DEF Goto, IInv, TypeOK, Write
<1>3. DOMAIN over' = DOMAIN over /\ \A g \in Shards, j \in Indices : slots'[g][j].id = slots[g][j].id
  <2>1. CASE ref[f] # 0
    <3> DEFINE e == slots[Shard(f)][ref[f]]
               n == [e EXCEPT !.value = @ + 1]
    <3>1. ref[f] \in Indices /\ e \in [id : Spans \cup {None}, value : Nat]
      BY <1>1, <2>1 DEF IInv, TypeOK
    <3>2. n \in [id : Spans \cup {None}, value : Nat] /\ n.id = e.id
      BY <3>1
    <3>3. SetSlot(Shard(f), ref[f], n) /\ over' = over
      BY <2>1 DEF Write, SetSlot
    <3> HIDE DEF n
    <3>4. /\ slots'[Shard(f)][ref[f]] = n
          /\ \A g \in Shards, j \in Indices :
               ~(g = Shard(f) /\ j = ref[f]) => slots'[g][j] = slots[g][j]
      BY <1>1, <3>1, <3>2, <3>3, SlotType DEF IInv
    <3> QED BY <1>1, <3>1, <3>2, <3>3, <3>4
  <2>2. CASE ref[f] = 0
    BY <2>2 DEF Write
  <2> QED BY <2>1, <2>2
<1>4. CallInv'
  BY <1>1, MoveCall
<1>5. HomeInv' /\ \A g \in Shards, t \in Spans : At(g, t)' = At(g, t)
  BY <1>1, <1>3, SameHomes
<1>6. SearchInv'
  <2>1. ASSUME NEW g \in Frames, pc'[g] = "over" PROVE At(Shard(g), Span(g))' = {}
    <3>1. /\ pc[g] = "over" /\ Shard(g) \in Shards /\ Span(g) \in Spans
          /\ Shard(g)' = Shard(g) /\ Span(g)' = Span(g)
      BY <1>1, <1>2, <2>1, CallType DEF Shard, Span
    <3>2. \A j \in Indices : slots'[Shard(g)][j].id # Span(g)
      BY <1>3, <3>1 DEF IInv, SearchInv, At
    <3> QED BY <3>1, <3>2 DEF At
  <2> QED BY <2>1 DEF SearchInv
<1>7. RefInv'
  <2>1. ASSUME NEW g \in Frames, Holds(g)' PROVE Holds(g) /\ Shard(g) \in Shards
    BY <1>2, <2>1, CallType DEF Holds
  <2> QED BY <1>1, <1>3, <2>1 DEF IInv, RefInv, TypeOK, Shard, Span, Over
<1> QED BY <1>4, <1>5, <1>6, <1>7 DEF IInv

LEMMA ReleaseKeeps ==
  ASSUME IInv, TypeOK', NEW f \in Frames, Release(f)
  PROVE  IInv'
<1>1. /\ pc[f] # "idle" /\ call[f].op \in Finds /\ Return(f) /\ UNCHANGED tiers
  BY DEF Release, IInv, CallInv
<1>2. \A g \in Frames \ {f} :
        /\ ref'[g] = ref[g]
        /\ \A h \in Shards : lock[h] = g => lock'[h] = g
        /\ \A q \in OverShards : g \in readers[q] => g \in readers'[q]
        /\ \A q \in OverShards : writer[q] = g => writer'[q] = g
  BY DEF Release, IInv, TypeOK
<1> QED BY <1>1, <1>2, ReturnKeeps

\* The inductive invariant of the store.
LEMMA NextInv == IInv /\ [Next]_vars => IInv'
<1> SUFFICES ASSUME IInv, [Next]_vars PROVE IInv'
  OBVIOUS
<1>1. TypeOK'
  BY NextType
<1>2. ASSUME NEW f \in Frames, NEW op \in Ops, NEW s \in Spans, Call(f, op, s) PROVE IInv'
  BY <1>1, <1>2, CallKeeps
<1>3. ASSUME NEW f \in Frames, Operation(f) PROVE IInv'
  BY <1>1, <1>3, FastInsertKeeps, FastTakeKeeps, FastFindKeeps, OverInsertKeeps, OverMissKeeps,
     OverHoldKeeps, OverTakeKeeps, WriteKeeps, ReleaseKeeps DEF Operation
<1>4. CASE UNCHANGED vars
  BY <1>4 DEF vars, IInv, TypeOK, CallInv, HomeInv, SearchInv, RefInv, At, Holds, Span, Shard, Over
<1> QED BY <1>2, <1>3, <1>4 DEF Next, Done

\* A span has no two homes, and none when it is in the overflow map.
LEMMA OneHome ==
  ASSUME IInv
  PROVE  /\ \A s \in Spans : \A x, y \in Homes(s) : x = y
         /\ \A s \in Spans : \A x \in Homes(s) :
              x[1] = ShardOf[s] /\ x[2] \in Indices /\ slots[x[1]][x[2]].id = s /\ s \notin DOMAIN over
         /\ \A s \in Spans : Homes(s) # {} <=> At(ShardOf[s], s) # {}
<1>1. \A s \in Spans : \A x \in Homes(s) :
        x[1] = ShardOf[s] /\ x[2] \in Indices /\ slots[x[1]][x[2]].id = s /\ s \notin DOMAIN over
  BY SpanStoreAssumption DEF Homes, IInv, HomeInv
<1>2. ASSUME NEW s \in Spans, NEW x \in Homes(s), NEW y \in Homes(s) PROVE x = y
  <2>1. x \in Shards \X Indices /\ y \in Shards \X Indices
    BY DEF Homes
  <2>2. x[1] = y[1] /\ x[2] = y[2]
    BY <1>1, SpanStoreAssumption DEF IInv, HomeInv
  <2> QED BY <2>1, <2>2
<1>3. ASSUME NEW s \in Spans PROVE Homes(s) # {} <=> At(ShardOf[s], s) # {}
  <2>1. ASSUME NEW i \in At(ShardOf[s], s) PROVE <<ShardOf[s], i>> \in Homes(s)
    BY SpanStoreAssumption DEF At, Homes
  <2>2. ASSUME NEW x \in Homes(s) PROVE x[2] \in At(ShardOf[s], s)
    BY <1>1 DEF At
  <2> QED BY <2>1, <2>2
<1> QED BY <1>1, <1>2, <1>3

\* A reference is to the entry of its span, and a span is in one place.
LEMMA InvRefsValid == IInv => RefsValid
<1> SUFFICES ASSUME IInv PROVE RefsValid
  OBVIOUS
<1>1. \A f \in Frames : Holds(f) =>
        IF ref[f] # 0 THEN slots[Shard(f)][ref[f]].id = Span(f) ELSE Span(f) \in DOMAIN over
  BY DEF IInv, RefInv
<1>2. ASSUME NEW s \in Spans
      PROVE  Cardinality(Homes(s)) + (IF s \in DOMAIN over THEN 1 ELSE 0) <= 1
  <2>1. Cardinality(Homes(s)) \in {0, 1} /\ (Homes(s) = {} => Cardinality(Homes(s)) = 0)
    BY OneHome, AtMostOne
  <2>2. s \in DOMAIN over => Homes(s) = {}
    BY OneHome
  <2> QED BY <2>1, <2>2
<1> QED BY <1>1, <1>2 DEF RefsValid

\* The store's entries, locks and references keep their types (span_state.rs).
THEOREM TypeCorrect == Spec => []TypeOK
<1>1. IInv => TypeOK
  BY DEF IInv
<1> QED BY InitInv, NextInv, <1>1, PTL DEF Spec

\* The "occupied span slot" that a SpanRef or SpanRefMut expects is there and holds
\* its span, whatever other spans are stored and removed meanwhile, and a span is
\* in one tier only, for every number of shards, slots, spans and threads.
THEOREM ReferencesValid == Spec => []RefsValid
<1> QED BY InitInv, NextInv, InvRefsValid, PTL DEF Spec

-----------------------------------------------------------------------------
(* The two tiers as one map.                                                *)

\* What the map of the specification above holds, told from the tiers: the spans
\* that are known or closing, each with the value in its one home.
MapView ==
  /\ Stored = {s \in Spans : status[s] \in {"known", "closing"}}
  /\ \A h \in Shards, i \in Indices :
       slots[h][i].id # None => ValueOf(slots[h][i].id) = slots[h][i].value
  /\ \A s \in DOMAIN over : ValueOf(s) = over[s]
  /\ \A s \in Spans \ Stored : ValueOf(s) = 0

LEMMA InvMapView == IInv => MapView
<1> SUFFICES ASSUME IInv PROVE MapView
  OBVIOUS
<1>1. Stored = {s \in Spans : status[s] \in {"known", "closing"}}
  BY OneHome DEF Stored, InSlot, IInv, HomeInv, TypeOK
<1>2. ASSUME NEW h \in Shards, NEW i \in Indices, slots[h][i].id # None
      PROVE  ValueOf(slots[h][i].id) = slots[h][i].value
  <2> DEFINE s == slots[h][i].id
             x == CHOOSE x \in Homes(s) : TRUE
  <2>1. s \in Spans
    BY <1>2 DEF IInv, TypeOK
  <2>2. <<h, i>> \in Homes(s)
    BY DEF Homes
  <2>3. x \in Homes(s)
    BY <2>2
  <2> HIDE DEF x
  <2>4. x = <<h, i>>
    BY <2>1, <2>2, <2>3, OneHome
  <2>5. ValueOf(s) = slots[x[1]][x[2]].value
    BY <2>2 DEF ValueOf, InSlot, x
  <2> QED BY <2>4, <2>5
<1>3. ASSUME NEW s \in DOMAIN over PROVE ValueOf(s) = over[s]
  <2>1. s \in Spans /\ Homes(s) = {}
    BY OneHome DEF IInv, TypeOK
  <2> QED BY <2>1 DEF ValueOf, InSlot
<1>4. ASSUME NEW s \in Spans \ Stored PROVE ValueOf(s) = 0
  BY <1>4 DEF Stored, ValueOf, InSlot
<1> QED BY <1>1, <1>2, <1>3, <1>4 DEF MapView

LEMMA InvMapViewNext == IInv' => MapView'
  BY InvMapView, PTL

\* The map has the same state for a span whose entry stays where it is.
LEMMA SameValue ==
  ASSUME IInv, IInv', NEW t \in Spans, status'[t] = status[t],
         \A h \in Shards, i \in Indices : slots[h][i].id = t => slots'[h][i] = slots[h][i],
         t \in DOMAIN over => t \in DOMAIN over' /\ over'[t] = over[t]
  PROVE  ValueOf(t)' = ValueOf(t)
<1>1. MapView /\ MapView'
  BY InvMapView, InvMapViewNext
<1>2. CASE t \notin Stored
  <2>1. t \notin Stored'
    BY <1>1, <1>2 DEF MapView
  <2> QED BY <1>1, <1>2, <2>1 DEF MapView
<1>3. CASE t \in DOMAIN over
  BY <1>1, <1>3 DEF MapView
<1>4. CASE t \in Stored /\ t \notin DOMAIN over
  <2>1. At(ShardOf[t], t) # {} /\ ShardOf[t] \in Shards /\ t # None
    BY <1>1, <1>4, SpanStoreAssumption DEF MapView, IInv, HomeInv
  <2>2. PICK i \in Indices : slots[ShardOf[t]][i].id = t
    BY <2>1 DEF At
  <2>3. slots'[ShardOf[t]][i] = slots[ShardOf[t]][i]
    BY <2>1, <2>2
  <2>4. ValueOf(t) = slots[ShardOf[t]][i].value
    BY <1>1, <2>1, <2>2 DEF MapView
  <2>5. ValueOf(t)' = slots'[ShardOf[t]][i].value
    BY <1>1, <2>1, <2>2, <2>3 DEF MapView
  <2> QED BY <2>3, <2>4, <2>5
<1> QED BY <1>2, <1>3, <1>4


LEMMA RefinesInit == Init => Map!Init
<1> SUFFICES ASSUME Init PROVE Map!Init
  OBVIOUS
<1>1. IInv /\ MapView
  BY InitInv, InvMapView
<1>2. Stored = {}
  BY <1>1 DEF MapView, Init
<1>3. [s \in Spans |-> ValueOf(s)] = [s \in Spans |-> 0]
  BY <1>1, <1>2 DEF MapView
<1>4. [f \in Frames |-> Holds(f)] = [f \in Frames |-> FALSE]
  <2>1. \A f \in Frames : Holds(f) = FALSE
    BY DEF Init, Holds
  <2> QED BY <2>1
<1> QED BY <1>2, <1>3, <1>4 DEF Init, Map!Init, Map!Nothing

\* The steps that the map does not see.
LEMMA RefinesStutter ==
  ASSUME IInv, IInv', UNCHANGED <<slots, over, call, answer, status>>,
         \A g \in Frames : Holds(g)' = Holds(g)
  PROVE  UNCHANGED Map!vars
<1>1. Stored' = Stored /\ \A s \in Spans : ValueOf(s)' = ValueOf(s)
  BY DEF Stored, ValueOf, InSlot, Homes
<1>2. [s \in Spans |-> ValueOf(s)]' = [s \in Spans |-> ValueOf(s)]
  BY <1>1
<1>3. [f \in Frames |-> Holds(f)]' = [f \in Frames |-> Holds(f)]
  OBVIOUS
<1> QED BY <1>1, <1>2, <1>3 DEF Map!vars

LEMMA RefinesCall ==
  ASSUME IInv, IInv', NEW f \in Frames, NEW op \in Ops, NEW s \in Spans, Call(f, op, s)
  PROVE  Map!Ask(f, op, s)
<1>1. call[f] = NoCall /\ call' = [call EXCEPT ![f] = [op |-> op, span |-> s]]
  BY DEF Call, IInv, CallInv
<1>2. UNCHANGED <<slots, over, answer>>
  BY DEF Call
<1>3. Stored' = Stored /\ \A t \in Spans : ValueOf(t)' = ValueOf(t)
  BY <1>2 DEF Stored, ValueOf, InSlot, Homes
<1>4. \A g \in Frames : Holds(g)' = Holds(g)
  BY DEF Call, Goto, Holds, IInv, TypeOK
<1>5. [t \in Spans |-> ValueOf(t)]' = [t \in Spans |-> ValueOf(t)]
  BY <1>3
<1>6. [g \in Frames |-> Holds(g)]' = [g \in Frames |-> Holds(g)]
  BY <1>4
<1> QED BY <1>1, <1>2, <1>3, <1>5, <1>6 DEF Map!Ask, Map!Nothing

\* An operation that stores or removes one span and returns.
LEMMA MapReturn ==
  ASSUME IInv, IInv', NEW f \in Frames, NEW s \in Spans, s = Span(f), ~Holds(f), pc[f] # "idle",
         Return(f), NEW v \in Nat, ValueOf(s)' = v,
         \A h \in Shards, i \in Indices :
           slots[h][i].id \notin {None, s} => slots'[h][i] = slots[h][i],
         \A t \in DOMAIN over : t # s => t \in DOMAIN over' /\ over'[t] = over[t]
  PROVE  /\ [t \in Spans |-> ValueOf(t)]' = [[t \in Spans |-> ValueOf(t)] EXCEPT ![s] = v]
         /\ [g \in Frames |-> Holds(g)]' = [g \in Frames |-> Holds(g)]
         /\ call' = [call EXCEPT ![f] = NoCall]
         /\ status'[s] \in {"known", "closing"} => Stored' = Stored \cup {s}
         /\ status'[s] \notin {"known", "closing"} => Stored' = Stored \ {s}
<1>1. /\ pc'[f] = "idle"
      /\ \A g \in Frames \ {f} : pc'[g] = pc[g]
      /\ \A t \in Spans \ {s} : status'[t] = status[t]
  BY ReturnCall DEF IInv
<1>2. ASSUME NEW t \in Spans, t # s PROVE ValueOf(t)' = ValueOf(t)
  <2>1. \A h \in Shards, i \in Indices : slots[h][i].id = t => slots'[h][i] = slots[h][i]
    BY <1>2, SpanStoreAssumption
  <2> QED BY <1>1, <1>2, <2>1, SameValue
<1>3. [t \in Spans |-> ValueOf(t)]' = [[t \in Spans |-> ValueOf(t)] EXCEPT ![s] = v]
  BY <1>2
<1>4. \A g \in Frames : Holds(g)' = Holds(g)
  BY <1>1 DEF Holds
<1>5. [g \in Frames |-> Holds(g)]' = [g \in Frames |-> Holds(g)]
  BY <1>4
<1>6. MapView /\ MapView'
  BY InvMapView, InvMapViewNext
<1>7. /\ status'[s] \in {"known", "closing"} => Stored' = Stored \cup {s}
      /\ status'[s] \notin {"known", "closing"} => Stored' = Stored \ {s}
  BY <1>1, <1>6 DEF MapView
<1> QED BY <1>3, <1>5, <1>7 DEF Return

LEMMA RefinesFastInsert ==
  ASSUME IInv, IInv', NEW f \in Frames, FastInsert(f)
  PROVE  [Map!Next]_Map!vars
<1>1. PICK h \in Shards, s \in Spans :
      /\ h = Shard(f) /\ s = Span(f) /\ ShardOf[s] = h
      /\ pc[f] = "fast" /\ call[f].op = "insert" /\ status[s] = "storing"
      /\ UNCHANGED <<over, answer, ref>>
  BY CallType DEF FastInsert, Shard, IInv, CallInv
<1>2. CASE Free(h) # {}
  <2>1. PICK i \in Indices : i = First(Free(h)) /\ slots[h][i] = Empty
    BY <1>2, FirstIn DEF Free
  <2>2. Return(f) /\ SetSlot(h, i, [id |-> s, value |-> 0])
    BY <1>1, <1>2, <2>1 DEF FastInsert
  <2>3. /\ slots'[h][i] = [id |-> s, value |-> 0]
        /\ \A g \in Shards, j \in Indices : ~(g = h /\ j = i) => slots'[g][j] = slots[g][j]
    BY <1>1, <2>1, <2>2, SlotType DEF IInv
  <2>4. status'[s] = "known" /\ s # None
    BY <1>1, <2>2, ReturnCall, SpanStoreAssumption DEF IInv
  <2>5. ValueOf(s)' = 0
    BY <2>3, <2>4, InvMapViewNext DEF MapView
  <2>6. s \notin Stored
    BY <1>1, InvMapView DEF MapView
  <2>7. /\ [t \in Spans |-> ValueOf(t)]' = [[t \in Spans |-> ValueOf(t)] EXCEPT ![s] = 0]
        /\ [g \in Frames |-> Holds(g)]' = [g \in Frames |-> Holds(g)]
        /\ call' = [call EXCEPT ![f] = NoCall]
        /\ Stored' = Stored \cup {s}
    <3>1. \A g \in Shards, j \in Indices :
            slots[g][j].id \notin {None, s} => slots'[g][j] = slots[g][j]
      BY <2>1, <2>3 DEF Empty
    <3>2. ~Holds(f) /\ pc[f] # "idle"
      BY <1>1 DEF Holds
    <3> QED BY <1>1, <2>2, <2>4, <2>5, <3>1, <3>2, MapReturn
  <2>8. Map!Insert(f)
    BY <1>1, <2>6, <2>7 DEF Map!Insert, Map!Returned, Map!Nothing, Span
  <2> QED BY <2>8 DEF Map!Next
<1>3. CASE Free(h) = {}
  <2>1. Goto(f, "over") /\ UNCHANGED <<slots, call, status>>
    BY <1>1, <1>3 DEF FastInsert
  <2>2. \A g \in Frames : Holds(g)' = Holds(g)
    BY <1>1, <2>1 DEF Goto, Holds, IInv, TypeOK
  <2> QED BY <1>1, <2>1, <2>2, RefinesStutter
<1> QED BY <1>2, <1>3

LEMMA RefinesOverInsert ==
  ASSUME IInv, IInv', NEW f \in Frames, OverInsert(f)
  PROVE  Map!Insert(f)
<1>1. PICK s \in Spans :
      /\ s = Span(f) /\ pc[f] = "over" /\ call[f].op = "insert" /\ status[s] = "storing"
      /\ over' = [t \in DOMAIN over \cup {s} |-> IF t = s THEN 0 ELSE over[t]]
      /\ Return(f) /\ UNCHANGED <<slots, answer, ref>>
  BY CallType DEF OverInsert, IInv, CallInv
<1>2. status'[s] = "known" /\ s # None
  BY <1>1, ReturnCall, SpanStoreAssumption DEF IInv
<1>3. ValueOf(s)' = 0
  BY <1>1, InvMapViewNext DEF MapView
<1>4. s \notin Stored
  BY <1>1, InvMapView DEF MapView
<1>5. /\ [t \in Spans |-> ValueOf(t)]' = [[t \in Spans |-> ValueOf(t)] EXCEPT ![s] = 0]
      /\ [g \in Frames |-> Holds(g)]' = [g \in Frames |-> Holds(g)]
      /\ call' = [call EXCEPT ![f] = NoCall]
      /\ Stored' = Stored \cup {s}
  <2>1. ~Holds(f) /\ pc[f] # "idle"
    BY <1>1 DEF Holds
  <2> QED BY <1>1, <1>2, <1>3, <2>1, MapReturn
<1> QED BY <1>1, <1>4, <1>5 DEF Map!Insert, Map!Returned, Map!Nothing, Span

\* No caller of the map holds a reference to a span whose locks are free.
LEMMA NoHolders ==
  ASSUME IInv, NEW s \in Spans,
         (\E i \in Indices : slots[ShardOf[s]][i].id = s) => lock[ShardOf[s]] = None,
         s \in DOMAIN over => writer[OverShardOf[s]] = None /\ readers[OverShardOf[s]] = {}
  PROVE  \A g \in Frames : ~(Holds(g) /\ Span(g) = s)
<1> SUFFICES ASSUME NEW g \in Frames, Holds(g), Span(g) = s PROVE FALSE
  OBVIOUS
<1>1. Shard(g) = ShardOf[s] /\ Over(g) = OverShardOf[s]
  BY DEF Shard, Over
<1>2. CASE ref[g] # 0
  <2>1. ref[g] \in Indices
    BY <1>2 DEF IInv, TypeOK
  <2> QED BY <1>1, <1>2, <2>1, SpanStoreAssumption DEF IInv, RefInv
<1>3. CASE ref[g] = 0
  BY <1>1, <1>3, SpanStoreAssumption DEF IInv, RefInv
<1> QED BY <1>2, <1>3

LEMMA RefinesFastTake ==
  ASSUME IInv, IInv', NEW f \in Frames, FastTake(f)
  PROVE  [Map!Next]_Map!vars
<1>1. PICK h \in Shards, s \in Spans :
      /\ h = Shard(f) /\ s = Span(f) /\ ShardOf[s] = h /\ s # None
      /\ pc[f] = "fast" /\ call[f].op = "take" /\ lock[h] = None /\ status[s] = "closing"
      /\ UNCHANGED <<over, ref>>
  BY CallType, SpanStoreAssumption DEF FastTake, Shard, IInv, CallInv
<1>2. CASE At(h, s) # {}
  <2>1. PICK i \in Indices : i = First(At(h, s)) /\ slots[h][i].id = s
    BY <1>2, FirstAt
  <2>2. /\ Return(f) /\ SetSlot(h, i, Empty)
        /\ answer' = [answer EXCEPT ![f] = slots[h][i].value]
    BY <1>1, <1>2, <2>1 DEF FastTake, Answer
  <2>3. /\ slots'[h][i] = Empty
        /\ \A g \in Shards, j \in Indices : ~(g = h /\ j = i) => slots'[g][j] = slots[g][j]
    BY <1>1, <2>1, <2>2, SlotType DEF IInv, Empty
  <2>4. status'[s] = "gone"
    BY <1>1, <2>2, ReturnCall DEF IInv
  <2>5. ValueOf(s)' = 0
    BY <2>4, InvMapViewNext DEF MapView
  <2>6. s \in Stored /\ ValueOf(s) = slots[h][i].value
    BY <1>1, <2>1, InvMapView DEF MapView
  <2>7. /\ [t \in Spans |-> ValueOf(t)]' = [[t \in Spans |-> ValueOf(t)] EXCEPT ![s] = 0]
        /\ [g \in Frames |-> Holds(g)]' = [g \in Frames |-> Holds(g)]
        /\ call' = [call EXCEPT ![f] = NoCall]
        /\ Stored' = Stored \ {s}
    <3>1. \A g \in Shards, j \in Indices :
            slots[g][j].id \notin {None, s} => slots'[g][j] = slots[g][j]
      BY <2>1, <2>3
    <3>2. ~Holds(f) /\ pc[f] # "idle"
      BY <1>1 DEF Holds
    <3> QED BY <1>1, <2>2, <2>4, <2>5, <3>1, <3>2, MapReturn
  <2>8. \A g \in Frames : ~(Holds(g) /\ Span(g) = s)
    <3>1. s \notin DOMAIN over
      BY <1>1, <2>1 DEF IInv, HomeInv
    <3> QED BY <1>1, <3>1, NoHolders
  <2>9. Map!Holders(call[f].span) = {}
    BY <1>1, <2>8 DEF Map!Holders, Span
  <2>10. answer' = [answer EXCEPT ![f] = [t \in Spans |-> ValueOf(t)][call[f].span]]
    BY <1>1, <2>2, <2>6 DEF Span
  <2>11. Map!Take(f)
    BY <1>1, <2>6, <2>7, <2>9, <2>10 DEF Map!Take, Map!Returned, Map!Nothing, Span
  <2> QED BY <2>11 DEF Map!Next
<1>3. CASE At(h, s) = {}
  <2>1. Goto(f, "over") /\ UNCHANGED <<slots, answer, call, status>>
    BY <1>1, <1>3 DEF FastTake
  <2>2. \A g \in Frames : Holds(g)' = Holds(g)
    BY <1>1, <2>1 DEF Goto, Holds, IInv, TypeOK
  <2> QED BY <1>1, <2>1, <2>2, RefinesStutter
<1> QED BY <1>2, <1>3

LEMMA RefinesOverTake ==
  ASSUME IInv, IInv', NEW f \in Frames, OverTake(f)
  PROVE  Map!Take(f)
<1>1. PICK s \in Spans :
      /\ s = Span(f) /\ pc[f] = "over" /\ call[f].op = "take" /\ status[s] = "closing"
      /\ s # None /\ s \in DOMAIN over
      /\ writer[OverShardOf[s]] = None /\ readers[OverShardOf[s]] = {}
      /\ answer' = [answer EXCEPT ![f] = over[s]]
      /\ DOMAIN over' = DOMAIN over \ {s} /\ \A t \in DOMAIN over' : over'[t] = over[t]
      /\ Return(f) /\ UNCHANGED <<slots, ref>>
  BY CallType, SpanStoreAssumption
     DEF OverTake, IInv, CallInv, Over, Unlocked, Restrict, Answer
<1>2. status'[s] = "gone"
  BY <1>1, ReturnCall DEF IInv
<1>3. ValueOf(s)' = 0
  BY <1>2, InvMapViewNext DEF MapView
<1>4. s \in Stored /\ ValueOf(s) = over[s]
  BY <1>1, InvMapView DEF MapView
<1>5. /\ [t \in Spans |-> ValueOf(t)]' = [[t \in Spans |-> ValueOf(t)] EXCEPT ![s] = 0]
      /\ [g \in Frames |-> Holds(g)]' = [g \in Frames |-> Holds(g)]
      /\ call' = [call EXCEPT ![f] = NoCall]
      /\ Stored' = Stored \ {s}
  <2>1. ~Holds(f) /\ pc[f] # "idle"
    BY <1>1 DEF Holds
  <2>2. \A t \in DOMAIN over : t # s => t \in DOMAIN over' /\ over'[t] = over[t]
    BY <1>1
  <2> QED BY <1>1, <1>2, <1>3, <2>1, <2>2, MapReturn
<1>6. \A g \in Frames : ~(Holds(g) /\ Span(g) = s)
  <2>1. \A i \in Indices : slots[ShardOf[s]][i].id # s
    BY <1>1, SpanStoreAssumption DEF IInv, HomeInv
  <2> QED BY <1>1, <2>1, NoHolders
<1>7. Map!Holders(call[f].span) = {}
  BY <1>1, <1>6 DEF Map!Holders, Span
<1>8. answer' = [answer EXCEPT ![f] = [t \in Spans |-> ValueOf(t)][call[f].span]]
  BY <1>1, <1>4 DEF Span
<1> QED BY <1>1, <1>4, <1>5, <1>7, <1>8 DEF Map!Take, Map!Returned, Map!Nothing, Span

\* A frame that returns without a change to what is stored.
LEMMA SameMap ==
  ASSUME UNCHANGED tiers
  PROVE  Stored' = Stored /\ [t \in Spans |-> ValueOf(t)]' = [t \in Spans |-> ValueOf(t)]
<1>1. Stored' = Stored /\ \A s \in Spans : ValueOf(s)' = ValueOf(s)
  BY DEF Stored, ValueOf, InSlot, Homes
<1> QED BY <1>1

LEMMA RefinesOverMiss ==
  ASSUME IInv, IInv', NEW f \in Frames, OverMiss(f)
  PROVE  Map!Miss(f)
<1>1. PICK s \in Spans :
      /\ s = Span(f) /\ pc[f] = "over" /\ call[f].op \in Ops \ {"insert"}
      /\ s \notin DOMAIN over
      /\ answer' = [answer EXCEPT ![f] = None]
      /\ Return(f) /\ UNCHANGED <<slots, over, ref>>
  BY CallType DEF OverMiss, Answer
<1>2. s \notin Stored
  BY <1>1, InvMapView DEF MapView, IInv, HomeInv, SearchInv, Shard
<1>3. \A g \in Frames : Holds(g)' = Holds(g)
  BY <1>1, ReturnCall DEF Holds, IInv
<1>4. [g \in Frames |-> Holds(g)]' = [g \in Frames |-> Holds(g)]
  BY <1>3
<1>5. call' = [call EXCEPT ![f] = NoCall]
  BY <1>1 DEF Return
<1> QED BY <1>1, <1>2, <1>4, <1>5, SameMap
     DEF Map!Miss, Map!Ops, Map!Returned, Map!Nothing, Span

\* A frame that gets its reference.
LEMMA MapHold ==
  ASSUME IInv, IInv', NEW f \in Frames, pc[f] \notin {"held", "written"}, Goto(f, "held")
  PROVE  [g \in Frames |-> Holds(g)]' = [[g \in Frames |-> Holds(g)] EXCEPT ![f] = TRUE]
<1>1. /\ \A g \in Frames \ {f} : Holds(g)' = Holds(g)
      /\ Holds(f)' = TRUE
  BY DEF Goto, Holds, IInv, TypeOK
<1> QED BY <1>1

LEMMA RefinesFastFind ==
  ASSUME IInv, IInv', NEW f \in Frames, FastFind(f)
  PROVE  [Map!Next]_Map!vars
<1>1. PICK h \in Shards, s \in Spans :
      /\ h = Shard(f) /\ s = Span(f) /\ ShardOf[s] = h /\ s # None
      /\ pc[f] = "fast" /\ call[f].op \in Finds /\ lock[h] = None
      /\ UNCHANGED <<slots, over, readers, writer, call, status, calls>>
  BY CallType, SpanStoreAssumption DEF FastFind, Shard
<1>2. CASE At(h, s) # {}
  <2>1. PICK i \in Indices : i = First(At(h, s)) /\ slots[h][i].id = s
    BY <1>2, FirstAt
  <2>2. Goto(f, "held") /\ answer' = [answer EXCEPT ![f] = slots[h][i].value]
    BY <1>1, <1>2, <2>1 DEF FastFind, Answer
  <2>3. s \in Stored /\ ValueOf(s) = slots[h][i].value
    <3>1. ValueOf(s) = slots[h][i].value
      BY <1>1, <2>1, InvMapView DEF MapView
    <3>2. <<h, i>> \in Homes(s)
      BY <2>1 DEF Homes
    <3> QED BY <3>1, <3>2 DEF Stored, InSlot
  <2>4. \A g \in Frames : ~(Holds(g) /\ Span(g) = s)
    <3>1. s \notin DOMAIN over
      BY <1>1, <2>1 DEF IInv, HomeInv
    <3> QED BY <1>1, <3>1, NoHolders
  <2>5. Map!Holders(call[f].span) = {}
    BY <1>1, <2>4 DEF Map!Holders, Span
  <2>6. answer' = [answer EXCEPT ![f] = [t \in Spans |-> ValueOf(t)][call[f].span]]
    BY <1>1, <2>2, <2>3 DEF Span
  <2>7. ~[g \in Frames |-> Holds(g)][f]
    BY <1>1 DEF Holds
  <2>8. [g \in Frames |-> Holds(g)]' = [[g \in Frames |-> Holds(g)] EXCEPT ![f] = TRUE]
    BY <1>1, <2>2, MapHold
  <2>9. Map!Find(f)
    BY <1>1, <2>3, <2>5, <2>6, <2>7, <2>8, SameMap DEF Map!Find, Span
  <2> QED BY <2>9 DEF Map!Next
<1>3. CASE At(h, s) = {}
  <2>1. Goto(f, "over") /\ UNCHANGED answer
    BY <1>1, <1>3 DEF FastFind
  <2>2. \A g \in Frames : Holds(g)' = Holds(g)
    BY <1>1, <2>1 DEF Goto, Holds, IInv, TypeOK
  <2> QED BY <1>1, <2>1, <2>2, RefinesStutter
<1> QED BY <1>2, <1>3

LEMMA RefinesOverHold ==
  ASSUME IInv, IInv', NEW f \in Frames, OverHold(f)
  PROVE  Map!Find(f)
<1>1. PICK s \in Spans :
      /\ s = Span(f) /\ pc[f] = "over" /\ call[f].op \in Finds /\ s \in DOMAIN over
      /\ writer[OverShardOf[s]] = None
      /\ call[f].op # "get" => readers[OverShardOf[s]] = {}
      /\ answer' = [answer EXCEPT ![f] = over[s]] /\ Goto(f, "held")
      /\ UNCHANGED <<slots, over, call, status>>
  BY CallType DEF OverHold, Over, Unwritten, Unlocked, Answer
<1>2. s \in Stored /\ ValueOf(s) = over[s]
  BY <1>1, InvMapView DEF MapView, Stored
<1>3. ASSUME NEW g \in Frames, Holds(g), Span(g) = s
      PROVE  call[f].op = "get" /\ call[g].op = "get"
  <2>1. ref[g] = 0
    <3>1. Shard(g) \in Shards /\ s # None
      BY <1>1, <1>3, SpanStoreAssumption DEF Shard
    <3>2. \A i \in Indices : slots[Shard(g)][i].id # s
      BY <1>1, <3>1 DEF IInv, HomeInv
    <3>3. ref[g] # 0 => ref[g] \in Indices /\ slots[Shard(g)][ref[g]].id = s
      BY <1>3 DEF IInv, RefInv, TypeOK
    <3> QED BY <3>2, <3>3
  <2>2. Over(g) = OverShardOf[s]
    BY <1>3 DEF Over
  <2> QED BY <1>1, <1>3, <2>1, <2>2, SpanStoreAssumption DEF IInv, RefInv
<1>4. \A g \in Map!Holders(call[f].span) : call[f].op = "get" /\ call[g].op = "get"
  BY <1>1, <1>3 DEF Map!Holders, Span
<1>5. answer' = [answer EXCEPT ![f] = [t \in Spans |-> ValueOf(t)][call[f].span]]
  BY <1>1, <1>2 DEF Span
<1>6. ~[g \in Frames |-> Holds(g)][f]
  BY <1>1 DEF Holds
<1>7. [g \in Frames |-> Holds(g)]' = [[g \in Frames |-> Holds(g)] EXCEPT ![f] = TRUE]
  BY <1>1, MapHold
<1> QED BY <1>1, <1>2, <1>4, <1>5, <1>6, <1>7, SameMap DEF Map!Find, Span

LEMMA RefinesWrite ==
  ASSUME IInv, IInv', NEW f \in Frames, Write(f)
  PROVE  Map!Write(f)
<1>1. PICK h \in Shards, s \in Spans :
      /\ h = Shard(f) /\ s = Span(f) /\ s # None
      /\ pc[f] = "held" /\ call[f].op # "get" /\ Goto(f, "written")
      /\ UNCHANGED <<call, status, answer, ref>>
  BY CallType, SpanStoreAssumption DEF Write, Shard
<1>2. /\ ValueOf(s)' = ValueOf(s) + 1
      /\ \A g \in Shards, j \in Indices : slots[g][j].id # s => slots'[g][j] = slots[g][j]
      /\ \A t \in DOMAIN over : t # s => t \in DOMAIN over' /\ over'[t] = over[t]
  <2>1. CASE ref[f] # 0
    <3> DEFINE e == slots[h][ref[f]]
               n == [e EXCEPT !.value = @ + 1]
    <3>1. ref[f] \in Indices /\ e \in [id : Spans \cup {None}, value : Nat] /\ e.id = s
      BY <1>1, <2>1 DEF IInv, TypeOK, RefInv, Holds
    <3>2. n \in [id : Spans \cup {None}, value : Nat] /\ n.id = s /\ n.value = e.value + 1
      BY <3>1
    <3>3. SetSlot(h, ref[f], n) /\ over' = over
      BY <1>1, <2>1 DEF Write, SetSlot
    <3> HIDE DEF n
    <3>4. /\ slots'[h][ref[f]] = n
          /\ \A g \in Shards, j \in Indices :
               ~(g = h /\ j = ref[f]) => slots'[g][j] = slots[g][j]
      BY <1>1, <3>1, <3>2, <3>3, SlotType DEF IInv
    <3>5. ValueOf(s) = e.value
      BY <1>1, <3>1, InvMapView DEF MapView
    <3>6. ValueOf(s)' = n.value
      BY <1>1, <3>1, <3>2, <3>4, InvMapViewNext DEF MapView
    <3> QED BY <3>1, <3>2, <3>3, <3>4, <3>5, <3>6
  <2>2. CASE ref[f] = 0
    <3>1. s \in DOMAIN over
      BY <1>1, <2>2 DEF IInv, RefInv, Holds
    <3>2. over' = [over EXCEPT ![s] = over[s] + 1] /\ slots' = slots
      BY <1>1, <2>2 DEF Write
    <3>3. ValueOf(s) = over[s]
      BY <3>1, InvMapView DEF MapView
    <3>4. ValueOf(s)' = over'[s]
      BY <3>1, <3>2, InvMapViewNext DEF MapView
    <3> QED BY <3>1, <3>2, <3>3, <3>4
  <2> QED BY <2>1, <2>2
<1>3. ASSUME NEW t \in Spans, t # s PROVE ValueOf(t)' = ValueOf(t)
  BY <1>1, <1>2, <1>3, SameValue
<1>4. [t \in Spans |-> ValueOf(t)]' =
        [[t \in Spans |-> ValueOf(t)] EXCEPT ![s] = [t \in Spans |-> ValueOf(t)][s] + 1]
  BY <1>2, <1>3
<1>5. \A g \in Frames : Holds(g)' = Holds(g)
  BY <1>1 DEF Goto, Holds, IInv, TypeOK
<1>6. [g \in Frames |-> Holds(g)]' = [g \in Frames |-> Holds(g)]
  BY <1>5
<1>7. Stored' = Stored
  BY <1>1, InvMapView, InvMapViewNext DEF MapView
<1>8. [g \in Frames |-> Holds(g)][f]
  BY <1>1 DEF Holds
<1> QED BY <1>1, <1>4, <1>6, <1>7, <1>8 DEF Map!Write, Span

LEMMA RefinesRelease ==
  ASSUME IInv, IInv', NEW f \in Frames, Release(f)
  PROVE  Map!Drop(f)
<1>1. /\ Return(f) /\ UNCHANGED <<tiers, answer>> /\ pc[f] \in {"held", "written"}
  BY DEF Release
<1>2. /\ \A g \in Frames \ {f} : Holds(g)' = Holds(g)
      /\ Holds(f)' = FALSE
  BY <1>1, ReturnCall DEF Holds, IInv
<1>3. [g \in Frames |-> Holds(g)]' = [[g \in Frames |-> Holds(g)] EXCEPT ![f] = FALSE]
  BY <1>2
<1>4. [g \in Frames |-> Holds(g)][f]
  BY <1>1 DEF Holds
<1>5. call' = [call EXCEPT ![f] = NoCall]
  BY <1>1 DEF Return
<1> QED BY <1>1, <1>3, <1>4, <1>5, SameMap DEF Map!Drop, Map!Returned, Map!Nothing

LEMMA RefinesNext == IInv /\ IInv' /\ [Next]_vars => [Map!Next]_Map!vars
<1> SUFFICES ASSUME IInv, IInv', [Next]_vars PROVE [Map!Next]_Map!vars
  OBVIOUS
<1>1. ASSUME NEW f \in Frames, NEW op \in Ops, NEW s \in Spans, Call(f, op, s)
      PROVE  Map!Next
  BY <1>1, RefinesCall DEF Map!Next, Map!Ops
<1>2. ASSUME NEW f \in Frames, Operation(f) PROVE [Map!Next]_Map!vars
  <2>1. CASE FastInsert(f) \/ FastTake(f) \/ FastFind(f)
    BY <2>1, RefinesFastInsert, RefinesFastTake, RefinesFastFind
  <2>2. CASE OverInsert(f) \/ OverMiss(f) \/ OverHold(f) \/ OverTake(f)
    BY <2>2, RefinesOverInsert, RefinesOverMiss, RefinesOverHold, RefinesOverTake DEF Map!Next
  <2>3. CASE Write(f) \/ Release(f)
    BY <2>3, RefinesWrite, RefinesRelease DEF Map!Next
  <2> QED BY <1>2, <2>1, <2>2, <2>3 DEF Operation
<1>3. CASE UNCHANGED vars
  <2>1. \A g \in Frames : Holds(g)' = Holds(g)
    BY <1>3 DEF vars, Holds
  <2> QED BY <1>3, <2>1, RefinesStutter DEF vars
<1> QED BY <1>1, <1>2, <1>3 DEF Next, Done

\* The slots, the overflow map and their locks implement one map (span_state.rs):
\* a lookup never misses a span that was stored all the while, a reference reads
\* what was last written, no update is lost and a span is taken once.
THEOREM TiersImplementMap == Spec => Implements
  BY InitInv, NextInv, RefinesInit, RefinesNext, PTL DEF Spec, Implements, Map!Spec
================================================================================
