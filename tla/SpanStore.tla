------------------------------- MODULE SpanStore -------------------------------
(***************************************************************************)
(* The two-tier span store of span_state.rs.  A span's state lives in one  *)
(* of the few slots of its shard or, when these were taken, in the         *)
(* overflow map.  A lookup searches the slots under the shard's lock, lets *)
(* go of it and then asks the overflow map; the reference it returns keeps *)
(* the lock of the tier it found the span in.                              *)
(*                                                                         *)
(* A frame is a callback in progress on some thread.  Only on_record runs  *)
(* user code with a reference in its hands: the frame of a callback called *)
(* from there names that frame as its host.                                *)
(***************************************************************************)
EXTENDS Naturals, FiniteSets, Functions

CONSTANTS Frames, Spans, None,
          Host,         \* the frame whose user code a frame is called from, or None
          Shards, SlotCount,  \* FAST_SHARDS (8), FAST_SLOTS (4)
          OverShards,   \* the shards of the overflow map
          ShardOf, OverShardOf,  \* active_shard, and the hash of a DashMap
          MaxCalls      \* bound: operations on the store

ASSUME SpanStoreAssumption ==
  /\ None \notin Spans \cup Frames
  /\ Host \in [Frames -> Frames \cup {None}]
  /\ SlotCount \in Nat /\ MaxCalls \in Nat
  /\ ShardOf \in [Spans -> Shards]
  /\ OverShardOf \in [Spans -> OverShards]

VARIABLES
  slots,    \* SpanStore.active: the entries of each shard
  lock,     \* who holds the mutex of each shard
  over,     \* SpanStore.overflow: the value of each span in it
  readers,  \* who holds a read lock on a shard of the overflow map
  writer,   \* who holds its write lock
  pc,       \* where each frame is in an operation
  call,     \* the frame's operation and span
  ref,      \* the slot of a held SpanRef or SpanRefMut; 0: in the overflow map
  answer,   \* the value a frame was last given, or None
  status,   \* what the callbacks have done with each span
  calls     \* operations started

tiers == <<slots, over>>
locks == <<lock, readers, writer>>
vars == <<tiers, locks, pc, call, ref, answer, status, calls>>

Indices == 1 .. SlotCount
Empty   == [id |-> None, value |-> 0]
NoCall  == [op |-> "none", span |-> None]

Init ==
  /\ slots = [h \in Shards |-> [i \in Indices |-> Empty]]
  /\ lock = [h \in Shards |-> None]
  /\ over = [s \in {} |-> 0]
  /\ readers = [q \in OverShards |-> {}]
  /\ writer = [q \in OverShards |-> None]
  /\ pc = [f \in Frames |-> "idle"]
  /\ call = [f \in Frames |-> NoCall]
  /\ ref = [f \in Frames |-> 0]
  /\ answer = [f \in Frames |-> None]
  /\ status = [s \in Spans |-> "new"]
  /\ calls = 0

Goto(f, l) == pc' = [pc EXCEPT ![f] = l]
Answer(f, v) == answer' = [answer EXCEPT ![f] = v]
Span(f) == call[f].span
Shard(f) == ShardOf[Span(f)]
Over(f) == OverShardOf[Span(f)]

\* A frame runs unless its user code is in a callback of its own; user code
\* runs in the middle of on_record only.
Runs(f) ==
  /\ \A g \in Frames : Host[g] = f => pc[g] = "idle"
  /\ Host[f] # None => pc[Host[f]] = "held" /\ call[Host[f]].op = "record"

-----------------------------------------------------------------------------
(* The callbacks.  A span's id is known to others once on_new_span has      *)
(* inserted it, an id may be used when the span is gone already, and        *)
(* on_close comes once.                                                     *)

Ops == {"insert", "get", "get_mut", "record", "take"}

MayCall(op, s) ==
  CASE op = "insert" -> status[s] = "new"
    [] op = "take"   -> status[s] = "known"
    [] OTHER         -> status[s] \in {"known", "closing", "gone"}

Call(f, op, s) ==
  /\ pc[f] = "idle" /\ Runs(f) /\ calls < MaxCalls
  /\ MayCall(op, s)
  /\ calls' = calls + 1
  /\ call' = [call EXCEPT ![f] = [op |-> op, span |-> s]]
  /\ status' = [status EXCEPT ![s] = CASE op = "insert" -> "storing"
                                       [] op = "take"   -> "closing"
                                       [] OTHER         -> @]
  /\ Goto(f, "fast")
  /\ UNCHANGED <<tiers, locks, ref, answer>>

\* An operation returns without a reference.
Return(f) ==
  /\ Goto(f, "idle")
  /\ call' = [call EXCEPT ![f] = NoCall]
  /\ status' = [status EXCEPT ![Span(f)] = CASE call[f].op = "insert" -> "known"
                                             [] call[f].op = "take"   -> "gone"
                                             [] OTHER                 -> @]

-----------------------------------------------------------------------------
(* ActiveSlots, under the mutex of a shard.                                 *)

Free(h) == {i \in Indices : slots[h][i] = Empty}
At(h, s) == {i \in Indices : slots[h][i].id = s}
First(S) == CHOOSE i \in S : \A j \in S : i <= j

SetSlot(h, i, e) == slots' = [slots EXCEPT ![h][i] = e]

\* The first tier of insert.
FastInsert(f) ==
  /\ pc[f] = "fast" /\ call[f].op = "insert" /\ lock[Shard(f)] = None
  /\ IF Free(Shard(f)) # {}
       THEN /\ SetSlot(Shard(f), First(Free(Shard(f))), [id |-> Span(f), value |-> 0])
            /\ Return(f)
       ELSE Goto(f, "over") /\ UNCHANGED <<slots, call, status>>
  /\ UNCHANGED <<over, locks, ref, answer, calls>>

\* Variant: a freed slot is filled at once from the overflow map.
FastTakePromoting(f) ==
  LET h == Shard(f)
      i == First(At(h, Span(f)))
      waiting == {s \in DOMAIN over : ShardOf[s] = h /\ readers[OverShardOf[s]] = {}
                                        /\ writer[OverShardOf[s]] = None}
  IN /\ pc[f] = "fast" /\ call[f].op = "take" /\ lock[h] = None
     /\ IF At(h, Span(f)) # {}
          THEN /\ Answer(f, slots[h][i].value)
               /\ IF waiting = {}
                    THEN SetSlot(h, i, Empty) /\ UNCHANGED over
                    ELSE LET s == CHOOSE s \in waiting : TRUE
                         IN /\ SetSlot(h, i, [id |-> s, value |-> over[s]])
                            /\ over' = Restrict(over, DOMAIN over \ {s})
               /\ Return(f)
          ELSE Goto(f, "over") /\ UNCHANGED <<tiers, answer, call, status>>
     /\ UNCHANGED <<locks, ref, calls>>

\* Variant: take does not wait for the shard's lock.
FastTakeUnlocked(f) ==
  LET h == Shard(f)
      i == First(At(h, Span(f)))
  IN /\ pc[f] = "fast" /\ call[f].op = "take"
     /\ IF At(h, Span(f)) # {}
          THEN Answer(f, slots[h][i].value) /\ SetSlot(h, i, Empty) /\ Return(f)
          ELSE Goto(f, "over") /\ UNCHANGED <<slots, answer, call, status>>
     /\ UNCHANGED <<over, locks, ref, calls>>

\* The first tier of take.
FastTake(f) ==
  LET h == Shard(f)
      i == First(At(h, Span(f)))
  IN /\ pc[f] = "fast" /\ call[f].op = "take" /\ lock[h] = None
     /\ IF At(h, Span(f)) # {}
          THEN /\ Answer(f, slots[h][i].value)
               /\ SetSlot(h, i, Empty)
               /\ Return(f)
          ELSE Goto(f, "over") /\ UNCHANGED <<slots, answer, call, status>>
     /\ UNCHANGED <<over, locks, ref, calls>>

\* Variant: the shard stays locked while the overflow map is searched.
FastFindKeeping(f) ==
  LET h == Shard(f)
  IN /\ pc[f] = "fast" /\ call[f].op \in {"get", "get_mut", "record"} /\ lock[h] = None
     /\ lock' = [lock EXCEPT ![h] = f]
     /\ IF At(h, Span(f)) # {}
          THEN LET i == First(At(h, Span(f)))
               IN /\ ref' = [ref EXCEPT ![f] = i]
                  /\ Answer(f, slots[h][i].value)
                  /\ Goto(f, "held")
          ELSE Goto(f, "over") /\ UNCHANGED <<ref, answer>>
     /\ UNCHANGED <<tiers, readers, writer, call, status, calls>>

\* Variant: the index of the found slot is one too large.
FastFindNext(f) ==
  LET h == Shard(f)
  IN /\ pc[f] = "fast" /\ call[f].op \in {"get", "get_mut", "record"} /\ lock[h] = None
     /\ IF At(h, Span(f)) # {}
          THEN /\ lock' = [lock EXCEPT ![h] = f]
               /\ ref' = [ref EXCEPT ![f] = First(At(h, Span(f))) + 1]
               /\ Goto(f, "held")
          ELSE Goto(f, "over") /\ UNCHANGED <<lock, ref>>
     /\ UNCHANGED <<tiers, readers, writer, call, answer, status, calls>>

\* The first tier of get and get_mut: the reference keeps the shard locked.
FastFind(f) ==
  LET h == Shard(f)
  IN /\ pc[f] = "fast" /\ call[f].op \in {"get", "get_mut", "record"} /\ lock[h] = None
     /\ IF At(h, Span(f)) # {}
          THEN LET i == First(At(h, Span(f)))
               IN /\ lock' = [lock EXCEPT ![h] = f]
                  /\ ref' = [ref EXCEPT ![f] = i]
                  /\ Answer(f, slots[h][i].value)
                  /\ Goto(f, "held")
          ELSE Goto(f, "over") /\ UNCHANGED <<lock, ref, answer>>
     /\ UNCHANGED <<tiers, readers, writer, call, status, calls>>

-----------------------------------------------------------------------------
(* The overflow map, whose shards have a lock for readers and a writer.     *)

Unwritten(q) == writer[q] = None
Unlocked(q)  == writer[q] = None /\ readers[q] = {}

OverInsert(f) ==
  /\ pc[f] = "over" /\ call[f].op = "insert" /\ Unlocked(Over(f))
  /\ over' = [s \in DOMAIN over \cup {Span(f)} |-> IF s = Span(f) THEN 0 ELSE over[s]]
  /\ Return(f)
  /\ UNCHANGED <<slots, locks, ref, answer, calls>>

OverMiss(f) ==
  /\ pc[f] = "over" /\ Span(f) \notin DOMAIN over
  /\ \/ call[f].op = "get" /\ Unwritten(Over(f))
     \/ call[f].op \in {"get_mut", "record", "take"} /\ Unlocked(Over(f))
  /\ Answer(f, None)
  /\ Return(f)
  /\ UNCHANGED <<tiers, locks, ref, calls>>

OverHold(f) ==
  /\ pc[f] = "over" /\ Span(f) \in DOMAIN over
  /\ \/ /\ call[f].op = "get" /\ Unwritten(Over(f))
        /\ readers' = [readers EXCEPT ![Over(f)] = @ \cup {f}]
        /\ UNCHANGED writer
     \/ /\ call[f].op \in {"get_mut", "record"} /\ Unlocked(Over(f))
        /\ writer' = [writer EXCEPT ![Over(f)] = f]
        /\ UNCHANGED readers
  /\ ref' = [ref EXCEPT ![f] = 0]
  /\ Answer(f, over[Span(f)])
  /\ Goto(f, "held")
  /\ UNCHANGED <<tiers, lock, call, status, calls>>

OverTake(f) ==
  /\ pc[f] = "over" /\ call[f].op = "take" /\ Span(f) \in DOMAIN over /\ Unlocked(Over(f))
  /\ Answer(f, over[Span(f)])
  /\ over' = Restrict(over, DOMAIN over \ {Span(f)})
  /\ Return(f)
  /\ UNCHANGED <<slots, locks, ref, calls>>

-----------------------------------------------------------------------------
(* SpanRef and SpanRefMut.                                                  *)

\* What deref_mut gives is the entry the reference was made for.
Write(f) ==
  /\ pc[f] = "held" /\ call[f].op \in {"get_mut", "record"} /\ Runs(f)
  /\ IF ref[f] # 0
       THEN /\ slots' = [slots EXCEPT ![Shard(f)][ref[f]].value = @ + 1]
            /\ UNCHANGED over
       ELSE /\ over' = [over EXCEPT ![Span(f)] = @ + 1]
            /\ UNCHANGED slots
  /\ Goto(f, "written")
  /\ UNCHANGED <<locks, call, ref, answer, status, calls>>

\* The reference is dropped.
Release(f) ==
  /\ pc[f] = "written" \/ (pc[f] = "held" /\ call[f].op = "get")
  /\ lock' = [h \in Shards |-> IF lock[h] = f /\ ref[f] # 0 THEN None ELSE lock[h]]
  /\ readers' = [q \in OverShards |-> readers[q] \ {f}]
  /\ writer' = [q \in OverShards |-> IF writer[q] = f THEN None ELSE writer[q]]
  /\ ref' = [ref EXCEPT ![f] = 0]
  /\ Return(f)
  /\ UNCHANGED <<tiers, answer, calls>>

Operation(f) ==
  \/ FastInsert(f) \/ FastTake(f) \/ FastFind(f)
  \/ OverInsert(f) \/ OverMiss(f) \/ OverHold(f) \/ OverTake(f)
  \/ Write(f) \/ Release(f)

Done ==
  /\ \A f \in Frames : pc[f] = "idle"
  /\ UNCHANGED vars

Next ==
  \/ \E f \in Frames :
       (\E op \in Ops, s \in Spans : Call(f, op, s)) \/ Operation(f)
  \/ Done

Spec == Init /\ [][Next]_vars

\* parking_lot and DashMap hand a free lock to some waiting thread, the
\* callbacks run to their end, and nobody calls for ever.
FairSpec == Spec /\ \A f \in Frames : WF_vars(Operation(f))

-----------------------------------------------------------------------------
(* Properties.                                                              *)

TypeOK ==
  /\ slots \in [Shards -> [Indices -> [id : Spans \cup {None}, value : Nat]]]
  /\ DOMAIN over \subseteq Spans /\ \A s \in DOMAIN over : over[s] \in Nat
  /\ lock \in [Shards -> Frames \cup {None}]
  /\ readers \in [OverShards -> SUBSET Frames]
  /\ writer \in [OverShards -> Frames \cup {None}]
  /\ pc \in [Frames -> {"idle", "fast", "over", "held", "written"}]
  /\ call \in [Frames -> [op : Ops, span : Spans] \cup {NoCall}]
  /\ ref \in [Frames -> Indices \cup {0}]
  /\ answer \in [Frames -> Nat \cup {None}]
  /\ status \in [Spans -> {"new", "storing", "known", "closing", "gone"}]
  /\ calls \in Nat

\* Where the state of a span is.
Homes(s) == {x \in Shards \X Indices : slots[x[1]][x[2]].id = s}

InSlot(s) == Homes(s) # {}
Stored == {s \in Spans : InSlot(s)} \cup DOMAIN over
ValueOf(s) == IF InSlot(s) THEN LET x == CHOOSE x \in Homes(s) : TRUE IN slots[x[1]][x[2]].value
              ELSE IF s \in DOMAIN over THEN over[s] ELSE 0
Holds(f) == pc[f] \in {"held", "written"}

\* The promises of the store as one map, whatever the tiers do.
Map == INSTANCE SpanMap WITH
  Callers <- Frames,
  stored  <- Stored,
  value   <- [s \in Spans |-> ValueOf(s)],
  asked   <- call,
  held    <- [f \in Frames |-> Holds(f)]

\* The two tiers and their locks implement one map: a lookup that left the
\* shard's lock before it asked the overflow map never misses a span that was
\* stored all the while, no update is lost, and a span is taken once.
Implements == Map!Spec

\* The "occupied span slot" a reference expects is there and is its span's,
\* although other spans of the shard come and go; and a span has one home.
RefsValid ==
  /\ \A f \in Frames : Holds(f) =>
       IF ref[f] # 0 THEN slots[Shard(f)][ref[f]].id = Span(f) ELSE Span(f) \in DOMAIN over
  /\ \A s \in Spans : Cardinality(Homes(s)) + (IF s \in DOMAIN over THEN 1 ELSE 0) <= 1

\* Every operation on the store returns.
CallsReturn == \A f \in Frames : pc[f] # "idle" ~> pc[f] = "idle"

\* The lock f waits for is held by the callback f is called from.
WaitsFor(f, g) ==
  \/ pc[f] = "fast" /\ lock[Shard(f)] = g
  \/ pc[f] = "over" /\ writer[Over(f)] = g

\* thread.rs: "Reentrant access from user formatting implementations is
\* silently dropped": a callback that user code makes while a field is recorded
\* does not wait for the very reference that on_record holds.
ReentrantDropped == \A f \in Frames : Host[f] # None => ~WaitsFor(f, Host[f])
================================================================================
