-------------------------------- MODULE Tracks --------------------------------
(***************************************************************************)
(* The lifetime tracks of subscriber.rs, thread.rs and span_state.rs: a    *)
(* new span claims a track with its name and parent from the thread's      *)
(* cache, from the key's shared pool, or creates one; a closing span gives *)
(* it back.  A callback that finds its thread's context taken or gone does *)
(* without a track, or returns it without ending its slice.                *)
(*                                                                         *)
(* A step is what a thread does between two operations other threads can   *)
(* see: on a pool, the pool map, the uuid counter, the clock or the store. *)
(***************************************************************************)
EXTENDS Integers, Sequences, FiniteSets, SequencesExt

CONSTANTS Threads,
          Spans,      \* spans, each created once
          Names,      \* callsite names
          None,       \* no span
          NumSlots,   \* cached pools of a thread (8)
          PoolCap,    \* track uuids a pool keeps (4)
          MaxKeys,    \* MAX_REUSABLE_KEYS (8192)
          MayFail     \* bound: whether the writer may fail at all

ASSUME TracksAssumption ==
  /\ None \notin Spans \cup Names
  /\ NumSlots \in Nat \ {0}
  /\ PoolCap \in Nat /\ MaxKeys \in Nat
  /\ MayFail \in BOOLEAN

Slots == 1 .. NumSlots
Key   == [name : Names, parent : Nat]   \* TrackKey
NoKey == [name |-> None, parent |-> 0]

\* Uuids are the naturals alloc_uuid returns.  0 is no uuid; as a parent it
\* is the process track.
VARIABLES
  pools,     \* SpanStore.pools: the queue of each key's pool
  keyCount,  \* SpanStore.reusable_keys
  cache,     \* ThreadCtx.track_pools: key (or NoKey) and local_uuid per slot
  nextSlot,  \* ThreadCtx.next_track_pool
  nextUuid,  \* Inner.next_uuid
  hasError,  \* Inner.has_error
  pc,        \* where each thread is in a callback
  work,      \* its callback's span, key, claimed uuid and whether pooled
  status,    \* what the subscriber knows of each span
  parent,    \* the parent a span was created with
  data,      \* SpanStore: the pool (its key) and uuid of each stored span
  clock,     \* the trace clock's last reading
  descr,     \* the trace: the key in a track's descriptor
  onTrack,   \* the trace: the track of a span's slice
  began,     \* the trace: the timestamp of its begin
  ended,     \* the trace: the timestamp of its end; 0 is none
  lost       \* history: uuids nobody will use again

pooling == <<pools, keyCount>>
caching == <<cache, nextSlot>>
spans   == <<status, parent, data>>
trace   == <<clock, descr, onTrack, began, ended>>
vars == <<pooling, caching, nextUuid, hasError, pc, work, spans, trace, lost>>

Idle == [span |-> None, key |-> NoKey, uuid |-> 0, pooled |-> FALSE]
NoTrack == [pool |-> NoKey, uuid |-> 0]

Init ==
  /\ pools = [k \in {} |-> <<>>]
  /\ keyCount = 0
  /\ cache = [t \in Threads |-> [i \in Slots |-> [key |-> NoKey, local |-> 0]]]
  /\ nextSlot = [t \in Threads |-> 1]
  /\ nextUuid = 1
  /\ hasError = FALSE
  /\ pc = [t \in Threads |-> "idle"]
  /\ work = [t \in Threads |-> Idle]
  /\ status = [s \in Spans |-> "none"]
  /\ parent = [s \in Spans |-> None]
  /\ data = [s \in Spans |-> NoTrack]
  /\ clock = 1
  /\ descr = <<>>
  /\ onTrack = [s \in Spans |-> 0]
  /\ began = [s \in Spans |-> 0]
  /\ ended = [s \in Spans |-> 0]
  /\ lost = {}

Goto(t, l) == pc' = [pc EXCEPT ![t] = l]

\* The trace clock is monotonic and may repeat a reading.
ReadClock == clock' \in {clock, clock + 1}

-----------------------------------------------------------------------------
(* Pools and caches.                                                        *)

\* Variant: tracks are reused whatever their parent.
SameName(a, b) == a.name = b.name

SameKey(a, b) == a = b

\* The slots of t that cache the pool of k.
CachedAt(t, k) == {i \in Slots : cache[t][i].key # NoKey /\ SameKey(cache[t][i].key, k)}

\* The first of them, which the loop over the slots finds.
SlotOf(t, k) == CHOOSE i \in CachedAt(t, k) : \A j \in CachedAt(t, k) : i <= j

\* Variant: a claimed local uuid stays in its slot.
StillThere(t, i) == UNCHANGED cache

TakeLocal(t, i) == cache' = [cache EXCEPT ![t][i].local = 0]

\* TrackPool::release: a full queue drops the uuid.
PushTo(k, u) ==
  IF Len(pools[k]) < PoolCap
    THEN pools' = [pools EXCEPT ![k] = Append(@, u)] /\ UNCHANGED lost
    ELSE lost' = lost \cup {u} /\ UNCHANGED pools

\* Variant: an evicted slot forgets its uuid.
ForgetSlot(t, i) == UNCHANGED <<pools, lost>>

\* A slot's uuid, if it holds one, goes back to the slot's pool.
ReturnSlot(t, i) ==
  IF cache[t][i].local # 0
    THEN PushTo(cache[t][i].key, cache[t][i].local)
    ELSE UNCHANGED <<pools, lost>>

\* Variant: the next slot is not wrapped around.
ReplaceUnwrapped(t, k, u) ==
  LET i == nextSlot[t]
  IN /\ ReturnSlot(t, i)
     /\ cache' = [cache EXCEPT ![t][i] = [key |-> k, local |-> u]]
     /\ nextSlot' = [nextSlot EXCEPT ![t] = i + 1]

\* replace_track_pool: the slots are reused in turn.
ReplaceSlot(t, k, u) ==
  LET i == nextSlot[t]
  IN /\ ReturnSlot(t, i)
     /\ cache' = [cache EXCEPT ![t][i] = [key |-> k, local |-> u]]
     /\ nextSlot' = [nextSlot EXCEPT ![t] = (i % NumSlots) + 1]

\* Variant: a pool is cached again at every release.
CacheAgain(t, k, u) == ReplaceSlot(t, k, u)

\* release_track: to the slot of the pool, to the pool if the slot is taken,
\* or to a slot of its own.
ReleaseTrack(t, k, u) ==
  IF CachedAt(t, k) = {}
    THEN ReplaceSlot(t, k, u)
    ELSE /\ UNCHANGED nextSlot
         /\ LET i == SlotOf(t, k)
            IN IF cache[t][i].local = 0
                 THEN /\ cache' = [cache EXCEPT ![t][i].local = u]
                      /\ UNCHANGED <<pools, lost>>
                 ELSE PushTo(k, u) /\ UNCHANGED cache

-----------------------------------------------------------------------------
(* on_new_span in the modes with lifetime slices.                           *)

\* User code runs in a callback of t (recording the span's attributes) or
\* after t's contexts are destroyed: a nested callback cannot acquire one.
Unacquirable(t) == pc[t] \in {"user", "gone"}

MayHaveParent(p) == p \in {None} \cup {s \in Spans : status[s] = "live"}

\* The parent's track, or the process track if it has none.
KeyOf(n, p) == [name |-> n, parent |-> IF p = None THEN 0 ELSE data[p].uuid]

\* Acquired: the cache is searched, and its uuid taken, without a shared
\* operation.
NewSpan(t, s, n, p) ==
  /\ pc[t] = "idle" /\ ~hasError
  /\ status[s] = "none" /\ MayHaveParent(p)
  /\ status' = [status EXCEPT ![s] = "opening"]
  /\ parent' = [parent EXCEPT ![s] = p]
  /\ LET k == KeyOf(n, p)
         i == SlotOf(t, k)
         claim(pool, u) == work' = [work EXCEPT ![t] =
                             [span |-> s, key |-> pool, uuid |-> u, pooled |-> TRUE]]
     IN \/ CachedAt(t, k) = {} /\ claim(k, 0) /\ Goto(t, "lookup") /\ UNCHANGED cache
        \/ /\ CachedAt(t, k) # {}
           /\ claim(cache[t][i].key, cache[t][i].local)
           /\ IF cache[t][i].local # 0
                THEN Goto(t, "open") /\ TakeLocal(t, i)
                ELSE Goto(t, "pop") /\ UNCHANGED cache
  /\ UNCHANGED <<pooling, nextSlot, nextUuid, hasError, data, trace, lost>>

\* After an error nothing is stored; without a context a span is stored with
\* no track.
NewUntracked(t, s, p) ==
  /\ Unacquirable(t) \/ (pc[t] = "idle" /\ hasError)
  /\ status[s] = "none" /\ MayHaveParent(p)
  /\ status' = [status EXCEPT ![s] = "live"]
  /\ parent' = [parent EXCEPT ![s] = p]
  /\ UNCHANGED <<pooling, caching, nextUuid, hasError, pc, work, data, trace, lost>>

\* track_pool's first look at the pool map.
Lookup(t) ==
  /\ pc[t] = "lookup"
  /\ Goto(t, IF work[t].key \in DOMAIN pools THEN "pop" ELSE "reserve")
  /\ UNCHANGED <<pooling, caching, nextUuid, hasError, work, spans, trace, lost>>

\* Variant: one key more.
RoomForOneMore == keyCount <= MaxKeys

Room == keyCount < MaxKeys

\* create_track_pool holds the key's shard from its second look to the insert;
\* the keys are counted across shards.
Reserve(t) ==
  /\ pc[t] = "reserve"
  /\ \A o \in Threads : pc[o] = "insert" => work[o].key # work[t].key
  /\ \/ /\ work[t].key \in DOMAIN pools
        /\ Goto(t, "pop") /\ UNCHANGED <<keyCount, work>>
     \/ /\ work[t].key \notin DOMAIN pools /\ Room
        /\ keyCount' = keyCount + 1
        /\ Goto(t, "insert") /\ UNCHANGED work
     \/ /\ work[t].key \notin DOMAIN pools /\ ~Room
        /\ work' = [work EXCEPT ![t].pooled = FALSE]
        /\ Goto(t, "open") /\ UNCHANGED keyCount
  /\ UNCHANGED <<pools, caching, nextUuid, hasError, spans, trace, lost>>

Insert(t) ==
  /\ pc[t] = "insert"
  /\ pools' = [k \in DOMAIN pools \cup {work[t].key} |->
                 IF k = work[t].key THEN <<>> ELSE pools[k]]
  /\ Goto(t, "pop")
  /\ UNCHANGED <<keyCount, caching, nextUuid, hasError, work, spans, trace, lost>>

\* TrackPool::claim; a pool that was not cached is cached next.
Pop(t) ==
  /\ pc[t] = "pop"
  /\ LET k == work[t].key
     IN /\ IF pools[k] = <<>>
             THEN UNCHANGED <<pools, work>>
             ELSE /\ work' = [work EXCEPT ![t].uuid = Head(pools[k])]
                  /\ pools' = [pools EXCEPT ![k] = Tail(@)]
        /\ Goto(t, IF CachedAt(t, k) = {} THEN "evict" ELSE "open")
  /\ UNCHANGED <<keyCount, caching, nextUuid, hasError, spans, trace, lost>>

Evict(t) ==
  /\ pc[t] = "evict"
  /\ ReplaceSlot(t, work[t].key, 0)
  /\ Goto(t, "open")
  /\ UNCHANGED <<keyCount, nextUuid, hasError, work, spans, trace>>

\* create_span_track: a fresh uuid and its descriptor.
Create(t) ==
  /\ pc[t] = "open" /\ work[t].uuid = 0
  /\ work' = [work EXCEPT ![t].uuid = nextUuid]
  /\ descr' = Append(descr, work[t].key)
  /\ nextUuid' = nextUuid + 1
  /\ UNCHANGED <<pooling, caching, hasError, pc, spans, clock, onTrack, began, ended, lost>>

\* The slice begin is stamped after the track has been claimed; then the
\* attributes are recorded.
Begin(t) ==
  /\ pc[t] = "open" /\ work[t].uuid # 0
  /\ ReadClock
  /\ onTrack' = [onTrack EXCEPT ![work[t].span] = work[t].uuid]
  /\ began' = [began EXCEPT ![work[t].span] = clock']
  /\ Goto(t, "user")
  /\ UNCHANGED <<pooling, caching, nextUuid, hasError, work, spans, descr, ended, lost>>

Publish(t) ==
  /\ pc[t] = "user"
  /\ data' = [data EXCEPT ![work[t].span] =
                [pool |-> IF work[t].pooled THEN work[t].key ELSE NoKey,
                 uuid |-> work[t].uuid]]
  /\ status' = [status EXCEPT ![work[t].span] = "live"]
  /\ work' = [work EXCEPT ![t] = Idle]
  /\ Goto(t, "idle")
  /\ UNCHANGED <<pooling, caching, nextUuid, hasError, parent, trace, lost>>

-----------------------------------------------------------------------------
(* on_close.                                                                *)

\* The subscriber closes a span after its children: each holds its parent.
MayClose(s) ==
  /\ status[s] = "live"
  /\ \A c \in Spans : parent[c] = s => status[c] = "closed"

\* Variant: the track is given back before its slice is ended.
CloseReleasing(t, s) ==
  /\ pc[t] = "idle" /\ ~hasError /\ MayClose(s) /\ data[s].pool # NoKey
  /\ data' = [data EXCEPT ![s] = NoTrack]
  /\ work' = [work EXCEPT ![t] = [span |-> s, key |-> NoKey, uuid |-> data[s].uuid,
                                   pooled |-> FALSE]]
  /\ status' = [status EXCEPT ![s] = "closing"]
  /\ Goto(t, "end")
  /\ PushTo(data[s].pool, data[s].uuid)
  /\ UNCHANGED <<keyCount, caching, nextUuid, hasError, parent, trace>>

\* SpanStore::take, and the context when the span has a track.
Close(t, s) ==
  /\ pc[t] = "idle" /\ ~hasError /\ MayClose(s)
  /\ data' = [data EXCEPT ![s] = NoTrack]
  /\ IF data[s].uuid # 0
       THEN /\ work' = [work EXCEPT ![t] =
                          [span |-> s, key |-> data[s].pool, uuid |-> data[s].uuid,
                           pooled |-> data[s].pool # NoKey]]
            /\ status' = [status EXCEPT ![s] = "closing"]
            /\ Goto(t, "end")
       ELSE /\ status' = [status EXCEPT ![s] = "closed"]
            /\ UNCHANGED <<pc, work>>
  /\ UNCHANGED <<pooling, caching, nextUuid, hasError, parent, trace, lost>>

\* Without a context, or after an error, the slice is not ended; the uuid goes
\* straight to its pool.  (The store and the pool are one step here: nothing
\* can tell when between the two the pool is touched.)
CloseUnended(t, s) ==
  /\ Unacquirable(t) \/ (pc[t] = "idle" /\ hasError)
  /\ MayClose(s)
  /\ data' = [data EXCEPT ![s] = NoTrack]
  /\ status' = [status EXCEPT ![s] = "closed"]
  /\ IF data[s].pool # NoKey
       THEN PushTo(data[s].pool, data[s].uuid)
       ELSE UNCHANGED pools /\ lost' = lost \cup ({data[s].uuid} \ {0})
  /\ UNCHANGED <<keyCount, caching, nextUuid, hasError, pc, work, parent, trace>>

End(t) ==
  /\ pc[t] = "end"
  /\ ReadClock
  /\ ended' = [ended EXCEPT ![work[t].span] = clock']
  /\ Goto(t, "release")
  /\ UNCHANGED <<pooling, caching, nextUuid, hasError, work, spans, descr, onTrack,
                 began, lost>>

\* The end of on_close.  A track without a pool is not used again.
Release(t) ==
  /\ pc[t] = "release"
  /\ IF work[t].pooled
       THEN ReleaseTrack(t, work[t].key, work[t].uuid)
       ELSE lost' = lost \cup {work[t].uuid} /\ UNCHANGED <<pools, caching>>
  /\ status' = [status EXCEPT ![work[t].span] = "closed"]
  /\ work' = [work EXCEPT ![t] = Idle]
  /\ Goto(t, "idle")
  /\ UNCHANGED <<keyCount, nextUuid, hasError, parent, data, trace>>

-----------------------------------------------------------------------------
(* ThreadCtx::drop, and the error flag of the output pipeline.              *)

ThreadExit(t) ==
  /\ pc[t] = "idle"
  /\ Goto(t, "exit")
  /\ UNCHANGED <<pooling, caching, nextUuid, hasError, work, spans, trace, lost>>

Held(t) == {i \in Slots : cache[t][i].local # 0}

DropSlot(t) ==
  /\ pc[t] = "exit"
  /\ \/ \E i \in Held(t) :
          /\ \A j \in Held(t) : i <= j
          /\ ReturnSlot(t, i)
          /\ TakeLocal(t, i)
          /\ UNCHANGED pc
     \/ Held(t) = {} /\ Goto(t, "gone") /\ UNCHANGED <<pools, cache, lost>>
  /\ UNCHANGED <<keyCount, nextSlot, nextUuid, hasError, work, spans, trace>>

\* record_error, in some drain.
WriterFails ==
  /\ MayFail /\ ~hasError
  /\ hasError' = TRUE
  /\ UNCHANGED <<pooling, caching, nextUuid, pc, work, spans, trace, lost>>

Done ==
  /\ \A t \in Threads : pc[t] = "gone"
  /\ \A s \in Spans : status[s] = "closed"
  /\ UNCHANGED vars

Claim(t) == Lookup(t) \/ Reserve(t) \/ Insert(t) \/ Pop(t) \/ Evict(t)

Next ==
  \/ \E t \in Threads :
       \/ \E s \in Spans, p \in Spans \cup {None} :
            (\E n \in Names : NewSpan(t, s, n, p)) \/ NewUntracked(t, s, p)
       \/ \E s \in Spans : Close(t, s) \/ CloseUnended(t, s)
       \/ Claim(t) \/ Create(t) \/ Begin(t) \/ Publish(t)
       \/ End(t) \/ Release(t)
       \/ ThreadExit(t) \/ DropSlot(t)
  \/ WriterFails
  \/ Done

Spec == Init /\ [][Next]_vars

-----------------------------------------------------------------------------
(* Properties.                                                              *)

Labels == {"idle", "lookup", "reserve", "insert", "pop", "evict", "open", "user",
           "end", "release", "exit", "gone"}

TypeOK ==
  /\ DOMAIN pools \subseteq Key
  /\ \A k \in DOMAIN pools : pools[k] \in Seq(Nat \ {0})
  /\ keyCount \in Nat
  /\ cache \in [Threads -> [Slots -> [key : Key \cup {NoKey}, local : Nat]]]
  /\ nextSlot \in [Threads -> Slots]
  /\ nextUuid \in Nat \ {0}
  /\ hasError \in BOOLEAN
  /\ pc \in [Threads -> Labels]
  /\ work \in [Threads -> [span : Spans \cup {None}, key : Key \cup {NoKey},
                           uuid : Nat, pooled : BOOLEAN]]
  /\ status \in [Spans -> {"none", "opening", "live", "closing", "closed"}]
  /\ parent \in [Spans -> Spans \cup {None}]
  /\ data \in [Spans -> [pool : Key \cup {NoKey}, uuid : Nat]]
  /\ clock \in Nat \ {0}
  /\ descr \in Seq(Key)
  /\ onTrack \in [Spans -> Nat]
  /\ began \in [Spans -> Nat]
  /\ ended \in [Spans -> Nat]
  /\ lost \subseteq Nat \ {0}

\* Where uuid u is: with a stored span, in a callback, in a cache slot, in a
\* place of a pool's queue.
Holders(u) ==
  {<<"span", s>> : s \in {s \in Spans : data[s].uuid = u}}
    \cup {<<"callback", t>> : t \in {t \in Threads : work[t].uuid = u}}
    \cup {h \in {"slot"} \X Threads \X Slots : cache[h[2]][h[3]].local = u}
    \cup UNION {{<<"pool", k, i>> : i \in {i \in DOMAIN pools[k] : pools[k][i] = u}} :
                  k \in DOMAIN pools}

Uuids == 1 .. nextUuid - 1

\* A track has one owner at a time: a span, a callback, a thread's cache or a
\* pool, and none of them twice; the uuid a full pool dropped never comes back.
OneOwner ==
  \A u \in Uuids : Cardinality(Holders(u)) + (IF u \in lost THEN 1 ELSE 0) <= 1

\* No track is forgotten: an evicted slot, an exiting thread and a skipped
\* callback give it back, and only a full pool or a span without a pool drop it.
NothingLeaks == \A u \in Uuids : Holders(u) # {} \/ u \in lost

\* Every slice is on a track under its parent's track, as its descriptor says,
\* and a track waits only where a span of that name and parent will look for it
\* ("claim a descriptor-compatible track"; "lifetime tracks mirror the span
\* hierarchy, rooted at the process track").
TracksFit ==
  /\ \A s \in Spans :
       onTrack[s] # 0 =>
         descr[onTrack[s]].parent = IF parent[s] = None THEN 0 ELSE onTrack[parent[s]]
  /\ \A t \in Threads, i \in Slots :
       cache[t][i].local # 0 => descr[cache[t][i].local] = cache[t][i].key
  /\ \A k \in DOMAIN pools : \A i \in DOMAIN pools[k] : descr[pools[k][i]] = k

\* A thread caches a pool in one slot, so the first slot found is the one that
\* may hold the local uuid.
CachedOnce == \A t \in Threads : \A k \in DOMAIN pools : Cardinality(CachedAt(t, k)) <= 1

\* The counter bounds the number of pools although the keys live in different
\* shards and are inserted after they are counted.
PoolsBounded ==
  /\ keyCount = Cardinality(DOMAIN pools) + Cardinality({t \in Threads : pc[t] = "insert"})
  /\ keyCount <= MaxKeys

\* The begin and end of s bound an interval before that of r.
Before(s, r) == ended[s] # 0 /\ ended[s] <= began[r]

Unended == {s \in Spans : status[s] = "closed" /\ ended[s] = 0}

\* The slices on a track are disjoint in time, whichever threads begin and end
\* them, but for spans whose end was skipped.
SlicesApart ==
  \A s, r \in Spans \ Unended :
    s # r /\ onTrack[s] # 0 /\ onTrack[s] = onTrack[r] => Before(s, r) \/ Before(r, s)

\* README: the layer "preserves complete span lifetimes when spans move between
\* threads or close on a different thread", and SpanTracks "gives every span its
\* own lifetime track": while nothing has failed, no slice begins inside the
\* slice of another span on the same track.
OwnLifetimeTrack ==
  \A s, r \in Spans :
    s # r /\ onTrack[s] # 0 /\ onTrack[s] = onTrack[r] /\ ~hasError
      => Before(s, r) \/ Before(r, s)
===============================================================================
