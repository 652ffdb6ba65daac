----------------------------- MODULE Tracks_proofs -----------------------------
(***************************************************************************)
(* Proofs about Tracks for any number of threads, spans, names, cache      *)
(* slots, pooled uuids and reusable keys, and a writer that may fail: a    *)
(* track has one owner and is never forgotten, it is where its descriptor  *)
(* says, and slices on one track do not overlap.                           *)
(***************************************************************************)
EXTENDS Tracks, SequenceTheorems, SetLemmas

Opening == {"lookup", "reserve", "insert", "pop", "evict", "open", "user"}
Closing == {"end", "release"}
Resting == {"idle", "exit", "gone"}

\* What the callback of t carries at each of its steps.  Between the pool map and
\* the release a pooled key has its pool.
Carries(t) ==
  /\ pc[t] \in Resting => work[t] = Idle
  /\ pc[t] \in Opening =>
       work[t].span \in Spans /\ status[work[t].span] = "opening" /\ work[t].key \in Key
  /\ pc[t] \in Closing =>
       work[t].span \in Spans /\ status[work[t].span] = "closing" /\ work[t].uuid # 0
  /\ pc[t] \in {"lookup", "reserve", "insert", "pop"} => work[t].uuid = 0
  /\ pc[t] = "user" => work[t].uuid # 0
  /\ pc[t] \in {"lookup", "reserve", "insert", "pop", "evict"} => work[t].pooled
  /\ work[t].pooled /\ pc[t] \in {"pop", "evict", "open", "user", "end", "release"}
       => work[t].key \in DOMAIN pools
  /\ pc[t] = "insert" => work[t].key \notin DOMAIN pools

\* A span is in one callback, and a key is inserted by one thread.
WorkInv ==
  /\ \A t \in Threads : Carries(t)
  /\ \A t, o \in Threads : pc[t] = "insert" /\ pc[o] = "insert" /\ work[t].key = work[o].key => t = o
  /\ \A t, o \in Threads : work[t].span # None /\ work[o].span = work[t].span => t = o

\* Only a live span has a track, and its parent is live as long as it is not closed.
SpanInv ==
  /\ \A s \in Spans : status[s] # "live" => data[s] = NoTrack
  /\ \A s \in Spans : data[s].uuid = 0 => data[s].pool = NoKey
  /\ \A s \in Spans : data[s].pool # NoKey => data[s].pool \in DOMAIN pools
  /\ \A s \in Spans : status[s] = "none" => parent[s] = None
  /\ \A s \in Spans : parent[s] # None =>
       IF status[s] = "closed" THEN status[parent[s]] \in {"live", "closing", "closed"}
                               ELSE status[parent[s]] = "live"

\* A thread caches a pool that exists, and in one slot.
CacheInv ==
  /\ \A t \in Threads, i \in Slots :
       IF cache[t][i].key = NoKey THEN cache[t][i].local = 0 ELSE cache[t][i].key \in DOMAIN pools
  /\ \A t \in Threads, i, j \in Slots :
       cache[t][i].key # NoKey /\ cache[t][j].key = cache[t][i].key => i = j
  /\ \A t \in Threads, i \in Slots : pc[t] = "evict" => cache[t][i].key # work[t].key

Inserting == {t \in Threads : pc[t] = "insert"}

\* The keys counted are those in the map and those about to be inserted.
CountInv ==
  /\ IsFiniteSet(DOMAIN pools) /\ IsFiniteSet(Inserting)
  /\ PoolsBounded

InPool(u)  == \E k \in DOMAIN pools : \E i \in DOMAIN pools[k] : pools[k][i] = u
Shelved(u) == InPool(u) \/ u \in lost

\* Uuid u is with a span, in a callback, in a cache slot, in a pool or lost.
Somewhere(u) ==
  \/ \E s \in Spans : data[s].uuid = u
  \/ \E t \in Threads : work[t].uuid = u
  \/ \E t \in Threads, i \in Slots : cache[t][i].local = u
  \/ Shelved(u)

\* The places of uuids are apart, and every uuid given out is in one of them.
PoolsApart ==
  /\ \A k, l \in DOMAIN pools : \A i \in DOMAIN pools[k], j \in DOMAIN pools[l] :
       pools[k][i] = pools[l][j] => k = l /\ i = j
  /\ \A u \in lost : ~InPool(u)

PlacesApart ==
  /\ \A s, r \in Spans : data[s].uuid # 0 /\ data[r].uuid = data[s].uuid => s = r
  /\ \A t, o \in Threads : work[t].uuid # 0 /\ work[o].uuid = work[t].uuid => t = o
  /\ \A t, o \in Threads, i, j \in Slots :
       cache[t][i].local # 0 /\ cache[o][j].local = cache[t][i].local => t = o /\ i = j
  /\ \A s \in Spans, t \in Threads : data[s].uuid # 0 => work[t].uuid # data[s].uuid
  /\ \A s \in Spans, t \in Threads, i \in Slots : data[s].uuid # 0 => cache[t][i].local # data[s].uuid
  /\ \A t, o \in Threads, i \in Slots : work[t].uuid # 0 => cache[o][i].local # work[t].uuid
  /\ \A u \in Nat \ {0} : Shelved(u) =>
       /\ \A s \in Spans : data[s].uuid # u
       /\ \A t \in Threads : work[t].uuid # u
       /\ \A t \in Threads, i \in Slots : cache[t][i].local # u

Everywhere == \A u \in Nat \ {0} : Somewhere(u) <=> u \in Uuids

OwnInv == PoolsApart /\ PlacesApart /\ Everywhere

\* The track of the parent of s.
Above(s) == IF parent[s] = None THEN 0 ELSE onTrack[parent[s]]

\* The trace and the state agree: where a track is, and what it is for, is what its
\* descriptor says, and a span's slice is on the track the span has.
FitInv ==
  /\ Len(descr) = nextUuid - 1
  /\ \A t \in Threads : work[t].uuid # 0 /\ work[t].key # NoKey => descr[work[t].uuid] = work[t].key
  /\ \A s \in Spans : data[s].pool # NoKey => descr[data[s].uuid] = data[s].pool
  /\ \A t \in Threads, i \in Slots :
       cache[t][i].local # 0 => descr[cache[t][i].local] = cache[t][i].key
  /\ \A k \in DOMAIN pools : \A i \in DOMAIN pools[k] : descr[pools[k][i]] = k
  /\ \A t \in Threads : pc[t] \in Opening => work[t].key.parent = Above(work[t].span)
  /\ \A s \in Spans : status[s] = "none" => onTrack[s] = 0
  /\ \A s \in Spans : status[s] = "live" => onTrack[s] = data[s].uuid
  /\ \A t \in Threads : pc[t] \in Opening \ {"user"} => onTrack[work[t].span] = 0
  /\ \A t \in Threads : pc[t] \in {"user"} \cup Closing => onTrack[work[t].span] = work[t].uuid
  /\ \A s \in Spans : onTrack[s] # 0 =>
       onTrack[s] \in Uuids /\ descr[onTrack[s]].parent = Above(s)

\* The span has its track and its slice is not ended.
Current(s) ==
  /\ ended[s] = 0
  /\ \/ data[s].uuid = onTrack[s]
     \/ \E t \in Threads : /\ pc[t] \in {"user", "end"}
                           /\ work[t].span = s /\ work[t].uuid = onTrack[s]

\* A slice is ended, or never will be, or its span still has the track.
SliceInv ==
  /\ \A s \in Spans : status[s] \in {"none", "opening", "live"} => ended[s] = 0
  /\ \A t \in Threads : pc[t] = "end" => ended[work[t].span] = 0
  /\ \A t \in Threads : pc[t] = "release" => ended[work[t].span] # 0
  /\ \A s \in Spans : ended[s] <= clock
  /\ \A s \in Spans : onTrack[s] # 0 => ended[s] # 0 \/ s \in Unended \/ Current(s)
  /\ SlicesApart

IInv == TypeOK /\ WorkInv /\ SpanInv /\ CacheInv /\ CountInv /\ OwnInv /\ FitInv /\ SliceInv

USE DEF Opening, Closing, Resting, Idle, NoTrack, pooling, caching, spans, trace

-----------------------------------------------------------------------------
(* Pools.                                                                   *)

\* No key is the mark of an empty slot.
LEMMA NoKeyIsNone == NoKey \notin Key
  BY TracksAssumption DEF NoKey, Key

\* A uuid given back is in its pool, or lost if that is full.
LEMMA PushFacts ==
  ASSUME TypeOK, NEW k \in DOMAIN pools, NEW u \in Nat \ {0}, PushTo(k, u)
  PROVE  /\ DOMAIN pools' = DOMAIN pools
         /\ \A l \in DOMAIN pools : pools'[l] \in Seq(Nat \ {0})
         /\ lost' \subseteq Nat \ {0}
         /\ \A l \in DOMAIN pools : \A i \in DOMAIN pools'[l] :
              \/ i \in DOMAIN pools[l] /\ pools'[l][i] = pools[l][i]
              \/ l = k /\ i = Len(pools[k]) + 1 /\ pools'[l][i] = u
         /\ \A l \in DOMAIN pools : \A i \in DOMAIN pools[l] :
              i \in DOMAIN pools'[l] /\ pools'[l][i] = pools[l][i]
         /\ \/ lost' = lost /\ \E i \in DOMAIN pools'[k] : pools'[k][i] = u
            \/ lost' = lost \cup {u} /\ pools' = pools
<1>1. pools[k] \in Seq(Nat \ {0})
  BY DEF TypeOK
<1>2. CASE Len(pools[k]) < PoolCap
  <2> DEFINE q == Append(pools[k], u)
  <2>1. /\ pools' = [pools EXCEPT ![k] = q] /\ lost' = lost
    BY <1>2 DEF PushTo
  <2>2. /\ q \in Seq(Nat \ {0}) /\ DOMAIN q = DOMAIN pools[k] \cup {Len(pools[k]) + 1}
        /\ q[Len(pools[k]) + 1] = u
        /\ \A i \in DOMAIN pools[k] : i # Len(pools[k]) + 1 /\ q[i] = pools[k][i]
    BY <1>1, AppendProperties
  <2> HIDE DEF q
  <2>3. /\ DOMAIN pools' = DOMAIN pools /\ pools'[k] = q
        /\ \A l \in DOMAIN pools \ {k} : pools'[l] = pools[l]
    BY <2>1
  <2> QED BY <2>1, <2>2, <2>3 DEF TypeOK
<1>3. CASE ~(Len(pools[k]) < PoolCap)
  BY <1>1, <1>3 DEF PushTo, TypeOK
<1> QED BY <1>2, <1>3

\* The first uuid leaves the queue and the others move up.
LEMMA PopFacts ==
  ASSUME TypeOK, NEW k \in DOMAIN pools, pools[k] # <<>>,
         pools' = [pools EXCEPT ![k] = Tail(@)]
  PROVE  /\ DOMAIN pools' = DOMAIN pools
         /\ \A l \in DOMAIN pools : pools'[l] \in Seq(Nat \ {0})
         /\ Head(pools[k]) \in Nat \ {0}
         /\ 1 \in DOMAIN pools[k] /\ pools[k][1] = Head(pools[k])
         /\ \A l \in DOMAIN pools \ {k} : pools'[l] = pools[l]
         /\ \A i \in DOMAIN pools'[k] : i + 1 \in DOMAIN pools[k] /\ pools'[k][i] = pools[k][i + 1]
         /\ \A i \in DOMAIN pools[k] \ {1} :
              i - 1 \in DOMAIN pools'[k] /\ pools'[k][i - 1] = pools[k][i]
<1>1. pools[k] \in Seq(Nat \ {0})
  BY DEF TypeOK
<1>2. /\ Head(pools[k]) \in Nat \ {0} /\ 1 \in DOMAIN pools[k] /\ pools[k][1] = Head(pools[k])
      /\ Tail(pools[k]) \in Seq(Nat \ {0})
      /\ Len(Tail(pools[k])) = Len(pools[k]) - 1 /\ Len(pools[k]) \in Nat \ {0}
      /\ \A i \in 1 .. Len(Tail(pools[k])) : Tail(pools[k])[i] = pools[k][i + 1]
  BY <1>1, HeadTailProperties, ElementOfSeq, LenProperties, EmptySeq
<1>3. /\ DOMAIN pools' = DOMAIN pools /\ pools'[k] = Tail(pools[k])
      /\ \A l \in DOMAIN pools \ {k} : pools'[l] = pools[l]
  OBVIOUS
<1>4. DOMAIN pools[k] = 1 .. Len(pools[k]) /\ DOMAIN pools'[k] = 1 .. Len(pools[k]) - 1
  BY <1>1, <1>2, <1>3, LenProperties
<1>5. \A l \in DOMAIN pools : pools'[l] \in Seq(Nat \ {0})
  BY <1>2, <1>3 DEF TypeOK
<1>6. \A i \in DOMAIN pools'[k] : i + 1 \in DOMAIN pools[k] /\ pools'[k][i] = pools[k][i + 1]
  BY <1>2, <1>3, <1>4
<1>7. ASSUME NEW i \in DOMAIN pools[k] \ {1}
      PROVE  i - 1 \in DOMAIN pools'[k] /\ pools'[k][i - 1] = pools[k][i]
  <2>1. i \in Nat /\ i - 1 \in DOMAIN pools'[k] /\ (i - 1) + 1 = i
    BY <1>2, <1>4
  <2> QED BY <1>6, <2>1
<1> QED BY <1>2, <1>3, <1>5, <1>6, <1>7

-----------------------------------------------------------------------------
(* Types.                                                                   *)

Labelled == [span : Spans \cup {None}, key : Key \cup {NoKey}, uuid : Nat, pooled : BOOLEAN]

\* The slot found for a key caches it.
LEMMA SlotOfFacts ==
  ASSUME NEW t \in Threads, NEW k, CachedAt(t, k) # {}
  PROVE  SlotOf(t, k) \in Slots /\ cache[t][SlotOf(t, k)].key = k /\ k # NoKey
<1>1. CachedAt(t, k) \in SUBSET Nat
  BY TracksAssumption DEF CachedAt, Slots
<1>2. \E i \in CachedAt(t, k) : \A j \in CachedAt(t, k) : i <= j
  BY <1>1, Least
<1>3. SlotOf(t, k) \in CachedAt(t, k)
  BY <1>2 DEF SlotOf
<1> QED BY <1>3 DEF CachedAt, SameKey

SetSlot(t, i, e) == cache' = [cache EXCEPT ![t][i] = e]

\* A slot of t that changes.
LEMMA SlotChange ==
  ASSUME TypeOK, NEW t \in Threads, NEW i \in Slots,
         NEW e \in [key : Key \cup {NoKey}, local : Nat],
         SetSlot(t, i, e)
  PROVE  /\ cache' \in [Threads -> [Slots -> [key : Key \cup {NoKey}, local : Nat]]]
         /\ cache'[t][i] = e
         /\ \A o \in Threads, j \in Slots : ~(o = t /\ j = i) => cache'[o][j] = cache[o][j]
  BY DEF TypeOK, SetSlot

SetLocal(t, i, u) == cache' = [cache EXCEPT ![t][i].local = u]

\* A slot of t whose uuid changes.
LEMMA LocalChange ==
  ASSUME TypeOK, NEW t \in Threads, NEW i \in Slots, NEW u \in Nat, SetLocal(t, i, u)
  PROVE  /\ cache' \in [Threads -> [Slots -> [key : Key \cup {NoKey}, local : Nat]]]
         /\ cache'[t][i] = [key |-> cache[t][i].key, local |-> u]
         /\ \A o \in Threads, j \in Slots : ~(o = t /\ j = i) => cache'[o][j] = cache[o][j]
<1> DEFINE e == [cache[t][i] EXCEPT !.local = u]
<1>1. cache[t][i] \in [key : Key \cup {NoKey}, local : Nat]
  BY DEF TypeOK
<1>2. e = [key |-> cache[t][i].key, local |-> u] /\ e \in [key : Key \cup {NoKey}, local : Nat]
  BY <1>1
<1>3. SetSlot(t, i, e)
  BY DEF SetSlot, SetLocal
<1> HIDE DEF e
<1> QED BY <1>2, <1>3, SlotChange

\* What is left of a slot's uuid is in its pool or lost.
LEMMA ReturnType ==
  ASSUME IInv, NEW t \in Threads, NEW i \in Slots, ReturnSlot(t, i)
  PROVE  /\ DOMAIN pools' = DOMAIN pools
         /\ \A l \in DOMAIN pools : pools'[l] \in Seq(Nat \ {0})
         /\ lost' \subseteq Nat \ {0}
<1>1. CASE cache[t][i].local # 0
  <2>1. cache[t][i].key \in DOMAIN pools /\ cache[t][i].local \in Nat \ {0}
    BY <1>1 DEF IInv, TypeOK, CacheInv
  <2> QED BY <1>1, <2>1, PushFacts DEF ReturnSlot, IInv
<1>2. CASE cache[t][i].local = 0
  BY <1>2 DEF ReturnSlot, IInv, TypeOK
<1> QED BY <1>1, <1>2

\* A step that changes at most where threads are, what they carry and spans' status.
LEMMA ReplaceType ==
  ASSUME IInv, NEW t \in Threads, NEW k \in Key, NEW u \in Nat, ReplaceSlot(t, k, u)
  PROVE  /\ DOMAIN pools' = DOMAIN pools
         /\ \A l \in DOMAIN pools : pools'[l] \in Seq(Nat \ {0})
         /\ lost' \subseteq Nat \ {0}
         /\ cache' \in [Threads -> [Slots -> [key : Key \cup {NoKey}, local : Nat]]]
         /\ nextSlot' \in [Threads -> Slots]
         /\ nextSlot[t] \in Slots /\ ReturnSlot(t, nextSlot[t])
         /\ cache'[t][nextSlot[t]] = [key |-> k, local |-> u]
         /\ \A o \in Threads, j \in Slots :
              ~(o = t /\ j = nextSlot[t]) => cache'[o][j] = cache[o][j]
<1>1. nextSlot[t] \in Slots /\ ReturnSlot(t, nextSlot[t])
  BY DEF IInv, TypeOK, ReplaceSlot
<1>2. /\ SetSlot(t, nextSlot[t], [key |-> k, local |-> u])
      /\ [key |-> k, local |-> u] \in [key : Key \cup {NoKey}, local : Nat]
  BY DEF ReplaceSlot, SetSlot
<1>3. nextSlot' \in [Threads -> Slots]
  <2>1. (nextSlot[t] % NumSlots) + 1 \in Slots
    BY <1>1, TracksAssumption DEF Slots
  <2> QED BY <2>1 DEF IInv, TypeOK, ReplaceSlot
<1> QED BY <1>1, <1>2, <1>3, ReturnType, SlotChange DEF IInv

LEMMA InitType == Init => TypeOK
<1> SUFFICES ASSUME Init PROVE TypeOK
  OBVIOUS
<1>1. pools = [k \in {} |-> <<>>] /\ descr = <<>>
  BY DEF Init
<1>2. DOMAIN pools \subseteq Key /\ \A k \in DOMAIN pools : pools[k] \in Seq(Nat \ {0})
  BY <1>1
<1>3. descr \in Seq(Key)
  BY <1>1, EmptySeq
<1>4. nextSlot \in [Threads -> Slots]
  BY TracksAssumption DEF Init, Slots
<1>5. /\ keyCount \in Nat /\ nextUuid \in Nat \ {0}
      /\ clock \in Nat \ {0} /\ lost \subseteq Nat \ {0}
      /\ pc \in [Threads -> Labels] /\ parent \in [Spans -> Spans \cup {None}]
      /\ status \in [Spans -> {"none", "opening", "live", "closing", "closed"}]
      /\ onTrack \in [Spans -> Nat] /\ began \in [Spans -> Nat] /\ ended \in [Spans -> Nat]
  BY DEF Init, Labels
<1>6. /\ cache \in [Threads -> [Slots -> [key : Key \cup {NoKey}, local : Nat]]]
      /\ data \in [Spans -> [pool : Key \cup {NoKey}, uuid : Nat]]
      /\ work \in [Threads -> [span : Spans \cup {None}, key : Key \cup {NoKey},
                               uuid : Nat, pooled : BOOLEAN]]
  BY DEF Init
<1>7. hasError \in BOOLEAN
  BY DEF Init
<1> QED BY <1>2, <1>3, <1>4, <1>5, <1>6, <1>7 DEF TypeOK

LEMMA KeyOfType ==
  ASSUME TypeOK, NEW n \in Names, NEW p \in Spans \cup {None}
  PROVE  KeyOf(n, p) \in Key
  BY DEF TypeOK, KeyOf, Key

\* on_new_span with a context.
LEMMA NewSpanType ==
  ASSUME IInv, NEW t \in Threads, NEW s \in Spans, NEW n \in Names,
         NEW p \in Spans \cup {None}, NewSpan(t, s, n, p)
  PROVE  TypeOK'
<1> DEFINE k == KeyOf(n, p)
           i == SlotOf(t, k)
<1>1. k \in Key
  BY KeyOfType DEF IInv
<1>2. /\ status' \in [Spans -> {"none", "opening", "live", "closing", "closed"}]
      /\ parent' \in [Spans -> Spans \cup {None}]
  BY DEF IInv, TypeOK, NewSpan
<1>3. /\ work' \in [Threads -> Labelled] /\ pc' \in [Threads -> Labels]
      /\ cache' \in [Threads -> [Slots -> [key : Key \cup {NoKey}, local : Nat]]]
  <2>1. CASE CachedAt(t, k) = {}
    <3>1. /\ work' = [work EXCEPT ![t] = [span |-> s, key |-> k, uuid |-> 0, pooled |-> TRUE]]
          /\ pc' = [pc EXCEPT ![t] = "lookup"] /\ cache' = cache
      BY <2>1 DEF NewSpan, Goto
    <3> QED BY <1>1, <3>1 DEF IInv, TypeOK, Labelled, Labels
  <2>2. CASE CachedAt(t, k) # {}
    <3>1. i \in Slots /\ cache[t][i].key = k
      BY <2>2, SlotOfFacts
    <3>2. cache[t][i].local \in Nat
      BY <3>1 DEF IInv, TypeOK
    <3>3. /\ work' = [work EXCEPT ![t] = [span |-> s, key |-> cache[t][i].key,
                                           uuid |-> cache[t][i].local, pooled |-> TRUE]]
          /\ \/ pc' = [pc EXCEPT ![t] = "open"] /\ TakeLocal(t, i)
             \/ pc' = [pc EXCEPT ![t] = "pop"] /\ cache' = cache
      BY <2>2 DEF NewSpan, Goto
    <3> HIDE DEF i
    <3>4. work' \in [Threads -> Labelled]
      BY <1>1, <3>1, <3>2, <3>3 DEF IInv, TypeOK, Labelled
    <3>5. cache' \in [Threads -> [Slots -> [key : Key \cup {NoKey}, local : Nat]]]
      BY <3>1, <3>3, LocalChange DEF IInv, TypeOK, TakeLocal, SetLocal
    <3>6. pc' \in [Threads -> Labels]
      BY <3>3 DEF IInv, TypeOK, Labels
    <3> QED BY <3>4, <3>5, <3>6
  <2> QED BY <2>1, <2>2
<1>4. UNCHANGED <<pools, keyCount, nextSlot, nextUuid, hasError, data, trace, lost>>
  BY DEF NewSpan
<1> QED BY <1>2, <1>3, <1>4 DEF IInv, TypeOK, Labelled

\* The steps between the pool map and the begin of the slice.
LEMMA ClaimType ==
  ASSUME IInv, NEW t \in Threads, Claim(t) \/ Create(t) \/ Begin(t) \/ Publish(t)
  PROVE  TypeOK'
<1>1. CASE Lookup(t)
  BY <1>1 DEF IInv, TypeOK, Lookup, Goto, Labels
<1>2. CASE Reserve(t)
  <2>1. pc' \in [Threads -> Labels] /\ keyCount' \in Nat /\ work' \in [Threads -> Labelled]
    <3> \E l \in {"pop", "insert", "open"} : pc' = [pc EXCEPT ![t] = l]
      BY <1>2 DEF Reserve, Goto
    <3> pc' \in [Threads -> Labels]
      BY DEF IInv, TypeOK, Labels
    <3> keyCount' \in Nat
      BY <1>2 DEF Reserve, IInv, TypeOK
    <3>1. CASE work' = work
      BY <3>1 DEF IInv, TypeOK, Labelled
    <3>2. CASE work' = [work EXCEPT ![t].pooled = FALSE]
      <4>1. work[t] \in Labelled
        BY DEF IInv, TypeOK, Labelled
      <4>2. [work[t] EXCEPT !.pooled = FALSE] \in Labelled
        BY <4>1 DEF Labelled
      <4>3. work' \in [Threads -> Labelled]
        BY <3>2, <4>2 DEF IInv, TypeOK, Labelled
      <4> QED BY <4>3
    <3> QED BY <1>2, <3>1, <3>2 DEF Reserve
  <2> QED BY <1>2, <2>1 DEF IInv, TypeOK, Reserve, Labelled
<1>3. CASE Insert(t)
  <2>1. work[t].key \in Key
    BY <1>3 DEF IInv, WorkInv, Carries, Insert
  <2>2. /\ DOMAIN pools' \subseteq Key
        /\ \A k \in DOMAIN pools' : pools'[k] \in Seq(Nat \ {0})
    BY <1>3, <2>1, EmptySeq DEF IInv, TypeOK, Insert
  <2> QED BY <1>3, <2>2 DEF IInv, TypeOK, Insert, Goto, Labels
<1>4. CASE Pop(t)
  <2> DEFINE k == work[t].key
  <2>1. k \in DOMAIN pools
    BY <1>4 DEF IInv, WorkInv, Carries, Pop
  <2>2. CASE pools[k] = <<>>
    BY <1>4, <2>2 DEF IInv, TypeOK, Pop, Goto, Labels
  <2>3. CASE pools[k] # <<>>
    <3>1. /\ work' = [work EXCEPT ![t].uuid = Head(pools[k])]
          /\ pools' = [pools EXCEPT ![k] = Tail(@)]
      BY <1>4, <2>3 DEF Pop
    <3>2. /\ DOMAIN pools' = DOMAIN pools
          /\ \A l \in DOMAIN pools : pools'[l] \in Seq(Nat \ {0})
          /\ Head(pools[k]) \in Nat \ {0}
      BY <2>1, <2>3, <3>1, PopFacts DEF IInv
    <3>3. work' \in [Threads -> Labelled]
      <4>1. work[t] \in Labelled
        BY DEF IInv, TypeOK, Labelled
      <4>2. [work[t] EXCEPT !.uuid = Head(pools[k])] \in Labelled
        BY <3>2, <4>1 DEF Labelled
      <4> QED BY <3>1, <4>2 DEF IInv, TypeOK, Labelled
    <3> QED BY <1>4, <3>2, <3>3 DEF IInv, TypeOK, Pop, Goto, Labels, Labelled
  <2> QED BY <2>2, <2>3
<1>5. CASE Evict(t)
  <2>1. work[t].key \in Key
    BY <1>5 DEF IInv, WorkInv, Carries, Evict
  <2>2. ReplaceSlot(t, work[t].key, 0)
    BY <1>5 DEF Evict
  <2>3. /\ DOMAIN pools' = DOMAIN pools
        /\ \A l \in DOMAIN pools : pools'[l] \in Seq(Nat \ {0})
        /\ lost' \subseteq Nat \ {0}
        /\ cache' \in [Threads -> [Slots -> [key : Key \cup {NoKey}, local : Nat]]]
        /\ nextSlot' \in [Threads -> Slots]
    BY <2>1, <2>2, ReplaceType
  <2> QED BY <1>5, <2>3 DEF IInv, TypeOK, Evict, Goto, Labels
<1>6. CASE Create(t)
  <2>1. work[t].key \in Key
    BY <1>6 DEF IInv, WorkInv, Carries, Create
  <2>2. work' \in [Threads -> Labelled]
    <3>1. work[t] \in Labelled
      BY DEF IInv, TypeOK, Labelled
    <3>2. [work[t] EXCEPT !.uuid = nextUuid] \in Labelled
      BY <3>1 DEF Labelled, IInv, TypeOK
    <3> QED BY <1>6, <3>2 DEF IInv, TypeOK, Create, Labelled
  <2>3. descr' \in Seq(Key) /\ nextUuid' \in Nat \ {0}
    BY <1>6, <2>1, AppendProperties DEF IInv, TypeOK, Create
  <2> QED BY <1>6, <2>2, <2>3 DEF IInv, TypeOK, Create, Labelled
<1>7. CASE Begin(t)
  <2>1. clock' \in Nat \ {0}
    BY <1>7 DEF IInv, TypeOK, Begin, ReadClock
  <2>2. /\ onTrack' \in [Spans -> Nat] /\ began' \in [Spans -> Nat]
        /\ pc' \in [Threads -> Labels]
    BY <1>7, <2>1 DEF IInv, TypeOK, Begin, Goto, Labels
  <2> QED BY <1>7, <2>1, <2>2 DEF IInv, TypeOK, Begin
<1>8. CASE Publish(t)
  <2>1. [pool |-> IF work[t].pooled THEN work[t].key ELSE NoKey, uuid |-> work[t].uuid]
          \in [pool : Key \cup {NoKey}, uuid : Nat]
    BY DEF IInv, TypeOK
  <2>2. /\ data' \in [Spans -> [pool : Key \cup {NoKey}, uuid : Nat]]
        /\ status' \in [Spans -> {"none", "opening", "live", "closing", "closed"}]
    BY <1>8, <2>1 DEF IInv, TypeOK, Publish
  <2>3. work' \in [Threads -> Labelled]
    BY <1>8 DEF IInv, TypeOK, Publish, Labelled
  <2> QED BY <1>8, <2>2, <2>3 DEF IInv, TypeOK, Publish, Goto, Labels, Labelled
<1> QED BY <1>1, <1>2, <1>3, <1>4, <1>5, <1>6, <1>7, <1>8 DEF Claim

\* on_close and the other steps.
LEMMA CloseType ==
  ASSUME IInv, NEW t \in Threads, NEW s \in Spans, Close(t, s) \/ CloseUnended(t, s)
  PROVE  TypeOK'
<1>1. CASE Close(t, s)
  <2>1. data[s] \in [pool : Key \cup {NoKey}, uuid : Nat]
    BY DEF IInv, TypeOK
  <2>2. data' \in [Spans -> [pool : Key \cup {NoKey}, uuid : Nat]]
    BY <1>1 DEF IInv, TypeOK, Close
  <2>3. CASE data[s].uuid # 0
    <3> DEFINE w == [span |-> s, key |-> data[s].pool, uuid |-> data[s].uuid,
                     pooled |-> data[s].pool # NoKey]
    <3>1. work' \in [Threads -> Labelled]
      <4>1. (data[s].pool # NoKey) \in BOOLEAN
        OBVIOUS
      <4>2. w \in Labelled
        BY <2>1, <4>1 DEF Labelled
      <4>3. work' = [work EXCEPT ![t] = w]
        BY <1>1, <2>3 DEF Close
      <4> HIDE DEF w
      <4> QED BY <4>2, <4>3 DEF IInv, TypeOK, Labelled
    <3> QED BY <1>1, <2>2, <2>3, <3>1 DEF IInv, TypeOK, Close, Goto, Labels, Labelled
  <2>4. CASE data[s].uuid = 0
    BY <1>1, <2>2, <2>4 DEF IInv, TypeOK, Close
  <2> QED BY <2>3, <2>4
<1>2. CASE CloseUnended(t, s)
  <2>1. data[s] \in [pool : Key \cup {NoKey}, uuid : Nat]
    BY DEF IInv, TypeOK
  <2>2. /\ data' \in [Spans -> [pool : Key \cup {NoKey}, uuid : Nat]]
        /\ status' \in [Spans -> {"none", "opening", "live", "closing", "closed"}]
    BY <1>2 DEF IInv, TypeOK, CloseUnended
  <2>3. /\ DOMAIN pools' = DOMAIN pools
        /\ \A l \in DOMAIN pools : pools'[l] \in Seq(Nat \ {0})
        /\ lost' \subseteq Nat \ {0}
    <3>1. CASE data[s].pool # NoKey
      <4>1. PushTo(data[s].pool, data[s].uuid)
        BY <1>2, <3>1 DEF CloseUnended
      <4>2. data[s].pool \in DOMAIN pools /\ data[s].uuid \in Nat \ {0}
        BY <2>1, <3>1 DEF IInv, SpanInv
      <4> QED BY <4>1, <4>2, PushFacts DEF IInv
    <3>2. CASE data[s].pool = NoKey
      <4>1. pools' = pools /\ lost' = lost \cup ({data[s].uuid} \ {0})
        BY <1>2, <3>2 DEF CloseUnended
      <4> QED BY <2>1, <4>1 DEF IInv, TypeOK
    <3> QED BY <3>1, <3>2
  <2> QED BY <1>2, <2>2, <2>3 DEF IInv, TypeOK, CloseUnended
<1> QED BY <1>1, <1>2

LEMMA ReleaseType ==
  ASSUME IInv, NEW t \in Threads, Release(t)
  PROVE  TypeOK'
<1> DEFINE k == work[t].key
           u == work[t].uuid
<1>1. /\ work' \in [Threads -> Labelled] /\ pc' \in [Threads -> Labels]
      /\ status' \in [Spans -> {"none", "opening", "live", "closing", "closed"}]
  BY DEF IInv, TypeOK, Release, Goto, Labels, Labelled
<1>2. u \in Nat \ {0}
  BY DEF IInv, TypeOK, WorkInv, Carries, Release
<1>3. /\ DOMAIN pools' = DOMAIN pools
      /\ \A l \in DOMAIN pools : pools'[l] \in Seq(Nat \ {0})
      /\ lost' \subseteq Nat \ {0}
      /\ cache' \in [Threads -> [Slots -> [key : Key \cup {NoKey}, local : Nat]]]
      /\ nextSlot' \in [Threads -> Slots]
  <2>1. CASE ~work[t].pooled
    BY <1>2, <2>1 DEF Release, IInv, TypeOK
  <2>2. CASE work[t].pooled
    <3>1. ReleaseTrack(t, k, u) /\ k \in DOMAIN pools /\ k \in Key
      BY <2>2 DEF Release, IInv, WorkInv, Carries, TypeOK
    <3>2. CASE CachedAt(t, k) = {}
      BY <1>2, <3>1, <3>2, ReplaceType DEF ReleaseTrack
    <3>3. CASE CachedAt(t, k) # {}
      <4>1. PICK i \in Slots : i = SlotOf(t, k)
        BY <3>3, SlotOfFacts
      <4>2. nextSlot' = nextSlot
        BY <3>1, <3>3 DEF ReleaseTrack
      <4>3. CASE cache[t][i].local = 0
        <5>1. cache' = [cache EXCEPT ![t][i].local = u] /\ UNCHANGED <<pools, lost>>
          BY <3>1, <3>3, <4>1, <4>3 DEF ReleaseTrack
        <5>2. cache' \in [Threads -> [Slots -> [key : Key \cup {NoKey}, local : Nat]]]
          BY <1>2, <5>1, LocalChange DEF IInv, SetLocal
        <5> QED BY <4>2, <5>1, <5>2 DEF IInv, TypeOK
      <4>4. CASE cache[t][i].local # 0
        <5>1. PushTo(k, u) /\ cache' = cache
          BY <3>1, <3>3, <4>1, <4>4 DEF ReleaseTrack
        <5> QED BY <1>2, <3>1, <4>2, <5>1, PushFacts DEF IInv, TypeOK
      <4> QED BY <4>3, <4>4
    <3> QED BY <3>2, <3>3
  <2> QED BY <2>1, <2>2
<1>4. UNCHANGED <<keyCount, nextUuid, hasError, parent, data, trace>>
  BY DEF Release
<1> QED BY <1>1, <1>3, <1>4 DEF IInv, TypeOK, Labelled

LEMMA DropType ==
  ASSUME IInv, NEW t \in Threads, DropSlot(t)
  PROVE  TypeOK'
<1>1. ASSUME NEW i \in Held(t), ReturnSlot(t, i), TakeLocal(t, i) PROVE TypeOK'
  <2>1. i \in Slots
    BY DEF Held
  <2>2. cache' \in [Threads -> [Slots -> [key : Key \cup {NoKey}, local : Nat]]]
    BY <1>1, <2>1, LocalChange DEF IInv, TakeLocal, SetLocal
  <2>3. pc' \in [Threads -> Labels]
    BY DEF DropSlot, Goto, IInv, TypeOK, Labels
  <2> QED BY <1>1, <2>1, <2>2, <2>3, ReturnType DEF DropSlot, IInv, TypeOK
<1>2. CASE Held(t) = {} /\ Goto(t, "gone") /\ UNCHANGED <<pools, cache, lost>>
  BY <1>2 DEF DropSlot, Goto, IInv, TypeOK, Labels
<1> QED BY <1>1, <1>2 DEF DropSlot

LEMMA NextType == IInv /\ [Next]_vars => TypeOK'
<1> SUFFICES ASSUME IInv, [Next]_vars PROVE TypeOK'
  OBVIOUS
<1>1. ASSUME NEW t \in Threads, NEW s \in Spans, NEW p \in Spans \cup {None}, NEW n \in Names,
             NewSpan(t, s, n, p)
      PROVE  TypeOK'
  BY <1>1, NewSpanType
<1>2. ASSUME NEW t \in Threads, NEW s \in Spans, NEW p \in Spans \cup {None}, NewUntracked(t, s, p)
      PROVE  TypeOK'
  BY <1>2 DEF IInv, TypeOK, NewUntracked
<1>3. ASSUME NEW t \in Threads, NEW s \in Spans, Close(t, s) \/ CloseUnended(t, s) PROVE TypeOK'
  BY <1>3, CloseType
<1>4. ASSUME NEW t \in Threads, Claim(t) \/ Create(t) \/ Begin(t) \/ Publish(t) PROVE TypeOK'
  BY <1>4, ClaimType
<1>5. ASSUME NEW t \in Threads, End(t) PROVE TypeOK'
  <2>1. clock' \in Nat \ {0}
    BY <1>5 DEF IInv, TypeOK, End, ReadClock
  <2>2. ended' \in [Spans -> Nat] /\ pc' \in [Threads -> Labels]
    BY <1>5, <2>1 DEF IInv, TypeOK, End, Goto, Labels
  <2> QED BY <1>5, <2>1, <2>2 DEF IInv, TypeOK, End
<1>6. ASSUME NEW t \in Threads, Release(t) PROVE TypeOK'
  BY <1>6, ReleaseType
<1>7. ASSUME NEW t \in Threads, ThreadExit(t) PROVE TypeOK'
  BY <1>7 DEF IInv, TypeOK, ThreadExit, Goto, Labels
<1>8. ASSUME NEW t \in Threads, DropSlot(t) PROVE TypeOK'
  BY <1>8, DropType
<1>9. CASE WriterFails
  BY <1>9 DEF IInv, TypeOK, WriterFails
<1>10. CASE UNCHANGED vars
  BY <1>10 DEF IInv, TypeOK, vars
<1> QED BY <1>1, <1>2, <1>3, <1>4, <1>5, <1>6, <1>7, <1>8, <1>9, <1>10 DEF Next, Done

-----------------------------------------------------------------------------
(* What a step leaves alone.                                                *)

\* A step of t changes nothing of the other threads' callbacks.
Alone(t) == \A o \in Threads \ {t} : pc'[o] = pc[o] /\ work'[o] = work[o]

\* The others carry what they carried while the pool map keeps its keys.
LEMMA WorkStep ==
  ASSUME IInv, NEW t \in Threads, Alone(t), DOMAIN pools' = DOMAIN pools, Carries(t)',
         \A o \in Threads \ {t} :
           work[o].span # None => status'[work[o].span] = status[work[o].span],
         pc'[t] = "insert" => pc[t] = "insert" /\ work'[t].key = work[t].key,
         work'[t].span # None =>
           \/ work'[t].span = work[t].span
           \/ \A o \in Threads \ {t} : work[o].span # work'[t].span
  PROVE  WorkInv'
<1>1. ASSUME NEW o \in Threads \ {t} PROVE Carries(o)'
  <2>1. Carries(o) /\ pc'[o] = pc[o] /\ work'[o] = work[o]
    BY DEF IInv, WorkInv, Alone
  <2>2. pc[o] \in Opening \cup Closing => status'[work[o].span] = status[work[o].span]
    BY <2>1, TracksAssumption DEF Carries
  <2> QED BY <2>1, <2>2 DEF Carries
<1>2. \A o, q \in Threads :
        pc'[o] = "insert" /\ pc'[q] = "insert" /\ work'[o].key = work'[q].key => o = q
  BY DEF IInv, WorkInv, Alone
<1>3. \A o, q \in Threads :
        work'[o].span # None /\ work'[q].span = work'[o].span => o = q
  BY DEF IInv, WorkInv, Alone
<1> QED BY <1>1, <1>2, <1>3 DEF WorkInv

LEMMA CountSame ==
  ASSUME IInv, NEW t \in Threads, Alone(t), DOMAIN pools' = DOMAIN pools, keyCount' = keyCount,
         pc[t] = "insert" <=> pc'[t] = "insert"
  PROVE  CountInv'
<1>1. Inserting' = Inserting
  BY DEF Alone, Inserting
<1> QED BY <1>1 DEF IInv, CountInv, PoolsBounded, Inserting

LEMMA CacheSame ==
  ASSUME IInv, NEW t \in Threads, Alone(t), DOMAIN pools \subseteq DOMAIN pools', cache' = cache,
         pc'[t] # "evict"
  PROVE  CacheInv'
  BY DEF IInv, CacheInv, Alone

LEMMA SpanSame ==
  ASSUME IInv, DOMAIN pools \subseteq DOMAIN pools', UNCHANGED spans
  PROVE  SpanInv'
  BY DEF IInv, SpanInv

\* Every uuid stays where it is.
LEMMA OwnSame ==
  ASSUME IInv, UNCHANGED <<nextUuid, lost>>,
         \A s \in Spans : data'[s].uuid = data[s].uuid,
         \A o \in Threads : work'[o].uuid = work[o].uuid,
         \A o \in Threads, i \in Slots : cache'[o][i].local = cache[o][i].local,
         \A k \in DOMAIN pools : k \in DOMAIN pools' /\ pools'[k] = pools[k],
         \A k \in DOMAIN pools' : k \notin DOMAIN pools => pools'[k] = <<>>
  PROVE  OwnInv'
<1>1. \A k \in DOMAIN pools' : \A i \in DOMAIN pools'[k] : k \in DOMAIN pools /\ i \in DOMAIN pools[k]
  OBVIOUS
<1>2. \A u : InPool(u)' <=> InPool(u)
  BY <1>1 DEF InPool
<1>3. \A u : Shelved(u)' <=> Shelved(u)
  BY <1>2 DEF Shelved
<1>4. PoolsApart'
  BY <1>1, <1>2 DEF IInv, OwnInv, PoolsApart
<1>5. PlacesApart'
  BY <1>3 DEF IInv, OwnInv, PlacesApart
<1>6. \A u : Somewhere(u)' <=> Somewhere(u)
  BY <1>3 DEF Somewhere
<1>7. Everywhere'
  BY <1>6 DEF IInv, OwnInv, Everywhere, Uuids
<1> QED BY <1>4, <1>5, <1>7 DEF OwnInv

\* A span without a track on the trace that has one in no callback stays so.
LEMMA FitSame ==
  ASSUME IInv, NEW t \in Threads, Alone(t),
         UNCHANGED <<descr, nextUuid, onTrack, data, status, parent, cache>>,
         \A k \in DOMAIN pools' : \A i \in DOMAIN pools'[k] :
           k \in DOMAIN pools /\ i \in DOMAIN pools[k] /\ pools'[k][i] = pools[k][i],
         work'[t].span = work[t].span, work'[t].key = work[t].key, work'[t].uuid = work[t].uuid,
         \/ pc[t] \in Opening \ {"user"} /\ pc'[t] \in Opening \ {"user"}
         \/ pc[t] \in Closing /\ pc'[t] \in Closing
         \/ pc[t] \in Resting /\ pc'[t] \in Resting
  PROVE  FitInv'
<1>1. \A o \in Threads :
        /\ work'[o].span = work[o].span /\ work'[o].key = work[o].key
        /\ work'[o].uuid = work[o].uuid
        /\ pc'[o] \in Opening <=> pc[o] \in Opening
        /\ pc'[o] \in Opening \ {"user"} <=> pc[o] \in Opening \ {"user"}
        /\ pc'[o] \in {"user"} \cup Closing <=> pc[o] \in {"user"} \cup Closing
  BY DEF Alone
<1>2. \A s : Above(s)' = Above(s)
  BY DEF Above
<1>3. \A k \in DOMAIN pools' : \A i \in DOMAIN pools'[k] : descr'[pools'[k][i]] = k
  BY DEF IInv, FitInv
<1> QED BY <1>1, <1>2, <1>3 DEF IInv, FitInv, Uuids

\* The slices on the trace stay, and so does who has their tracks.
LEMMA SliceSame ==
  ASSUME IInv, NEW t \in Threads, Alone(t),
         UNCHANGED <<onTrack, began, ended, clock, data, status>>,
         work'[t].span = work[t].span, work'[t].uuid = work[t].uuid,
         pc'[t] = "end" => pc[t] = "end", pc'[t] = "release" => pc[t] = "release",
         pc[t] \in {"user", "end"} => pc'[t] \in {"user", "end"}
  PROVE  SliceInv'
<1>1. \A s \in Spans : Current(s) => Current(s)'
  BY DEF Current, Alone
<1>2. Unended' = Unended
  BY DEF Unended
<1>3. SlicesApart'
  BY <1>2 DEF IInv, SliceInv, SlicesApart, Before
<1> QED BY <1>1, <1>2, <1>3 DEF IInv, SliceInv, Alone

-----------------------------------------------------------------------------
(* The steps that move no uuid.                                             *)

LEMMA LookupKeeps ==
  ASSUME IInv, TypeOK', NEW t \in Threads, Lookup(t)
  PROVE  IInv'
<1>1. /\ pc[t] = "lookup" /\ pc'[t] \in {"pop", "reserve"} /\ work' = work /\ Alone(t)
      /\ pc'[t] = "pop" => work[t].key \in DOMAIN pools
      /\ UNCHANGED <<pools, keyCount, cache, nextUuid, spans, trace, lost>>
  BY DEF Lookup, Goto, IInv, TypeOK, Alone
<1>2. Carries(t)'
  BY <1>1 DEF IInv, WorkInv, Carries
<1>3. WorkInv' /\ SpanInv' /\ CacheInv' /\ CountInv' /\ OwnInv'
  BY <1>1, <1>2, WorkStep, SpanSame, CacheSame, CountSame, OwnSame
<1>4. FitInv' /\ SliceInv'
  BY <1>1, FitSame, SliceSame
<1> QED BY <1>3, <1>4 DEF IInv

LEMMA ReserveKeeps ==
  ASSUME IInv, TypeOK', NEW t \in Threads, Reserve(t)
  PROVE  IInv'
<1>1. /\ pc[t] = "reserve" /\ work[t].key \in Key
      /\ \A o \in Threads : pc[o] = "insert" => work[o].key # work[t].key
      /\ UNCHANGED <<pools, cache, nextUuid, spans, trace, lost>>
      /\ Carries(t)
  BY DEF Reserve, IInv, WorkInv, Carries
<1>2. ASSUME work[t].key \in DOMAIN pools, Goto(t, "pop"), UNCHANGED <<keyCount, work>>
      PROVE  IInv'
  <2>1. pc'[t] = "pop" /\ work' = work /\ Alone(t)
    BY <1>2 DEF Goto, IInv, TypeOK, Alone
  <2>2. Carries(t)'
    BY <1>1, <1>2, <2>1 DEF Carries
  <2>3. WorkInv' /\ SpanInv' /\ CacheInv' /\ CountInv' /\ OwnInv'
    BY <1>1, <1>2, <2>1, <2>2, WorkStep, SpanSame, CacheSame, CountSame, OwnSame
  <2>4. FitInv' /\ SliceInv'
    BY <1>1, <2>1, FitSame, SliceSame
  <2> QED BY <2>3, <2>4 DEF IInv
<1>3. ASSUME work[t].key \notin DOMAIN pools, Room, keyCount' = keyCount + 1,
             Goto(t, "insert"), UNCHANGED work
      PROVE  IInv'
  <2>1. pc'[t] = "insert" /\ work' = work /\ Alone(t)
    BY <1>3 DEF Goto, IInv, TypeOK, Alone
  <2>2. Carries(t)'
    BY <1>1, <1>3, <2>1 DEF Carries
  <2>3. WorkInv'
    <3>1. ASSUME NEW o \in Threads \ {t} PROVE Carries(o)'
      <4>1. Carries(o) /\ pc'[o] = pc[o] /\ work'[o] = work[o]
        BY <2>1 DEF IInv, WorkInv, Alone
      <4> QED BY <1>1, <4>1 DEF Carries
    <3>2. \A o, q \in Threads :
            pc'[o] = "insert" /\ pc'[q] = "insert" /\ work'[o].key = work'[q].key => o = q
      BY <1>1, <2>1 DEF IInv, WorkInv, Alone
    <3> QED BY <2>1, <2>2, <3>1, <3>2 DEF WorkInv, IInv
  <2>4. CountInv'
    <3>1. t \notin Inserting /\ Inserting' = Inserting \cup {t}
      BY <1>1, <2>1 DEF Inserting, Alone
    <3>2. IsFiniteSet(Inserting) /\ Cardinality(Inserting) \in Nat
          /\ IsFiniteSet(DOMAIN pools) /\ Cardinality(DOMAIN pools) \in Nat
      BY FS_CardinalityType DEF IInv, CountInv
    <3>3. IsFiniteSet(Inserting') /\ Cardinality(Inserting') = Cardinality(Inserting) + 1
      BY <3>1, <3>2, FS_AddElement
    <3>4. keyCount = Cardinality(DOMAIN pools) + Cardinality(Inserting) /\ keyCount < MaxKeys
      BY <1>3 DEF IInv, CountInv, PoolsBounded, Inserting, Room
    <3>5. keyCount' <= MaxKeys /\ keyCount' = Cardinality(DOMAIN pools) + Cardinality(Inserting')
      BY <1>3, <3>2, <3>3, <3>4, TracksAssumption
    <3> QED BY <1>1, <3>2, <3>3, <3>5 DEF CountInv, PoolsBounded, Inserting
  <2>5. SpanInv' /\ CacheInv' /\ OwnInv'
    BY <1>1, <2>1, SpanSame, CacheSame, OwnSame
  <2>6. FitInv' /\ SliceInv'
    BY <1>1, <2>1, FitSame, SliceSame
  <2> QED BY <2>3, <2>4, <2>5, <2>6 DEF IInv
<1>4. ASSUME work' = [work EXCEPT ![t].pooled = FALSE], Goto(t, "open"), UNCHANGED keyCount
      PROVE  IInv'
  <2>1. /\ pc'[t] = "open" /\ Alone(t)
        /\ work'[t].span = work[t].span /\ work'[t].key = work[t].key
        /\ work'[t].uuid = work[t].uuid /\ work'[t].pooled = FALSE
    BY <1>4 DEF Goto, IInv, TypeOK, Alone
  <2>2. Carries(t)'
    BY <1>1, <2>1 DEF Carries
  <2>3. WorkInv' /\ SpanInv' /\ CacheInv' /\ CountInv'
    BY <1>1, <1>4, <2>1, <2>2, WorkStep, SpanSame, CacheSame, CountSame
  <2>4. OwnInv'
    <3>1. \A o \in Threads : work'[o].uuid = work[o].uuid
      BY <2>1 DEF Alone
    <3> QED BY <1>1, <3>1, OwnSame
  <2>5. FitInv' /\ SliceInv'
    BY <1>1, <2>1, FitSame, SliceSame
  <2> QED BY <2>3, <2>4, <2>5 DEF IInv
<1> QED BY <1>2, <1>3, <1>4 DEF Reserve

LEMMA InsertKeeps ==
  ASSUME IInv, TypeOK', NEW t \in Threads, Insert(t)
  PROVE  IInv'
<1>1. PICK k \in Key :
      /\ k = work[t].key /\ k \notin DOMAIN pools
      /\ pc[t] = "insert" /\ pc'[t] = "pop" /\ work' = work /\ Alone(t) /\ Carries(t)
      /\ DOMAIN pools' = DOMAIN pools \cup {k} /\ pools'[k] = <<>>
      /\ \A l \in DOMAIN pools : pools'[l] = pools[l]
      /\ UNCHANGED <<keyCount, cache, nextUuid, spans, trace, lost>>
  <2> DEFINE k == work[t].key
  <2>1. pc[t] = "insert" /\ Carries(t) /\ k \in Key /\ k \notin DOMAIN pools
    BY DEF Insert, IInv, WorkInv, Carries
  <2>2. pc'[t] = "pop" /\ work' = work /\ Alone(t)
    BY DEF Insert, Goto, IInv, TypeOK, Alone
  <2>3. /\ DOMAIN pools' = DOMAIN pools \cup {k} /\ pools'[k] = <<>>
        /\ \A l \in DOMAIN pools : pools'[l] = pools[l]
    BY <2>1 DEF Insert
  <2>4. UNCHANGED <<keyCount, cache, nextUuid, spans, trace, lost>>
    BY DEF Insert
  <2> QED BY <2>1, <2>2, <2>3, <2>4
<1>2. WorkInv'
  <2>1. ASSUME NEW o \in Threads \ {t} PROVE Carries(o)'
    <3>1. Carries(o) /\ pc'[o] = pc[o] /\ work'[o] = work[o]
      BY <1>1 DEF IInv, WorkInv, Alone
    <3>2. pc[o] = "insert" => work[o].key # k
      BY <1>1 DEF IInv, WorkInv
    <3> QED BY <1>1, <3>1, <3>2 DEF Carries
  <2>2. Carries(t)'
    BY <1>1 DEF Carries
  <2>3. \A o, q \in Threads :
          pc'[o] = "insert" /\ pc'[q] = "insert" /\ work'[o].key = work'[q].key => o = q
    BY <1>1 DEF IInv, WorkInv, Alone
  <2> QED BY <1>1, <2>1, <2>2, <2>3 DEF WorkInv, IInv
<1>3. CountInv'
  <2>1. t \in Inserting /\ Inserting' = Inserting \ {t}
    BY <1>1 DEF Inserting, Alone
  <2>2. IsFiniteSet(Inserting) /\ Cardinality(Inserting) \in Nat
        /\ IsFiniteSet(DOMAIN pools) /\ Cardinality(DOMAIN pools) \in Nat
    BY FS_CardinalityType DEF IInv, CountInv
  <2>3. IsFiniteSet(Inserting') /\ Cardinality(Inserting') = Cardinality(Inserting) - 1
    BY <2>1, <2>2, FS_RemoveElement
  <2>4. IsFiniteSet(DOMAIN pools') /\ Cardinality(DOMAIN pools') = Cardinality(DOMAIN pools) + 1
    <3>1. k \notin DOMAIN pools /\ DOMAIN pools' = DOMAIN pools \cup {k}
      BY <1>1
    <3> HIDE <1>1
    <3> QED BY <2>2, <3>1, FS_AddElement
  <2>5. keyCount = Cardinality(DOMAIN pools) + Cardinality(Inserting) /\ keyCount <= MaxKeys
    BY DEF IInv, CountInv, PoolsBounded, Inserting
  <2>6. keyCount' <= MaxKeys /\ keyCount' = Cardinality(DOMAIN pools') + Cardinality(Inserting')
    BY <1>1, <2>2, <2>3, <2>4, <2>5
  <2> QED BY <2>3, <2>4, <2>6 DEF CountInv, PoolsBounded, Inserting
<1>4. SpanInv' /\ CacheInv'
  BY <1>1, SpanSame, CacheSame
<1>5. OwnInv'
  BY <1>1, OwnSame
<1>6. FitInv' /\ SliceInv'
  BY <1>1, FitSame, SliceSame
<1> QED BY <1>2, <1>3, <1>4, <1>5, <1>6 DEF IInv

LEMMA ThreadExitKeeps ==
  ASSUME IInv, TypeOK', NEW t \in Threads, ThreadExit(t)
  PROVE  IInv'
<1>1. /\ pc[t] = "idle" /\ pc'[t] = "exit" /\ work' = work /\ Alone(t)
      /\ UNCHANGED <<pools, keyCount, cache, nextUuid, spans, trace, lost>>
  BY DEF ThreadExit, Goto, IInv, TypeOK, Alone
<1>2. Carries(t)'
  BY <1>1 DEF IInv, WorkInv, Carries
<1>3. WorkInv' /\ SpanInv' /\ CacheInv' /\ CountInv' /\ OwnInv'
  BY <1>1, <1>2, WorkStep, SpanSame, CacheSame, CountSame, OwnSame
<1>4. FitInv' /\ SliceInv'
  BY <1>1, FitSame, SliceSame
<1> QED BY <1>3, <1>4 DEF IInv

\* The error flag is nobody's business but the callbacks' guards.
LEMMA StutterKeeps ==
  ASSUME IInv, TypeOK', UNCHANGED <<pooling, caching, nextUuid, pc, work, spans, trace, lost>>
  PROVE  IInv'
<1>1. WorkInv' /\ SpanInv'
  BY DEF IInv, WorkInv, Carries, SpanInv
<1>2. OwnInv'
  BY OwnSame
<1>5. CacheInv' /\ CountInv'
  BY DEF IInv, CacheInv, CountInv, PoolsBounded, Inserting
<1>3. FitInv'
  BY DEF IInv, FitInv, Above, Uuids
<1>4. SliceInv'
  BY DEF IInv, SliceInv, Current, Unended, SlicesApart, Before
<1> QED BY <1>1, <1>2, <1>3, <1>4, <1>5 DEF IInv

\* No callback is at work on a span that is not opening or closing.
LEMMA NotCarried ==
  ASSUME IInv, NEW s \in Spans, status[s] \notin {"opening", "closing"}
  PROVE  \A o \in Threads : work[o].span # s
<1>1. \A o \in Threads : pc[o] \in Resting \cup Opening \cup Closing
  BY DEF IInv, TypeOK, Labels
<1> QED BY <1>1, TracksAssumption DEF IInv, WorkInv, Carries

\* A span is created under a live parent.
LEMMA Created ==
  ASSUME IInv, TypeOK', NEW s \in Spans, NEW p \in Spans \cup {None},
         status[s] = "none", status'[s] \in {"opening", "live"}, parent'[s] = p,
         MayHaveParent(p), UNCHANGED <<data, onTrack, ended>>, DOMAIN pools' = DOMAIN pools,
         \A r \in Spans \ {s} : status'[r] = status[r] /\ parent'[r] = parent[r]
  PROVE  /\ SpanInv' /\ Unended' = Unended
         /\ \A o \in Threads : work[o].span # s
         /\ data[s] = NoTrack /\ onTrack[s] = 0
         /\ \A r \in Spans \ {s} : Above(r)' = Above(r)
         /\ p # None => status[p] = "live" /\ p # s
<1>1. p # None => p # s /\ status[p] = "live"
  BY DEF MayHaveParent
<1>2. data[s] = NoTrack /\ onTrack[s] = 0 /\ parent[s] = None
  BY DEF IInv, SpanInv, FitInv
<1>3. \A r \in Spans : parent[r] # s
  BY TracksAssumption DEF IInv, SpanInv
<1>4. SpanInv'
  <2>1. ASSUME NEW r \in Spans, parent'[r] # None
        PROVE  IF status'[r] = "closed" THEN status'[parent'[r]] \in {"live", "closing", "closed"}
                                        ELSE status'[parent'[r]] = "live"
    <3>1. CASE r = s
      BY <1>1, <2>1, <3>1
    <3>2. CASE r # s
      <4>1. parent[r] \in Spans /\ parent[r] # s /\ parent'[r] = parent[r]
        BY <1>1, <1>3, <2>1, <3>2 DEF IInv, TypeOK
      <4> QED BY <1>1, <2>1, <3>2, <4>1 DEF IInv, SpanInv
    <3> QED BY <3>1, <3>2
  <2> QED BY <1>1, <1>2, <2>1 DEF IInv, SpanInv
<1>5. \A r \in Spans \ {s} : Above(r)' = Above(r)
  BY DEF Above
<1>6. Unended' = Unended
  BY DEF Unended
<1> QED BY <1>1, <1>2, <1>4, <1>5, <1>6, NotCarried

\* on_new_span without a context, or after an error.
LEMMA NewUntrackedKeeps ==
  ASSUME IInv, TypeOK', NEW t \in Threads, NEW s \in Spans, NEW p \in Spans \cup {None},
         NewUntracked(t, s, p)
  PROVE  IInv'
<1>1. /\ status[s] = "none" /\ status'[s] = "live" /\ parent'[s] = p /\ MayHaveParent(p)
      /\ \A r \in Spans \ {s} : status'[r] = status[r] /\ parent'[r] = parent[r]
      /\ UNCHANGED <<pooling, caching, nextUuid, pc, work, data, trace, lost>>
  BY DEF NewUntracked, IInv, TypeOK
<1>2. /\ SpanInv' /\ Unended' = Unended
      /\ \A o \in Threads : work[o].span # s
      /\ data[s] = NoTrack /\ onTrack[s] = 0
      /\ \A r \in Spans \ {s} : Above(r)' = Above(r)
  BY <1>1, Created
<1>3. WorkInv'
  <2>1. ASSUME NEW o \in Threads PROVE Carries(o)'
    <3>1. /\ Carries(o) /\ work[o].span \in Spans \cup {None}
      BY DEF IInv, WorkInv, TypeOK
    <3>2. work[o].span \in Spans => status'[work[o].span] = status[work[o].span]
      BY <1>1, <1>2
    <3> QED BY <1>1, <3>1, <3>2 DEF Carries
  <2> QED BY <1>1, <2>1 DEF IInv, WorkInv
<1>4. CacheInv' /\ CountInv'
  BY <1>1 DEF IInv, CacheInv, CountInv, PoolsBounded, Inserting
<1>5. OwnInv'
  BY <1>1, OwnSame
<1>6. FitInv'
  <2>1. \A o \in Threads : pc[o] \in Opening => work[o].span \in Spans
    BY DEF IInv, WorkInv, Carries
  <2>2. \A o \in Threads : pc[o] \in Opening => Above(work[o].span)' = Above(work[o].span)
    BY <1>1, <1>2, <2>1 DEF Above
  <2> QED BY <1>1, <1>2, <2>2 DEF IInv, FitInv, Uuids
<1>7. SliceInv'
  <2>1. \A r \in Spans : Current(r) => Current(r)'
    BY <1>1 DEF Current
  <2> QED BY <1>1, <1>2, <2>1 DEF IInv, SliceInv, SlicesApart, Before
<1> QED BY <1>2, <1>3, <1>4, <1>5, <1>6, <1>7 DEF IInv

-----------------------------------------------------------------------------
(* Uuids on the move.                                                       *)

\* Uuid u, or none if u is 0, is added to what is in the pools or lost, and the
\* pools hold what their keys say.
PutAway(u) ==
  /\ DOMAIN pools' = DOMAIN pools
  /\ PoolsApart'
  /\ \A v \in Nat \ {0} : Shelved(v)' <=> Shelved(v) \/ v = u
  /\ \A k \in DOMAIN pools' : \A i \in DOMAIN pools'[k] : descr[pools'[k][i]] = k

LEMMA PushPutsAway ==
  ASSUME IInv, NEW k \in DOMAIN pools, NEW u \in Nat \ {0}, ~Shelved(u), descr[u] = k, PushTo(k, u)
  PROVE  PutAway(u)
<1>1. /\ DOMAIN pools' = DOMAIN pools
      /\ \A l \in DOMAIN pools : \A i \in DOMAIN pools'[l] :
           \/ i \in DOMAIN pools[l] /\ pools'[l][i] = pools[l][i]
           \/ l = k /\ i = Len(pools[k]) + 1 /\ pools'[l][i] = u
      /\ \A l \in DOMAIN pools : \A i \in DOMAIN pools[l] :
           i \in DOMAIN pools'[l] /\ pools'[l][i] = pools[l][i]
      /\ \/ lost' = lost /\ \E i \in DOMAIN pools'[k] : pools'[k][i] = u
         \/ lost' = lost \cup {u} /\ pools' = pools
  BY PushFacts DEF IInv
<1>2. \A l \in DOMAIN pools : \A i \in DOMAIN pools[l] : pools[l][i] # u
  BY DEF Shelved, InPool
<1>3. \A v : InPool(v)' => InPool(v) \/ (v = u /\ lost' = lost)
  <2>1. CASE lost' = lost
    BY <1>1, <2>1 DEF InPool
  <2>2. CASE lost' = lost \cup {u} /\ pools' = pools
    BY <2>2 DEF InPool
  <2> QED BY <1>1, <2>1, <2>2
<1>4. \A v : InPool(v) => InPool(v)'
  BY <1>1 DEF InPool
<1>5. PoolsApart'
  <2>1. ASSUME NEW l \in DOMAIN pools, NEW m \in DOMAIN pools,
               NEW i \in DOMAIN pools'[l], NEW j \in DOMAIN pools'[m],
               pools'[l][i] = pools'[m][j]
        PROVE  l = m /\ i = j
    <3>1. CASE pools'[l][i] = u
      <4>1. ~(i \in DOMAIN pools[l] /\ pools'[l][i] = pools[l][i])
        BY <1>2, <3>1
      <4>2. ~(j \in DOMAIN pools[m] /\ pools'[m][j] = pools[m][j])
        BY <1>2, <2>1, <3>1
      <4>3. l = k /\ i = Len(pools[k]) + 1 /\ m = k /\ j = Len(pools[k]) + 1
        BY <1>1, <4>1, <4>2
      <4> QED BY <4>3
    <3>2. CASE pools'[l][i] # u
      BY <1>1, <2>1, <3>2 DEF IInv, OwnInv, PoolsApart
    <3> QED BY <3>1, <3>2
  <2>2. ASSUME NEW v \in lost' PROVE ~InPool(v)'
    <3>1. CASE v = u
      <4>1. lost' # lost
        BY <3>1 DEF Shelved
      <4> QED BY <1>3, <3>1, <4>1 DEF Shelved
    <3>2. CASE v # u
      <4>1. v \in lost
        BY <1>1, <3>2
      <4> QED BY <1>3, <3>2, <4>1 DEF IInv, OwnInv, PoolsApart
    <3> QED BY <3>1, <3>2
  <2> QED BY <1>1, <2>1, <2>2 DEF PoolsApart
<1>6. \A v \in Nat \ {0} : Shelved(v)' <=> Shelved(v) \/ v = u
  <2>1. Shelved(u)'
    BY <1>1 DEF Shelved, InPool
  <2>2. \A v : Shelved(v) => Shelved(v)'
    BY <1>1, <1>4 DEF Shelved
  <2>3. \A v : Shelved(v)' => Shelved(v) \/ v = u
    BY <1>1, <1>3 DEF Shelved
  <2> QED BY <2>1, <2>2, <2>3
<1>7. \A l \in DOMAIN pools' : \A i \in DOMAIN pools'[l] : descr[pools'[l][i]] = l
  BY <1>1 DEF IInv, FitInv
<1> QED BY <1>1, <1>5, <1>6, <1>7 DEF PutAway

LEMMA NothingPutAway ==
  ASSUME IInv, UNCHANGED <<pools, lost>>
  PROVE  PutAway(0)
<1>1. \A v : Shelved(v)' <=> Shelved(v)
  BY DEF Shelved, InPool
<1>2. PoolsApart'
  BY DEF IInv, OwnInv, PoolsApart, InPool
<1> QED BY <1>1, <1>2 DEF PutAway, IInv, FitInv

LEMMA LosePutsAway ==
  ASSUME IInv, NEW u \in Nat \ {0}, ~Shelved(u), pools' = pools, lost' = lost \cup {u}
  PROVE  PutAway(u)
<1>1. \A v : InPool(v)' <=> InPool(v)
  BY DEF InPool
<1>2. \A v : Shelved(v)' <=> Shelved(v) \/ v = u
  BY <1>1 DEF Shelved
<1>3. PoolsApart'
  BY <1>1 DEF IInv, OwnInv, PoolsApart, Shelved
<1> QED BY <1>2, <1>3 DEF PutAway, IInv, FitInv

LEMMA ReturnPutsAway ==
  ASSUME IInv, NEW t \in Threads, NEW i \in Slots, ReturnSlot(t, i)
  PROVE  PutAway(cache[t][i].local)
<1>1. CASE cache[t][i].local = 0
  BY <1>1, NothingPutAway DEF ReturnSlot
<1>2. CASE cache[t][i].local # 0
  <2>1. /\ cache[t][i].local \in Nat \ {0} /\ cache[t][i].key \in DOMAIN pools
        /\ descr[cache[t][i].local] = cache[t][i].key
        /\ ~Shelved(cache[t][i].local)
    BY <1>2 DEF IInv, TypeOK, CacheInv, FitInv, OwnInv, PlacesApart
  <2>2. PushTo(cache[t][i].key, cache[t][i].local)
    BY <1>2 DEF ReturnSlot
  <2> QED BY <2>1, <2>2, PushPutsAway
<1> QED BY <1>1, <1>2

\* Slot i and the callback of t, span s (if any) and the shelf had the uuids c, w, d
\* and m, and now have c1, w1, d1 and m1, each of them once.
Moving(t, i, s, d, d1, w, w1, c, c1, m, m1) ==
  /\ IF s \in Spans THEN data[s].uuid = d /\ data'[s].uuid = d1 ELSE d = 0 /\ d1 = 0
  /\ work[t].uuid = w /\ work'[t].uuid = w1
  /\ cache[t][i].local = c /\ cache'[t][i].local = c1
  /\ m # 0 => Shelved(m)
  /\ \A v \in Nat \ {0} : Shelved(v)' <=> (Shelved(v) /\ v # m) \/ v = m1
  /\ \A r \in Spans \ {s} : data'[r].uuid = data[r].uuid
  /\ \A o \in Threads \ {t} : work'[o].uuid = work[o].uuid
  /\ \A o \in Threads, j \in Slots : ~(o = t /\ j = i) => cache'[o][j].local = cache[o][j].local
  /\ \A v \in Nat \ {0} : v \in {d, w, c, m} <=> v \in {d1, w1, c1, m1}
  /\ d1 # 0 => d1 \notin {w1, c1, m1}
  /\ w1 # 0 => w1 \notin {c1, m1}
  /\ c1 # 0 => c1 # m1

\* A step that moves uuids keeps each in one place.
LEMMA Moved ==
  ASSUME IInv, PoolsApart', nextUuid' = nextUuid,
         NEW t \in Threads, NEW i \in Slots, NEW s \in Spans \cup {None},
         NEW d \in Nat, NEW d1 \in Nat, NEW w \in Nat, NEW w1 \in Nat,
         NEW c \in Nat, NEW c1 \in Nat, NEW m \in Nat, NEW m1 \in Nat,
         Moving(t, i, s, d, d1, w, w1, c, c1, m, m1)
  PROVE  OwnInv'
<1>1. /\ \A r \in Spans : data[r].uuid \in Nat
      /\ \A o \in Threads : work[o].uuid \in Nat
      /\ \A o \in Threads, j \in Slots : cache[o][j].local \in Nat
  BY DEF IInv, TypeOK
<1> USE DEF Moving
<1>2. ASSUME NEW v \in Nat \ {0}, v \in {d, w, c, m}
      PROVE  /\ \A r \in Spans \ {s} : data[r].uuid # v
             /\ \A o \in Threads \ {t} : work[o].uuid # v
             /\ \A o \in Threads, j \in Slots : ~(o = t /\ j = i) => cache[o][j].local # v
             /\ ~(Shelved(v) /\ v # m)
  <2>1. CASE v = d
    BY <1>2, <2>1 DEF IInv, OwnInv, PlacesApart
  <2>2. CASE v = w
    BY <1>2, <2>2 DEF IInv, OwnInv, PlacesApart
  <2>3. CASE v = c
    BY <1>2, <2>3 DEF IInv, OwnInv, PlacesApart
  <2>4. CASE v = m
    BY <1>2, <2>4 DEF IInv, OwnInv, PlacesApart
  <2> QED BY <1>2, <2>1, <2>2, <2>3, <2>4
<1>3. ASSUME NEW v \in Nat \ {0}, v \notin {d, w, c, m}
      PROVE  /\ \A r \in Spans : data'[r].uuid = v <=> data[r].uuid = v
             /\ \A o \in Threads : work'[o].uuid = v <=> work[o].uuid = v
             /\ \A o \in Threads, j \in Slots : cache'[o][j].local = v <=> cache[o][j].local = v
             /\ Shelved(v)' <=> Shelved(v)
  BY <1>3
<1>4. ASSUME NEW v \in Nat \ {0}, v \in {d, w, c, m}
      PROVE  /\ \A r \in Spans : data'[r].uuid = v <=> r = s /\ v = d1
             /\ \A o \in Threads : work'[o].uuid = v <=> o = t /\ v = w1
             /\ \A o \in Threads, j \in Slots : cache'[o][j].local = v <=> o = t /\ j = i /\ v = c1
             /\ Shelved(v)' <=> v = m1
             /\ v \in {d1, w1, c1, m1}
  <2>1. /\ \A r \in Spans \ {s} : data'[r].uuid # v
        /\ \A o \in Threads \ {t} : work'[o].uuid # v
        /\ \A o \in Threads, j \in Slots : ~(o = t /\ j = i) => cache'[o][j].local # v
        /\ ~(Shelved(v) /\ v # m)
    <3>1. /\ \A r \in Spans \ {s} : data[r].uuid # v
          /\ \A o \in Threads \ {t} : work[o].uuid # v
          /\ \A o \in Threads, j \in Slots : ~(o = t /\ j = i) => cache[o][j].local # v
          /\ ~(Shelved(v) /\ v # m)
      BY <1>2, <1>4
    <3> HIDE <1>2
    <3> QED BY <3>1
  <2>2. s \in Spans => data'[s].uuid = d1
    OBVIOUS
  <2>3. v = d1 => s \in Spans
    OBVIOUS
  <2>4. \A r \in Spans : data'[r].uuid = v <=> r = s /\ v = d1
    BY <2>1, <2>2
  <2>5. \A o \in Threads : work'[o].uuid = v <=> o = t /\ v = w1
    BY <2>1
  <2>6. \A o \in Threads, j \in Slots : cache'[o][j].local = v <=> o = t /\ j = i /\ v = c1
    BY <2>1
  <2>7. Shelved(v)' <=> v = m1
    BY <2>1
  <2>8. v \in {d1, w1, c1, m1}
    BY <1>4
  <2> QED BY <2>4, <2>5, <2>6, <2>7, <2>8
<1>5. ASSUME NEW v \in Nat \ {0}
      PROVE  /\ \A r, q \in Spans : data'[r].uuid = v /\ data'[q].uuid = v => r = q
             /\ \A o, p \in Threads : work'[o].uuid = v /\ work'[p].uuid = v => o = p
             /\ \A o, p \in Threads, j, l \in Slots :
                  cache'[o][j].local = v /\ cache'[p][l].local = v => o = p /\ j = l
             /\ \A r \in Spans, o \in Threads : ~(data'[r].uuid = v /\ work'[o].uuid = v)
             /\ \A r \in Spans, o \in Threads, j \in Slots :
                  ~(data'[r].uuid = v /\ cache'[o][j].local = v)
             /\ \A o, p \in Threads, j \in Slots : ~(work'[o].uuid = v /\ cache'[p][j].local = v)
             /\ \A r \in Spans : ~(data'[r].uuid = v /\ Shelved(v)')
             /\ \A o \in Threads : ~(work'[o].uuid = v /\ Shelved(v)')
             /\ \A o \in Threads, j \in Slots : ~(cache'[o][j].local = v /\ Shelved(v)')
  <2>1. CASE v \in {d, w, c, m}
    <3> HIDE <1>2
    <3> QED BY <1>4, <2>1
  <2>2. CASE v \notin {d, w, c, m}
    BY <1>3, <2>2 DEF IInv, OwnInv, PlacesApart
  <2> QED BY <2>1, <2>2
<1>6. /\ \A r \in Spans : data'[r].uuid \in Nat
      /\ \A o \in Threads : work'[o].uuid \in Nat
      /\ \A o \in Threads, j \in Slots : cache'[o][j].local \in Nat
  BY <1>1
<1>7. PlacesApart'
  <2>1. \A r, q \in Spans : data'[r].uuid # 0 /\ data'[q].uuid = data'[r].uuid => r = q
    BY <1>5, <1>6
  <2>2. \A o, p \in Threads : work'[o].uuid # 0 /\ work'[p].uuid = work'[o].uuid => o = p
    BY <1>5, <1>6
  <2>3. \A o, p \in Threads, j, l \in Slots :
          cache'[o][j].local # 0 /\ cache'[p][l].local = cache'[o][j].local => o = p /\ j = l
    BY <1>5, <1>6
  <2>4. \A r \in Spans, o \in Threads : data'[r].uuid # 0 => work'[o].uuid # data'[r].uuid
    BY <1>5, <1>6
  <2>5. \A r \in Spans, o \in Threads, j \in Slots :
          data'[r].uuid # 0 => cache'[o][j].local # data'[r].uuid
    BY <1>5, <1>6
  <2>6. \A o, p \in Threads, j \in Slots : work'[o].uuid # 0 => cache'[p][j].local # work'[o].uuid
    BY <1>5, <1>6
  <2>7. ASSUME NEW u \in Nat \ {0}, Shelved(u)'
        PROVE  /\ \A r \in Spans : data'[r].uuid # u
               /\ \A o \in Threads : work'[o].uuid # u
               /\ \A o \in Threads, j \in Slots : cache'[o][j].local # u
    BY <1>5, <2>7
  <2> QED BY <2>1, <2>2, <2>3, <2>4, <2>5, <2>6, <2>7 DEF PlacesApart
<1>8. ASSUME NEW v \in Nat \ {0} PROVE Somewhere(v)' <=> Somewhere(v)
  <2>1. CASE v \in {d, w, c, m}
    <3>1. Somewhere(v)
      BY <2>1 DEF Somewhere
    <3>2. Somewhere(v)'
      <4>1. CASE v = d1
        BY <4>1 DEF Somewhere
      <4>2. CASE v = w1
        BY <4>2 DEF Somewhere
      <4>3. CASE v = c1
        BY <4>3 DEF Somewhere
      <4>4. CASE v = m1
        BY <4>4 DEF Somewhere
      <4> QED BY <1>4, <2>1, <4>1, <4>2, <4>3, <4>4
    <3> QED BY <3>1, <3>2
  <2>2. CASE v \notin {d, w, c, m}
    BY <1>3, <2>2 DEF Somewhere
  <2> QED BY <2>1, <2>2
<1>9. Everywhere'
  BY <1>8 DEF IInv, OwnInv, Everywhere, Uuids
<1> QED BY <1>7, <1>9 DEF OwnInv

-----------------------------------------------------------------------------
(* The steps of on_new_span.                                                *)

\* The claim starts with what the thread's cache has: slot i of t gives uuid u.
LEMMA NewSpanEffect ==
  ASSUME IInv, TypeOK', NEW t \in Threads, NEW s \in Spans, NEW n \in Names,
         NEW p \in Spans \cup {None}, NewSpan(t, s, n, p)
  PROVE  \E i \in Slots, u \in Nat, k \in Key :
           /\ k.parent = IF p = None THEN 0 ELSE data[p].uuid
           /\ work'[t] = [span |-> s, key |-> k, uuid |-> u, pooled |-> TRUE]
           /\ pc'[t] \in {"lookup", "pop", "open"} /\ (u # 0 => pc'[t] = "open")
           /\ pc'[t] # "lookup" => k \in DOMAIN pools
           /\ \A o \in Threads, j \in Slots : cache'[o][j].key = cache[o][j].key
           /\ \A o \in Threads, j \in Slots :
                ~(o = t /\ j = i) => cache'[o][j].local = cache[o][j].local
           /\ IF u = 0 THEN cache'[t][i].local = cache[t][i].local
                       ELSE cache[t][i].local = u /\ cache'[t][i].local = 0 /\ cache[t][i].key = k
           /\ Alone(t)
<1>1. PICK k \in Key : k = KeyOf(n, p) /\ k.parent = IF p = None THEN 0 ELSE data[p].uuid
  BY KeyOfType DEF IInv, KeyOf
<1>2. Alone(t)
  <2>1. \E l, w : pc' = [pc EXCEPT ![t] = l] /\ work' = [work EXCEPT ![t] = w]
    BY DEF NewSpan, Goto
  <2> QED BY <2>1 DEF Alone, IInv, TypeOK
<1>3. CASE CachedAt(t, k) = {}
  <2>1. /\ work' = [work EXCEPT ![t] = [span |-> s, key |-> k, uuid |-> 0, pooled |-> TRUE]]
        /\ pc' = [pc EXCEPT ![t] = "lookup"] /\ cache' = cache
    BY <1>1, <1>3 DEF NewSpan, Goto
  <2>2. /\ work'[t] = [span |-> s, key |-> k, uuid |-> 0, pooled |-> TRUE]
        /\ pc'[t] = "lookup"
    BY <2>1 DEF IInv, TypeOK
  <2>3. 1 \in Slots
    BY TracksAssumption DEF Slots
  <2> QED BY <1>1, <1>2, <2>1, <2>2, <2>3
<1>4. CASE CachedAt(t, k) # {}
  <2>1. PICK i \in Slots : i = SlotOf(t, k) /\ cache[t][i].key = k /\ k # NoKey
    BY <1>4, SlotOfFacts
  <2>2. /\ work' = [work EXCEPT ![t] = [span |-> s, key |-> k,
                                         uuid |-> cache[t][i].local, pooled |-> TRUE]]
        /\ IF cache[t][i].local # 0
             THEN pc' = [pc EXCEPT ![t] = "open"] /\ TakeLocal(t, i)
             ELSE pc' = [pc EXCEPT ![t] = "pop"] /\ cache' = cache
    BY <1>1, <1>4, <2>1 DEF NewSpan, Goto
  <2>3. cache[t][i].local \in Nat /\ k \in DOMAIN pools
    <3>1. cache[t][i].local \in Nat
      BY DEF IInv, TypeOK
    <3>2. k \in DOMAIN pools
      BY <2>1 DEF IInv, CacheInv
    <3> QED BY <3>1, <3>2
  <2>4. /\ work'[t] = [span |-> s, key |-> k, uuid |-> cache[t][i].local, pooled |-> TRUE]
        /\ pc'[t] = IF cache[t][i].local # 0 THEN "open" ELSE "pop"
    BY <2>2 DEF IInv, TypeOK
  <2>5. PICK u \in Nat : u = cache[t][i].local
    BY <2>3
  <2>6. /\ \A o \in Threads, j \in Slots : cache'[o][j].key = cache[o][j].key
        /\ \A o \in Threads, j \in Slots :
             ~(o = t /\ j = i) => cache'[o][j].local = cache[o][j].local
        /\ IF u = 0 THEN cache'[t][i].local = cache[t][i].local
                    ELSE cache[t][i].local = u /\ cache'[t][i].local = 0 /\ cache[t][i].key = k
    <3>1. CASE u = 0
      BY <2>2, <2>5, <3>1
    <3>2. CASE u # 0
      <4>1. /\ cache'[t][i] = [key |-> cache[t][i].key, local |-> 0]
            /\ \A o \in Threads, j \in Slots : ~(o = t /\ j = i) => cache'[o][j] = cache[o][j]
        BY <2>2, <2>5, <3>2, LocalChange DEF IInv, TakeLocal, SetLocal
      <4>2. \A o \in Threads, j \in Slots : cache'[o][j].key = cache[o][j].key
        BY <4>1
      <4> QED BY <2>1, <2>5, <3>2, <4>1, <4>2
    <3> QED BY <3>1, <3>2
  <2>7. /\ work'[t] = [span |-> s, key |-> k, uuid |-> u, pooled |-> TRUE]
        /\ pc'[t] \in {"lookup", "pop", "open"} /\ (u # 0 => pc'[t] = "open")
        /\ pc'[t] # "lookup" => k \in DOMAIN pools
    BY <2>3, <2>4, <2>5
  <2> QED BY <1>1, <1>2, <2>6, <2>7
<1> QED BY <1>3, <1>4

LEMMA NewSpanKeeps ==
  ASSUME IInv, TypeOK', NEW t \in Threads, NEW s \in Spans, NEW n \in Names,
         NEW p \in Spans \cup {None}, NewSpan(t, s, n, p)
  PROVE  IInv'
<1>1. /\ pc[t] = "idle" /\ work[t] = Idle
      /\ status[s] = "none" /\ status'[s] = "opening" /\ parent'[s] = p /\ MayHaveParent(p)
      /\ \A r \in Spans \ {s} : status'[r] = status[r] /\ parent'[r] = parent[r]
      /\ UNCHANGED <<pooling, nextSlot, nextUuid, data, trace, lost>>
  BY DEF NewSpan, IInv, TypeOK, WorkInv, Carries
<1>2. PICK i \in Slots, u \in Nat, k \in Key :
        /\ k.parent = IF p = None THEN 0 ELSE data[p].uuid
        /\ work'[t] = [span |-> s, key |-> k, uuid |-> u, pooled |-> TRUE]
        /\ pc'[t] \in {"lookup", "pop", "open"} /\ (u # 0 => pc'[t] = "open")
        /\ pc'[t] # "lookup" => k \in DOMAIN pools
        /\ \A o \in Threads, j \in Slots : cache'[o][j].key = cache[o][j].key
        /\ \A o \in Threads, j \in Slots :
             ~(o = t /\ j = i) => cache'[o][j].local = cache[o][j].local
        /\ IF u = 0 THEN cache'[t][i].local = cache[t][i].local
                    ELSE cache[t][i].local = u /\ cache'[t][i].local = 0 /\ cache[t][i].key = k
        /\ Alone(t)
  BY NewSpanEffect
<1>3. /\ SpanInv' /\ Unended' = Unended
      /\ \A o \in Threads : work[o].span # s
      /\ data[s] = NoTrack /\ onTrack[s] = 0
      /\ \A r \in Spans \ {s} : Above(r)' = Above(r)
      /\ p # None => status[p] = "live" /\ p # s
  BY <1>1, Created
<1>4. WorkInv'
  <2>1. Carries(t)'
    BY <1>1, <1>2 DEF Carries
  <2>2. \A o \in Threads \ {t} : work[o].span # None => status'[work[o].span] = status[work[o].span]
    BY <1>1, <1>3 DEF IInv, TypeOK
  <2> QED BY <1>1, <1>2, <1>3, <2>1, <2>2, WorkStep
<1>5. CountInv'
  BY <1>1, <1>2, CountSame
<1>6. CacheInv'
  <2>1. \A o \in Threads, j \in Slots : cache[o][j].key = NoKey => cache'[o][j].local = 0
    <3>1. k # NoKey
      BY NoKeyIsNone
    <3> QED BY <1>2, <3>1 DEF IInv, CacheInv
  <2> QED BY <1>1, <1>2, <2>1 DEF IInv, CacheInv, Alone
<1>7. OwnInv'
  <2>1. PutAway(0)
    BY <1>1, NothingPutAway
  <2>2. PoolsApart' /\ \A v \in Nat \ {0} : Shelved(v)' <=> (Shelved(v) /\ v # 0) \/ v = 0
    BY <2>1 DEF PutAway
  <2>3. /\ cache[t][i].local \in Nat /\ work[t].uuid = 0 /\ work'[t].uuid = u
        /\ \A o \in Threads \ {t} : work'[o].uuid = work[o].uuid
    BY <1>1, <1>2 DEF IInv, TypeOK, Alone
  <2>4. CASE u = 0
    BY <1>1, <1>2, <2>3, <2>4, OwnSame
  <2>5. CASE u # 0
    <3>1. cache[t][i].local = u /\ cache'[t][i].local = 0
      BY <1>2, <2>5
    <3>2. /\ None \notin Spans /\ None \in Spans \cup {None} /\ nextUuid' = nextUuid
          /\ \A r \in Spans \ {None} : data'[r].uuid = data[r].uuid
      BY <1>1, TracksAssumption
    <3>3. \A v \in Nat \ {0} : v \in {0, 0, u, 0} <=> v \in {0, u, 0, 0}
      OBVIOUS
    <3>4. \A o \in Threads, j \in Slots : ~(o = t /\ j = i) => cache'[o][j].local = cache[o][j].local
      BY <1>2
    <3> HIDE <1>1, <1>2
    <3>5. Moving(t, i, None, 0, 0, 0, u, u, 0, 0, 0)
      BY <2>2, <2>3, <2>5, <3>1, <3>2, <3>3, <3>4 DEF Moving
    <3> QED BY <2>2, <3>2, <3>5, Moved
  <2> QED BY <2>4, <2>5
<1>8. FitInv'
  <2>1. Above(s)' = k.parent
    BY <1>1, <1>2, <1>3 DEF Above, IInv, FitInv
  <2>2. ASSUME NEW o \in Threads
        PROVE  /\ work'[o].uuid # 0 /\ work'[o].key # NoKey => descr'[work'[o].uuid] = work'[o].key
               /\ pc'[o] \in Opening => work'[o].key.parent = Above(work[o].span)'
               /\ pc'[o] \in Opening \ {"user"} => onTrack'[work'[o].span] = 0
               /\ pc'[o] \in {"user"} \cup Closing => onTrack'[work'[o].span] = work'[o].uuid
    <3>1. CASE o = t
      <4>1. u # 0 => descr[u] = k
        BY <1>2 DEF IInv, FitInv
      <4>2. Above(work[t].span)' = Above(s)'
        BY <1>2, <3>1 DEF Above
      <4> QED BY <1>1, <1>2, <1>3, <2>1, <3>1, <4>1, <4>2
    <3>2. CASE o # t
      <4>1. pc'[o] = pc[o] /\ work'[o] = work[o]
        BY <1>2, <3>2 DEF Alone
      <4>2. pc[o] \in Opening => work[o].span \in Spans \ {s}
        BY <1>3 DEF IInv, WorkInv, Carries
      <4>3. pc[o] \in Opening => Above(work[o].span)' = Above(work[o].span)
        BY <1>1, <4>1, <4>2 DEF Above
      <4> QED BY <1>1, <4>1, <4>3 DEF IInv, FitInv
    <3> QED BY <3>1, <3>2
  <2>3. \A o \in Threads, j \in Slots :
          cache'[o][j].local # 0 => descr'[cache'[o][j].local] = cache'[o][j].key
    BY <1>1, <1>2 DEF IInv, FitInv
  <2> QED BY <1>1, <1>3, <2>2, <2>3 DEF IInv, FitInv, Uuids
<1>9. SliceInv'
  <2>1. \A r \in Spans : Current(r) => Current(r)'
    BY <1>1, <1>2 DEF Current, Alone
  <2> QED BY <1>1, <1>2, <1>3, <2>1 DEF IInv, SliceInv, SlicesApart, Before, Alone
<1> QED BY <1>3, <1>4, <1>5, <1>6, <1>7, <1>8, <1>9 DEF IInv


-----------------------------------------------------------------------------
(* The steps of on_new_span after the cache was searched.                   *)

\* The trace agrees with the state after a step of t that begins no slice.
LEMMA FitStep ==
  ASSUME IInv, NEW t \in Threads, Alone(t), UNCHANGED <<descr, nextUuid, onTrack, parent>>,
         \A s \in Spans : data'[s].pool # NoKey => descr[data'[s].uuid] = data'[s].pool,
         \A s \in Spans : status'[s] = "none" => onTrack[s] = 0,
         \A s \in Spans : status'[s] = "live" => onTrack[s] = data'[s].uuid,
         \A o \in Threads, j \in Slots :
           cache'[o][j].local # 0 => descr[cache'[o][j].local] = cache'[o][j].key,
         \A k \in DOMAIN pools' : \A i \in DOMAIN pools'[k] : descr[pools'[k][i]] = k,
         work'[t].uuid # 0 /\ work'[t].key # NoKey => descr[work'[t].uuid] = work'[t].key,
         pc'[t] \in Opening =>
           pc[t] \in Opening /\ work'[t].span = work[t].span /\ work'[t].key = work[t].key,
         pc'[t] \in Opening \ {"user"} => pc[t] \in Opening \ {"user"},
         pc'[t] \in {"user"} \cup Closing => onTrack[work'[t].span] = work'[t].uuid
  PROVE  FitInv'
<1>1. \A s : Above(s)' = Above(s)
  BY DEF Above
<1>2. ASSUME NEW o \in Threads
      PROVE  /\ work'[o].uuid # 0 /\ work'[o].key # NoKey => descr'[work'[o].uuid] = work'[o].key
             /\ pc'[o] \in Opening => work'[o].key.parent = Above(work'[o].span)
             /\ pc'[o] \in Opening \ {"user"} => onTrack'[work'[o].span] = 0
             /\ pc'[o] \in {"user"} \cup Closing => onTrack'[work'[o].span] = work'[o].uuid
  <2>1. CASE o = t
    BY <2>1 DEF IInv, FitInv
  <2>2. CASE o # t
    BY <2>2 DEF IInv, FitInv, Alone
  <2> QED BY <2>1, <2>2
<1>3. \A o \in Threads : pc'[o] \in Opening => work'[o].key.parent = Above(work[o].span)'
  BY <1>1, <1>2 DEF Above
<1>4. \A s \in Spans : onTrack'[s] # 0 =>
        onTrack'[s] \in Uuids' /\ descr'[onTrack'[s]].parent = Above(s)'
  BY <1>1 DEF IInv, FitInv, Uuids
<1> QED BY <1>2, <1>3, <1>4 DEF IInv, FitInv

\* The slices are apart after a step of t that begins and ends none.
LEMMA SliceStep ==
  ASSUME IInv, NEW t \in Threads, Alone(t), UNCHANGED <<onTrack, began, ended, clock>>,
         \A s \in Spans : onTrack[s] # 0 /\ Current(s) => Current(s)' \/ s \in Unended',
         \A s \in Spans : status'[s] \in {"none", "opening", "live"} =>
                            status[s] \in {"none", "opening", "live"},
         \A s \in Spans : status[s] = "closed" => status'[s] = "closed",
         pc'[t] = "end" => ended[work'[t].span] = 0,
         pc'[t] = "release" => ended[work'[t].span] # 0
  PROVE  SliceInv'
<1>1. \A s \in Unended : s \in Unended'
  BY DEF Unended
<1>2. SlicesApart'
  <2>1. ASSUME NEW s \in (Spans \ Unended)', NEW r \in (Spans \ Unended)',
               s # r, onTrack[s] # 0, onTrack[s] = onTrack[r]
        PROVE  Before(s, r) \/ Before(r, s)
    BY <1>1, <2>1 DEF IInv, SliceInv, SlicesApart
  <2> QED BY <2>1 DEF SlicesApart, Before
<1>3. \A s \in Spans : onTrack'[s] # 0 => ended'[s] # 0 \/ s \in Unended' \/ Current(s)'
  BY <1>1 DEF IInv, SliceInv
<1>4. \A o \in Threads : /\ pc'[o] = "end" => ended'[work'[o].span] = 0
                         /\ pc'[o] = "release" => ended'[work'[o].span] # 0
  BY DEF IInv, SliceInv, Alone
<1> QED BY <1>2, <1>3, <1>4 DEF IInv, SliceInv

\* A uuid that leaves its queue is no longer in the pools.
LEMMA PopTakes ==
  ASSUME IInv, NEW k \in DOMAIN pools, pools[k] # <<>>,
         pools' = [pools EXCEPT ![k] = Tail(@)], lost' = lost,
         NEW m, m = Head(pools[k])
  PROVE  /\ DOMAIN pools' = DOMAIN pools /\ PoolsApart'
         /\ m \in Nat \ {0} /\ Shelved(m) /\ descr[m] = k
         /\ \A v \in Nat \ {0} : Shelved(v)' <=> Shelved(v) /\ v # m
         /\ \A l \in DOMAIN pools' : \A i \in DOMAIN pools'[l] : descr[pools'[l][i]] = l
<1>1. /\ DOMAIN pools' = DOMAIN pools
      /\ m \in Nat \ {0}
      /\ 1 \in DOMAIN pools[k] /\ pools[k][1] = m
      /\ \A l \in DOMAIN pools \ {k} : pools'[l] = pools[l]
      /\ \A i \in DOMAIN pools'[k] : i + 1 \in DOMAIN pools[k] /\ pools'[k][i] = pools[k][i + 1]
      /\ \A i \in DOMAIN pools[k] \ {1} : i - 1 \in DOMAIN pools'[k] /\ pools'[k][i - 1] = pools[k][i]
      /\ DOMAIN pools'[k] \in SUBSET (Nat \ {0})
  <2>1. TypeOK
    BY DEF IInv
  <2>2. DOMAIN pools' = DOMAIN pools /\ pools'[k] \in Seq(Nat \ {0})
    BY <2>1, PopFacts
  <2>3. DOMAIN pools'[k] \in SUBSET (Nat \ {0})
    BY <2>2
  <2> QED BY <2>1, <2>3, PopFacts
<1>2. /\ \A l, n \in DOMAIN pools : \A i \in DOMAIN pools[l], j \in DOMAIN pools[n] :
           pools[l][i] = pools[n][j] => l = n /\ i = j
      /\ \A u \in lost : ~InPool(u)
      /\ \A l \in DOMAIN pools : \A i \in DOMAIN pools[l] : descr[pools[l][i]] = l
  BY DEF IInv, OwnInv, PoolsApart, FitInv
<1>3. ASSUME NEW l \in DOMAIN pools, NEW i \in DOMAIN pools'[l]
      PROVE  \E j \in DOMAIN pools[l] : /\ j = (IF l = k THEN i + 1 ELSE i)
                                        /\ pools'[l][i] = pools[l][j] /\ pools[l][j] # m
  <2>1. CASE l = k
    <3>1. i + 1 \in DOMAIN pools[k] /\ i + 1 # 1 /\ pools'[k][i] = pools[k][i + 1]
      BY <1>1, <2>1
    <3>2. pools[k][i + 1] # m
      BY <1>1, <1>2, <3>1
    <3> QED BY <2>1, <3>1, <3>2
  <2>2. CASE l # k
    BY <1>1, <1>2, <2>2
  <2> QED BY <2>1, <2>2
<1>4. \A v : InPool(v)' <=> InPool(v) /\ v # m
  <2>1. ASSUME NEW v, InPool(v)' PROVE InPool(v) /\ v # m
    BY <1>1, <1>3, <2>1 DEF InPool
  <2>2. ASSUME NEW v, InPool(v), v # m PROVE InPool(v)'
    <3>1. PICK l \in DOMAIN pools : \E i \in DOMAIN pools[l] : pools[l][i] = v
      BY <2>2 DEF InPool
    <3>2. PICK i \in DOMAIN pools[l] : pools[l][i] = v
      BY <3>1
    <3>3. CASE l = k
      <4>1. i # 1
        BY <1>1, <2>2, <3>2, <3>3
      <4> QED BY <1>1, <3>2, <3>3, <4>1 DEF InPool
    <3>4. CASE l # k
      BY <1>1, <3>2, <3>4 DEF InPool
    <3> QED BY <3>3, <3>4
  <2> QED BY <2>1, <2>2
<1>5. InPool(m)
  BY <1>1 DEF InPool
<1>6. \A v \in Nat \ {0} : Shelved(v)' <=> Shelved(v) /\ v # m
  BY <1>2, <1>4, <1>5 DEF Shelved
<1>7. PoolsApart'
  <2>1. ASSUME NEW l \in DOMAIN pools, NEW n \in DOMAIN pools,
               NEW i \in DOMAIN pools'[l], NEW j \in DOMAIN pools'[n],
               pools'[l][i] = pools'[n][j]
        PROVE  l = n /\ i = j
    <3>1. PICK a \in DOMAIN pools[l] : a = (IF l = k THEN i + 1 ELSE i) /\ pools'[l][i] = pools[l][a]
      BY <1>3
    <3>2. PICK b \in DOMAIN pools[n] : b = (IF n = k THEN j + 1 ELSE j) /\ pools'[n][j] = pools[n][b]
      BY <1>3
    <3>3. l = n /\ a = b
      BY <1>2, <2>1, <3>1, <3>2
    <3>4. CASE l = k
      BY <1>1, <3>1, <3>2, <3>3, <3>4
    <3>5. CASE l # k
      BY <3>1, <3>2, <3>3, <3>5
    <3> QED BY <3>3, <3>4, <3>5
  <2>2. \A u \in lost' : ~InPool(u)'
    BY <1>2, <1>4
  <2> QED BY <1>1, <2>1, <2>2 DEF PoolsApart
<1>8. Shelved(m) /\ descr[m] = k
  BY <1>1, <1>2, <1>5 DEF Shelved
<1>9. \A l \in DOMAIN pools' : \A i \in DOMAIN pools'[l] : descr[pools'[l][i]] = l
  BY <1>1, <1>2, <1>3
<1> QED BY <1>1, <1>6, <1>7, <1>8, <1>9


LEMMA PopKeeps ==
  ASSUME IInv, TypeOK', NEW t \in Threads, Pop(t)
  PROVE  IInv'
<1>1. PICK k \in DOMAIN pools :
      k = work[t].key /\ k \in Key /\ pc[t] = "pop" /\ Carries(t) /\ work[t].uuid = 0
  BY DEF Pop, IInv, WorkInv, Carries
<1>2. /\ UNCHANGED <<keyCount, cache, nextUuid, spans, trace, lost>>
      /\ work'[t].span = work[t].span /\ work'[t].key = k /\ work'[t].pooled = work[t].pooled
      /\ pc'[t] \in {"evict", "open"} /\ Alone(t)
      /\ pc'[t] = "evict" => CachedAt(t, k) = {}
      /\ IF pools[k] = <<>>
           THEN pools' = pools /\ work' = work
           ELSE pools' = [pools EXCEPT ![k] = Tail(@)] /\ work'[t].uuid = Head(pools[k])
  <2>1. PICK l \in {"evict", "open"} :
          pc' = [pc EXCEPT ![t] = l] /\ (l = "evict" => CachedAt(t, k) = {})
    BY <1>1 DEF Pop, Goto
  <2>2. work' = work \/ work' = [work EXCEPT ![t].uuid = Head(pools[k])]
    BY <1>1 DEF Pop
  <2>3. Alone(t) /\ pc'[t] = l
    BY <2>1, <2>2 DEF Alone, IInv, TypeOK
  <2>4. work'[t].span = work[t].span /\ work'[t].key = k /\ work'[t].pooled = work[t].pooled
    BY <1>1, <2>2 DEF IInv, TypeOK
  <2>5. IF pools[k] = <<>>
          THEN pools' = pools /\ work' = work
          ELSE pools' = [pools EXCEPT ![k] = Tail(@)] /\ work'[t].uuid = Head(pools[k])
    BY <1>1 DEF Pop, IInv, TypeOK
  <2>6. UNCHANGED <<keyCount, cache, nextUuid, spans, trace, lost>>
    BY DEF Pop
  <2> QED BY <2>1, <2>3, <2>4, <2>5, <2>6
<1>3. PICK m \in Nat :
      /\ work'[t].uuid = m /\ DOMAIN pools' = DOMAIN pools /\ PoolsApart'
      /\ m # 0 => Shelved(m) /\ descr[m] = k
      /\ \A v \in Nat \ {0} : Shelved(v)' <=> Shelved(v) /\ v # m
      /\ \A l \in DOMAIN pools' : \A i \in DOMAIN pools'[l] : descr[pools'[l][i]] = l
  <2>1. CASE pools[k] = <<>>
    <3>1. PutAway(0)
      BY <1>1, <1>2, <2>1, NothingPutAway
    <3> QED BY <1>1, <1>2, <2>1, <3>1 DEF PutAway
  <2>2. CASE pools[k] # <<>>
    BY <1>1, <1>2, <2>2, PopTakes
  <2> QED BY <2>1, <2>2
<1>4. WorkInv'
  <2>1. Carries(t)'
    BY <1>1, <1>2, <1>3 DEF Carries
  <2> QED BY <1>1, <1>2, <1>3, <2>1, WorkStep
<1>5. SpanInv' /\ CountInv'
  BY <1>1, <1>2, <1>3, SpanSame, CountSame
<1>6. CacheInv'
  <2>1. pc'[t] = "evict" => \A i \in Slots : cache[t][i].key # k
    BY <1>1, <1>2, NoKeyIsNone DEF CachedAt, SameKey
  <2> QED BY <1>1, <1>2, <1>3, <2>1 DEF IInv, CacheInv, Alone
<1>7. OwnInv'
  <2>1. PICK i \in Slots, c \in Nat : cache[t][i].local = c
    <3>1. 1 \in Slots
      BY TracksAssumption DEF Slots
    <3> QED BY <3>1 DEF IInv, TypeOK
  <2>2. m # 0 => c # m
    BY <1>3, <2>1 DEF IInv, OwnInv, PlacesApart
  <2>3. Moving(t, i, None, 0, 0, 0, m, c, c, m, 0)
    BY <1>1, <1>2, <1>3, <2>1, <2>2, TracksAssumption DEF Moving, Alone
  <2>4. nextUuid' = nextUuid /\ PoolsApart' /\ None \in Spans \cup {None}
    BY <1>1, <1>2, <1>3
  <2> QED BY <2>3, <2>4, Moved
<1>8. FitInv' /\ SliceInv'
  <2>1. \A s \in Spans : Current(s) => Current(s)'
    BY <1>1, <1>2 DEF Current, Alone
  <2>2. FitInv'
    BY <1>1, <1>2, <1>3, FitStep DEF IInv, FitInv
  <2>3. SliceInv'
    BY <1>1, <1>2, <2>1, SliceStep
  <2> QED BY <2>2, <2>3
<1> QED BY <1>4, <1>5, <1>6, <1>7, <1>8 DEF IInv

\* A slot of t that changes hands keeps the cache to one slot per pool.
LEMMA CacheStep ==
  ASSUME IInv, NEW t \in Threads, Alone(t), DOMAIN pools' = DOMAIN pools, pc'[t] # "evict",
         NEW i \in Slots, NEW k \in Key, k \in DOMAIN pools,
         \A j \in Slots : j # i => cache[t][j].key # k,
         cache'[t][i].key = k,
         \A o \in Threads, j \in Slots : ~(o = t /\ j = i) => cache'[o][j] = cache[o][j]
  PROVE  CacheInv'
<1>1. k # NoKey
  BY NoKeyIsNone
<1>2. \A o \in Threads, j \in Slots :
        IF cache'[o][j].key = NoKey THEN cache'[o][j].local = 0 ELSE cache'[o][j].key \in DOMAIN pools'
  BY <1>1 DEF IInv, CacheInv
<1>3. \A o \in Threads, j, l \in Slots :
        cache'[o][j].key # NoKey /\ cache'[o][l].key = cache'[o][j].key => j = l
  BY DEF IInv, CacheInv
<1>4. \A o \in Threads, j \in Slots : pc'[o] = "evict" => cache'[o][j].key # work'[o].key
  BY DEF IInv, CacheInv, Alone
<1> QED BY <1>2, <1>3, <1>4 DEF CacheInv

LEMMA EvictKeeps ==
  ASSUME IInv, TypeOK', NEW t \in Threads, Evict(t)
  PROVE  IInv'
<1>1. PICK k \in Key :
      /\ k = work[t].key /\ k \in DOMAIN pools /\ pc[t] = "evict" /\ Carries(t)
      /\ UNCHANGED <<keyCount, nextUuid, work, spans, trace>>
      /\ pc'[t] = "open" /\ Alone(t) /\ ReplaceSlot(t, k, 0)
      /\ \A j \in Slots : cache[t][j].key # k
  BY DEF Evict, Goto, IInv, WorkInv, CacheInv, Carries, TypeOK, Alone
<1>2. PICK i \in Slots :
      /\ ReturnSlot(t, i) /\ cache'[t][i] = [key |-> k, local |-> 0]
      /\ \A o \in Threads, j \in Slots : ~(o = t /\ j = i) => cache'[o][j] = cache[o][j]
  <2>1. /\ nextSlot[t] \in Slots /\ ReturnSlot(t, nextSlot[t])
        /\ cache'[t][nextSlot[t]] = [key |-> k, local |-> 0]
        /\ \A o \in Threads, j \in Slots :
             ~(o = t /\ j = nextSlot[t]) => cache'[o][j] = cache[o][j]
    BY <1>1, ReplaceType
  <2> HIDE <1>1
  <2> QED BY <2>1
<1>3. PutAway(cache[t][i].local)
  BY <1>2, ReturnPutsAway
<1>4. DOMAIN pools' = DOMAIN pools
  BY <1>3 DEF PutAway
<1>5. WorkInv'
  <2>1. Carries(t)'
    BY <1>1, <1>4 DEF Carries
  <2> QED BY <1>1, <1>4, <2>1, WorkStep
<1>6. SpanInv' /\ CountInv'
  BY <1>1, <1>4, SpanSame, CountSame
<1>7. CacheInv'
  BY <1>1, <1>2, <1>4, CacheStep
<1>8. OwnInv'
  <2>0. cache[t][i].local \in Nat /\ work[t].uuid \in Nat
    BY DEF IInv, TypeOK
  <2>1. PICK c \in Nat, w \in Nat : cache[t][i].local = c /\ work[t].uuid = w
    BY <2>0
  <2>2. w # 0 => c # w
    BY <2>1 DEF IInv, OwnInv, PlacesApart
  <2>3. c # 0 => ~Shelved(c)
    BY <2>1 DEF IInv, OwnInv, PlacesApart
  <2>4. Moving(t, i, None, 0, 0, w, w, c, 0, 0, c)
    BY <1>1, <1>2, <1>3, <2>1, <2>2, TracksAssumption DEF Moving, Alone, PutAway
  <2>5. nextUuid' = nextUuid /\ PoolsApart' /\ None \in Spans \cup {None}
    BY <1>1, <1>3 DEF PutAway
  <2> QED BY <2>4, <2>5, Moved
<1>9. FitInv' /\ SliceInv'
  <2>1. \A s \in Spans : Current(s) => Current(s)'
    BY <1>1 DEF Current, Alone
  <2>2. FitInv'
    <3>1. \A o \in Threads, j \in Slots :
            cache'[o][j].local # 0 => descr[cache'[o][j].local] = cache'[o][j].key
      BY <1>2 DEF IInv, FitInv
    <3>2. \A l \in DOMAIN pools' : \A j \in DOMAIN pools'[l] : descr[pools'[l][j]] = l
      BY <1>1, <1>3 DEF PutAway
    <3> QED BY <1>1, <3>1, <3>2, FitStep DEF IInv, FitInv
  <2>3. SliceInv'
    BY <1>1, <2>1, SliceStep
  <2> QED BY <2>2, <2>3
<1> QED BY <1>5, <1>6, <1>7, <1>8, <1>9 DEF IInv


\* The uuid of a new track is nowhere yet.
LEMMA CreateKeeps ==
  ASSUME IInv, TypeOK', NEW t \in Threads, Create(t)
  PROVE  IInv'
<1>1. PICK n \in Nat \ {0}, k \in Key :
      /\ n = nextUuid /\ k = work[t].key /\ pc[t] = "open" /\ Carries(t) /\ work[t].uuid = 0
      /\ nextUuid' = n + 1 /\ descr' = Append(descr, k)
      /\ UNCHANGED <<pooling, caching, pc, spans, clock, onTrack, began, ended, lost>>
      /\ work' = [work EXCEPT ![t].uuid = n]
  <2>1. nextUuid \in Nat \ {0} /\ work[t].key \in Key /\ Carries(t)
    BY DEF Create, IInv, WorkInv, Carries, TypeOK
  <2> QED BY <2>1 DEF Create
<1>2. /\ work'[t].uuid = n /\ work'[t].key = k /\ work'[t].span = work[t].span
      /\ work'[t].pooled = work[t].pooled /\ Alone(t)
  BY <1>1 DEF IInv, TypeOK, Alone
<1>3. WorkInv'
  <2>1. Carries(t)'
    BY <1>1, <1>2 DEF Carries
  <2> QED BY <1>1, <1>2, <2>1, WorkStep
<1>4. SpanInv' /\ CountInv' /\ CacheInv'
  BY <1>1, <1>2, SpanSame, CountSame, CacheSame
<1>5. /\ ~Somewhere(n)
      /\ \A v : Shelved(v)' <=> Shelved(v)
      /\ Uuids' = Uuids \cup {n}
  <2>1. n \notin Uuids /\ Uuids' = Uuids \cup {n}
    BY <1>1 DEF Uuids
  <2>2. \A v : Shelved(v)' <=> Shelved(v)
    BY <1>1 DEF Shelved, InPool
  <2> QED BY <2>1, <2>2 DEF IInv, OwnInv, Everywhere
<1>6. OwnInv'
  <2>1. PoolsApart'
    BY <1>1 DEF IInv, OwnInv, PoolsApart, InPool
  <2>2. /\ \A s \in Spans : data[s].uuid # n
        /\ \A o \in Threads : work[o].uuid # n
        /\ \A o \in Threads, j \in Slots : cache[o][j].local # n
        /\ ~Shelved(n)
    BY <1>5 DEF Somewhere
  <2>3. PlacesApart'
    <3>1. PlacesApart
      BY DEF IInv, OwnInv
    <3>2. \A o \in Threads : work'[o].uuid = IF o = t THEN n ELSE work[o].uuid
      BY <1>2 DEF Alone
    <3>3. data' = data /\ cache' = cache
      BY <1>1
    <3>4. \A o, q \in Threads : work'[o].uuid # 0 /\ work'[q].uuid = work'[o].uuid => o = q
      BY <2>2, <3>1, <3>2 DEF PlacesApart
    <3>5. /\ \A s \in Spans, o \in Threads : data[s].uuid # 0 => work'[o].uuid # data[s].uuid
          /\ \A o, q \in Threads, j \in Slots : work'[o].uuid # 0 => cache[q][j].local # work'[o].uuid
      BY <2>2, <3>1, <3>2 DEF PlacesApart
    <3>6. \A u \in Nat \ {0} : Shelved(u)' =>
            /\ \A s \in Spans : data[s].uuid # u
            /\ \A o \in Threads : work'[o].uuid # u
            /\ \A o \in Threads, j \in Slots : cache[o][j].local # u
      BY <1>5, <2>2, <3>1, <3>2 DEF PlacesApart
    <3>7. /\ \A s, r \in Spans : data[s].uuid # 0 /\ data[r].uuid = data[s].uuid => s = r
          /\ \A o, q \in Threads, i, j \in Slots :
               cache[o][i].local # 0 /\ cache[q][j].local = cache[o][i].local => o = q /\ i = j
          /\ \A s \in Spans, o \in Threads, i \in Slots :
               data[s].uuid # 0 => cache[o][i].local # data[s].uuid
      BY <3>1 DEF PlacesApart
    <3> HIDE <1>1
    <3> QED BY <3>3, <3>4, <3>5, <3>6, <3>7 DEF PlacesApart
  <2>4. Everywhere'
    <3>1. ASSUME NEW v \in Nat \ {0} PROVE Somewhere(v)' <=> Somewhere(v) \/ v = n
      <4>1. ASSUME NEW o \in Threads, work[o].uuid = v PROVE work'[o].uuid = v
        BY <1>1, <1>2, <4>1 DEF Alone
      <4>2. ASSUME NEW o \in Threads, work'[o].uuid = v PROVE work[o].uuid = v \/ v = n
        BY <1>1, <1>2, <4>2 DEF Alone
      <4> QED BY <1>1, <1>2, <1>5, <4>1, <4>2 DEF Somewhere
    <3> QED BY <1>5, <3>1 DEF IInv, OwnInv, Everywhere
  <2> QED BY <2>1, <2>3, <2>4 DEF OwnInv
<1>7. FitInv'
  <2>1. /\ Len(descr) = n - 1 /\ descr \in Seq(Key)
        /\ Len(descr') = n /\ descr'[n] = k
        /\ \A u \in Uuids : descr'[u] = descr[u]
    <3>1. Len(descr) = n - 1 /\ descr \in Seq(Key)
      BY <1>1 DEF IInv, FitInv, TypeOK
    <3>2. \A u \in Uuids : u \in 1 .. Len(descr)
      BY <1>1, <3>1 DEF Uuids
    <3> QED BY <1>1, <3>1, <3>2, AppendProperties
  <2>2. \A v \in Nat \ {0} : Somewhere(v) => descr'[v] = descr[v]
    BY <2>1 DEF IInv, OwnInv, Everywhere
  <2>3. ASSUME NEW o \in Threads
        PROVE  /\ work'[o].uuid # 0 /\ work'[o].key # NoKey => descr'[work'[o].uuid] = work'[o].key
               /\ pc[o] \in Opening => work'[o].key.parent = Above(work[o].span)
               /\ pc[o] \in Opening \ {"user"} => onTrack[work'[o].span] = 0
               /\ pc[o] \in {"user"} \cup Closing => onTrack[work'[o].span] = work'[o].uuid
    <3>1. CASE o = t
      BY <1>1, <1>2, <2>1, <3>1 DEF IInv, FitInv
    <3>2. CASE o # t
      <4>1. work'[o] = work[o] /\ work[o].uuid \in Nat
        BY <1>2, <3>2 DEF Alone, IInv, TypeOK
      <4>2. work[o].uuid # 0 => descr'[work[o].uuid] = descr[work[o].uuid]
        BY <2>2, <4>1 DEF Somewhere
      <4> QED BY <4>1, <4>2 DEF IInv, FitInv
    <3> QED BY <3>1, <3>2
  <2>4. \A s \in Spans : data[s].pool # NoKey => descr'[data[s].uuid] = data[s].pool
    <3>1. \A s \in Spans : data[s].pool # NoKey => data[s].uuid \in Nat \ {0} /\ Somewhere(data[s].uuid)
      BY DEF IInv, SpanInv, TypeOK, Somewhere
    <3> QED BY <2>2, <3>1 DEF IInv, FitInv
  <2>5. \A o \in Threads, i \in Slots :
          cache[o][i].local # 0 => descr'[cache[o][i].local] = cache[o][i].key
    <3>1. \A o \in Threads, i \in Slots :
            cache[o][i].local # 0 => cache[o][i].local \in Nat \ {0} /\ Somewhere(cache[o][i].local)
      <4>1. \A o \in Threads, i \in Slots : cache[o][i].local \in Nat
        BY DEF IInv, TypeOK
      <4> QED BY <4>1 DEF Somewhere
    <3> QED BY <2>2, <3>1 DEF IInv, FitInv
  <2>6. \A l \in DOMAIN pools : \A i \in DOMAIN pools[l] : descr'[pools[l][i]] = l
    <3>1. ASSUME NEW l \in DOMAIN pools, NEW i \in DOMAIN pools[l]
          PROVE  pools[l][i] \in Nat \ {0} /\ Somewhere(pools[l][i])
      BY DEF IInv, TypeOK, Somewhere, Shelved, InPool
    <3> QED BY <2>2, <3>1 DEF IInv, FitInv
  <2>7. \A s \in Spans : onTrack[s] # 0 =>
          onTrack[s] \in Uuids' /\ descr'[onTrack[s]].parent = Above(s)
    BY <1>5, <2>1 DEF IInv, FitInv
  <2>8. \A s : Above(s)' = Above(s)
    BY <1>1 DEF Above
  <2>9. \A o \in Threads : pc[o] \in Opening => work'[o].key.parent = Above(work[o].span)'
    <3>1. \A o \in Threads : work'[o].span = work[o].span
      BY <1>2 DEF Alone
    <3>2. \A o \in Threads : Above(work[o].span)' = Above(work[o].span)
      BY <1>1, <3>1 DEF Above
    <3> QED BY <2>3, <3>2
  <2>10. /\ UNCHANGED <<pools, cache, pc, data, status, onTrack>>
         /\ Len(descr') = nextUuid' - 1
    BY <1>1, <2>1
  <2>11. /\ \A s \in Spans : status[s] = "none" => onTrack[s] = 0
         /\ \A s \in Spans : status[s] = "live" => onTrack[s] = data[s].uuid
    BY DEF IInv, FitInv
  <2> HIDE <1>1
  <2> QED BY <2>3, <2>4, <2>5, <2>6, <2>7, <2>8, <2>9, <2>10, <2>11 DEF FitInv
<1>8. SliceInv'
  <2>1. \A s \in Spans : Current(s) => Current(s)'
    BY <1>1, <1>2 DEF Current, Alone
  <2> QED BY <1>1, <1>2, <2>1, SliceStep
<1> QED BY <1>3, <1>4, <1>6, <1>7, <1>8 DEF IInv


\* A span at work in the callback that creates it is nobody's parent yet.
LEMMA NoChild ==
  ASSUME IInv, NEW s \in Spans, status[s] = "opening"
  PROVE  \A r \in Spans : parent[r] # s
  BY TracksAssumption DEF IInv, SpanInv

\* A begun slice's track is no one else's, so all other slices on it have ended by now.
LEMMA BeginKeeps ==
  ASSUME IInv, TypeOK', NEW t \in Threads, Begin(t)
  PROVE  IInv'
<1>1. PICK s \in Spans, u \in Nat \ {0}, k \in Key :
      /\ s = work[t].span /\ u = work[t].uuid /\ k = work[t].key
      /\ pc[t] = "open" /\ Carries(t) /\ status[s] = "opening"
  <2>1. work[t].span \in Spans /\ work[t].uuid \in Nat \ {0} /\ work[t].key \in Key
    BY DEF Begin, IInv, WorkInv, Carries, TypeOK
  <2> QED BY <2>1 DEF Begin, IInv, WorkInv, Carries
<1>2. /\ clock \in Nat /\ clock' \in {clock, clock + 1}
      /\ onTrack' = [onTrack EXCEPT ![s] = u] /\ began' = [began EXCEPT ![s] = clock']
      /\ UNCHANGED <<pooling, caching, nextUuid, work, spans, descr, ended, lost>>
  BY <1>1 DEF Begin, ReadClock, IInv, TypeOK
<1>3. pc'[t] = "user" /\ Alone(t)
  BY <1>2 DEF Begin, Goto, Alone, IInv, TypeOK
<1>4. /\ onTrack'[s] = u /\ began'[s] = clock'
      /\ \A r \in Spans \ {s} : onTrack'[r] = onTrack[r] /\ began'[r] = began[r]
  BY <1>2 DEF IInv, TypeOK
<1>5. WorkInv'
  <2>1. Carries(t)'
    BY <1>1, <1>2, <1>3 DEF Carries
  <2> QED BY <1>1, <1>2, <1>3, <2>1, WorkStep
<1>6. SpanInv' /\ CountInv' /\ CacheInv' /\ OwnInv'
  BY <1>1, <1>2, <1>3, SpanSame, CountSame, CacheSame, OwnSame
<1>7. \A o \in Threads \ {t} : work[o].span # s
  BY <1>1, TracksAssumption DEF IInv, WorkInv
<1>8. FitInv'
  <2>1. \A r \in Spans : Above(r)' = Above(r)
    <3>1. \A r \in Spans : parent[r] \in (Spans \ {s}) \cup {None}
      BY <1>1, NoChild DEF IInv, TypeOK
    <3> QED BY <1>2, <1>4, <3>1 DEF Above
  <2>2. u \in Uuids /\ descr[u].parent = Above(s)
    <3>1. Somewhere(u) /\ k # NoKey
      BY <1>1, NoKeyIsNone DEF Somewhere
    <3>2. u \in Uuids
      BY <3>1 DEF IInv, OwnInv, Everywhere
    <3>3. descr[u] = k /\ k.parent = Above(s)
      BY <1>1, <3>1 DEF IInv, FitInv
    <3> QED BY <3>2, <3>3
  <2>3. \A r \in Spans : onTrack'[r] # 0 =>
          onTrack'[r] \in Uuids' /\ descr'[onTrack'[r]].parent = Above(r)'
    BY <1>2, <1>4, <2>1, <2>2 DEF IInv, FitInv, Uuids
  <2>4. ASSUME NEW o \in Threads
        PROVE  /\ pc'[o] \in Opening => work[o].key.parent = Above(work[o].span)'
               /\ pc'[o] \in Opening \ {"user"} => onTrack'[work[o].span] = 0
               /\ pc'[o] \in {"user"} \cup Closing => onTrack'[work[o].span] = work[o].uuid
    <3>1. CASE o = t
      <4>1. Above(work[t].span)' = Above(s)'
        BY <1>1, <1>2 DEF Above
      <4>2. k.parent = Above(s)
        BY <1>1 DEF IInv, FitInv
      <4> QED BY <1>1, <1>3, <1>4, <2>1, <3>1, <4>1, <4>2
    <3>2. CASE o # t
      <4>1. pc'[o] = pc[o] /\ (pc[o] \in Opening \cup Closing => work[o].span \in Spans \ {s})
        BY <1>3, <1>7, <3>2 DEF Alone, IInv, WorkInv, Carries
      <4>2. pc[o] \in Opening => Above(work[o].span)' = Above(work[o].span)
        <5>1. pc[o] \in Opening => parent[work[o].span] \in (Spans \ {s}) \cup {None}
          BY <1>1, <4>1, NoChild DEF IInv, TypeOK
        <5> QED BY <1>2, <1>4, <5>1 DEF Above
      <4> QED BY <1>4, <4>1, <4>2 DEF IInv, FitInv
    <3> QED BY <3>1, <3>2
  <2>5. /\ \A r \in Spans : status[r] = "none" => onTrack'[r] = 0
        /\ \A r \in Spans : status[r] = "live" => onTrack'[r] = data[r].uuid
    BY <1>1, <1>4 DEF IInv, FitInv
  <2> QED BY <1>2, <2>3, <2>4, <2>5 DEF IInv, FitInv
<1>9. SliceInv'
  <2>1. ended[s] = 0 /\ Unended' = Unended /\ clock <= clock'
    BY <1>1, <1>2 DEF Unended, IInv, SliceInv
  <2>2. Current(s)'
    BY <1>1, <1>2, <1>3, <1>4, <2>1 DEF Current
  <2>3. \A r \in Spans \ {s} : Current(r) => Current(r)'
    BY <1>2, <1>3, <1>4, <1>1 DEF Current, Alone
  <2>4. ASSUME NEW r \in Spans \ {s}, onTrack[r] = u, r \notin Unended
        PROVE  ended[r] # 0 /\ ended[r] <= began'[s]
    <3>1. ~Current(r)
      <4>1. data[r].uuid # u /\ (\A o \in Threads : work[o].uuid = u => o = t)
        BY <1>1 DEF IInv, OwnInv, PlacesApart
      <4> QED BY <1>1, <2>4, <4>1 DEF Current
    <3>2. ended[r] # 0 /\ ended[r] <= clock /\ ended[r] \in Nat
      BY <2>4, <3>1 DEF IInv, SliceInv, TypeOK
    <3> QED BY <1>2, <1>4, <2>1, <3>2
  <2>5. SlicesApart'
    <3>1. ASSUME NEW q \in Spans \ Unended, NEW r \in Spans \ Unended,
                 q # r, onTrack'[q] # 0, onTrack'[q] = onTrack'[r]
          PROVE  Before(q, r)' \/ Before(r, q)'
      <4>1. CASE q = s
        BY <1>2, <1>4, <2>4, <3>1, <4>1 DEF Before
      <4>2. CASE r = s
        BY <1>2, <1>4, <2>4, <3>1, <4>2 DEF Before
      <4>3. CASE q # s /\ r # s
        <5>1. Before(q, r) \/ Before(r, q)
          BY <1>4, <3>1, <4>3 DEF IInv, SliceInv, SlicesApart
        <5> QED BY <1>2, <1>4, <4>3, <5>1 DEF Before
      <4> QED BY <4>1, <4>2, <4>3
    <3> QED BY <2>1, <3>1 DEF SlicesApart
  <2>6. \A r \in Spans : onTrack'[r] # 0 => ended'[r] # 0 \/ r \in Unended' \/ Current(r)'
    BY <1>2, <1>4, <2>1, <2>2, <2>3 DEF IInv, SliceInv
  <2>7. \A r \in Spans : ended'[r] <= clock'
    <3>1. \A r \in Spans : ended[r] \in Nat /\ ended[r] <= clock
      BY DEF IInv, TypeOK, SliceInv
    <3> QED BY <1>2, <3>1
  <2>8. \A o \in Threads : /\ pc'[o] = "end" => ended[work[o].span] = 0
                           /\ pc'[o] = "release" => ended[work[o].span] # 0
    BY <1>3 DEF IInv, SliceInv, Alone
  <2> QED BY <1>2, <2>5, <2>6, <2>7, <2>8 DEF IInv, SliceInv
<1> QED BY <1>5, <1>6, <1>8, <1>9 DEF IInv

LEMMA PublishKeeps ==
  ASSUME IInv, TypeOK', NEW t \in Threads, Publish(t)
  PROVE  IInv'
<1>1. PICK s \in Spans, u \in Nat \ {0}, k \in Key :
      /\ s = work[t].span /\ u = work[t].uuid /\ k = work[t].key
      /\ pc[t] = "user" /\ Carries(t) /\ status[s] = "opening"
  <2>1. work[t].span \in Spans /\ work[t].uuid \in Nat \ {0} /\ work[t].key \in Key
    BY DEF Publish, IInv, WorkInv, Carries, TypeOK
  <2> QED BY <2>1 DEF Publish, IInv, WorkInv, Carries
<1>2. /\ UNCHANGED <<pooling, caching, nextUuid, parent, trace, lost>>
      /\ data'[s].uuid = u /\ status'[s] = "live"
      /\ data'[s].pool = (IF work[t].pooled THEN k ELSE NoKey)
      /\ \A r \in Spans \ {s} : data'[r] = data[r] /\ status'[r] = status[r]
  BY <1>1 DEF Publish, IInv, TypeOK
<1>3. pc'[t] = "idle" /\ work'[t] = Idle /\ Alone(t)
  BY DEF Publish, Goto, Alone, IInv, TypeOK
<1>4. \A o \in Threads \ {t} : work[o].span # s
  BY <1>1, TracksAssumption DEF IInv, WorkInv
<1>5. WorkInv'
  <2>1. Carries(t)'
    BY <1>3 DEF Carries
  <2>2. \A o \in Threads \ {t} : work[o].span # None => status'[work[o].span] = status[work[o].span]
    BY <1>2, <1>4 DEF IInv, TypeOK
  <2> QED BY <1>1, <1>2, <1>3, <2>1, <2>2, WorkStep
<1>6. SpanInv'
  <2>1. data'[s].pool # NoKey => data'[s].pool \in DOMAIN pools
    BY <1>1, <1>2 DEF Carries
  <2>2. ASSUME NEW r \in Spans, parent[r] # None
        PROVE  IF status'[r] = "closed" THEN status'[parent[r]] \in {"live", "closing", "closed"}
                                        ELSE status'[parent[r]] = "live"
    <3>1. parent[r] \in Spans \ {s}
      BY <1>1, <2>2, NoChild DEF IInv, TypeOK
    <3> QED BY <1>1, <1>2, <2>2, <3>1 DEF IInv, SpanInv
  <2> QED BY <1>1, <1>2, <2>1, <2>2 DEF IInv, SpanInv
<1>7. CountInv' /\ CacheInv'
  BY <1>1, <1>2, <1>3, CountSame, CacheSame
<1>8. data[s] = NoTrack
  BY <1>1 DEF IInv, SpanInv
<1>9. OwnInv'
  <2>1. PutAway(0)
    BY <1>2, NothingPutAway
  <2>2. 1 \in Slots
    BY TracksAssumption DEF Slots
  <2>3. cache[t][1].local \in Nat
    BY <2>2 DEF IInv, TypeOK
  <2>4. PICK c \in Nat : cache[t][1].local = c
    BY <2>3
  <2>5. c # u
    BY <1>1, <2>2, <2>4 DEF IInv, OwnInv, PlacesApart
  <2>6. Moving(t, 1, s, 0, u, u, 0, c, c, 0, 0)
    BY <1>1, <1>2, <1>3, <1>8, <2>1, <2>4, <2>5 DEF Moving, Alone, PutAway
  <2>7. nextUuid' = nextUuid /\ PoolsApart'
    BY <1>2, <2>1 DEF PutAway
  <2> QED BY <2>2, <2>6, <2>7, Moved
<1>10. FitInv'
  <2>1. \A r \in Spans : data'[r].pool # NoKey => descr[data'[r].uuid] = data'[r].pool
    BY <1>1, <1>2, NoKeyIsNone DEF IInv, FitInv
  <2>2. /\ \A r \in Spans : status'[r] = "none" => onTrack[r] = 0
        /\ \A r \in Spans : status'[r] = "live" => onTrack[r] = data'[r].uuid
    BY <1>1, <1>2 DEF IInv, FitInv
  <2>3. /\ \A o \in Threads, j \in Slots :
             cache[o][j].local # 0 => descr[cache[o][j].local] = cache[o][j].key
        /\ \A l \in DOMAIN pools : \A i \in DOMAIN pools[l] : descr[pools[l][i]] = l
    BY DEF IInv, FitInv
  <2> QED BY <1>2, <1>3, <2>1, <2>2, <2>3, FitStep
<1>11. SliceInv'
  <2>1. ASSUME NEW r \in Spans, onTrack[r] # 0, Current(r) PROVE Current(r)'
    <3>1. CASE r = s
      <4>1. onTrack[s] = u
        BY <1>1 DEF IInv, FitInv
      <4> QED BY <1>2, <2>1, <3>1, <4>1 DEF Current
    <3>2. CASE r # s
      BY <1>1, <1>2, <1>3, <2>1, <3>2 DEF Current, Alone
    <3> QED BY <3>1, <3>2
  <2> QED BY <1>1, <1>2, <1>3, <2>1, SliceStep
<1> QED BY <1>5, <1>6, <1>7, <1>9, <1>10, <1>11 DEF IInv


-----------------------------------------------------------------------------
(* The steps of on_close.                                                   *)

\* A span closes after its children, so no live span is under it.
LEMMA CloseFacts ==
  ASSUME IInv, NEW s \in Spans, MayClose(s), parent' = parent, DOMAIN pools' = DOMAIN pools,
         status'[s] \in {"closing", "closed"}, data'[s] = NoTrack,
         \A r \in Spans \ {s} : data'[r] = data[r] /\ status'[r] = status[r]
  PROVE  /\ SpanInv' /\ status[s] = "live" /\ ended[s] = 0 /\ onTrack[s] = data[s].uuid
         /\ \A o \in Threads : work[o].span # s
<1>1. status[s] = "live" /\ \A c \in Spans : parent[c] = s => status[c] = "closed"
  BY DEF MayClose
<1>2. ended[s] = 0 /\ onTrack[s] = data[s].uuid
  BY <1>1 DEF IInv, SliceInv, FitInv
<1>3. ASSUME NEW r \in Spans, parent[r] # None
      PROVE  IF status'[r] = "closed" THEN status'[parent[r]] \in {"live", "closing", "closed"}
                                      ELSE status'[parent[r]] = "live"
  <2>1. parent[r] \in Spans
    BY <1>3 DEF IInv, TypeOK
  <2>2. CASE parent[r] = s
    <3>1. r # s /\ status[r] = "closed"
      BY <1>1, <2>2
    <3> QED BY <2>2, <3>1
  <2>3. CASE parent[r] # s
    BY <1>1, <1>3, <2>1, <2>3 DEF IInv, SpanInv
  <2> QED BY <2>2, <2>3
<1>4. SpanInv'
  BY <1>3 DEF IInv, SpanInv
<1> QED BY <1>1, <1>2, <1>4, NotCarried

LEMMA CloseKeeps ==
  ASSUME IInv, TypeOK', NEW t \in Threads, NEW s \in Spans, Close(t, s)
  PROVE  IInv'
<1>1. /\ pc[t] = "idle" /\ work[t] = Idle /\ MayClose(s)
      /\ UNCHANGED <<pooling, caching, nextUuid, parent, trace, lost>>
      /\ data'[s] = NoTrack /\ status'[s] \in {"closing", "closed"}
      /\ \A r \in Spans \ {s} : data'[r] = data[r] /\ status'[r] = status[r]
  BY DEF Close, IInv, WorkInv, Carries, TypeOK
<1>2. /\ SpanInv' /\ status[s] = "live" /\ ended[s] = 0 /\ onTrack[s] = data[s].uuid
      /\ \A o \in Threads : work[o].span # s
  BY <1>1, CloseFacts
<1>3. PICK u \in Nat : u = data[s].uuid
  BY DEF IInv, TypeOK
<1>4. /\ Alone(t)
      /\ IF u # 0
           THEN /\ work'[t] = [span |-> s, key |-> data[s].pool, uuid |-> u,
                               pooled |-> data[s].pool # NoKey]
                /\ status'[s] = "closing" /\ pc'[t] = "end"
           ELSE work' = work /\ pc' = pc /\ status'[s] = "closed"
  BY <1>3 DEF Close, Goto, Alone, IInv, TypeOK
<1>5. WorkInv'
  <2>1. Carries(t)'
    <3>1. CASE u = 0
      <4>1. pc'[t] = "idle" /\ work'[t] = Idle
        BY <1>1, <1>4, <3>1
      <4> QED BY <4>1 DEF Carries
    <3>2. CASE u # 0
      <4>1. data[s].pool # NoKey => data[s].pool \in DOMAIN pools
        BY DEF IInv, SpanInv
      <4>2. /\ work'[t].span = s /\ work'[t].key = data[s].pool /\ work'[t].uuid = u
            /\ pc'[t] = "end" /\ status'[s] = "closing"
        BY <1>4, <3>2
      <4>3. work'[t] = [span |-> s, key |-> data[s].pool, uuid |-> u, pooled |-> data[s].pool # NoKey]
        BY <1>4, <3>2
      <4>4. work'[t].pooled => data[s].pool # NoKey
        <5> DEFINE b == data[s].pool # NoKey
        <5>1. work'[t] = [span |-> s, key |-> data[s].pool, uuid |-> u, pooled |-> b]
          BY <4>3
        <5>2. b = TRUE \/ b = FALSE
          OBVIOUS
        <5>3. b = TRUE => data[s].pool # NoKey
          OBVIOUS
        <5> HIDE DEF b
        <5>4. work'[t].pooled = b
          BY <5>1
        <5> QED BY <5>2, <5>3, <5>4
      <4> QED BY <1>1, <3>2, <4>1, <4>2, <4>4 DEF Carries
    <3> QED BY <3>1, <3>2
  <2>2. \A o \in Threads \ {t} : work[o].span # None => status'[work[o].span] = status[work[o].span]
    BY <1>1, <1>2 DEF IInv, TypeOK
  <2> QED BY <1>1, <1>2, <1>4, <2>1, <2>2, WorkStep
<1>6. CountInv' /\ CacheInv'
  BY <1>1, <1>4, CountSame, CacheSame
<1>7. OwnInv'
  <2>1. PutAway(0)
    BY <1>1, NothingPutAway
  <2>2. 1 \in Slots
    BY TracksAssumption DEF Slots
  <2>3. cache[t][1].local \in Nat
    BY <2>2 DEF IInv, TypeOK
  <2>4. PICK c \in Nat : cache[t][1].local = c
    BY <2>3
  <2>5. u # 0 => c # u
    BY <1>3, <2>2, <2>4 DEF IInv, OwnInv, PlacesApart
  <2>6. work[t].uuid = 0 /\ work'[t].uuid = u
    BY <1>1, <1>4
  <2>7. Moving(t, 1, s, u, 0, 0, u, c, c, 0, 0)
    BY <1>1, <1>3, <1>4, <2>1, <2>4, <2>5, <2>6 DEF Moving, Alone, PutAway
  <2>8. nextUuid' = nextUuid /\ PoolsApart'
    BY <1>1, <2>1 DEF PutAway
  <2> QED BY <2>2, <2>7, <2>8, Moved
<1>8. FitInv'
  <2>1. \A r \in Spans : data'[r].pool # NoKey => descr[data'[r].uuid] = data'[r].pool
    BY <1>1 DEF IInv, FitInv
  <2>2. /\ \A r \in Spans : status'[r] = "none" => onTrack[r] = 0
        /\ \A r \in Spans : status'[r] = "live" => onTrack[r] = data'[r].uuid
    BY <1>1 DEF IInv, FitInv
  <2>3. /\ \A o \in Threads, j \in Slots :
             cache[o][j].local # 0 => descr[cache[o][j].local] = cache[o][j].key
        /\ \A l \in DOMAIN pools : \A i \in DOMAIN pools[l] : descr[pools[l][i]] = l
    BY DEF IInv, FitInv
  <2>4. work'[t].uuid # 0 /\ work'[t].key # NoKey => descr[work'[t].uuid] = work'[t].key
    BY <1>1, <1>3, <1>4 DEF IInv, FitInv
  <2>5. /\ pc'[t] \notin Opening
        /\ pc'[t] \in {"user"} \cup Closing => onTrack[work'[t].span] = work'[t].uuid
    BY <1>1, <1>2, <1>3, <1>4
  <2> QED BY <1>1, <1>4, <2>1, <2>2, <2>3, <2>4, <2>5, FitStep
<1>9. SliceInv'
  <2>1. ASSUME NEW r \in Spans, onTrack[r] # 0, Current(r) PROVE Current(r)'
    <3>1. CASE r = s
      <4>1. u # 0 /\ onTrack[s] = u
        BY <1>2, <1>3, <2>1, <3>1
      <4> QED BY <1>1, <1>2, <1>4, <3>1, <4>1 DEF Current
    <3>2. CASE r # s
      BY <1>1, <1>4, <2>1, <3>2 DEF Current, Alone
    <3> QED BY <3>1, <3>2
  <2>2. pc'[t] # "release" /\ (pc'[t] = "end" => ended[work'[t].span] = 0)
    BY <1>1, <1>2, <1>4
  <2>3. /\ \A r \in Spans : status'[r] \in {"none", "opening", "live"} =>
                              status[r] \in {"none", "opening", "live"}
        /\ \A r \in Spans : status[r] = "closed" => status'[r] = "closed"
    BY <1>1, <1>2
  <2> QED BY <1>1, <1>4, <2>1, <2>2, <2>3, SliceStep
<1> QED BY <1>2, <1>5, <1>6, <1>7, <1>8, <1>9 DEF IInv

\* on_close without a context, or after an error: the uuid goes to its pool, and
\* the slice will never be ended.
LEMMA CloseUnendedKeeps ==
  ASSUME IInv, TypeOK', NEW t \in Threads, NEW s \in Spans, CloseUnended(t, s)
  PROVE  IInv'
<1>1. /\ MayClose(s) /\ UNCHANGED <<keyCount, caching, nextUuid, pc, work, parent, trace>>
      /\ data'[s] = NoTrack /\ status'[s] = "closed"
      /\ \A r \in Spans \ {s} : data'[r] = data[r] /\ status'[r] = status[r]
      /\ Alone(t)
  BY DEF CloseUnended, IInv, TypeOK, Alone
<1>2. PICK u \in Nat : u = data[s].uuid
  BY DEF IInv, TypeOK
<1>3. PutAway(u)
  <2>1. u # 0 => ~Shelved(u)
    BY <1>2 DEF IInv, OwnInv, PlacesApart
  <2>2. CASE data[s].pool # NoKey
    <3>1. u # 0 /\ data[s].pool \in DOMAIN pools /\ descr[u] = data[s].pool
      BY <1>2, <2>2 DEF IInv, SpanInv, FitInv
    <3>2. PushTo(data[s].pool, u)
      BY <1>2, <2>2 DEF CloseUnended
    <3> QED BY <2>1, <3>1, <3>2, PushPutsAway
  <2>3. CASE data[s].pool = NoKey
    <3>1. pools' = pools /\ lost' = lost \cup ({u} \ {0})
      BY <1>2, <2>3 DEF CloseUnended
    <3>2. CASE u = 0
      BY <3>1, <3>2, NothingPutAway
    <3>3. CASE u # 0
      BY <2>1, <3>1, <3>3, LosePutsAway
    <3> QED BY <3>2, <3>3
  <2> QED BY <2>2, <2>3
<1>4. DOMAIN pools' = DOMAIN pools
  BY <1>3 DEF PutAway
<1>5. /\ SpanInv' /\ status[s] = "live" /\ ended[s] = 0 /\ onTrack[s] = data[s].uuid
      /\ \A o \in Threads : work[o].span # s
  BY <1>1, <1>4, CloseFacts
<1>6. WorkInv'
  <2>1. ASSUME NEW o \in Threads PROVE Carries(o)'
    <3>1. Carries(o) /\ work[o].span \in (Spans \ {s}) \cup {None}
      BY <1>5 DEF IInv, WorkInv, TypeOK
    <3>2. pc[o] \in Opening \cup Closing => status'[work[o].span] = status[work[o].span]
      BY <1>1, <3>1, TracksAssumption DEF Carries
    <3> QED BY <1>1, <1>4, <3>1, <3>2 DEF Carries
  <2> QED BY <1>1, <2>1 DEF IInv, WorkInv
<1>7. CountInv'
  BY <1>1, <1>4, CountSame
<1>8. CacheInv'
  BY <1>1, <1>4 DEF IInv, CacheInv
<1>9. OwnInv'
  <2>1. 1 \in Slots
    BY TracksAssumption DEF Slots
  <2>2. cache[t][1].local \in Nat /\ work[t].uuid \in Nat
    <3>1. cache[t][1].local \in Nat
      BY <2>1 DEF IInv, TypeOK
    <3>2. work[t].uuid \in Nat
      BY DEF IInv, TypeOK
    <3> QED BY <3>1, <3>2
  <2>3. PICK c \in Nat, w \in Nat : cache[t][1].local = c /\ work[t].uuid = w
    BY <2>2
  <2>4. (u # 0 => c # u /\ w # u) /\ (w # 0 => c # w) /\ (w # 0 => ~Shelved(w)) /\ (c # 0 => ~Shelved(c))
    BY <1>2, <2>1, <2>3 DEF IInv, OwnInv, PlacesApart
  <2>5. Moving(t, 1, s, u, 0, w, w, c, c, 0, u)
    BY <1>1, <1>2, <1>3, <2>3, <2>4 DEF Moving, PutAway
  <2>6. nextUuid' = nextUuid /\ PoolsApart'
    BY <1>1, <1>3 DEF PutAway
  <2> QED BY <2>1, <2>5, <2>6, Moved
<1>10. FitInv'
  <2>1. \A r \in Spans : data'[r].pool # NoKey => descr[data'[r].uuid] = data'[r].pool
    BY <1>1 DEF IInv, FitInv
  <2>2. /\ \A r \in Spans : status'[r] = "none" => onTrack[r] = 0
        /\ \A r \in Spans : status'[r] = "live" => onTrack[r] = data'[r].uuid
    BY <1>1 DEF IInv, FitInv
  <2>3. /\ \A o \in Threads, j \in Slots :
             cache[o][j].local # 0 => descr[cache[o][j].local] = cache[o][j].key
        /\ work[t].uuid # 0 /\ work[t].key # NoKey => descr[work[t].uuid] = work[t].key
        /\ pc[t] \in {"user"} \cup Closing => onTrack[work[t].span] = work[t].uuid
    BY DEF IInv, FitInv
  <2>4. \A l \in DOMAIN pools' : \A i \in DOMAIN pools'[l] : descr[pools'[l][i]] = l
    BY <1>1, <1>3 DEF PutAway
  <2> QED BY <1>1, <2>1, <2>2, <2>3, <2>4, FitStep
<1>11. SliceInv'
  <2>1. ASSUME NEW r \in Spans, onTrack[r] # 0, Current(r) PROVE Current(r)' \/ r \in Unended'
    <3>1. CASE r = s
      BY <1>1, <1>5, <3>1 DEF Unended
    <3>2. CASE r # s
      BY <1>1, <2>1, <3>2 DEF Current
    <3> QED BY <3>1, <3>2
  <2>2. /\ pc[t] = "end" => ended[work[t].span] = 0
        /\ pc[t] = "release" => ended[work[t].span] # 0
    BY DEF IInv, SliceInv
  <2>3. /\ \A r \in Spans : status'[r] \in {"none", "opening", "live"} =>
                              status[r] \in {"none", "opening", "live"}
        /\ \A r \in Spans : status[r] = "closed" => status'[r] = "closed"
    BY <1>1, <1>5
  <2> QED BY <1>1, <2>1, <2>2, <2>3, SliceStep
<1> QED BY <1>5, <1>6, <1>7, <1>8, <1>9, <1>10, <1>11 DEF IInv


\* The slice that ends had not ended, so all others on its track ended before it.
LEMMA EndKeeps ==
  ASSUME IInv, TypeOK', NEW t \in Threads, End(t)
  PROVE  IInv'
<1>1. PICK s \in Spans :
      s = work[t].span /\ pc[t] = "end" /\ Carries(t) /\ status[s] = "closing" /\ ended[s] = 0
  BY DEF End, IInv, WorkInv, Carries, SliceInv
<1>2. /\ clock \in Nat \ {0} /\ clock' \in {clock, clock + 1}
      /\ ended'[s] = clock' /\ \A r \in Spans \ {s} : ended'[r] = ended[r]
      /\ UNCHANGED <<pooling, caching, nextUuid, work, spans, descr, onTrack, began, lost>>
  BY <1>1 DEF End, ReadClock, IInv, TypeOK
<1>3. pc'[t] = "release" /\ Alone(t)
  BY <1>2 DEF End, Goto, Alone, IInv, TypeOK
<1>4. \A o \in Threads \ {t} : work[o].span # s
  BY <1>1, TracksAssumption DEF IInv, WorkInv
<1>5. WorkInv'
  <2>1. Carries(t)'
    BY <1>1, <1>2, <1>3 DEF Carries
  <2> QED BY <1>1, <1>2, <1>3, <2>1, WorkStep
<1>6. SpanInv' /\ CountInv' /\ CacheInv' /\ OwnInv'
  BY <1>1, <1>2, <1>3, SpanSame, CountSame, CacheSame, OwnSame
<1>7. FitInv'
  BY <1>1, <1>2, <1>3, FitSame
<1>8. SliceInv'
  <2>1. clock <= clock' /\ clock' \in Nat \ {0}
    BY <1>2
  <2>2. Unended' = Unended
    BY <1>1, <1>2 DEF Unended
  <2>3. \A r \in Spans \ {s} : Current(r) => Current(r)'
    BY <1>1, <1>2, <1>3 DEF Current, Alone
  <2>4. SlicesApart'
    <3>1. ASSUME NEW q \in Spans \ Unended, NEW r \in Spans \ Unended,
                 q # r, onTrack[q] # 0, onTrack[q] = onTrack[r]
          PROVE  Before(q, r)' \/ Before(r, q)'
      <4>1. Before(q, r) \/ Before(r, q)
        BY <3>1 DEF IInv, SliceInv, SlicesApart
      <4>2. \A a, b \in Spans : Before(a, b) => Before(a, b)'
        BY <1>1, <1>2 DEF Before
      <4> QED BY <4>1, <4>2
    <3> QED BY <1>2, <2>2, <3>1 DEF SlicesApart
  <2>5. \A r \in Spans : onTrack'[r] # 0 => ended'[r] # 0 \/ r \in Unended' \/ Current(r)'
    BY <1>2, <2>1, <2>2, <2>3 DEF IInv, SliceInv
  <2>6. \A r \in Spans : ended'[r] <= clock'
    <3>1. \A r \in Spans : ended[r] \in Nat /\ ended[r] <= clock
      BY DEF IInv, TypeOK, SliceInv
    <3> QED BY <1>2, <2>1, <3>1
  <2>7. ASSUME NEW o \in Threads
        PROVE  /\ pc'[o] = "end" => ended'[work[o].span] = 0
               /\ pc'[o] = "release" => ended'[work[o].span] # 0
    <3>1. CASE o = t
      BY <1>1, <1>2, <1>3, <2>1, <3>1
    <3>2. CASE o # t
      <4>1. pc'[o] = pc[o] /\ (pc[o] \in Closing => work[o].span \in Spans \ {s})
        BY <1>3, <1>4, <3>2 DEF Alone, IInv, WorkInv, Carries
      <4> QED BY <1>2, <4>1 DEF IInv, SliceInv
    <3> QED BY <3>1, <3>2
  <2>8. \A r \in Spans : status[r] \in {"none", "opening", "live"} => ended'[r] = 0
    BY <1>1, <1>2 DEF IInv, SliceInv
  <2> QED BY <1>2, <2>4, <2>5, <2>6, <2>7, <2>8 DEF SliceInv
<1> QED BY <1>5, <1>6, <1>7, <1>8 DEF IInv

\* The uuid of a closed span and that of the slot it may replace are in a slot, in a
\* pool or lost, and the cache stays as it must be.
Released(t, i, u, c1, m1) ==
  /\ PutAway(m1) /\ CacheInv'
  /\ cache'[t][i].local = c1
  /\ \A o \in Threads, j \in Slots : ~(o = t /\ j = i) => cache'[o][j].local = cache[o][j].local
  /\ \A v \in Nat \ {0} : v \in {u, cache[t][i].local} <=> v \in {c1, m1}
  /\ c1 # 0 => c1 # m1
  /\ \A o \in Threads, j \in Slots :
       cache'[o][j].local # 0 => descr[cache'[o][j].local] = cache'[o][j].key

LEMMA ReleaseEffect ==
  ASSUME IInv, TypeOK', NEW t \in Threads, Release(t), Alone(t), pc'[t] = "idle",
         NEW u \in Nat \ {0}, u = work[t].uuid, trace' = trace
  PROVE  \E i \in Slots, c1 \in Nat, m1 \in Nat : Released(t, i, u, c1, m1)
<1>1. ~Shelved(u) /\ \A o \in Threads, j \in Slots : cache[o][j].local # u
  BY DEF IInv, OwnInv, PlacesApart
<1>2. \A o \in Threads, j \in Slots :
        cache[o][j].local # 0 => descr[cache[o][j].local] = cache[o][j].key
  BY DEF IInv, FitInv
<1>3. \A o \in Threads, j \in Slots : cache[o][j].local \in Nat
  BY DEF IInv, TypeOK
<1>4. 1 \in Slots
  BY TracksAssumption DEF Slots
<1>5. ASSUME cache' = cache, PutAway(u)
      PROVE  \E i \in Slots, c1 \in Nat, m1 \in Nat : Released(t, i, u, c1, m1)
  <2>1. CacheInv'
    BY <1>5, CacheSame DEF PutAway
  <2>2. PICK c1 \in Nat : c1 = cache[t][1].local
    BY <1>3, <1>4
  <2>3. c1 # u
    BY <1>1, <1>4, <2>2
  <2>4. Released(t, 1, u, c1, u)
    BY <1>2, <1>5, <2>1, <2>2, <2>3 DEF Released
  <2> QED BY <1>4, <2>4
<1>6. CASE ~work[t].pooled
  <2>1. pools' = pools /\ cache' = cache /\ lost' = lost \cup {u}
    BY <1>6 DEF Release
  <2>2. PutAway(u)
    BY <1>1, <2>1, LosePutsAway
  <2> QED BY <1>5, <2>1, <2>2
<1>7. CASE work[t].pooled
  <2>1. PICK k \in Key : k = work[t].key /\ k \in DOMAIN pools /\ k # NoKey /\ descr[u] = k
    <3>1. work[t].key \in DOMAIN pools /\ work[t].key \in Key
      BY <1>7 DEF Release, IInv, WorkInv, Carries, TypeOK
    <3> QED BY <3>1, NoKeyIsNone DEF IInv, FitInv
  <2>2. ReleaseTrack(t, k, u)
    BY <1>7, <2>1 DEF Release
  <2>3. CASE CachedAt(t, k) = {}
    <3>1. PICK i \in Slots :
          /\ ReturnSlot(t, i) /\ cache'[t][i] = [key |-> k, local |-> u]
          /\ \A o \in Threads, j \in Slots : ~(o = t /\ j = i) => cache'[o][j] = cache[o][j]
      <4>1. /\ nextSlot[t] \in Slots /\ ReturnSlot(t, nextSlot[t])
            /\ cache'[t][nextSlot[t]] = [key |-> k, local |-> u]
            /\ \A o \in Threads, j \in Slots :
                 ~(o = t /\ j = nextSlot[t]) => cache'[o][j] = cache[o][j]
        BY <2>2, <2>3, ReplaceType DEF ReleaseTrack
      <4> QED BY <4>1
    <3>2. PICK c \in Nat : c = cache[t][i].local
      BY <1>3
    <3>3. PutAway(c)
      BY <3>1, <3>2, ReturnPutsAway
    <3>4. \A j \in Slots : cache[t][j].key # k
      BY <2>1, <2>3 DEF CachedAt, SameKey
    <3>5. CacheInv'
      BY <2>1, <3>1, <3>3, <3>4, CacheStep DEF PutAway
    <3>6. c # u
      BY <1>1, <3>2
    <3>7. \A o \in Threads, j \in Slots :
            cache'[o][j].local # 0 => descr[cache'[o][j].local] = cache'[o][j].key
      BY <1>2, <2>1, <3>1
    <3>8. Released(t, i, u, u, c)
      BY <3>1, <3>2, <3>3, <3>5, <3>6, <3>7 DEF Released
    <3> QED BY <3>8
  <2>4. CASE CachedAt(t, k) # {}
    <3>1. PICK i \in Slots : i = SlotOf(t, k) /\ cache[t][i].key = k
      BY <2>4, SlotOfFacts
    <3>2. CASE cache[t][i].local = 0
      <4>1. UNCHANGED <<pools, lost>> /\ cache' = [cache EXCEPT ![t][i].local = u]
        BY <2>2, <2>4, <3>1, <3>2 DEF ReleaseTrack
      <4>2. /\ cache'[t][i] = [key |-> k, local |-> u]
            /\ \A o \in Threads, j \in Slots : ~(o = t /\ j = i) => cache'[o][j] = cache[o][j]
        <5>1. TypeOK /\ SetLocal(t, i, u)
          BY <4>1 DEF IInv, SetLocal
        <5>2. /\ cache'[t][i] = [key |-> cache[t][i].key, local |-> u]
              /\ \A o \in Threads, j \in Slots : ~(o = t /\ j = i) => cache'[o][j] = cache[o][j]
          BY <5>1, LocalChange
        <5> HIDE <4>1
        <5> QED BY <3>1, <5>2
      <4>3. PutAway(0)
        BY <4>1, NothingPutAway
      <4>4. \A j \in Slots : j # i => cache[t][j].key # k
        BY <2>1, <3>1 DEF IInv, CacheInv
      <4> HIDE <4>1
      <4>5. CacheInv'
        <5>1. DOMAIN pools' = DOMAIN pools /\ cache'[t][i].key = k
          BY <4>2, <4>3 DEF PutAway
        <5> QED BY <2>1, <4>2, <4>4, <5>1, CacheStep
      <4>6. \A o \in Threads, j \in Slots :
              cache'[o][j].local # 0 => descr[cache'[o][j].local] = cache'[o][j].key
        BY <1>2, <2>1, <4>2
      <4>7. Released(t, i, u, u, 0)
        BY <3>2, <4>2, <4>3, <4>5, <4>6 DEF Released
      <4> QED BY <4>7
    <3>3. CASE cache[t][i].local # 0
      <4>1. PushTo(k, u) /\ cache' = cache
        BY <2>2, <2>4, <3>1, <3>3 DEF ReleaseTrack
      <4>2. PutAway(u)
        BY <1>1, <2>1, <4>1, PushPutsAway
      <4> QED BY <1>5, <4>1, <4>2
    <3> QED BY <3>2, <3>3
  <2> QED BY <2>3, <2>4
<1> QED BY <1>6, <1>7


LEMMA ReleaseKeeps ==
  ASSUME IInv, TypeOK', NEW t \in Threads, Release(t)
  PROVE  IInv'
<1>1. PICK s \in Spans, u \in Nat \ {0} :
      /\ s = work[t].span /\ u = work[t].uuid
      /\ pc[t] = "release" /\ status[s] = "closing" /\ ended[s] # 0
  <2>1. work[t].span \in Spans /\ work[t].uuid \in Nat \ {0}
    BY DEF Release, IInv, WorkInv, Carries, TypeOK
  <2> QED BY <2>1 DEF Release, IInv, WorkInv, Carries, SliceInv
<1>2. /\ UNCHANGED <<keyCount, nextUuid, parent, data, trace>>
      /\ pc'[t] = "idle" /\ work'[t] = Idle /\ Alone(t)
      /\ status'[s] = "closed" /\ \A r \in Spans \ {s} : status'[r] = status[r]
  BY <1>1 DEF Release, Goto, Alone, IInv, TypeOK
<1>3. PICK i \in Slots, c1 \in Nat, m1 \in Nat : Released(t, i, u, c1, m1)
  BY <1>1, <1>2, ReleaseEffect
<1>4. /\ PutAway(m1) /\ DOMAIN pools' = DOMAIN pools
      /\ \A l \in DOMAIN pools' : \A j \in DOMAIN pools'[l] : descr[pools'[l][j]] = l
  BY <1>3 DEF Released, PutAway
<1>5. \A o \in Threads \ {t} : work[o].span # s
  BY <1>1, TracksAssumption DEF IInv, WorkInv
<1>6. WorkInv'
  <2>1. Carries(t)'
    BY <1>2 DEF Carries
  <2>2. \A o \in Threads \ {t} : work[o].span # None => status'[work[o].span] = status[work[o].span]
    BY <1>2, <1>5 DEF IInv, TypeOK
  <2> QED BY <1>2, <1>4, <2>1, <2>2, WorkStep
<1>7. SpanInv'
  <2>1. ASSUME NEW r \in Spans, parent[r] # None
        PROVE  IF status'[r] = "closed" THEN status'[parent[r]] \in {"live", "closing", "closed"}
                                        ELSE status'[parent[r]] = "live"
    <3>1. /\ parent[r] \in Spans
          /\ IF status[r] = "closed" THEN status[parent[r]] \in {"live", "closing", "closed"}
                                     ELSE status[parent[r]] = "live"
      BY <2>1 DEF IInv, TypeOK, SpanInv
    <3>2. CASE parent[r] = s
      BY <1>1, <1>2, <3>1, <3>2
    <3>3. CASE parent[r] # s
      BY <1>1, <1>2, <3>1, <3>3
    <3> QED BY <3>2, <3>3
  <2>2. data[s] = NoTrack
    BY <1>1 DEF IInv, SpanInv
  <2> QED BY <1>2, <1>4, <2>1, <2>2 DEF IInv, SpanInv
<1>8. CountInv' /\ CacheInv'
  BY <1>1, <1>2, <1>3, <1>4, CountSame DEF Released
<1>9. OwnInv'
  <2>1. cache[t][i].local \in Nat
    BY DEF IInv, TypeOK
  <2>2. PICK c \in Nat : c = cache[t][i].local
    BY <2>1
  <2>3. (u # 0 => ~Shelved(u)) /\ (c # 0 => ~Shelved(c))
    BY <1>1, <2>2 DEF IInv, OwnInv, PlacesApart
  <2>4. /\ cache'[t][i].local = c1 /\ (c1 # 0 => c1 # m1)
        /\ \A v \in Nat \ {0} : v \in {u, c} <=> v \in {c1, m1}
        /\ \A o \in Threads, j \in Slots :
             ~(o = t /\ j = i) => cache'[o][j].local = cache[o][j].local
    BY <1>3, <2>2 DEF Released
  <2>5. \A v \in Nat \ {0} : v \in {0, u, c, 0} <=> v \in {0, 0, c1, m1}
    BY <2>4
  <2>6. \A v \in Nat \ {0} : Shelved(v)' <=> (Shelved(v) /\ v # 0) \/ v = m1
    BY <1>4 DEF PutAway
  <2>7. /\ work[t].uuid = u /\ work'[t].uuid = 0
        /\ \A o \in Threads \ {t} : work'[o].uuid = work[o].uuid
        /\ \A r \in Spans \ {None} : data'[r].uuid = data[r].uuid
    BY <1>1, <1>2 DEF Alone
  <2>8. Moving(t, i, None, 0, 0, u, 0, c, c1, 0, m1)
    BY <2>2, <2>4, <2>5, <2>6, <2>7, TracksAssumption DEF Moving
  <2>9. nextUuid' = nextUuid /\ PoolsApart' /\ None \in Spans \cup {None}
    BY <1>2, <1>4 DEF PutAway
  <2> QED BY <2>8, <2>9, Moved
<1>10. FitInv'
  <2>1. \A r \in Spans : data'[r].pool # NoKey => descr[data'[r].uuid] = data'[r].pool
    BY <1>2 DEF IInv, FitInv
  <2>2. /\ \A r \in Spans : status'[r] = "none" => onTrack[r] = 0
        /\ \A r \in Spans : status'[r] = "live" => onTrack[r] = data'[r].uuid
    BY <1>1, <1>2 DEF IInv, FitInv
  <2>3. \A o \in Threads, j \in Slots :
          cache'[o][j].local # 0 => descr[cache'[o][j].local] = cache'[o][j].key
    BY <1>3 DEF Released
  <2> QED BY <1>2, <1>4, <2>1, <2>2, <2>3, FitStep
<1>11. SliceInv'
  <2>1. ASSUME NEW r \in Spans, onTrack[r] # 0, Current(r) PROVE Current(r)'
    <3>1. r # s
      BY <1>1, <2>1 DEF Current
    <3> QED BY <1>1, <1>2, <2>1, <3>1 DEF Current, Alone
  <2>2. /\ \A r \in Spans : status'[r] \in {"none", "opening", "live"} =>
                              status[r] \in {"none", "opening", "live"}
        /\ \A r \in Spans : status[r] = "closed" => status'[r] = "closed"
    BY <1>1, <1>2
  <2> QED BY <1>2, <2>1, <2>2, SliceStep
<1> QED BY <1>6, <1>7, <1>8, <1>9, <1>10, <1>11 DEF IInv

-----------------------------------------------------------------------------
(* The exit of a thread.                                                    *)

LEMMA DropSlotKeeps ==
  ASSUME IInv, TypeOK', NEW t \in Threads, DropSlot(t)
  PROVE  IInv'
<1>1. /\ pc[t] = "exit" /\ work[t] = Idle
      /\ UNCHANGED <<keyCount, nextSlot, nextUuid, hasError, work, spans, trace>>
  BY DEF DropSlot, IInv, WorkInv, Carries
<1>2. ASSUME NEW i \in Held(t), ReturnSlot(t, i), TakeLocal(t, i), UNCHANGED pc
      PROVE  IInv'
  <2>1. i \in Slots /\ SetLocal(t, i, 0) /\ TypeOK
    BY <1>2 DEF Held, TakeLocal, SetLocal, IInv
  <2>2. /\ cache'[t][i] = [key |-> cache[t][i].key, local |-> 0]
        /\ \A o \in Threads, j \in Slots : ~(o = t /\ j = i) => cache'[o][j] = cache[o][j]
    BY <2>1, LocalChange
  <2>3. cache[t][i].local \in Nat
    BY <2>1 DEF TypeOK
  <2>4. PICK c \in Nat : c = cache[t][i].local
    BY <2>3
  <2>5. PutAway(c)
    BY <1>2, <2>1, <2>4, ReturnPutsAway
  <2>6. /\ DOMAIN pools' = DOMAIN pools
        /\ \A l \in DOMAIN pools' : \A j \in DOMAIN pools'[l] : descr[pools'[l][j]] = l
    BY <2>5 DEF PutAway
  <2>7. Alone(t) /\ pc'[t] = "exit" /\ work'[t] = Idle
    BY <1>1, <1>2 DEF Alone
  <2>8. WorkInv'
    <3>1. Carries(t)'
      BY <2>7 DEF Carries
    <3> QED BY <1>1, <2>6, <2>7, <3>1, WorkStep
  <2>9. SpanInv' /\ CountInv'
    BY <1>1, <2>6, <2>7, SpanSame, CountSame
  <2>10. CacheInv'
    <3>1. \A o \in Threads, j \in Slots : cache'[o][j].key = cache[o][j].key
      BY <2>2
    <3>2. \A o \in Threads, j \in Slots : cache[o][j].key = NoKey => cache'[o][j].local = 0
      BY <2>2 DEF IInv, CacheInv
    <3> QED BY <1>1, <1>2, <2>6, <3>1, <3>2 DEF IInv, CacheInv
  <2>11. OwnInv'
    <3>1. c # 0 => ~Shelved(c)
      BY <2>1, <2>4 DEF IInv, OwnInv, PlacesApart
    <3>2. Moving(t, i, None, 0, 0, 0, 0, c, 0, 0, c)
      BY <1>1, <2>2, <2>4, <2>5, <3>1, TracksAssumption DEF Moving, PutAway
    <3>3. nextUuid' = nextUuid /\ PoolsApart' /\ None \in Spans \cup {None}
      BY <1>1, <2>5 DEF PutAway
    <3> QED BY <2>1, <3>2, <3>3, Moved
  <2>12. FitInv'
    <3>1. \A o \in Threads, j \in Slots :
            cache'[o][j].local # 0 => descr[cache'[o][j].local] = cache'[o][j].key
      BY <2>2 DEF IInv, FitInv
    <3>2. /\ \A r \in Spans : data[r].pool # NoKey => descr[data[r].uuid] = data[r].pool
          /\ \A r \in Spans : status[r] = "none" => onTrack[r] = 0
          /\ \A r \in Spans : status[r] = "live" => onTrack[r] = data[r].uuid
      BY DEF IInv, FitInv
    <3> QED BY <1>1, <2>6, <2>7, <3>1, <3>2, FitStep
  <2>13. SliceInv'
    BY <1>1, <2>7, SliceSame
  <2> QED BY <2>8, <2>9, <2>10, <2>11, <2>12, <2>13 DEF IInv
<1>3. ASSUME Goto(t, "gone"), UNCHANGED <<pools, cache, lost>>
      PROVE  IInv'
  <2>1. pc'[t] = "gone" /\ work'[t] = Idle /\ Alone(t)
    BY <1>1, <1>3 DEF Goto, IInv, TypeOK, Alone
  <2>2. Carries(t)'
    BY <2>1 DEF Carries
  <2>3. WorkInv' /\ SpanInv' /\ CacheInv' /\ CountInv' /\ OwnInv'
    BY <1>1, <1>3, <2>1, <2>2, WorkStep, SpanSame, CacheSame, CountSame, OwnSame
  <2>4. FitInv' /\ SliceInv'
    BY <1>1, <1>3, <2>1, FitSame, SliceSame
  <2> QED BY <2>3, <2>4 DEF IInv
<1> QED BY <1>2, <1>3 DEF DropSlot


-----------------------------------------------------------------------------
(* The invariant.                                                           *)

LEMMA InitInv == Init => IInv
<1> SUFFICES ASSUME Init PROVE IInv
  OBVIOUS
<1>1. TypeOK
  BY InitType
<1>2. /\ DOMAIN pools = {} /\ keyCount = 0 /\ nextUuid = 1 /\ lost = {} /\ clock = 1
      /\ \A t \in Threads : pc[t] = "idle" /\ work[t] = Idle
      /\ \A t \in Threads, i \in Slots : cache[t][i] = [key |-> NoKey, local |-> 0]
      /\ \A s \in Spans : /\ status[s] = "none" /\ parent[s] = None /\ data[s] = NoTrack
                          /\ onTrack[s] = 0 /\ began[s] = 0 /\ ended[s] = 0
      /\ descr = <<>>
  BY DEF Init
<1>3. WorkInv
  <2>1. ASSUME NEW t \in Threads PROVE pc[t] = "idle" /\ work[t] = Idle /\ work[t].span = None
    <3>1. pc[t] = "idle" /\ work[t] = Idle
      BY <1>2
    <3> QED BY <3>1
  <2>2. ASSUME NEW t \in Threads PROVE Carries(t)
    BY <2>1 DEF Carries
  <2> QED BY <2>1, <2>2 DEF WorkInv
<1>4. SpanInv /\ CacheInv
  BY <1>2 DEF SpanInv, CacheInv
<1>5. CountInv
  <2>1. Inserting = {}
    BY <1>2 DEF Inserting
  <2>2. IsFiniteSet(DOMAIN pools) /\ Cardinality(DOMAIN pools) = 0
    BY <1>2, FS_EmptySet
  <2>3. IsFiniteSet(Inserting) /\ Cardinality(Inserting) = 0
    BY <2>1, FS_EmptySet
  <2>4. keyCount = Cardinality(DOMAIN pools) + Cardinality(Inserting) /\ keyCount <= MaxKeys
    BY <1>2, <2>2, <2>3, TracksAssumption
  <2> QED BY <2>2, <2>3, <2>4 DEF CountInv, PoolsBounded, Inserting
<1>6. OwnInv
  <2>1. \A u : ~Shelved(u)
    BY <1>2 DEF Shelved, InPool
  <2>2. PoolsApart /\ PlacesApart
    BY <1>2, <2>1 DEF PoolsApart, PlacesApart
  <2>3. Everywhere
    BY <1>2, <2>1 DEF Everywhere, Somewhere, Uuids
  <2> QED BY <2>2, <2>3 DEF OwnInv
<1>7. FitInv
  <2>1. Len(descr) = 0
    BY <1>2, EmptySeq
  <2> QED BY <1>2, <2>1 DEF FitInv
<1>8. SliceInv
  BY <1>2 DEF SliceInv, SlicesApart
<1> QED BY <1>1, <1>3, <1>4, <1>5, <1>6, <1>7, <1>8 DEF IInv

LEMMA NextInv == IInv /\ [Next]_vars => IInv'
<1> SUFFICES ASSUME IInv, [Next]_vars PROVE IInv'
  OBVIOUS
<1>1. TypeOK'
  BY NextType
<1>2. ASSUME NEW t \in Threads, NEW s \in Spans, NEW p \in Spans \cup {None}, NEW n \in Names,
             NewSpan(t, s, n, p)
      PROVE  IInv'
  BY <1>1, <1>2, NewSpanKeeps
<1>3. ASSUME NEW t \in Threads, NEW s \in Spans, NEW p \in Spans \cup {None}, NewUntracked(t, s, p)
      PROVE  IInv'
  BY <1>1, <1>3, NewUntrackedKeeps
<1>4. ASSUME NEW t \in Threads, NEW s \in Spans, Close(t, s) \/ CloseUnended(t, s) PROVE IInv'
  BY <1>1, <1>4, CloseKeeps, CloseUnendedKeeps
<1>5. ASSUME NEW t \in Threads, Claim(t) PROVE IInv'
  BY <1>1, <1>5, LookupKeeps, ReserveKeeps, InsertKeeps, PopKeeps, EvictKeeps DEF Claim
<1>6. ASSUME NEW t \in Threads, Create(t) \/ Begin(t) \/ Publish(t) PROVE IInv'
  BY <1>1, <1>6, CreateKeeps, BeginKeeps, PublishKeeps
<1>7. ASSUME NEW t \in Threads, End(t) \/ Release(t) PROVE IInv'
  BY <1>1, <1>7, EndKeeps, ReleaseKeeps
<1>8. ASSUME NEW t \in Threads, ThreadExit(t) \/ DropSlot(t) PROVE IInv'
  BY <1>1, <1>8, ThreadExitKeeps, DropSlotKeeps
<1>9. CASE WriterFails \/ UNCHANGED vars
  BY <1>1, <1>9, StutterKeeps DEF WriterFails, vars
<1> QED BY <1>2, <1>3, <1>4, <1>5, <1>6, <1>7, <1>8, <1>9 DEF Next, Done

\* The types of the pools, the caches, the callbacks and the trace, with every
\* queue in Nat \ {0}: 0 is no uuid and alloc_uuid starts at 1.
THEOREM TypeCorrect == Spec => []TypeOK
<1>1. IInv => TypeOK
  BY DEF IInv
<1> QED BY InitInv, NextInv, <1>1, PTL DEF Spec

-----------------------------------------------------------------------------
(* What the invariant implies.                                              *)

\* The four kinds of places a uuid can be in.
LEMMA HolderKinds ==
  ASSUME NEW u, NEW h
  PROVE  h \in Holders(u) <=>
           \/ \E s \in Spans : data[s].uuid = u /\ h = <<"span", s>>
           \/ \E t \in Threads : work[t].uuid = u /\ h = <<"callback", t>>
           \/ \E t \in Threads, i \in Slots : cache[t][i].local = u /\ h = <<"slot", t, i>>
           \/ \E k \in DOMAIN pools : \E i \in DOMAIN pools[k] :
                pools[k][i] = u /\ h = <<"pool", k, i>>
<1>1. h \in {g \in {"slot"} \X Threads \X Slots : cache[g[2]][g[3]].local = u} <=>
        \E t \in Threads, i \in Slots : cache[t][i].local = u /\ h = <<"slot", t, i>>
  OBVIOUS
<1>2. h \in UNION {{<<"pool", k, i>> : i \in {i \in DOMAIN pools[k] : pools[k][i] = u}} :
                     k \in DOMAIN pools} <=>
        \E k \in DOMAIN pools : \E i \in DOMAIN pools[k] :
          pools[k][i] = u /\ h = <<"pool", k, i>>
  OBVIOUS
<1> QED BY <1>1, <1>2 DEF Holders

LEMMA HeldOnce ==
  ASSUME IInv, NEW u \in Uuids
  PROVE  /\ \A g, h \in Holders(u) : g = h
         /\ Holders(u) # {} => u \notin lost
<1>1. u \in Nat \ {0}
  BY DEF Uuids, IInv, TypeOK
<1>2. ASSUME NEW s \in Spans, data[s].uuid = u
      PROVE  (\A h \in Holders(u) : h = <<"span", s>>) /\ u \notin lost
  <2>1. /\ \A r \in Spans : data[r].uuid = u => r = s
        /\ \A t \in Threads : work[t].uuid # u
        /\ \A t \in Threads, i \in Slots : cache[t][i].local # u
        /\ ~Shelved(u)
    BY <1>1, <1>2 DEF IInv, OwnInv, PlacesApart
  <2>2. /\ \A k \in DOMAIN pools : \A i \in DOMAIN pools[k] : pools[k][i] # u
        /\ u \notin lost
    BY <2>1 DEF Shelved, InPool
  <2> QED BY <2>1, <2>2, HolderKinds
<1>3. ASSUME NEW t \in Threads, work[t].uuid = u
      PROVE  (\A h \in Holders(u) : h = <<"callback", t>>) /\ u \notin lost
  <2>1. /\ \A s \in Spans : data[s].uuid # u
        /\ \A o \in Threads : work[o].uuid = u => o = t
        /\ \A o \in Threads, i \in Slots : cache[o][i].local # u
        /\ ~Shelved(u)
    BY <1>1, <1>3 DEF IInv, OwnInv, PlacesApart
  <2>2. /\ \A k \in DOMAIN pools : \A i \in DOMAIN pools[k] : pools[k][i] # u
        /\ u \notin lost
    BY <2>1 DEF Shelved, InPool
  <2> QED BY <2>1, <2>2, HolderKinds
<1>4. ASSUME NEW t \in Threads, NEW i \in Slots, cache[t][i].local = u
      PROVE  (\A h \in Holders(u) : h = <<"slot", t, i>>) /\ u \notin lost
  <2>1. /\ \A s \in Spans : data[s].uuid # u
        /\ \A o \in Threads : work[o].uuid # u
        /\ \A o \in Threads, j \in Slots : cache[o][j].local = u => o = t /\ j = i
        /\ ~Shelved(u)
    BY <1>1, <1>4 DEF IInv, OwnInv, PlacesApart
  <2>2. /\ \A k \in DOMAIN pools : \A j \in DOMAIN pools[k] : pools[k][j] # u
        /\ u \notin lost
    BY <2>1 DEF Shelved, InPool
  <2> QED BY <2>1, <2>2, HolderKinds
<1>5. ASSUME NEW k \in DOMAIN pools, NEW i \in DOMAIN pools[k], pools[k][i] = u
      PROVE  (\A h \in Holders(u) : h = <<"pool", k, i>>) /\ u \notin lost
  <2>1. InPool(u) /\ Shelved(u)
    BY <1>5 DEF Shelved, InPool
  <2>2. /\ \A s \in Spans : data[s].uuid # u
        /\ \A o \in Threads : work[o].uuid # u
        /\ \A o \in Threads, j \in Slots : cache[o][j].local # u
    BY <1>1, <2>1 DEF IInv, OwnInv, PlacesApart
  <2>3. /\ \A l \in DOMAIN pools : \A j \in DOMAIN pools[l] : pools[l][j] = u => l = k /\ j = i
        /\ u \notin lost
    BY <1>5, <2>1 DEF IInv, OwnInv, PoolsApart
  <2> QED BY <2>2, <2>3, HolderKinds
<1>6. ASSUME NEW g \in Holders(u) PROVE (\A h \in Holders(u) : h = g) /\ u \notin lost
  BY <1>2, <1>3, <1>4, <1>5, HolderKinds
<1> QED BY <1>6

LEMMA InvOneOwner == IInv => OneOwner
<1> SUFFICES ASSUME IInv, NEW u \in Uuids
             PROVE  Cardinality(Holders(u)) + (IF u \in lost THEN 1 ELSE 0) <= 1
  BY DEF OneOwner
<1>1. /\ \A g, h \in Holders(u) : g = h
      /\ Holders(u) # {} => u \notin lost
  BY HeldOnce
<1>2. /\ Cardinality(Holders(u)) \in {0, 1}
      /\ Holders(u) = {} => Cardinality(Holders(u)) = 0
  BY <1>1, AtMostOne
<1> QED BY <1>1, <1>2

LEMMA InvNothingLeaks == IInv => NothingLeaks
<1> SUFFICES ASSUME IInv, NEW u \in Uuids, u \notin lost PROVE Holders(u) # {}
  BY DEF NothingLeaks
<1>1. u \in Nat \ {0}
  BY DEF Uuids, IInv, TypeOK
<1>2. Somewhere(u)
  BY <1>1 DEF IInv, OwnInv, Everywhere
<1>3. ASSUME NEW s \in Spans, data[s].uuid = u PROVE <<"span", s>> \in Holders(u)
  BY <1>3, HolderKinds
<1>4. ASSUME NEW t \in Threads, work[t].uuid = u PROVE <<"callback", t>> \in Holders(u)
  BY <1>4, HolderKinds
<1>5. ASSUME NEW t \in Threads, NEW i \in Slots, cache[t][i].local = u
      PROVE  <<"slot", t, i>> \in Holders(u)
  BY <1>5, HolderKinds
<1>6. ASSUME NEW k \in DOMAIN pools, NEW i \in DOMAIN pools[k], pools[k][i] = u
      PROVE  <<"pool", k, i>> \in Holders(u)
  BY <1>6, HolderKinds
<1> QED BY <1>2, <1>3, <1>4, <1>5, <1>6 DEF Somewhere, Shelved, InPool

LEMMA InvTracksFit == IInv => TracksFit
  BY DEF IInv, FitInv, TracksFit, Above

LEMMA InvPoolsBounded == IInv => PoolsBounded
  BY DEF IInv, CountInv

LEMMA InvSlicesApart == IInv => SlicesApart
  BY DEF IInv, SliceInv

LEMMA InvCachedOnce == IInv => CachedOnce
<1> SUFFICES ASSUME IInv, NEW t \in Threads, NEW k \in DOMAIN pools
             PROVE  Cardinality(CachedAt(t, k)) <= 1
  BY DEF CachedOnce
<1>1. \A i, j \in CachedAt(t, k) : i = j
  BY DEF CachedAt, SameKey, IInv, CacheInv
<1> QED BY <1>1, AtMostOne

\* A track's uuid is with one span, one callback, one cache slot or one place in one
\* pool's queue at a time, or lost for good, whatever threads claim, release, evict
\* and exit meanwhile.
THEOREM OwnedOnce == Spec => []OneOwner
<1> QED BY InitInv, NextInv, InvOneOwner, PTL DEF Spec

\* Evictions, thread exits and callbacks without a context give a track's uuid back:
\* only a full pool and a span without a pool drop it.
THEOREM NeverForgotten == Spec => []NothingLeaks
<1> QED BY InitInv, NextInv, InvNothingLeaks, PTL DEF Spec

\* A slice is on a track under its parent's track, and a track waits only in the
\* caches and the pool of the key that its descriptor has.
THEOREM TracksFitSpans == Spec => []TracksFit
<1> QED BY InitInv, NextInv, InvTracksFit, PTL DEF Spec

\* reusable_keys counts the pools there are and those about to be inserted, and never
\* exceeds MAX_REUSABLE_KEYS, although it is checked under one shard's lock only.
THEOREM KeysCounted == Spec => []PoolsBounded
<1> QED BY InitInv, NextInv, InvPoolsBounded, PTL DEF Spec

\* The slices on one track, whichever threads begin and end them and however often the
\* track was handed on, do not overlap, but for those whose end was skipped.
THEOREM SlicesDisjoint == Spec => []SlicesApart
<1> QED BY InitInv, NextInv, InvSlicesApart, PTL DEF Spec

\* A thread's cache has one slot per pool, so the search for a pool's slot cannot find
\* another than the one with the local uuid.
THEOREM OneSlotPerPool == Spec => []CachedOnce
<1> QED BY InitInv, NextInv, InvCachedOnce, PTL DEF Spec
================================================================================
