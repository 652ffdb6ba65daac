------------------------- MODULE TraceStream_proofs -------------------------
(***************************************************************************)
(* The abstract trace stream keeps its promises, for any threads and sizes. *)
(***************************************************************************)
EXTENDS TraceStream, SequenceTheorems, TLAPS

\* The two halves of a line cut after k packets.
LEMMA CutLine ==
  ASSUME NEW S, NEW s \in Seq(S), NEW k \in 0 .. Len(s)
  PROVE  /\ Front(s, k) \in Seq(S)
         /\ Len(Front(s, k)) = k
         /\ \A i \in 1 .. k : Front(s, k)[i] = s[i]
         /\ Drop(s, k) \in Seq(S)
         /\ Len(Drop(s, k)) = Len(s) - k
         /\ \A i \in 1 .. Len(s) - k : Drop(s, k)[i] = s[k + i]
<1>1. /\ Front(s, k) \in Seq(S)
      /\ Len(Front(s, k)) = k
      /\ \A i \in 1 .. k : Front(s, k)[i] = s[i]
  BY SubSeqProperties DEF Front
<1>2. /\ Drop(s, k) \in Seq(S)
      /\ Len(Drop(s, k)) = Len(s) - k
      /\ \A i \in 1 .. Len(s) - k : Drop(s, k)[i] = s[k + i]
  BY SubSeqProperties DEF Drop
<1> QED BY <1>1, <1>2

\* The stream a thread's line is read into is a sequence of records.
LEMMA PacketsAreStream == Seq(PacketType) \subseteq Seq(StreamType)
<1>1. PacketType \subseteq StreamType
  BY DEF PacketType, StreamType
<1> QED BY <1>1, SeqMonotonic

-----------------------------------------------------------------------------
(* Every step that shortens a thread's line is a cut: the line loses m     *)
(* packets and the stream grows by a copy of some of them, in order, where *)
(* only the last may be a fragment.                                        *)

\* extra carries the numbers of the first Len(extra) <= m packets of t.
Cut(t, m, extra) ==
  /\ m \in 1 .. Len(pending[t])
  /\ pending' = [pending EXCEPT ![t] = Drop(@, m)]
  /\ extra \in Seq(StreamType)
  /\ Len(extra) <= m
  /\ \A i \in DOMAIN extra : extra[i].thr = t /\ extra[i].num = pending[t][i].num
  /\ stream' = stream \o extra
  /\ UNCHANGED count

LEMMA CutSteps ==
  ASSUME TypeOK, NEW t \in Threads, Deliver(t) \/ Break(t) \/ Discard(t)
  PROVE  \E m \in 1 .. Len(pending[t]) : \E extra :
           /\ Cut(t, m, extra)
           /\ ~broken' => Len(extra) = m /\ ~broken
           /\ broken' \in BOOLEAN
<1>1. pending[t] \in Seq(PacketType) /\ stream \in Seq(StreamType)
  BY DEF TypeOK
<1>2. ASSUME NEW k \in 0 .. Len(pending[t])
      PROVE  /\ Front(pending[t], k) \in Seq(StreamType)
             /\ Len(Front(pending[t], k)) = k
             /\ \A i \in 1 .. k : Front(pending[t], k)[i] = pending[t][i]
             /\ DOMAIN Front(pending[t], k) = 1 .. k
  <2>1. /\ Front(pending[t], k) \in Seq(PacketType)
        /\ Len(Front(pending[t], k)) = k
        /\ \A i \in 1 .. k : Front(pending[t], k)[i] = pending[t][i]
    BY <1>1, <1>2, CutLine
  <2>2. DOMAIN Front(pending[t], k) = 1 .. k
    BY <2>1, LenProperties
  <2> QED BY <2>1, <2>2, PacketsAreStream
<1>3. CASE Deliver(t)
  <2>1. PICK k \in 1 .. Len(pending[t]) :
          /\ stream' = stream \o Front(pending[t], k)
          /\ pending' = [pending EXCEPT ![t] = Drop(@, k)]
    BY <1>3 DEF Deliver
  <2>2. Cut(t, k, Front(pending[t], k))
    BY <1>1, <1>2, <1>3, <2>1 DEF Cut, Deliver, TypeOK
  <2>3. Len(Front(pending[t], k)) = k /\ broken' \in BOOLEAN /\ broken' = broken
    BY <1>1, <1>2, <1>3, LenProperties DEF Deliver, TypeOK
  <2> QED BY <2>2, <2>3
<1>4. CASE Discard(t)
  <2>1. PICK m \in 1 .. Len(pending[t]) : pending' = [pending EXCEPT ![t] = Drop(@, m)]
    BY <1>4 DEF Discard
  <2>2. Cut(t, m, <<>>)
    <3>1. <<>> \in Seq(StreamType) /\ Len(<<>>) = 0 /\ DOMAIN <<>> = {}
      BY EmptySeq
    <3>2. stream' = stream \o <<>>
      BY <1>1, <1>4, ConcatEmptySeq DEF Discard
    <3>3. 0 <= m
      BY <1>1, LenProperties
    <3> QED BY <1>4, <2>1, <3>1, <3>2, <3>3 DEF Cut, Discard
  <2> QED BY <1>4, <2>2 DEF Discard, TypeOK
<1>5. CASE Break(t)
  <2>0. PICK m \in 1 .. Len(pending[t]) : \E k \in 0 .. m - 1 :
          /\ pending' = [pending EXCEPT ![t] = Drop(@, m)]
          /\ \/ stream' = stream \o Front(pending[t], k)
             \/ stream' = Append(stream \o Front(pending[t], k),
                                 Fragment(pending[t][k + 1]))
    BY <1>5 DEF Break
  <2>1. PICK k \in 0 .. m - 1 :
          /\ pending' = [pending EXCEPT ![t] = Drop(@, m)]
          /\ \/ stream' = stream \o Front(pending[t], k)
             \/ stream' = Append(stream \o Front(pending[t], k),
                                 Fragment(pending[t][k + 1]))
    BY <2>0
  <2> DEFINE pre  == Front(pending[t], k)
             frag == Fragment(pending[t][k + 1])
  <2>2. k \in 0 .. Len(pending[t]) /\ k + 1 \in 1 .. Len(pending[t])
    BY <1>1, <2>1, LenProperties
  <2>3. CASE stream' = stream \o pre
    <3>1. Cut(t, m, pre)
      BY <1>1, <1>2, <1>5, <2>1, <2>2, <2>3 DEF Cut, Break, TypeOK
    <3> QED BY <1>5, <3>1 DEF Break
  <2>4. CASE stream' = Append(stream \o pre, frag)
    <3>1. /\ frag \in StreamType
          /\ frag.thr = t /\ frag.num = pending[t][k + 1].num
      <4>1. pending[t][k + 1] \in PacketType /\ pending[t][k + 1].thr = t
        BY <1>1, <2>2 DEF TypeOK
      <4> QED BY <4>1 DEF Fragment, PacketType, StreamType
    <3>2. pre \in Seq(StreamType) /\ Len(pre) = k
      BY <1>2, <2>2
    <3>3. /\ Append(pre, frag) \in Seq(StreamType)
          /\ Len(Append(pre, frag)) = k + 1
          /\ \A i \in 1 .. k : Append(pre, frag)[i] = pre[i]
          /\ Append(pre, frag)[k + 1] = frag
      BY <3>1, <3>2, AppendProperties
    <3>4. Append(stream \o pre, frag) = stream \o Append(pre, frag)
      <4>1. Append(stream \o pre, frag) = (stream \o pre) \o <<frag>>
        BY <1>1, <3>1, <3>2, AppendIsConcat, ConcatProperties
      <4>2. Append(pre, frag) = pre \o <<frag>>
        BY <3>1, <3>2, AppendIsConcat
      <4>3. <<frag>> \in Seq(StreamType)
        BY <3>1
      <4> QED BY <1>1, <3>2, <4>1, <4>2, <4>3, ConcatAssociative
    <3>5. \A i \in DOMAIN Append(pre, frag) :
            /\ Append(pre, frag)[i].thr = t
            /\ Append(pre, frag)[i].num = pending[t][i].num
      <4>1. \A i \in 1 .. k : pre[i] = pending[t][i] /\ pending[t][i].thr = t
        BY <1>1, <1>2, <2>2 DEF TypeOK
      <4> QED BY <2>2, <3>1, <3>3, <4>1, LenProperties
    <3>6. Cut(t, m, Append(pre, frag))
      <4>1. Len(Append(pre, frag)) <= m
        BY <1>1, <2>1, <2>2, <3>3, LenProperties
      <4>2. UNCHANGED count
        BY <1>5 DEF Break
      <4>3. stream' = stream \o Append(pre, frag)
        BY <2>4, <3>4
      <4> QED BY <2>1, <3>3, <3>5, <4>1, <4>2, <4>3 DEF Cut
    <3> QED BY <1>5, <3>6 DEF Break
  <2> QED BY <2>1, <2>3, <2>4
<1> QED BY <1>3, <1>4, <1>5

Inv == TypeOK /\ Ordered

LEMMA CutInv ==
  ASSUME Inv, NEW t \in Threads, NEW m \in 1 .. Len(pending[t]), NEW extra,
         Cut(t, m, extra), broken' \in BOOLEAN
  PROVE  Inv'
<1> DEFINE old == Len(stream)
<1>1. /\ pending[t] \in Seq(PacketType) /\ Len(pending[t]) \in Nat
      /\ stream \in Seq(StreamType) /\ old \in Nat /\ DOMAIN stream = 1 .. old
      /\ extra \in Seq(StreamType) /\ Len(extra) \in Nat /\ DOMAIN extra = 1 .. Len(extra)
      /\ m \in 1 .. Len(pending[t]) /\ Len(extra) <= m
  BY LenProperties DEF Inv, TypeOK, Cut
<1>2. /\ pending'[t] \in Seq(PacketType)
      /\ Len(pending'[t]) = Len(pending[t]) - m
      /\ \A i \in 1 .. Len(pending[t]) - m : pending'[t][i] = pending[t][m + i]
      /\ DOMAIN pending'[t] = 1 .. Len(pending[t]) - m
  <2>1. pending'[t] = Drop(pending[t], m)
    BY DEF Cut, Inv, TypeOK
  <2>2. pending[t] \in Seq(PacketType) /\ m \in 0 .. Len(pending[t])
    BY <1>1
  <2>3. /\ Drop(pending[t], m) \in Seq(PacketType)
        /\ Len(Drop(pending[t], m)) = Len(pending[t]) - m
        /\ \A i \in 1 .. Len(pending[t]) - m : Drop(pending[t], m)[i] = pending[t][m + i]
    <3> DEFINE line == pending[t]
    <3>1. line \in Seq(PacketType) /\ m \in 0 .. Len(line)
      BY <2>2
    <3> HIDE DEF line
    <3>2. /\ Drop(line, m) \in Seq(PacketType)
          /\ Len(Drop(line, m)) = Len(line) - m
          /\ \A i \in 1 .. Len(line) - m : Drop(line, m)[i] = line[m + i]
      BY <3>1, CutLine
    <3> QED BY <3>2 DEF line
  <2>4. DOMAIN Drop(pending[t], m) = 1 .. Len(pending[t]) - m
    BY <2>3, LenProperties
  <2> QED BY <2>1, <2>3, <2>4
<1>3. \A u \in Threads \ {t} : pending'[u] = pending[u]
  BY DEF Cut, Inv, TypeOK
<1>4. pending' \in [Threads -> Seq(PacketType)]
  BY <1>2, <1>3 DEF Cut, Inv, TypeOK
<1>5. /\ stream' \in Seq(StreamType)
      /\ Len(stream') = old + Len(extra)
      /\ \A i \in 1 .. old : stream'[i] = stream[i]
      /\ \A i \in old + 1 .. old + Len(extra) : stream'[i] = extra[i - old]
      /\ DOMAIN stream' = 1 .. old + Len(extra)
  <2>1. stream' = stream \o extra
    BY DEF Cut
  <2>2. /\ stream' \in Seq(StreamType)
        /\ Len(stream') = old + Len(extra)
        /\ \A i \in 1 .. old + Len(extra) :
             stream'[i] = IF i <= old THEN stream[i] ELSE extra[i - old]
    BY <1>1, <2>1, ConcatProperties
  <2>3. DOMAIN stream' = 1 .. old + Len(extra)
    BY <2>2, LenProperties
  <2> HIDE DEF old
  <2>4. \A i \in 1 .. old : stream'[i] = stream[i]
    BY <1>1, <2>2
  <2>5. \A i \in old + 1 .. old + Len(extra) : stream'[i] = extra[i - old]
    BY <1>1, <2>2
  <2> QED BY <2>2, <2>3, <2>4, <2>5
\* The new entries are t's, numbered like the first packets of its line.
<1>6. \A i \in old + 1 .. old + Len(extra) :
        stream'[i].thr = t /\ stream'[i].num = pending[t][i - old].num
  <2>1. \A j \in 1 .. Len(extra) : extra[j].thr = t /\ extra[j].num = pending[t][j].num
    BY <1>1 DEF Cut
  <2> HIDE DEF old
  <2> SUFFICES ASSUME NEW i \in old + 1 .. old + Len(extra)
      PROVE  stream'[i].thr = t /\ stream'[i].num = pending[t][i - old].num
    OBVIOUS
  <2>2. i - old \in 1 .. Len(extra)
    BY <1>1
  <2>3. stream'[i] = extra[i - old]
    BY <1>5
  <2> QED BY <2>1, <2>2, <2>3
<1>7. \A i \in 1 .. Len(pending[t]) :
        pending[t][i].thr = t /\ pending[t][i].num <= count[t] /\ pending[t][i].num \in Nat
  <2> SUFFICES ASSUME NEW i \in 1 .. Len(pending[t])
      PROVE  pending[t][i].thr = t /\ pending[t][i].num <= count[t] /\ pending[t][i].num \in Nat
    OBVIOUS
  <2>1. i \in DOMAIN pending[t] /\ pending[t][i] \in PacketType
    BY <1>1, LenProperties, ElementOfSeq
  <2> QED BY <2>1 DEF Inv, TypeOK, PacketType
<1>8. TypeOK'
  <2>1. \A u \in Threads : \A i \in DOMAIN pending'[u] :
          pending'[u][i].thr = u /\ pending'[u][i].num <= count'[u]
    <3> SUFFICES ASSUME NEW u \in Threads, NEW i \in DOMAIN pending'[u]
        PROVE  pending'[u][i].thr = u /\ pending'[u][i].num <= count'[u]
      OBVIOUS
    <3>1. CASE u = t
      <4>1. i \in 1 .. Len(pending[t]) - m /\ pending'[u][i] = pending[t][m + i]
        BY <1>2, <3>1
      <4>2. m + i \in 1 .. Len(pending[t])
        BY <1>1, <4>1
      <4> QED BY <1>7, <3>1, <4>1, <4>2 DEF Cut
    <3>2. CASE u # t
      BY <1>3, <3>2 DEF Inv, TypeOK, Cut
    <3> QED BY <3>1, <3>2
  <2>2. \A i \in DOMAIN stream' : stream'[i].num <= count'[stream'[i].thr]
    <3>1. \A i \in 1 .. old : stream'[i].num <= count'[stream'[i].thr]
      BY <1>1, <1>5 DEF Inv, TypeOK, Cut
    <3>2. \A i \in old + 1 .. old + Len(extra) : stream'[i].num <= count'[stream'[i].thr]
      BY <1>1, <1>6, <1>7 DEF Cut
    <3> QED BY <1>1, <1>5, <3>1, <3>2
  <2> QED BY <1>4, <1>5, <2>1, <2>2 DEF Inv, TypeOK, Cut
<1>9. Ordered'
  <2> SUFFICES ASSUME NEW u \in Threads
      PROVE  /\ \A i, j \in DOMAIN pending'[u] :
                  i < j => pending'[u][i].num < pending'[u][j].num
             /\ \A i, j \in DOMAIN stream' :
                  stream'[i].thr = u /\ stream'[j].thr = u /\ i < j
                    => stream'[i].num < stream'[j].num
             /\ \A i \in DOMAIN stream', j \in DOMAIN pending'[u] :
                  stream'[i].thr = u => stream'[i].num < pending'[u][j].num
    BY DEF Ordered
  <2>0. \A i, j \in 1 .. Len(pending[t]) : i < j => pending[t][i].num < pending[t][j].num
    BY <1>1, LenProperties DEF Inv, Ordered
  <2>1. \A i \in 1 .. old, j \in 1 .. Len(pending[t]) :
          stream[i].thr = t => stream[i].num < pending[t][j].num
    BY <1>1, LenProperties DEF Inv, Ordered
  <2>2. CASE u = t
    <3>1. \A i, j \in DOMAIN pending'[u] : i < j => pending'[u][i].num < pending'[u][j].num
      <4> SUFFICES ASSUME NEW i \in DOMAIN pending'[u], NEW j \in DOMAIN pending'[u], i < j
          PROVE  pending'[u][i].num < pending'[u][j].num
        OBVIOUS
      <4>1. /\ i \in 1 .. Len(pending[t]) - m /\ j \in 1 .. Len(pending[t]) - m
            /\ pending'[u][i] = pending[t][m + i] /\ pending'[u][j] = pending[t][m + j]
        BY <1>2, <2>2
      <4>2. m + i \in 1 .. Len(pending[t]) /\ m + j \in 1 .. Len(pending[t]) /\ m + i < m + j
        BY <1>1, <4>1
      <4> QED BY <2>0, <4>1, <4>2
    <3>2. ASSUME NEW i \in DOMAIN stream', NEW j \in DOMAIN stream',
                 stream'[i].thr = u, stream'[j].thr = u, i < j
          PROVE  stream'[i].num < stream'[j].num
      <4>1. CASE j <= old
        <5>1. i \in DOMAIN stream /\ j \in DOMAIN stream
          BY <1>1, <1>5, <3>2, <4>1
        <5> QED BY <1>1, <1>5, <3>2, <5>1 DEF Inv, Ordered
      <4>2. CASE i <= old /\ j > old
        <5>1. i \in 1 .. old /\ j \in old + 1 .. old + Len(extra)
              /\ j - old \in 1 .. Len(pending[t])
          BY <1>1, <1>5, <3>2, <4>2
        <5> QED BY <1>5, <1>6, <2>1, <2>2, <3>2, <5>1
      <4>3. CASE i > old
        <5>1. /\ i \in old + 1 .. old + Len(extra) /\ j \in old + 1 .. old + Len(extra)
              /\ i - old \in 1 .. Len(pending[t]) /\ j - old \in 1 .. Len(pending[t])
              /\ i - old < j - old
          BY <1>1, <1>5, <3>2, <4>3
        <5> QED BY <1>6, <2>0, <5>1
      <4> QED BY <1>1, <1>5, <4>1, <4>2, <4>3
    <3>3. ASSUME NEW i \in DOMAIN stream', NEW j \in DOMAIN pending'[u], stream'[i].thr = u
          PROVE  stream'[i].num < pending'[u][j].num
      <4>0. j \in 1 .. Len(pending[t]) - m /\ pending'[u][j] = pending[t][m + j]
        BY <1>2, <2>2
      <4>1. /\ j \in 1 .. Len(pending[t]) - m /\ m + j \in 1 .. Len(pending[t])
            /\ pending'[u][j] = pending[t][m + j]
        BY <1>1, <4>0
      <4>2. CASE i <= old
        BY <1>1, <1>5, <2>1, <2>2, <3>3, <4>1, <4>2
      <4>3. CASE i > old
        <5>1. i \in old + 1 .. old + Len(extra) /\ i - old \in 1 .. Len(pending[t])
              /\ i - old < m + j
          BY <1>1, <1>5, <3>3, <4>1, <4>3
        <5> QED BY <1>6, <2>0, <4>1, <5>1
      <4> QED BY <1>1, <1>5, <4>2, <4>3
    <3> QED BY <3>1, <3>2, <3>3
  <2>3. CASE u # t
    <3>1. pending'[u] = pending[u]
      BY <1>3, <2>3
    <3>2. \A i \in DOMAIN stream' : stream'[i].thr = u => i \in DOMAIN stream /\ stream'[i] = stream[i]
      BY <1>1, <1>5, <1>6, <2>3
    <3> QED BY <3>1, <3>2 DEF Inv, Ordered
  <2> QED BY <2>2, <2>3
<1> QED BY <1>8, <1>9 DEF Inv

LEMMA FinishInv ==
  ASSUME Inv, NEW t \in Threads, Finish(t)
  PROVE  Inv'
<1>1. PICK s \in Sizes :
        pending' = [pending EXCEPT
                      ![t] = Append(@, [thr |-> t, num |-> count[t] + 1, size |-> s])]
  BY DEF Finish, Inv, TypeOK
<1> DEFINE pkt == [thr |-> t, num |-> count[t] + 1, size |-> s]
           n   == Len(pending[t])
<1>2. /\ pending[t] \in Seq(PacketType) /\ n \in Nat /\ DOMAIN pending[t] = 1 .. n
      /\ count[t] \in Nat /\ pkt \in PacketType
  <2>1. pending[t] \in Seq(PacketType) /\ count[t] \in Nat
    BY DEF Inv, TypeOK
  <2>2. n \in Nat /\ DOMAIN pending[t] = 1 .. n
    BY <2>1, LenProperties
  <2>3. pkt \in PacketType
    BY <2>1 DEF PacketType
  <2> QED BY <2>1, <2>2, <2>3
<1>3. /\ pending'[t] \in Seq(PacketType)
      /\ DOMAIN pending'[t] = 1 .. n + 1
      /\ \A i \in 1 .. n : pending'[t][i] = pending[t][i]
      /\ pending'[t][n + 1] = pkt
  <2>1. pending'[t] = Append(pending[t], pkt)
    BY <1>1 DEF Inv, TypeOK
  <2>2. /\ Append(pending[t], pkt) \in Seq(PacketType)
        /\ Len(Append(pending[t], pkt)) = n + 1
        /\ \A i \in 1 .. n : Append(pending[t], pkt)[i] = pending[t][i]
        /\ Append(pending[t], pkt)[n + 1] = pkt
    BY <1>2, AppendProperties
  <2>3. DOMAIN Append(pending[t], pkt) = 1 .. n + 1
    BY <2>2, LenProperties
  <2> QED BY <2>1, <2>2, <2>3
<1>4. /\ \A u \in Threads \ {t} : pending'[u] = pending[u] /\ count'[u] = count[u]
      /\ count'[t] = count[t] + 1 /\ count' \in [Threads -> Nat]
      /\ UNCHANGED <<stream, broken>>
  BY <1>1, <1>2 DEF Inv, TypeOK, Finish
<1>5. \A i \in DOMAIN stream : stream[i].num <= count[stream[i].thr]
                              /\ stream[i].num \in Nat /\ stream[i].thr \in Threads
  <2> SUFFICES ASSUME NEW i \in DOMAIN stream
      PROVE  stream[i].num <= count[stream[i].thr]
             /\ stream[i].num \in Nat /\ stream[i].thr \in Threads
    OBVIOUS
  <2>1. stream[i] \in StreamType
    BY ElementOfSeq, LenProperties DEF Inv, TypeOK
  <2> QED BY <2>1 DEF Inv, TypeOK, StreamType
<1>6. TypeOK'
  <2>1. pending' \in [Threads -> Seq(PacketType)]
    BY <1>1, <1>3, <1>4 DEF Inv, TypeOK
  <2>2. ASSUME NEW u \in Threads, NEW i \in DOMAIN pending'[u]
        PROVE  pending'[u][i].thr = u /\ pending'[u][i].num <= count'[u]
    <3>1. CASE u # t
      BY <1>4, <2>2, <3>1 DEF Inv, TypeOK
    <3>2. CASE u = t /\ i <= n
      <4>1. i \in DOMAIN pending[t] /\ pending'[u][i] = pending[t][i]
        BY <1>2, <1>3, <2>2, <3>2
      <4>2. pending[t][i] \in PacketType
        BY <1>2, <4>1, ElementOfSeq
      <4>3. pending[t][i].num \in Nat
        BY <4>2 DEF PacketType
      <4> QED BY <1>2, <1>4, <3>2, <4>1, <4>3 DEF Inv, TypeOK
    <3>3. CASE u = t /\ i = n + 1
      BY <1>2, <1>3, <1>4, <3>3
    <3> QED BY <1>2, <1>3, <3>1, <3>2, <3>3
  <2>3. \A i \in DOMAIN stream' : stream'[i].num <= count'[stream'[i].thr]
    <3> SUFFICES ASSUME NEW i \in DOMAIN stream
        PROVE  stream[i].num <= count'[stream[i].thr]
      BY <1>4
    <3>1. CASE stream[i].thr = t
      BY <1>2, <1>4, <1>5, <3>1
    <3>2. CASE stream[i].thr # t
      BY <1>4, <1>5, <3>2
    <3> QED BY <3>1, <3>2
  <2> QED BY <1>4, <2>1, <2>2, <2>3 DEF Inv, TypeOK
<1>7. Ordered'
  <2>1. ASSUME NEW i \in 1 .. n PROVE pending[t][i].num < pkt.num
    <3>0. pending[t][i] \in PacketType
      BY <1>2, <2>1, ElementOfSeq
    <3>1. pending[t][i].num \in Nat /\ pending[t][i].num <= count[t]
      BY <1>2, <2>1, <3>0 DEF PacketType, Inv, TypeOK
    <3> QED BY <1>2, <3>1
  <2>2. ASSUME NEW i \in DOMAIN stream, stream[i].thr = t PROVE stream[i].num < pkt.num
    BY <1>2, <1>5, <2>2
  <2>3. \A i, j \in DOMAIN pending'[t] : i < j => pending'[t][i].num < pending'[t][j].num
    <3> SUFFICES ASSUME NEW i \in 1 .. n + 1, NEW j \in 1 .. n + 1, i < j
        PROVE  pending'[t][i].num < pending'[t][j].num
      BY <1>3
    <3>1. i \in 1 .. n /\ pending'[t][i] = pending[t][i]
      BY <1>2, <1>3
    <3>2. CASE j = n + 1
      BY <1>3, <2>1, <3>1, <3>2
    <3>3. CASE j \in 1 .. n
      BY <1>2, <1>3, <3>1, <3>3 DEF Inv, Ordered
    <3> QED BY <1>2, <3>2, <3>3
  <2>4. \A i \in DOMAIN stream, j \in DOMAIN pending'[t] :
          stream[i].thr = t => stream[i].num < pending'[t][j].num
    <3> SUFFICES ASSUME NEW i \in DOMAIN stream, NEW j \in 1 .. n + 1, stream[i].thr = t
        PROVE  stream[i].num < pending'[t][j].num
      BY <1>3
    <3>1. CASE j = n + 1
      BY <1>3, <2>2, <3>1
    <3>2. CASE j \in 1 .. n
      BY <1>2, <1>3, <3>2 DEF Inv, Ordered
    <3> QED BY <1>2, <3>1, <3>2
  <2> SUFFICES ASSUME NEW u \in Threads
      PROVE  /\ \A i, j \in DOMAIN pending'[u] :
                  i < j => pending'[u][i].num < pending'[u][j].num
             /\ \A i, j \in DOMAIN stream :
                  stream[i].thr = u /\ stream[j].thr = u /\ i < j
                    => stream[i].num < stream[j].num
             /\ \A i \in DOMAIN stream, j \in DOMAIN pending'[u] :
                  stream[i].thr = u => stream[i].num < pending'[u][j].num
    BY <1>4 DEF Ordered
  <2>5. CASE u = t
    BY <2>3, <2>4, <2>5 DEF Inv, Ordered
  <2>6. CASE u # t
    BY <1>4, <2>6 DEF Inv, Ordered
  <2> QED BY <2>5, <2>6
<1> QED BY <1>6, <1>7 DEF Inv

LEMMA InitInv == Init => Inv
<1> SUFFICES ASSUME Init PROVE Inv
  OBVIOUS
<1>1. DOMAIN <<>> = {}
  OBVIOUS
<1>2. TypeOK
  BY <1>1, EmptySeq DEF Init, TypeOK
<1>3. Ordered
  BY <1>1 DEF Init, Ordered
<1> QED BY <1>2, <1>3 DEF Inv

LEMMA StepInv == Inv /\ [Next]_vars => Inv'
<1> SUFFICES ASSUME Inv, [Next]_vars PROVE Inv'
  OBVIOUS
<1>1. ASSUME NEW t \in Threads, Finish(t) PROVE Inv'
  BY <1>1, FinishInv
<1>2. ASSUME NEW t \in Threads, Deliver(t) \/ Break(t) \/ Discard(t) PROVE Inv'
  BY <1>2, CutSteps, CutInv DEF Inv
<1>3. CASE BreakSync \/ UNCHANGED vars
  <2>1. UNCHANGED <<pending, count, stream>> /\ broken' \in BOOLEAN
    BY <1>3 DEF BreakSync, vars, Inv, TypeOK
  <2>2. TypeOK'
    BY <2>1 DEF Inv, TypeOK
  <2>3. Ordered'
    BY <2>1 DEF Inv, Ordered
  <2> QED BY <2>2, <2>3 DEF Inv
<1> QED BY <1>1, <1>2, <1>3 DEF Next

\* A thread's packets reach the stream in order and at most once.
THEOREM StreamOrder == Spec => []Ordered
<1>1. Inv => Ordered
  BY DEF Inv
<1> QED BY InitInv, StepInv, <1>1, PTL DEF Spec

-----------------------------------------------------------------------------
\* A packet cut from a line while nothing has failed is in the stream.
LEMMA CutLossless ==
  ASSUME TypeOK, Lossless, NEW t \in Threads, NEW m \in 1 .. Len(pending[t]), NEW extra,
         Cut(t, m, extra), ~broken' => Len(extra) = m /\ ~broken
  PROVE  Lossless'
<1> SUFFICES ASSUME ~broken', NEW u \in Threads, NEW n \in 1 .. count[u]
    PROVE  \/ \E i \in DOMAIN stream' : stream'[i].thr = u /\ stream'[i].num = n
           \/ \E i \in DOMAIN pending'[u] : pending'[u][i].num = n
  BY DEF Lossless, Reached, Cut
<1> DEFINE old == Len(stream)
           len == Len(pending[t])
<1>1. /\ pending[t] \in Seq(PacketType) /\ len \in Nat /\ DOMAIN pending[t] = 1 .. len
      /\ stream \in Seq(StreamType) /\ old \in Nat /\ DOMAIN stream = 1 .. old
      /\ extra \in Seq(StreamType) /\ Len(extra) = m /\ DOMAIN extra = 1 .. m
      /\ m \in Nat /\ m \in 1 .. len
  BY LenProperties DEF TypeOK, Cut
<1>2. /\ DOMAIN stream' = 1 .. old + m
      /\ \A i \in 1 .. old : stream'[i] = stream[i]
      /\ \A i \in old + 1 .. old + m : stream'[i] = extra[i - old]
  <2>1. stream' = stream \o extra
    BY DEF Cut
  <2>2. /\ Len(stream') = old + Len(extra)
        /\ stream' \in Seq(StreamType)
        /\ \A i \in 1 .. old : stream'[i] = stream[i]
        /\ \A i \in old + 1 .. old + Len(extra) : stream'[i] = extra[i - old]
    <3>1. /\ Len(stream \o extra) = old + Len(extra)
          /\ stream \o extra \in Seq(StreamType)
          /\ \A i \in 1 .. old + Len(extra) :
               (stream \o extra)[i] = IF i <= old THEN stream[i] ELSE extra[i - old]
      BY <1>1, ConcatProperties
    <3> QED BY <1>1, <2>1, <3>1
  <2>3. DOMAIN stream' = 1 .. old + Len(extra)
    BY <2>2, LenProperties
  <2> QED BY <1>1, <2>2, <2>3
<1>3. CASE \E i \in DOMAIN stream : stream[i].thr = u /\ stream[i].num = n
  BY <1>1, <1>2, <1>3
<1>4. CASE \E i \in DOMAIN pending[u] : pending[u][i].num = n
  <2>1. PICK i \in DOMAIN pending[u] : pending[u][i].num = n
    BY <1>4
  <2>2. CASE u # t
    <3>1. pending'[u] = pending[u]
      BY <2>2 DEF Cut, TypeOK
    <3> QED BY <2>1, <3>1
  <2>3. CASE u = t /\ i <= m
    <3>1. i \in 1 .. m /\ old + i \in 1 .. old + m /\ old + i \in old + 1 .. old + m
          /\ old + i - old = i
      BY <1>1, <2>1, <2>3
    <3>2. stream'[old + i] = extra[i]
      BY <1>2, <3>1
    <3>3. extra[i].thr = t /\ extra[i].num = n
      BY <1>1, <2>1, <2>3, <3>1 DEF Cut
    <3> QED BY <1>2, <2>3, <3>1, <3>2, <3>3
  <2>4. CASE u = t /\ i > m
    <3>1. pending'[t] = Drop(pending[t], m)
      BY DEF Cut, TypeOK
    <3>2. m \in 0 .. len
      BY <1>1
    <3>3. /\ Len(Drop(pending[t], m)) = len - m
          /\ Drop(pending[t], m) \in Seq(PacketType)
          /\ \A j \in 1 .. len - m : Drop(pending[t], m)[j] = pending[t][m + j]
      BY <1>1, <3>2, CutLine
    <3>4. DOMAIN Drop(pending[t], m) = 1 .. len - m
      BY <3>3, LenProperties
    <3>5. i - m \in 1 .. len - m /\ m + (i - m) = i
      BY <1>1, <2>1, <2>4
    <3>6. Drop(pending[t], m)[i - m] = pending[t][i]
      BY <3>3, <3>5
    <3> QED BY <2>1, <2>4, <3>1, <3>4, <3>5, <3>6
  <2> QED
    <3>1. i \in Int
      <4>1. i \in DOMAIN pending[u] /\ pending[u] \in Seq(PacketType)
        BY <2>1 DEF TypeOK
      <4> QED BY <4>1, LenProperties
    <3> QED BY <1>1, <2>2, <2>3, <2>4, <3>1
<1>5. Reached(u, n) \/ \E i \in DOMAIN pending[u] : pending[u][i].num = n
  BY DEF Lossless
<1> QED BY <1>3, <1>4, <1>5 DEF Reached

\* The packet just finished is the last of its thread's line.
LEMMA FinishLossless ==
  ASSUME TypeOK, Lossless, NEW t \in Threads, Finish(t)
  PROVE  Lossless'
<1>1. PICK s \in Sizes :
        pending' = [pending EXCEPT
                      ![t] = Append(@, [thr |-> t, num |-> count[t] + 1, size |-> s])]
  BY DEF Finish, TypeOK
<1> DEFINE pkt == [thr |-> t, num |-> count[t] + 1, size |-> s]
           len == Len(pending[t])
<1>2. /\ pending[t] \in Seq(PacketType) /\ len \in Nat /\ DOMAIN pending[t] = 1 .. len
      /\ count[t] \in Nat
  BY LenProperties DEF TypeOK
<1>3. /\ DOMAIN pending'[t] = 1 .. len + 1
      /\ \A i \in 1 .. len : pending'[t][i] = pending[t][i]
      /\ pending'[t][len + 1].num = count[t] + 1
  <2>1. pending'[t] = Append(pending[t], pkt)
    BY <1>1 DEF TypeOK
  <2>2. pkt \in PacketType
    BY <1>2 DEF PacketType
  <2>3. /\ Append(pending[t], pkt) \in Seq(PacketType)
        /\ Len(Append(pending[t], pkt)) = len + 1
        /\ \A i \in 1 .. len : Append(pending[t], pkt)[i] = pending[t][i]
        /\ Append(pending[t], pkt)[len + 1] = pkt
    BY <1>2, <2>2, AppendProperties
  <2>4. DOMAIN Append(pending[t], pkt) = 1 .. len + 1
    BY <2>3, LenProperties
  <2> QED BY <2>1, <2>3, <2>4
<1> SUFFICES ASSUME ~broken, NEW u \in Threads, NEW n \in 1 .. count'[u]
    PROVE  \/ \E i \in DOMAIN stream : stream[i].thr = u /\ stream[i].num = n
           \/ \E i \in DOMAIN pending'[u] : pending'[u][i].num = n
  BY DEF Lossless, Reached, Finish
<1>4. CASE n \in 1 .. count[u]
  <2>1. Reached(u, n) \/ \E i \in DOMAIN pending[u] : pending[u][i].num = n
    BY <1>4 DEF Lossless
  <2>2. CASE Reached(u, n)
    BY <2>2 DEF Reached
  <2>3. CASE \E i \in DOMAIN pending[u] : pending[u][i].num = n
    <3>1. CASE u = t
      BY <1>2, <1>3, <2>3, <3>1
    <3>2. CASE u # t
      <4>1. pending'[u] = pending[u]
        BY <1>1, <3>2 DEF TypeOK
      <4> QED BY <2>3, <4>1
    <3> QED BY <3>1, <3>2
  <2> QED BY <2>1, <2>2, <2>3
<1>5. CASE n \notin 1 .. count[u]
  <2>1. count' = [count EXCEPT ![t] = @ + 1] /\ count \in [Threads -> Nat]
    BY DEF Finish, TypeOK
  <2>2. u = t /\ n = count[t] + 1
    BY <1>2, <1>5, <2>1
  <2>3. len + 1 \in DOMAIN pending'[t]
    BY <1>2, <1>3
  <2> QED BY <1>3, <2>2, <2>3
<1> QED BY <1>4, <1>5

\* Until a write fails, what a thread has finished is in the stream or waits
\* in the thread's line.
THEOREM NoLoss == Spec => []Lossless
<1>1. Init => Inv /\ Lossless
  <2>1. Init => Lossless
    BY DEF Init, Lossless
  <2> QED BY <2>1, InitInv
<1>2. Inv /\ Lossless /\ [Next]_vars => (Inv /\ Lossless)'
  <2> SUFFICES ASSUME Inv, Lossless, [Next]_vars PROVE Lossless'
    BY StepInv
  <2>1. ASSUME NEW t \in Threads, Finish(t) PROVE Lossless'
    BY <2>1, FinishLossless DEF Inv
  <2>2. ASSUME NEW t \in Threads, Deliver(t) \/ Break(t) \/ Discard(t) PROVE Lossless'
    <3>0. PICK m \in 1 .. Len(pending[t]) : \E extra :
             /\ Cut(t, m, extra)
             /\ ~broken' => Len(extra) = m /\ ~broken
             /\ broken' \in BOOLEAN
      BY <2>2, CutSteps DEF Inv
    <3>1. PICK extra :
             /\ Cut(t, m, extra)
             /\ ~broken' => Len(extra) = m /\ ~broken
             /\ broken' \in BOOLEAN
      BY <3>0
    <3> QED BY <3>1, CutLossless DEF Inv
  <2>3. CASE BreakSync
    BY <2>3 DEF BreakSync, Lossless
  <2>4. CASE UNCHANGED vars
    BY <2>4 DEF vars, Lossless, Reached
  <2> QED BY <2>1, <2>2, <2>3, <2>4 DEF Next
<1> QED BY <1>1, <1>2, PTL DEF Spec
=============================================================================
