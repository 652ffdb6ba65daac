----------------------------- MODULE TraceStream -----------------------------
(***************************************************************************)
(* What the output pipeline promises, with no rings, locks or buffers: the *)
(* packets of a thread wait in the order the thread finished them, and the *)
(* trace takes them from the front of a thread's line, whole and adjacent. *)
(* A write may fail.  The trace then ends a batch early, possibly in a     *)
(* fragment of a packet, and from then on packets may be discarded.        *)
(***************************************************************************)
EXTENDS Integers, Sequences

CONSTANTS Threads,   \* the tracing threads
          Sizes      \* the sizes a packet may have, in bytes

VARIABLES pending,   \* pending[t]: finished packets of t not yet in the trace
          count,     \* packets each thread has finished, which number them
          stream,    \* the bytes given to the writer, packet by packet
          broken     \* a write has failed

vars == <<pending, count, stream, broken>>

\* The part of a packet that reached the writer before its write failed: a
\* packet of no size, since no whole packet is empty.
Fragment(pkt) == [pkt EXCEPT !.size = 0]

Front(s, k) == SubSeq(s, 1, k)
Drop(s, k)  == SubSeq(s, k + 1, Len(s))

Init == /\ pending = [t \in Threads |-> <<>>]
        /\ count = [t \in Threads |-> 0]
        /\ stream = <<>>
        /\ broken = FALSE

\* A thread finishes a packet.
Finish(t) ==
  /\ count' = [count EXCEPT ![t] = @ + 1]
  /\ \E s \in Sizes :
        pending' = [pending EXCEPT
                      ![t] = Append(@, [thr |-> t, num |-> count'[t], size |-> s])]
  /\ UNCHANGED <<stream, broken>>

\* The oldest packets of a thread reach the writer, adjacent and in order.
Deliver(t) ==
  /\ \E k \in 1 .. Len(pending[t]) :
        /\ stream' = stream \o Front(pending[t], k)
        /\ pending' = [pending EXCEPT ![t] = Drop(@, k)]
  /\ UNCHANGED <<count, broken>>

\* A write of the m oldest packets fails after k of them, perhaps inside the
\* next one; none of the m is written again.
Break(t) ==
  /\ \E m \in 1 .. Len(pending[t]) : \E k \in 0 .. m - 1 :
        /\ pending' = [pending EXCEPT ![t] = Drop(@, m)]
        /\ \/ stream' = stream \o Front(pending[t], k)
           \/ stream' = Append(stream \o Front(pending[t], k),
                               Fragment(pending[t][k + 1]))
  /\ broken' = TRUE
  /\ UNCHANGED count

\* Flushing the writer fails; no packet is involved.
BreakSync ==
  /\ broken' = TRUE
  /\ UNCHANGED <<pending, count, stream>>

\* Packets are lost only after a failure.
Discard(t) ==
  /\ broken
  /\ \E m \in 1 .. Len(pending[t]) :
        pending' = [pending EXCEPT ![t] = Drop(@, m)]
  /\ UNCHANGED <<count, stream, broken>>

Next == \/ \E t \in Threads : Finish(t) \/ Deliver(t) \/ Break(t) \/ Discard(t)
        \/ BreakSync

Spec == Init /\ [][Next]_vars

-----------------------------------------------------------------------------
PacketType == [thr : Threads, num : Nat, size : Sizes]
StreamType == [thr : Threads, num : Nat, size : Sizes \cup {0}]

\* A waiting packet is a whole packet of its thread, numbered so far.
TypeOK ==
  /\ pending \in [Threads -> Seq(PacketType)]
  /\ count \in [Threads -> Nat]
  /\ stream \in Seq(StreamType)
  /\ broken \in BOOLEAN
  /\ \A t \in Threads : \A i \in DOMAIN pending[t] :
       pending[t][i].thr = t /\ pending[t][i].num <= count[t]
  /\ \A i \in DOMAIN stream : stream[i].num <= count[stream[i].thr]

\* The stream and then the line of a thread, read in this order, carry the
\* thread's packets in increasing order, so none appears twice.
Ordered ==
  \A t \in Threads :
    /\ \A i, j \in DOMAIN pending[t] : i < j => pending[t][i].num < pending[t][j].num
    /\ \A i, j \in DOMAIN stream :
         stream[i].thr = t /\ stream[j].thr = t /\ i < j => stream[i].num < stream[j].num
    /\ \A i \in DOMAIN stream, j \in DOMAIN pending[t] :
         stream[i].thr = t => stream[i].num < pending[t][j].num

\* The n-th packet of t has reached the stream.
Reached(t, n) == \E i \in DOMAIN stream : stream[i].thr = t /\ stream[i].num = n

\* Until something fails, every finished packet is in the stream or waits.
Lossless ==
  ~broken =>
    \A t \in Threads : \A n \in 1 .. count[t] :
      Reached(t, n) \/ \E i \in DOMAIN pending[t] : pending[t][i].num = n
=============================================================================
