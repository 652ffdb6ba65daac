----------------------------- MODULE Output_proofs -----------------------------
(***************************************************************************)
(* Proofs about Output for any number of threads, flushers, packets,       *)
(* flushes and failures and any ring size.  First the types, locks and     *)
(* reserved chunks; then that the pipeline implements the abstract trace   *)
(* stream, and so inherits what the stream promises; that the error cell   *)
(* of record_error is written once; that a flush, a thread's exit and the  *)
(* end of Inner bring what they owe into the trace; and that one write at  *)
(* most follows an error.                                                  *)
(***************************************************************************)
EXTENDS Output, SequenceTheorems, TLAPS

\* Where a process can be in each operation, and what its buffer is there.
ControlInv ==
  /\ \A p \in Procs : pc[p] \in DrainLabels \ {"record"} => target[p] \in Threads
  /\ \A p \in Procs : pc[p] = "callback" \/ op[p] \in {"emit", "exit"} => p \in Threads
  /\ \A p \in Procs : op[p] = "emit" /\ pc[p] # "callback" =>
                        pc[p] \in DrainLabels /\ target[p] = p
  /\ \A t \in Threads : trailing[t] # <<>> =>
       op[t] = "emit" /\ pc[t] \in {"lockConsumer", "lockWriter", "slots", "writeChunk",
                                    "trailing", "writeTrailing"}
  /\ \A t \in Threads : Len(trailing[t]) <= 1
  /\ \A p \in Procs : pc[p] = "writeTrailing" => op[p] = "emit" /\ trailing[p] # <<>>

IInv == TypeOK /\ ControlInv /\ DrainInv


USE DEF Procs, Labels, DrainLabels, Operations

-----------------------------------------------------------------------------
(* Types.                                                                   *)

LEMMA InitType == Init => TypeOK
<1> SUFFICES ASSUME Init PROVE TypeOK
  OBVIOUS
<1>1. ControlType
  BY EmptySeq, OutputAssumption DEF Init, ControlType
<1>2. QueueType
  BY OutputAssumption DEF Init, QueueType
<1>3. SharedType
  <2>1. registry \in Seq(Threads)
    BY EmptySeq DEF Init
  <2>2. strong \subseteq {"layer", "guard"} \cup Threads
    BY DEF Init
  <2>3. consumerLock \in [Threads -> Procs \cup {None}] /\ writerLock \in Procs \cup {None}
    BY DEF Init
  <2>4. hasError \in BOOLEAN /\ error \in 0 .. MaxFailures
    <3>1. hasError \in BOOLEAN
      BY DEF Init
    <3>2. error \in 0 .. MaxFailures
      BY OutputAssumption DEF Init
    <3> QED BY <3>1, <3>2
  <2> QED
    BY <2>1, <2>2, <2>3, <2>4 DEF SharedType
<1>4. HistoryType /\ RegisteredOnce
  BY OutputAssumption DEF Init, HistoryType, RegisteredOnce
<1> QED BY <1>1, <1>2, <1>3, <1>4 DEF TypeOK

LEMMA ThreadType ==
  ASSUME IInv, NEW t \in Threads, Acquire(t) \/ Emit(t) \/ Release(t) \/ Exit(t)
  PROVE  TypeOK'
<1>1. CASE Acquire(t)
  <2>1. ControlType'
    BY <1>1, OutputAssumption DEF IInv, TypeOK, ControlType, Acquire, Goto, control
  <2>2. SharedType'
    BY <1>1, OutputAssumption DEF IInv, TypeOK, SharedType, Acquire, Register, locks, errors
  <2>3. RegisteredOnce'
    BY <1>1, OutputAssumption DEF IInv, TypeOK, RegisteredOnce, Acquire, Register, ToSet, SharedType
  <2>4. QueueType' /\ HistoryType'
    BY <1>1 DEF IInv, TypeOK, QueueType, HistoryType, Acquire, control, locks, errors, calls
  <2> QED BY <2>1, <2>2, <2>3, <2>4 DEF TypeOK
<1>2. ASSUME NEW s \in Sizes, Push(t, s) \/ Overflow(t, s) PROVE TypeOK'
  <2>1. Packet(t, s) \in PacketType
    BY <1>2, OutputAssumption DEF IInv, TypeOK, QueueType, Push, Overflow, Packet, PacketType
  <2>2. ControlType'
    <3>1. CASE Push(t, s)
      BY <3>1 DEF IInv, TypeOK, ControlType, Push, control
    <3>2. CASE Overflow(t, s)
      BY <3>2 DEF IInv, TypeOK, ControlType, Overflow, Begin, Goto
    <3> QED BY <1>2, <3>1, <3>2
  <2>3. CASE Push(t, s)
    <3>1. QueueType'
      BY <2>1, <2>3, OutputAssumption DEF IInv, TypeOK, QueueType, Push
    <3>2. SharedType' /\ HistoryType' /\ RegisteredOnce'
      BY <2>3 DEF IInv, TypeOK, SharedType, HistoryType, RegisteredOnce, Push, locks, errors, calls
    <3> QED BY <2>2, <3>1, <3>2 DEF TypeOK
  <2>4. CASE Overflow(t, s)
    <3>1. QueueType'
      BY <2>1, <2>4, OutputAssumption DEF IInv, TypeOK, QueueType, Overflow
    <3>2. SharedType' /\ HistoryType' /\ RegisteredOnce'
      BY <2>4 DEF IInv, TypeOK, SharedType, HistoryType, RegisteredOnce, Overflow, locks, errors, calls
    <3> QED BY <2>2, <3>1, <3>2 DEF TypeOK
  <2> QED BY <1>2, <2>3, <2>4
<1>3. CASE Release(t)
  <2>1. ControlType'
    BY <1>3, OutputAssumption DEF IInv, TypeOK, ControlType, Release, Begin, Goto
  <2>2. QueueType' /\ SharedType' /\ HistoryType' /\ RegisteredOnce'
    BY <1>3 DEF IInv, TypeOK, QueueType, SharedType, HistoryType, RegisteredOnce, Release, control, locks, errors, calls
  <2> QED BY <2>1, <2>2 DEF TypeOK
<1>4. CASE Exit(t)
  <2>1. ControlType'
    <3>1. UNCHANGED <<todo, avail, err>>
      BY <1>4 DEF Exit
    <3>2. CASE DrainsOnExit(t)
      <4>1. /\ pc' = [pc EXCEPT ![t] = "lockConsumer"]
            /\ op' = [op EXCEPT ![t] = "exit"]
            /\ target' = [target EXCEPT ![t] = t]
        BY <1>4, <3>2 DEF Exit, Begin, Goto
      <4> QED BY <3>1, <4>1 DEF IInv, TypeOK, ControlType
    <3>3. CASE ~DrainsOnExit(t)
      <4>1. pc' = [pc EXCEPT ![t] = "gone"] /\ UNCHANGED <<op, target>>
        BY <1>4, <3>3 DEF Exit, Goto
      <4> QED BY <3>1, <4>1 DEF IInv, TypeOK, ControlType
    <3> QED BY <3>2, <3>3
  <2>2. SharedType'
    <3>1. strong' \in {strong, strong \cup {t}} /\ UNCHANGED <<registry, locks, errors>>
      BY <1>4 DEF Exit
    <3> QED BY <3>1 DEF IInv, TypeOK, SharedType, locks, errors
  <2>3. QueueType' /\ HistoryType' /\ RegisteredOnce'
    BY <1>4 DEF IInv, TypeOK, QueueType, HistoryType, RegisteredOnce, Exit, control, locks, errors, calls
  <2> QED BY <2>1, <2>2, <2>3 DEF TypeOK
<1> QED BY <1>1, <1>2, <1>3, <1>4 DEF Emit

LEMMA ResumeType ==
  ASSUME IInv, NEW p \in Procs
  PROVE  /\ Resume(p) \in {"callback", "unref", "result", "next"}
         /\ Resume(p) = "callback" <=> op[p] = "emit"
  BY DEF Resume

\* What a step of the writer appends is a packet or a fragment of one.
LEMMA ChunkType ==
  ASSUME NEW s \in Seq(PacketType), NEW k \in 0 .. Len(s)
  PROVE  /\ TS!Front(s, k) \in Seq(PacketType)
         /\ Len(TS!Front(s, k)) = k
         /\ \A i \in 1 .. k : TS!Front(s, k)[i] = s[i]
         /\ TS!Drop(s, k) \in Seq(PacketType)
         /\ Len(TS!Drop(s, k)) = Len(s) - k
         /\ \A i \in 1 .. Len(s) - k : TS!Drop(s, k)[i] = s[k + i]
<1>1. /\ TS!Front(s, k) \in Seq(PacketType)
      /\ Len(TS!Front(s, k)) = k
      /\ \A i \in 1 .. k : TS!Front(s, k)[i] = s[i]
  BY SubSeqProperties DEF TS!Front
<1>2. /\ TS!Drop(s, k) \in Seq(PacketType)
      /\ Len(TS!Drop(s, k)) = Len(s) - k
      /\ \A i \in 1 .. Len(s) - k : TS!Drop(s, k)[i] = s[k + i]
  BY SubSeqProperties DEF TS!Drop
<1> QED BY <1>1, <1>2

LEMMA FragmentType ==
  ASSUME NEW pkt \in PacketType
  PROVE  TS!Fragment(pkt) \in OutputType
  BY DEF TS!Fragment, PacketType, OutputType

LEMMA PacketsAreOutput == Seq(PacketType) \subseteq Seq(OutputType)
<1>1. PacketType \subseteq OutputType
  BY DEF PacketType, OutputType
<1> QED BY <1>1, SeqMonotonic

LEMMA DrainType ==
  ASSUME IInv, NEW p \in Procs, DrainStep(p)
  PROVE  TypeOK'
<1>1. CASE LockConsumer(p)
  <2>1. ControlType'
    BY <1>1, OutputAssumption DEF IInv, TypeOK, ControlType, LockConsumer, Goto, DrainFrame
  <2>2. SharedType'
    BY <1>1, OutputAssumption DEF IInv, TypeOK, SharedType, LockConsumer, DrainFrame, errors
  <2>3. QueueType' /\ HistoryType' /\ RegisteredOnce'
    BY <1>1 DEF IInv, TypeOK, QueueType, HistoryType, RegisteredOnce, LockConsumer, DrainFrame, locks, errors, calls
  <2> QED BY <2>1, <2>2, <2>3 DEF TypeOK
<1>2. CASE LockWriter(p)
  <2>1. ControlType'
    BY <1>2, OutputAssumption DEF IInv, TypeOK, ControlType, LockWriter, Goto, DrainFrame
  <2>2. SharedType'
    BY <1>2, OutputAssumption DEF IInv, TypeOK, SharedType, LockWriter, DrainFrame, errors
  <2>3. QueueType' /\ HistoryType' /\ RegisteredOnce'
    BY <1>2 DEF IInv, TypeOK, QueueType, HistoryType, RegisteredOnce, LockWriter, DrainFrame, locks, errors, calls
  <2> QED BY <2>1, <2>2, <2>3 DEF TypeOK
<1>3. CASE ReadSlots(p)
  <2>0. Buf(p) \in Threads
    BY <1>3 DEF IInv, ControlInv, Buf, ReadSlots
  <2>a. Len(ring[Buf(p)]) \in Nat
    BY <2>0, LenProperties DEF IInv, TypeOK, QueueType
  <2>b. avail' \in [Procs -> Nat]
    BY <1>3, <2>a DEF IInv, TypeOK, ControlType, ReadSlots
  <2>c. pc' \in [Procs -> Labels]
    BY <1>3 DEF IInv, TypeOK, ControlType, ReadSlots, Goto
  <2>d. ring' \in [Threads -> Seq(PacketType)]
    <3>1. CASE UNCHANGED ring
      BY <3>1 DEF IInv, TypeOK, QueueType
    <3>2. CASE ring' = [ring EXCEPT ![Buf(p)] = <<>>]
      BY <2>0, <3>2, EmptySeq DEF IInv, TypeOK, QueueType
    <3> QED BY <1>3, <3>1, <3>2 DEF ReadSlots
  <2>1. ControlType'
    BY <1>3, <2>b, <2>c, OutputAssumption DEF IInv, TypeOK, ControlType, ReadSlots, DrainFrame
  <2>2. QueueType'
    BY <1>3, <2>d, OutputAssumption DEF IInv, TypeOK, QueueType, ReadSlots, DrainFrame
  <2>3. SharedType' /\ HistoryType' /\ RegisteredOnce'
    BY <1>3 DEF IInv, TypeOK, SharedType, HistoryType, RegisteredOnce, ReadSlots, DrainFrame, locks, errors, calls
  <2> QED BY <2>1, <2>2, <2>3 DEF TypeOK
<1>4. CASE WriteChunk(p)
  <2>0. Buf(p) \in Threads
    BY <1>4 DEF IInv, ControlInv, Buf, WriteChunk
  <2>a. avail[p] \in 0 .. Len(ring[Buf(p)]) /\ ring[Buf(p)] \in Seq(PacketType)
    BY <1>4, <2>0 DEF IInv, DrainInv, ChunkInv, TypeOK, QueueType, Buf, WriteChunk
  <2>b. ring' \in [Threads -> Seq(PacketType)]
    BY <1>4, <2>0, <2>a, ChunkType DEF IInv, TypeOK, QueueType, WriteChunk, CommitChunk
  <2>c. output' \in Seq(OutputType)
    <3>1. TS!Front(ring[Buf(p)], avail[p]) \in Seq(OutputType)
      BY <2>a, ChunkType, PacketsAreOutput
    <3> QED BY <1>4, <3>1, ConcatProperties DEF IInv, TypeOK, QueueType, WriteChunk
  <2>1. ControlType'
    BY <1>4, OutputAssumption DEF IInv, TypeOK, ControlType, WriteChunk, Goto, DrainFrame
  <2>2. QueueType'
    BY <1>4, <2>b, <2>c, OutputAssumption DEF IInv, TypeOK, QueueType, WriteChunk, DrainFrame
  <2>3. HistoryType'
    BY <1>4, OutputAssumption DEF IInv, TypeOK, HistoryType, WriteChunk, CountLate, DrainFrame, calls
  <2>4. SharedType' /\ RegisteredOnce'
    BY <1>4 DEF IInv, TypeOK, SharedType, RegisteredOnce, WriteChunk, DrainFrame, locks, errors, calls
  <2> QED BY <2>1, <2>2, <2>3, <2>4 DEF TypeOK
<1>5. CASE FailChunk(p)
  <2>0. Buf(p) \in Threads
    BY <1>5 DEF IInv, ControlInv, Buf, FailChunk
  <2>a. avail[p] \in 0 .. Len(ring[Buf(p)]) /\ ring[Buf(p)] \in Seq(PacketType)
    BY <1>5, <2>0 DEF IInv, DrainInv, ChunkInv, TypeOK, QueueType, Buf, FailChunk
  <2>b. ring' \in [Threads -> Seq(PacketType)]
    BY <1>5, <2>0, <2>a, ChunkType DEF IInv, TypeOK, QueueType, FailChunk, CommitChunk
  <2>c. output' \in Seq(OutputType)
    <3>1. PICK k \in 0 .. avail[p] - 1 :
            \/ output' = output \o TS!Front(ring[Buf(p)], k)
            \/ output' = Append(output \o TS!Front(ring[Buf(p)], k),
                                TS!Fragment(ring[Buf(p)][k + 1]))
      BY <1>5 DEF FailChunk
    <3>2. k \in 0 .. Len(ring[Buf(p)]) /\ k + 1 \in 1 .. Len(ring[Buf(p)])
      BY <2>a
    <3>3. TS!Front(ring[Buf(p)], k) \in Seq(OutputType)
      BY <2>a, <3>2, ChunkType, PacketsAreOutput
    <3>4. output \o TS!Front(ring[Buf(p)], k) \in Seq(OutputType)
      BY <3>3, ConcatProperties DEF IInv, TypeOK, QueueType
    <3>5. TS!Fragment(ring[Buf(p)][k + 1]) \in OutputType
      BY <2>a, <3>2, FragmentType
    <3>6. Append(output \o TS!Front(ring[Buf(p)], k), TS!Fragment(ring[Buf(p)][k + 1]))
            \in Seq(OutputType)
      BY <3>4, <3>5, AppendProperties
    <3> QED BY <3>1, <3>4, <3>6
  <2>1. ControlType'
    BY <1>5, OutputAssumption DEF IInv, TypeOK, ControlType, FailChunk, Goto, DrainFrame, Fail, HistoryType
  <2>2. QueueType'
    BY <1>5, <2>b, <2>c, OutputAssumption DEF IInv, TypeOK, QueueType, FailChunk, DrainFrame
  <2>3. HistoryType'
    BY <1>5, OutputAssumption DEF IInv, TypeOK, HistoryType, FailChunk, Fail, CountLate, DrainFrame, calls
  <2>4. SharedType' /\ RegisteredOnce'
    BY <1>5 DEF IInv, TypeOK, SharedType, RegisteredOnce, FailChunk, DrainFrame, locks, errors, calls
  <2> QED BY <2>1, <2>2, <2>3, <2>4 DEF TypeOK
<1>6. CASE CheckTrailing(p)
  <2>b. trailing' \in [Threads -> Seq(PacketType)]
    BY <1>6, EmptySeq DEF IInv, TypeOK, QueueType, CheckTrailing, ClearTrailing
  <2>1. ControlType'
    BY <1>6, OutputAssumption DEF IInv, TypeOK, ControlType, CheckTrailing, Goto, DrainFrame
  <2>2. QueueType'
    BY <1>6, <2>b, OutputAssumption DEF IInv, TypeOK, QueueType, CheckTrailing, DrainFrame
  <2>3. SharedType' /\ HistoryType' /\ RegisteredOnce'
    BY <1>6 DEF IInv, TypeOK, SharedType, HistoryType, RegisteredOnce, CheckTrailing, DrainFrame, locks, errors, calls
  <2> QED BY <2>1, <2>2, <2>3 DEF TypeOK
<1>7. CASE WriteTrailing(p)
  <2>b. trailing' \in [Threads -> Seq(PacketType)]
    BY <1>7, EmptySeq DEF IInv, TypeOK, QueueType, WriteTrailing, ClearTrailing
  <2>c. output' \in Seq(OutputType)
    <3>1. Trailing(p) \in Seq(OutputType)
      BY <1>7, PacketsAreOutput, EmptySeq
         DEF IInv, TypeOK, QueueType, ControlInv, Trailing, WriteTrailing
    <3> QED BY <1>7, <3>1, ConcatProperties DEF IInv, TypeOK, QueueType, WriteTrailing
  <2>1. ControlType'
    BY <1>7, OutputAssumption DEF IInv, TypeOK, ControlType, WriteTrailing, Goto, DrainFrame
  <2>2. QueueType'
    BY <1>7, <2>b, <2>c, OutputAssumption DEF IInv, TypeOK, QueueType, WriteTrailing, DrainFrame
  <2>3. HistoryType'
    BY <1>7, OutputAssumption DEF IInv, TypeOK, HistoryType, WriteTrailing, CountLate, DrainFrame, calls
  <2>4. SharedType' /\ RegisteredOnce'
    BY <1>7 DEF IInv, TypeOK, SharedType, RegisteredOnce, WriteTrailing, DrainFrame, locks, errors, calls
  <2> QED BY <2>1, <2>2, <2>3, <2>4 DEF TypeOK
<1>8. CASE FailTrailing(p)
  <2>b. trailing' \in [Threads -> Seq(PacketType)]
    BY <1>8, EmptySeq DEF IInv, TypeOK, QueueType, FailTrailing, ClearTrailing
  <2>c. output' \in Seq(OutputType)
    <3>1. Trailing(p) = trailing[p] /\ trailing[p] \in Seq(PacketType) /\ Len(trailing[p]) # 0
      BY <1>8, EmptySeq DEF IInv, TypeOK, QueueType, ControlInv, Trailing, FailTrailing
    <3>2. Trailing(p)[1] \in PacketType
      BY <3>1
    <3>3. TS!Fragment(Trailing(p)[1]) \in OutputType
      BY <3>2, FragmentType
    <3>4. output \in Seq(OutputType)
      BY DEF IInv, TypeOK, QueueType
    <3>5. Append(output, TS!Fragment(Trailing(p)[1])) \in Seq(OutputType)
      BY <3>3, <3>4, AppendProperties
    <3> QED BY <1>8, <3>4, <3>5 DEF FailTrailing
  <2>1. ControlType'
    BY <1>8, OutputAssumption DEF IInv, TypeOK, ControlType, FailTrailing, Goto, DrainFrame, Fail, HistoryType
  <2>2. QueueType'
    BY <1>8, <2>b, <2>c, OutputAssumption DEF IInv, TypeOK, QueueType, FailTrailing, DrainFrame
  <2>3. HistoryType'
    BY <1>8, OutputAssumption DEF IInv, TypeOK, HistoryType, FailTrailing, Fail, CountLate, DrainFrame, calls
  <2>4. SharedType' /\ RegisteredOnce'
    BY <1>8 DEF IInv, TypeOK, SharedType, RegisteredOnce, FailTrailing, DrainFrame, locks, errors, calls
  <2> QED BY <2>1, <2>2, <2>3, <2>4 DEF TypeOK
<1>9. CASE UnlockWriter(p)
  <2>1. ControlType'
    BY <1>9, OutputAssumption DEF IInv, TypeOK, ControlType, UnlockWriter, Goto, DrainFrame
  <2>2. SharedType'
    BY <1>9, OutputAssumption DEF IInv, TypeOK, SharedType, UnlockWriter, DrainFrame, errors
  <2>3. QueueType' /\ HistoryType' /\ RegisteredOnce'
    BY <1>9 DEF IInv, TypeOK, QueueType, HistoryType, RegisteredOnce, UnlockWriter, DrainFrame, locks, errors, calls
  <2> QED BY <2>1, <2>2, <2>3 DEF TypeOK
<1>10. CASE UnlockConsumer(p)
  <2>1. ControlType'
    BY <1>10, ResumeType, OutputAssumption DEF IInv, TypeOK, ControlType, UnlockConsumer, Goto, DrainFrame
  <2>2. SharedType'
    BY <1>10, OutputAssumption DEF IInv, TypeOK, SharedType, UnlockConsumer, DrainFrame, errors
  <2>3. QueueType' /\ HistoryType' /\ RegisteredOnce'
    BY <1>10 DEF IInv, TypeOK, QueueType, HistoryType, RegisteredOnce, UnlockConsumer, DrainFrame, locks, errors, calls
  <2> QED BY <2>1, <2>2, <2>3 DEF TypeOK
<1>11. CASE RecordError(p)
  <2>1. ControlType'
    BY <1>11, ResumeType, OutputAssumption DEF IInv, TypeOK, ControlType, RecordError, Goto, DrainFrame
  <2>2. SharedType'
    BY <1>11, OutputAssumption DEF IInv, TypeOK, SharedType, RecordError, FirstError, ControlType, DrainFrame, locks
  <2>3. QueueType' /\ HistoryType' /\ RegisteredOnce'
    BY <1>11 DEF IInv, TypeOK, QueueType, HistoryType, RegisteredOnce, RecordError, DrainFrame, locks, errors, calls
  <2> QED BY <2>1, <2>2, <2>3 DEF TypeOK
<1> QED BY <1>1, <1>2, <1>3, <1>4, <1>5, <1>6, <1>7, <1>8, <1>9, <1>10, <1>11 DEF DrainStep

LEMMA OwnerType ==
  ASSUME IInv, NEW f \in Flushers, Flush(f) \/ DropGuard(f) \/ DropLayer(f)
  PROVE  TypeOK'
<1>1. CASE Flush(f)
  <2>0. \A t \in Threads : Finished(t) \in Int
    BY LenProperties DEF IInv, TypeOK, QueueType, Finished
  <2>1. ControlType'
    BY <1>1, OutputAssumption DEF IInv, TypeOK, ControlType, Flush, Begin, Goto
  <2>2. HistoryType'
    BY <1>1, <2>0, OutputAssumption DEF IInv, TypeOK, HistoryType, Flush, FlushFrame
  <2>3. QueueType' /\ SharedType' /\ RegisteredOnce'
    BY <1>1 DEF IInv, TypeOK, QueueType, SharedType, RegisteredOnce, Flush, FlushFrame, locks, errors, calls
  <2> QED BY <2>1, <2>2, <2>3 DEF TypeOK
<1>2. CASE DropGuard(f)
  <2>1. ControlType'
    BY <1>2, OutputAssumption DEF IInv, TypeOK, ControlType, DropGuard, Begin, Goto
  <2>2. QueueType' /\ SharedType' /\ HistoryType' /\ RegisteredOnce'
    BY <1>2 DEF IInv, TypeOK, QueueType, SharedType, HistoryType, RegisteredOnce, DropGuard, FlushFrame, locks, errors, calls
  <2> QED BY <2>1, <2>2 DEF TypeOK
<1>3. CASE DropLayer(f)
  <2>1. ControlType'
    BY <1>3, OutputAssumption DEF IInv, TypeOK, ControlType, DropLayer, Begin, Goto
  <2>2. SharedType'
    BY <1>3, OutputAssumption DEF IInv, TypeOK, SharedType, DropLayer, FlushFrame, errors
  <2>3. QueueType' /\ HistoryType' /\ RegisteredOnce'
    BY <1>3 DEF IInv, TypeOK, QueueType, HistoryType, RegisteredOnce, DropLayer, FlushFrame, locks, errors, calls
  <2> QED BY <2>1, <2>2, <2>3 DEF TypeOK
<1> QED BY <1>1, <1>2, <1>3

LEMMA FlushType ==
  ASSUME IInv, NEW p \in Procs, FlushStep(p)
  PROVE  TypeOK'
<1>1. CASE CloneRegistry(p)
  <2>1. ControlType'
    BY <1>1, OutputAssumption DEF IInv, TypeOK, ControlType, CloneRegistry, Buffers, SharedType, Goto
  <2>2. QueueType' /\ SharedType' /\ HistoryType' /\ RegisteredOnce'
    BY <1>1 DEF IInv, TypeOK, QueueType, SharedType, HistoryType, RegisteredOnce, CloneRegistry, FlushFrame, locks, errors, calls
  <2> QED BY <2>1, <2>2 DEF TypeOK
<1>2. CASE NextBuffer(p)
  <2>1. ControlType'
    BY <1>2, HeadTailProperties, OutputAssumption DEF IInv, TypeOK, ControlType, NextBuffer, Goto
  <2>2. QueueType' /\ SharedType' /\ HistoryType' /\ RegisteredOnce'
    BY <1>2 DEF IInv, TypeOK, QueueType, SharedType, HistoryType, RegisteredOnce, NextBuffer, FlushFrame, locks, errors, calls
  <2> QED BY <2>1, <2>2 DEF TypeOK
<1>3. CASE SyncWriter(p)
  <2>a. pc' \in [Procs -> Labels] /\ err' \in [Procs -> 0 .. MaxFailures]
    <3>1. CASE Goto(p, "result") /\ UNCHANGED <<err, failures>>
      BY <3>1 DEF IInv, TypeOK, ControlType, Goto
    <3>2. CASE Goto(p, "record") /\ Fail(p)
      BY <3>2, OutputAssumption DEF IInv, TypeOK, ControlType, HistoryType, Goto, Fail
    <3> QED BY <1>3, <3>1, <3>2 DEF SyncWriter
  <2>1. ControlType'
    BY <1>3, <2>a, OutputAssumption DEF IInv, TypeOK, ControlType, SyncWriter, FlushFrame
  <2>2. HistoryType'
    BY <1>3, OutputAssumption DEF IInv, TypeOK, HistoryType, SyncWriter, Fail, FlushFrame, calls
  <2>3. QueueType' /\ SharedType' /\ RegisteredOnce'
    BY <1>3 DEF IInv, TypeOK, QueueType, SharedType, RegisteredOnce, SyncWriter, FlushFrame, locks, errors, calls
  <2> QED BY <2>1, <2>2, <2>3 DEF TypeOK
<1>4. CASE FlushResult(p)
  <2>1. ControlType'
    <3>1. PICK l \in {"idle", "unref", "gone"} : pc' = [pc EXCEPT ![p] = l]
      BY <1>4 DEF FlushResult, Goto
    <3>2. PICK o \in Operations : op' = [op EXCEPT ![p] = o]
      BY <1>4 DEF IInv, TypeOK, ControlType, FlushResult
    <3>3. UNCHANGED <<target, todo, avail, err>>
      BY <1>4 DEF FlushResult
    <3> QED BY <3>1, <3>2, <3>3 DEF IInv, TypeOK, ControlType
  <2>2. HistoryType'
    BY <1>4, OutputAssumption DEF IInv, TypeOK, HistoryType, FlushResult, Forget, FlushFrame
  <2>3. QueueType' /\ SharedType' /\ RegisteredOnce'
    BY <1>4 DEF IInv, TypeOK, QueueType, SharedType, RegisteredOnce, FlushResult, FlushFrame, locks, errors, calls
  <2> QED BY <2>1, <2>2, <2>3 DEF TypeOK
<1>5. CASE Unref(p)
  <2>1. ControlType'
    <3>1. PICK o \in {"dropInner", "none"}, l \in {"clone", "gone", "idle"} :
            Begin(p, o, l, None)
      BY <1>5 DEF Unref
    <3>2. UNCHANGED <<todo, avail, err>>
      BY <1>5 DEF Unref
    <3> QED BY <3>1, <3>2 DEF IInv, TypeOK, ControlType, Begin, Goto
  <2>2. SharedType'
    BY <1>5, OutputAssumption DEF IInv, TypeOK, SharedType, Unref, FlushFrame, errors
  <2>3. QueueType' /\ HistoryType' /\ RegisteredOnce'
    BY <1>5 DEF IInv, TypeOK, QueueType, HistoryType, RegisteredOnce, Unref, FlushFrame, locks, errors, calls
  <2> QED BY <2>1, <2>2, <2>3 DEF TypeOK
<1> QED BY <1>1, <1>2, <1>3, <1>4, <1>5 DEF FlushStep

-----------------------------------------------------------------------------
(* Control and locks.                                                       *)

LEMMA ControlThread ==
  ASSUME IInv, NEW t \in Threads, Acquire(t) \/ Emit(t) \/ Release(t) \/ Exit(t)
  PROVE  ControlInv'
<1>1. CASE Acquire(t)
  BY <1>1, OutputAssumption
     DEF IInv, TypeOK, ControlType, ControlInv, QueueType, Acquire, Goto, control
<1>2. CASE Release(t)
  BY <1>2, OutputAssumption
     DEF IInv, TypeOK, ControlType, ControlInv, QueueType, Release, Begin, Goto
<1>3. CASE Exit(t)
  <2>1. CASE DrainsOnExit(t)
    <3>1. Begin(t, "exit", "lockConsumer", t) /\ UNCHANGED trailing /\ pc[t] = "idle"
      BY <1>3, <2>1 DEF Exit
    <3> QED BY <3>1 DEF IInv, TypeOK, ControlType, ControlInv, QueueType, Begin, Goto
  <2>2. CASE ~DrainsOnExit(t)
    <3>1. Goto(t, "gone") /\ UNCHANGED <<op, target, trailing>> /\ pc[t] = "idle"
      BY <1>3, <2>2 DEF Exit
    <3> QED BY <3>1 DEF IInv, TypeOK, ControlType, ControlInv, QueueType, Goto
  <2> QED BY <2>1, <2>2
<1>4. ASSUME NEW s \in Sizes, Push(t, s) \/ Overflow(t, s) PROVE ControlInv'
  <2>1. CASE Push(t, s)
    BY <2>1, OutputAssumption
       DEF IInv, TypeOK, ControlType, ControlInv, QueueType, Push, control
  <2>2. CASE Overflow(t, s)
    BY <2>2, OutputAssumption
       DEF IInv, TypeOK, ControlType, ControlInv, QueueType, Overflow, Begin, Goto
  <2> QED BY <1>4, <2>1, <2>2
<1> QED BY <1>1, <1>2, <1>3, <1>4 DEF Emit

\* The trailing packet of a drain has been dealt with.
LEMMA TrailingDone ==
  ASSUME IInv, NEW p \in Procs, pc[p] \in {"trailing", "writeTrailing"},
         pc' = [pc EXCEPT ![p] = "unlockWriter"], UNCHANGED <<op, target>>,
         ClearTrailing(p), op[p] = "emit"
  PROVE  ControlInv'
<1>1. op[p] = "emit" /\ p \in Threads
  BY DEF IInv, ControlInv
<1>2. trailing' = [trailing EXCEPT ![p] = <<>>]
  BY <1>1 DEF ClearTrailing
<1>3. /\ pc \in [Procs -> Labels] /\ trailing \in [Threads -> Seq(PacketType)]
      /\ Len(<<>>) = 0
  BY EmptySeq DEF IInv, TypeOK, ControlType, QueueType
<1>4. \A q \in Procs : pc'[q] = IF q = p THEN "unlockWriter" ELSE pc[q]
  BY <1>3
<1>5. \A t \in Threads : trailing'[t] = IF t = p THEN <<>> ELSE trailing[t]
  BY <1>2, <1>3
<1>6. /\ \A q \in Procs : pc'[q] \in DrainLabels \ {"record"} => target'[q] \in Threads
      /\ \A q \in Procs : pc'[q] = "callback" \/ op'[q] \in {"emit", "exit"} => q \in Threads
      /\ \A q \in Procs : op'[q] = "emit" /\ pc'[q] # "callback" =>
                            pc'[q] \in DrainLabels /\ target'[q] = q
  BY <1>4 DEF IInv, ControlInv
<1>7. \A t \in Threads : trailing'[t] # <<>> =>
        op'[t] = "emit" /\ pc'[t] \in {"lockConsumer", "lockWriter", "slots", "writeChunk",
                                       "trailing", "writeTrailing"}
  BY <1>4, <1>5 DEF IInv, ControlInv
<1>8. \A t \in Threads : Len(trailing'[t]) <= 1
  BY <1>3, <1>5 DEF IInv, ControlInv
<1>9. \A q \in Procs : pc'[q] = "writeTrailing" => op'[q] = "emit" /\ trailing'[q] # <<>>
  <2> SUFFICES ASSUME NEW q \in Procs, pc'[q] = "writeTrailing"
      PROVE  op'[q] = "emit" /\ trailing'[q] # <<>>
    OBVIOUS
  <2>1. q # p /\ pc[q] = "writeTrailing"
    BY <1>4
  <2>2. op[q] = "emit" /\ trailing[q] # <<>> /\ q \in Threads
    BY <2>1 DEF IInv, ControlInv
  <2> QED BY <1>5, <2>1, <2>2
<1> QED BY <1>6, <1>7, <1>8, <1>9 DEF ControlInv

LEMMA ControlDrain ==
  ASSUME IInv, NEW p \in Procs, DrainStep(p)
  PROVE  ControlInv'
<1>1. CASE LockConsumer(p)
  BY <1>1, OutputAssumption
     DEF IInv, TypeOK, ControlType, ControlInv, QueueType, LockConsumer, Goto, DrainFrame
<1>2. CASE LockWriter(p)
  BY <1>2, OutputAssumption
     DEF IInv, TypeOK, ControlType, ControlInv, QueueType, LockWriter, Goto, DrainFrame
<1>3. CASE ReadSlots(p)
  <2>1. PICK l \in {"writeChunk", "trailing"} : pc' = [pc EXCEPT ![p] = l]
    BY <1>3 DEF ReadSlots, Goto
  <2>2. pc[p] = "slots" /\ UNCHANGED <<op, target, trailing>>
    BY <1>3 DEF ReadSlots, DrainFrame
  <2> QED BY <2>1, <2>2 DEF IInv, TypeOK, ControlType, ControlInv, QueueType
<1>4. CASE WriteChunk(p)
  BY <1>4, OutputAssumption
     DEF IInv, TypeOK, ControlType, ControlInv, QueueType, WriteChunk, Goto, DrainFrame
<1>5. CASE FailChunk(p)
  BY <1>5, OutputAssumption
     DEF IInv, TypeOK, ControlType, ControlInv, QueueType, FailChunk, Goto, DrainFrame
<1>6. CASE CheckTrailing(p)
  <2>1. CASE MayWriteTrailing(p) /\ Trailing(p) # <<>>
    <3>1. op[p] = "emit" /\ trailing[p] # <<>>
      BY <2>1 DEF Trailing
    <3>2. /\ pc[p] = "trailing" /\ pc' = [pc EXCEPT ![p] = "writeTrailing"]
          /\ UNCHANGED <<op, target, trailing>>
      BY <1>6, <2>1 DEF CheckTrailing, Goto, DrainFrame
    <3> QED
      BY <3>1, <3>2 DEF IInv, TypeOK, ControlType, ControlInv
  <2>2. CASE ~(MayWriteTrailing(p) /\ Trailing(p) # <<>>)
    <3>1. ClearTrailing(p) /\ pc' = [pc EXCEPT ![p] = "unlockWriter"]
      BY <1>6, <2>2 DEF CheckTrailing, Goto
    <3>2. pc[p] = "trailing" /\ UNCHANGED <<op, target>>
      BY <1>6 DEF CheckTrailing, DrainFrame
    <3>3. CASE op[p] = "emit"
      BY <3>1, <3>2, <3>3, TrailingDone
    <3>4. CASE op[p] # "emit"
      <4>1. UNCHANGED trailing
        BY <3>1, <3>4 DEF ClearTrailing
      <4> QED BY <3>1, <3>2, <3>4, <4>1 DEF IInv, TypeOK, ControlType, ControlInv
    <3> QED BY <3>3, <3>4
  <2> QED BY <2>1, <2>2
<1>7. CASE WriteTrailing(p)
  <2>1. op[p] = "emit"
    BY <1>7 DEF IInv, ControlInv, WriteTrailing
  <2> QED BY <1>7, <2>1, TrailingDone DEF WriteTrailing, Goto, DrainFrame
<1>8. CASE FailTrailing(p)
  <2>1. op[p] = "emit"
    BY <1>8 DEF IInv, ControlInv, FailTrailing
  <2> QED BY <1>8, <2>1, TrailingDone DEF FailTrailing, Goto, DrainFrame
<1>9. CASE UnlockWriter(p)
  <2>1. /\ pc[p] = "unlockWriter" /\ pc' = [pc EXCEPT ![p] = "unlockConsumer"]
        /\ UNCHANGED <<op, target, trailing>>
    BY <1>9 DEF UnlockWriter, Goto, DrainFrame
  <2> QED BY <2>1 DEF IInv, TypeOK, ControlType, ControlInv
<1>10. CASE UnlockConsumer(p)
  <2>1. pc' = [pc EXCEPT ![p] = IF err[p] = 0 THEN Resume(p) ELSE "record"]
    BY <1>10 DEF UnlockConsumer, Goto
  <2>2. pc[p] = "unlockConsumer" /\ UNCHANGED <<op, target, trailing>>
    BY <1>10 DEF UnlockConsumer, DrainFrame
  <2>3. CASE err[p] = 0
    <3>1. pc' = [pc EXCEPT ![p] = Resume(p)]
      BY <2>1, <2>3
    <3> QED BY <2>2, <3>1, ResumeType DEF IInv, TypeOK, ControlType, ControlInv, QueueType
  <2>4. CASE err[p] # 0
    BY <2>1, <2>2, <2>4 DEF IInv, TypeOK, ControlType, ControlInv, QueueType
  <2> QED BY <2>3, <2>4
<1>11. CASE RecordError(p)
  BY <1>11, OutputAssumption
     DEF IInv, TypeOK, ControlType, ControlInv, QueueType, RecordError, Goto, DrainFrame, Resume
<1> QED BY <1>1, <1>2, <1>3, <1>4, <1>5, <1>6, <1>7, <1>8, <1>9, <1>10, <1>11 DEF DrainStep

LEMMA ControlOwner ==
  ASSUME IInv, NEW f \in Flushers, Flush(f) \/ DropGuard(f) \/ DropLayer(f)
  PROVE  ControlInv'
<1>1. CASE Flush(f)
  BY <1>1, OutputAssumption
     DEF IInv, TypeOK, ControlType, ControlInv, QueueType, Flush, Begin, Goto, FlushFrame
<1>2. CASE DropGuard(f)
  BY <1>2, OutputAssumption
     DEF IInv, TypeOK, ControlType, ControlInv, QueueType, DropGuard, Begin, Goto, FlushFrame
<1>3. CASE DropLayer(f)
  <2>1. CASE UNCHANGED <<pc, op, target>>
    BY <1>3, <2>1 DEF IInv, ControlInv, DropLayer, FlushFrame
  <2>2. CASE Begin(f, "dropInner", "clone", None)
    BY <1>3, <2>2, OutputAssumption
       DEF IInv, TypeOK, ControlType, ControlInv, QueueType, DropLayer, FlushFrame, Begin, Goto
  <2> QED BY <1>3, <2>1, <2>2 DEF DropLayer
<1> QED BY <1>1, <1>2, <1>3

LEMMA ControlFlush ==
  ASSUME IInv, NEW p \in Procs, FlushStep(p)
  PROVE  ControlInv'
<1>1. CASE CloneRegistry(p)
  BY <1>1, OutputAssumption
     DEF IInv, TypeOK, ControlType, ControlInv, QueueType, CloneRegistry, Goto, FlushFrame
<1>2. CASE NextBuffer(p)
  <2>1. Head(todo[p]) \in Threads
    BY <1>2, HeadTailProperties DEF IInv, TypeOK, ControlType, NextBuffer
  <2> QED BY <1>2, <2>1 DEF IInv, TypeOK, ControlType, ControlInv, QueueType, NextBuffer,
                          FlushFrame, Goto
<1>3. CASE SyncWriter(p)
  <2>1. PICK l \in {"result", "record"} : pc' = [pc EXCEPT ![p] = l]
    BY <1>3 DEF SyncWriter, Goto
  <2>2. /\ pc[p] = "next" /\ target' = [target EXCEPT ![p] = None]
        /\ UNCHANGED <<op, trailing>>
    BY <1>3 DEF SyncWriter, FlushFrame
  <2> QED BY <2>1, <2>2 DEF IInv, TypeOK, ControlType, ControlInv, QueueType
<1>4. CASE FlushResult(p)
  BY <1>4, OutputAssumption
     DEF IInv, TypeOK, ControlType, ControlInv, QueueType, FlushResult, Goto, FlushFrame
<1>5. CASE Unref(p)
  <2>1. PICK o \in {"dropInner", "none"}, l \in {"clone", "gone", "idle"} : Begin(p, o, l, None)
    BY <1>5 DEF Unref
  <2>2. pc[p] = "unref" /\ UNCHANGED trailing
    BY <1>5 DEF Unref, FlushFrame
  <2> QED BY <2>1, <2>2 DEF IInv, TypeOK, ControlType, ControlInv, QueueType, Begin, Goto
<1> QED BY <1>1, <1>2, <1>3, <1>4, <1>5 DEF FlushStep

ConsumerLabels == DrainLabels \ {"lockConsumer", "record"}
WriterLabels == ConsumerLabels \ {"lockWriter", "unlockConsumer"}

\* A step that takes no lock and gives none back.
LEMMA SameLocks ==
  ASSUME IInv, NEW p \in Procs, NEW l, NEW b,
         pc' = [pc EXCEPT ![p] = l], target' = [target EXCEPT ![p] = b],
         UNCHANGED <<consumerLock, writerLock>>,
         l \in ConsumerLabels => pc[p] \in ConsumerLabels /\ b = target[p],
         l \in WriterLabels => pc[p] \in WriterLabels
  PROVE  LockInv'
  BY DEF IInv, TypeOK, ControlType, DrainInv, LockInv, HasConsumer, HasWriter,
         ConsumerLabels, WriterLabels

\* A step that leaves the rings alone and does not enter the part of a drain
\* that relies on them.
LEMMA SameChunks ==
  ASSUME IInv, NEW p \in Procs, NEW l,
         pc' = [pc EXCEPT ![p] = l], UNCHANGED ring,
         \A q \in Procs \ {p} : op'[q] = op[q] /\ target'[q] = target[q] /\ avail'[q] = avail[q],
         l \notin {"writeChunk", "trailing", "writeTrailing"}
  PROVE  ChunkInv'
  BY DEF IInv, TypeOK, ControlType, DrainInv, ChunkInv

LEMMA LockThread ==
  ASSUME IInv, NEW t \in Threads, Acquire(t) \/ Emit(t) \/ Release(t) \/ Exit(t)
  PROVE  LockInv'
<1>1. CASE Acquire(t)
  <2>1. pc' = [pc EXCEPT ![t] = "callback"]
    BY <1>1 DEF Acquire, Goto
  <2>2. PICK b : target' = [target EXCEPT ![t] = b]
    BY <1>1 DEF IInv, TypeOK, ControlType, Acquire, Goto, control
  <2>3. UNCHANGED <<consumerLock, writerLock>>
    BY <1>1 DEF locks, Acquire, Goto, control
  <2> QED BY <2>1, <2>2, <2>3, SameLocks DEF ConsumerLabels, WriterLabels
<1>2. CASE Release(t)
  <2>1. pc' = [pc EXCEPT ![t] = "idle"]
    BY <1>2 DEF Release, Begin, Goto
  <2>2. PICK b : target' = [target EXCEPT ![t] = b]
    BY <1>2 DEF IInv, TypeOK, ControlType, Release, Begin, Goto
  <2>3. UNCHANGED <<consumerLock, writerLock>>
    BY <1>2 DEF locks, Release, Begin, Goto
  <2> QED BY <2>1, <2>2, <2>3, SameLocks DEF ConsumerLabels, WriterLabels
<1>3. CASE Exit(t)
  <2>1. PICK l \in {"lockConsumer", "gone"} : pc' = [pc EXCEPT ![t] = l]
    BY <1>3 DEF Exit, Begin, Goto, control
  <2>2. PICK b : target' = [target EXCEPT ![t] = b]
    BY <1>3 DEF IInv, TypeOK, ControlType, Exit, Begin, Goto, control
  <2>3. UNCHANGED <<consumerLock, writerLock>>
    BY <1>3 DEF locks, Exit, Begin, Goto, control
  <2> QED BY <2>1, <2>2, <2>3, SameLocks DEF ConsumerLabels, WriterLabels
<1>4. ASSUME NEW s \in Sizes, Push(t, s) \/ Overflow(t, s) PROVE LockInv'
  <2>1. CASE Push(t, s)
    BY <2>1 DEF IInv, DrainInv, LockInv, HasConsumer, HasWriter, Push, control, locks
  <2>2. CASE Overflow(t, s)
    <3>1. pc' = [pc EXCEPT ![t] = "lockConsumer"]
      BY <2>2 DEF Overflow, Begin, Goto
    <3>2. PICK b : target' = [target EXCEPT ![t] = b]
      BY <2>2 DEF IInv, TypeOK, ControlType, Overflow, Begin, Goto
    <3>3. UNCHANGED <<consumerLock, writerLock>>
      BY <2>2 DEF locks, Overflow, Begin, Goto
    <3> QED BY <3>1, <3>2, <3>3, SameLocks DEF ConsumerLabels, WriterLabels
  <2> QED BY <1>4, <2>1, <2>2
<1> QED BY <1>1, <1>2, <1>3, <1>4 DEF Emit

LEMMA LockDrain ==
  ASSUME IInv, NEW p \in Procs, DrainStep(p)
  PROVE  LockInv'
<1>1. CASE LockConsumer(p)
  <2>1. /\ pc[p] = "lockConsumer" /\ pc' = [pc EXCEPT ![p] = "lockWriter"]
        /\ consumerLock[target[p]] = None
        /\ consumerLock' = [consumerLock EXCEPT ![target[p]] = p]
        /\ UNCHANGED <<target, writerLock>>
    BY <1>1 DEF LockConsumer, Goto, Free, Buf, DrainFrame
  <2> QED
    BY <2>1, OutputAssumption
    DEF IInv, TypeOK, ControlType, SharedType, ControlInv, DrainInv, LockInv,
         HasConsumer, HasWriter
<1>2. CASE LockWriter(p)
  <2>1. /\ pc[p] = "lockWriter" /\ pc' = [pc EXCEPT ![p] = "slots"]
        /\ writerLock = None /\ writerLock' = p
        /\ UNCHANGED <<target, consumerLock>>
    BY <1>2 DEF LockWriter, Goto, Free, DrainFrame
  <2> QED
    BY <2>1, OutputAssumption
    DEF IInv, TypeOK, ControlType, SharedType, ControlInv, DrainInv, LockInv,
         HasConsumer, HasWriter
<1>3. CASE ReadSlots(p)
  <2>1. PICK l \in {"writeChunk", "trailing"} : pc' = [pc EXCEPT ![p] = l]
    BY <1>3 DEF ReadSlots, Goto, DrainFrame
  <2>2. PICK b : target' = [target EXCEPT ![p] = b] /\ b = target[p]
    BY <1>3 DEF IInv, TypeOK, ControlType, ReadSlots, Goto, DrainFrame
  <2>3. pc[p] = "slots" /\ UNCHANGED <<consumerLock, writerLock>>
    BY <1>3 DEF locks, ReadSlots, Goto, DrainFrame
  <2> QED BY <2>1, <2>2, <2>3, SameLocks DEF ConsumerLabels, WriterLabels
<1>4. CASE WriteChunk(p)
  <2>1. pc' = [pc EXCEPT ![p] = "trailing"]
    BY <1>4 DEF WriteChunk, Goto
  <2>2. PICK b : target' = [target EXCEPT ![p] = b] /\ b = target[p]
    BY <1>4 DEF IInv, TypeOK, ControlType, WriteChunk, Goto, DrainFrame
  <2>3. pc[p] = "writeChunk" /\ UNCHANGED <<consumerLock, writerLock>>
    BY <1>4 DEF locks, WriteChunk, Goto, DrainFrame
  <2> QED BY <2>1, <2>2, <2>3, SameLocks DEF ConsumerLabels, WriterLabels
<1>5. CASE FailChunk(p)
  <2>1. pc' = [pc EXCEPT ![p] = "trailing"]
    BY <1>5 DEF FailChunk, Goto
  <2>2. PICK b : target' = [target EXCEPT ![p] = b] /\ b = target[p]
    BY <1>5 DEF IInv, TypeOK, ControlType, FailChunk, Goto, DrainFrame
  <2>3. pc[p] = "writeChunk" /\ UNCHANGED <<consumerLock, writerLock>>
    BY <1>5 DEF locks, FailChunk, Goto, DrainFrame
  <2> QED BY <2>1, <2>2, <2>3, SameLocks DEF ConsumerLabels, WriterLabels
<1>6. CASE CheckTrailing(p)
  <2>1. PICK l \in {"writeTrailing", "unlockWriter"} : pc' = [pc EXCEPT ![p] = l]
    BY <1>6 DEF CheckTrailing, Goto, DrainFrame, ClearTrailing, Trailing
  <2>2. PICK b : target' = [target EXCEPT ![p] = b] /\ b = target[p]
    BY <1>6 DEF IInv, TypeOK, ControlType, CheckTrailing, Goto, DrainFrame, ClearTrailing, Trailing
  <2>3. pc[p] = "trailing" /\ UNCHANGED <<consumerLock, writerLock>>
    BY <1>6 DEF locks, CheckTrailing, Goto, DrainFrame, ClearTrailing, Trailing
  <2> QED BY <2>1, <2>2, <2>3, SameLocks DEF ConsumerLabels, WriterLabels
<1>7. CASE WriteTrailing(p)
  <2>1. pc' = [pc EXCEPT ![p] = "unlockWriter"]
    BY <1>7 DEF WriteTrailing, Goto
  <2>2. PICK b : target' = [target EXCEPT ![p] = b] /\ b = target[p]
    BY <1>7 DEF IInv, TypeOK, ControlType, WriteTrailing, Goto, DrainFrame, ClearTrailing
  <2>3. pc[p] = "writeTrailing" /\ UNCHANGED <<consumerLock, writerLock>>
    BY <1>7 DEF locks, WriteTrailing, Goto, DrainFrame, ClearTrailing
  <2> QED BY <2>1, <2>2, <2>3, SameLocks DEF ConsumerLabels, WriterLabels
<1>8. CASE FailTrailing(p)
  <2>1. pc' = [pc EXCEPT ![p] = "unlockWriter"]
    BY <1>8 DEF FailTrailing, Goto
  <2>2. PICK b : target' = [target EXCEPT ![p] = b] /\ b = target[p]
    BY <1>8 DEF IInv, TypeOK, ControlType, FailTrailing, Goto, DrainFrame, ClearTrailing
  <2>3. pc[p] = "writeTrailing" /\ UNCHANGED <<consumerLock, writerLock>>
    BY <1>8 DEF locks, FailTrailing, Goto, DrainFrame, ClearTrailing
  <2> QED BY <2>1, <2>2, <2>3, SameLocks DEF ConsumerLabels, WriterLabels
<1>9. CASE UnlockWriter(p)
  <2>1. /\ pc[p] = "unlockWriter" /\ pc' = [pc EXCEPT ![p] = "unlockConsumer"]
        /\ writerLock' = None
        /\ UNCHANGED <<target, consumerLock>>
    BY <1>9 DEF UnlockWriter, Goto, DrainFrame
  <2> QED
    BY <2>1, OutputAssumption
    DEF IInv, TypeOK, ControlType, SharedType, ControlInv, DrainInv, LockInv,
         HasConsumer, HasWriter
<1>10. CASE UnlockConsumer(p)
  <2>1. PICK l \in {"callback", "unref", "result", "next", "record"} :
          pc' = [pc EXCEPT ![p] = l]
    BY <1>10, ResumeType DEF UnlockConsumer, Goto
  <2>2. /\ pc[p] = "unlockConsumer"
        /\ consumerLock' = [consumerLock EXCEPT ![target[p]] = None]
        /\ UNCHANGED <<target, writerLock>>
    BY <1>10 DEF UnlockConsumer, Buf, DrainFrame
  <2>3. \A q \in Procs \ {p} : HasConsumer(q) => target[q] # target[p]
    BY <2>2 DEF IInv, DrainInv, LockInv, HasConsumer
  <2> QED
    BY <2>1, <2>2, <2>3, OutputAssumption
    DEF IInv, TypeOK, ControlType, SharedType, ControlInv, DrainInv, LockInv,
         HasConsumer, HasWriter
<1>11. CASE RecordError(p)
  <2>1. pc' = [pc EXCEPT ![p] = Resume(p)]
    BY <1>11 DEF RecordError, Goto
  <2>2. PICK b : target' = [target EXCEPT ![p] = b]
    BY <1>11 DEF IInv, TypeOK, ControlType, RecordError, Goto, DrainFrame, Resume
  <2>3. UNCHANGED <<consumerLock, writerLock>>
    BY <1>11 DEF locks, RecordError, Goto, DrainFrame, Resume
  <2> QED BY <2>1, <2>2, <2>3, SameLocks, ResumeType DEF ConsumerLabels, WriterLabels
<1> QED BY <1>1, <1>2, <1>3, <1>4, <1>5, <1>6, <1>7, <1>8, <1>9, <1>10, <1>11 DEF DrainStep

LEMMA LockOwner ==
  ASSUME IInv, NEW f \in Flushers, Flush(f) \/ DropGuard(f) \/ DropLayer(f)
  PROVE  LockInv'
<1>1. CASE Flush(f)
  <2>1. pc' = [pc EXCEPT ![f] = "clone"]
    BY <1>1 DEF Flush, Begin, Goto
  <2>2. PICK b : target' = [target EXCEPT ![f] = b]
    BY <1>1 DEF IInv, TypeOK, ControlType, Flush, Begin, Goto, FlushFrame
  <2>3. UNCHANGED <<consumerLock, writerLock>>
    BY <1>1 DEF locks, Flush, Begin, Goto, FlushFrame
  <2> QED BY <2>1, <2>2, <2>3, SameLocks DEF ConsumerLabels, WriterLabels
<1>2. CASE DropGuard(f)
  <2>1. pc' = [pc EXCEPT ![f] = "clone"]
    BY <1>2 DEF DropGuard, Begin, Goto
  <2>2. PICK b : target' = [target EXCEPT ![f] = b]
    BY <1>2 DEF IInv, TypeOK, ControlType, DropGuard, Begin, Goto, FlushFrame
  <2>3. UNCHANGED <<consumerLock, writerLock>>
    BY <1>2 DEF locks, DropGuard, Begin, Goto, FlushFrame
  <2> QED BY <2>1, <2>2, <2>3, SameLocks DEF ConsumerLabels, WriterLabels
<1>3. CASE DropLayer(f)
  <2>1. CASE UNCHANGED <<pc, op, target>>
    BY <1>3, <2>1 DEF IInv, DrainInv, LockInv, HasConsumer, HasWriter, DropLayer, FlushFrame
  <2>2. CASE Begin(f, "dropInner", "clone", None)
    <3>1. UNCHANGED <<consumerLock, writerLock>>
      BY <1>3 DEF DropLayer, FlushFrame
    <3> QED BY <2>2, <3>1, SameLocks DEF Begin, Goto, ConsumerLabels, WriterLabels
  <2> QED BY <1>3, <2>1, <2>2 DEF DropLayer
<1> QED BY <1>1, <1>2, <1>3

LEMMA LockFlush ==
  ASSUME IInv, NEW p \in Procs, FlushStep(p)
  PROVE  LockInv'
<1>1. CASE CloneRegistry(p)
  <2>1. pc' = [pc EXCEPT ![p] = "next"]
    BY <1>1 DEF CloneRegistry, Goto
  <2>2. PICK b : target' = [target EXCEPT ![p] = b]
    BY <1>1 DEF IInv, TypeOK, ControlType, CloneRegistry, Goto, FlushFrame
  <2>3. UNCHANGED <<consumerLock, writerLock>>
    BY <1>1 DEF locks, CloneRegistry, Goto, FlushFrame
  <2> QED BY <2>1, <2>2, <2>3, SameLocks DEF ConsumerLabels, WriterLabels
<1>2. CASE NextBuffer(p)
  <2>1. pc' = [pc EXCEPT ![p] = "lockConsumer"]
    BY <1>2 DEF NextBuffer, Goto
  <2>2. PICK b : target' = [target EXCEPT ![p] = b]
    BY <1>2 DEF IInv, TypeOK, ControlType, NextBuffer, Goto, FlushFrame
  <2>3. UNCHANGED <<consumerLock, writerLock>>
    BY <1>2 DEF locks, NextBuffer, Goto, FlushFrame
  <2> QED BY <2>1, <2>2, <2>3, SameLocks DEF ConsumerLabels, WriterLabels
<1>3. CASE SyncWriter(p)
  <2>1. PICK l \in {"result", "record"} : pc' = [pc EXCEPT ![p] = l]
    BY <1>3 DEF SyncWriter, Goto, FlushFrame
  <2>2. PICK b : target' = [target EXCEPT ![p] = b]
    BY <1>3 DEF IInv, TypeOK, ControlType, SyncWriter, Goto, FlushFrame
  <2>3. UNCHANGED <<consumerLock, writerLock>>
    BY <1>3 DEF locks, SyncWriter, Goto, FlushFrame
  <2> QED BY <2>1, <2>2, <2>3, SameLocks DEF ConsumerLabels, WriterLabels
<1>4. CASE FlushResult(p)
  <2>1. PICK l \in {"idle", "unref", "gone"} : pc' = [pc EXCEPT ![p] = l]
    BY <1>4 DEF FlushResult, Goto, FlushFrame
  <2>2. PICK b : target' = [target EXCEPT ![p] = b]
    BY <1>4 DEF IInv, TypeOK, ControlType, FlushResult, Goto, FlushFrame
  <2>3. UNCHANGED <<consumerLock, writerLock>>
    BY <1>4 DEF locks, FlushResult, Goto, FlushFrame
  <2> QED BY <2>1, <2>2, <2>3, SameLocks DEF ConsumerLabels, WriterLabels
<1>5. CASE Unref(p)
  <2>1. PICK l \in {"clone", "gone", "idle"} : pc' = [pc EXCEPT ![p] = l]
    BY <1>5 DEF Unref, Begin, Goto, FlushFrame
  <2>2. PICK b : target' = [target EXCEPT ![p] = b]
    BY <1>5 DEF IInv, TypeOK, ControlType, Unref, Begin, Goto, FlushFrame
  <2>3. UNCHANGED <<consumerLock, writerLock>>
    BY <1>5 DEF locks, Unref, Begin, Goto, FlushFrame
  <2> QED BY <2>1, <2>2, <2>3, SameLocks DEF ConsumerLabels, WriterLabels
<1> QED BY <1>1, <1>2, <1>3, <1>4, <1>5 DEF FlushStep

\* Consuming a chunk does not disturb another drain, and it leaves nothing
\* before the trailing packet of a thread that drains its own full ring.
LEMMA CommitKeepsChunks ==
  ASSUME IInv, NEW p \in Procs,
         pc[p] = "writeChunk", pc' = [pc EXCEPT ![p] = "trailing"],
         UNCHANGED <<op, target, avail>>,
         ring' = [ring EXCEPT ![target[p]] = TS!Drop(@, avail[p])]
  PROVE  ChunkInv'
<1>1. /\ target[p] \in Threads /\ ring[target[p]] \in Seq(PacketType)
      /\ avail[p] \in 0 .. Len(ring[target[p]])
  BY DEF IInv, ControlInv, DrainInv, ChunkInv, TypeOK, QueueType, ControlType
<1>2. op[p] = "emit" => target[p] = p /\ ring'[p] = <<>>
  <2> SUFFICES ASSUME op[p] = "emit" PROVE target[p] = p /\ ring'[p] = <<>>
    OBVIOUS
  <2>1. target[p] = p /\ avail[p] = Len(ring[p])
    BY DEF IInv, ControlInv, DrainInv, ChunkInv
  <2>2. TS!Drop(ring[p], Len(ring[p])) = <<>>
    BY <1>1, <2>1, SubSeqEmpty, LenProperties DEF TS!Drop
  <2> QED BY <1>1, <2>1, <2>2 DEF IInv, TypeOK, QueueType
<1>3. \A q \in Procs : pc[q] \in ConsumerLabels /\ target[q] = target[p] => q = p
  BY DEF IInv, DrainInv, LockInv, HasConsumer, ConsumerLabels
<1>4. /\ pc \in [Procs -> Labels]
      /\ \A u \in Threads \ {target[p]} : ring'[u] = ring[u]
  BY <1>1 DEF IInv, TypeOK, ControlType, QueueType
<1>5. \A q \in Procs \ {p} :
        pc'[q] = pc[q] /\ op'[q] = op[q] /\ target'[q] = target[q] /\ avail'[q] = avail[q]
  BY <1>4
<1>6. pc'[p] = "trailing" /\ op'[p] = op[p]
  BY <1>4
<1>7. ASSUME NEW q \in Procs, pc'[q] = "writeChunk"
      PROVE  /\ avail'[q] \in 1 .. Len(ring'[target'[q]])
             /\ op'[q] = "emit" => avail'[q] = Len(ring'[target'[q]])
  <2>1. q # p /\ pc[q] = "writeChunk"
    BY <1>5, <1>6, <1>7
  <2>2. target[q] \in Threads /\ target[q] # target[p]
    BY <1>3, <2>1 DEF IInv, ControlInv, ConsumerLabels
  <2>3. ring'[target'[q]] = ring[target[q]]
    BY <1>4, <1>5, <2>1, <2>2
  <2> QED BY <1>5, <2>1, <2>3 DEF IInv, DrainInv, ChunkInv
<1>8. ASSUME NEW q \in Procs, pc'[q] \in {"trailing", "writeTrailing"}, op'[q] = "emit"
      PROVE  ring'[q] = <<>>
  <2>1. CASE q = p
    BY <1>2, <1>6, <1>8, <2>1
  <2>2. CASE q # p
    <3>1. pc[q] \in {"trailing", "writeTrailing"} /\ op[q] = "emit"
      BY <1>5, <1>8, <2>2
    <3>2. target[q] = q /\ q \in Threads
      BY <3>1 DEF IInv, ControlInv
    <3>3. ring'[q] = ring[q]
      BY <1>3, <1>4, <2>2, <3>1, <3>2 DEF ConsumerLabels
    <3> QED BY <3>1, <3>3 DEF IInv, DrainInv, ChunkInv
  <2> QED BY <2>1, <2>2
<1> QED BY <1>7, <1>8 DEF ChunkInv

LEMMA ChunkThread ==
  ASSUME IInv, NEW t \in Threads, Acquire(t) \/ Emit(t) \/ Release(t) \/ Exit(t)
  PROVE  ChunkInv'
<1>1. CASE Acquire(t)
  <2>1. pc' = [pc EXCEPT ![t] = "callback"]
    BY <1>1 DEF Acquire, Goto
  <2>2. /\ UNCHANGED ring
       /\ \A q \in Procs \ {t} :
            op'[q] = op[q] /\ target'[q] = target[q] /\ avail'[q] = avail[q]
    BY <1>1 DEF IInv, TypeOK, ControlType, Acquire, Goto, control
  <2> QED BY <2>1, <2>2, SameChunks
<1>2. CASE Release(t)
  <2>1. pc' = [pc EXCEPT ![t] = "idle"]
    BY <1>2 DEF Release, Begin, Goto
  <2>2. /\ UNCHANGED ring
       /\ \A q \in Procs \ {t} :
            op'[q] = op[q] /\ target'[q] = target[q] /\ avail'[q] = avail[q]
    BY <1>2 DEF IInv, TypeOK, ControlType, Release, Begin, Goto
  <2> QED BY <2>1, <2>2, SameChunks
<1>3. CASE Exit(t)
  <2>1. PICK l \in {"lockConsumer", "gone"} : pc' = [pc EXCEPT ![t] = l]
    BY <1>3 DEF Exit, Begin, Goto, control
  <2>2. /\ UNCHANGED ring
       /\ \A q \in Procs \ {t} :
            op'[q] = op[q] /\ target'[q] = target[q] /\ avail'[q] = avail[q]
    BY <1>3 DEF IInv, TypeOK, ControlType, Exit, Begin, Goto, control
  <2> QED BY <2>1, <2>2, SameChunks
<1>4. ASSUME NEW s \in Sizes, Push(t, s) \/ Overflow(t, s) PROVE ChunkInv'
  <2>1. CASE Push(t, s)
    <3>1. /\ pc[t] = "callback" /\ UNCHANGED <<pc, op, target, avail>>
          /\ Packet(t, s) \in PacketType
          /\ ring' = [ring EXCEPT ![t] = Append(@, Packet(t, s))]
      BY <2>1, OutputAssumption DEF Push, control, Packet, PacketType, IInv, TypeOK, QueueType
    <3>2. /\ Len(ring'[t]) = Len(ring[t]) + 1
          /\ \A u \in Threads \ {t} : ring'[u] = ring[u]
      BY <3>1, AppendProperties DEF IInv, TypeOK, QueueType
    <3>3. ASSUME NEW q \in Procs, pc[q] = "writeChunk"
          PROVE  /\ avail[q] \in 1 .. Len(ring'[target[q]])
                 /\ op[q] = "emit" => avail[q] = Len(ring'[target[q]])
      <4>1. target[q] \in Threads /\ Len(ring[target[q]]) \in Nat
        BY <3>3, LenProperties DEF IInv, ControlInv, TypeOK, QueueType
      <4>2. op[q] = "emit" => target[q] # t
        BY <3>1, <3>3 DEF IInv, ControlInv
      <4> QED BY <3>2, <3>3, <4>1, <4>2 DEF IInv, DrainInv, ChunkInv
    <3>4. \A q \in Procs : pc[q] \in {"trailing", "writeTrailing"} /\ op[q] = "emit" => ring'[q] = <<>>
      BY <3>1, <3>2 DEF IInv, ControlInv, DrainInv, ChunkInv
    <3> QED BY <3>1, <3>3, <3>4 DEF ChunkInv
  <2>2. CASE Overflow(t, s)
    <3>1. pc' = [pc EXCEPT ![t] = "lockConsumer"]
      BY <2>2 DEF Overflow, Begin, Goto
    <3>2. /\ UNCHANGED ring
         /\ \A q \in Procs \ {t} :
              op'[q] = op[q] /\ target'[q] = target[q] /\ avail'[q] = avail[q]
      BY <2>2 DEF IInv, TypeOK, ControlType, Overflow, Begin, Goto
    <3> QED BY <3>1, <3>2, SameChunks
  <2> QED BY <1>4, <2>1, <2>2
<1> QED BY <1>1, <1>2, <1>3, <1>4 DEF Emit

LEMMA ChunkDrain ==
  ASSUME IInv, NEW p \in Procs, DrainStep(p)
  PROVE  ChunkInv'
<1>1. CASE LockConsumer(p)
  <2>1. pc' = [pc EXCEPT ![p] = "lockWriter"]
    BY <1>1 DEF LockConsumer, Goto
  <2>2. /\ UNCHANGED ring
       /\ \A q \in Procs \ {p} :
            op'[q] = op[q] /\ target'[q] = target[q] /\ avail'[q] = avail[q]
    BY <1>1 DEF IInv, TypeOK, ControlType, LockConsumer, Goto, DrainFrame
  <2> QED BY <2>1, <2>2, SameChunks
<1>2. CASE LockWriter(p)
  <2>1. pc' = [pc EXCEPT ![p] = "slots"]
    BY <1>2 DEF LockWriter, Goto
  <2>2. /\ UNCHANGED ring
       /\ \A q \in Procs \ {p} :
            op'[q] = op[q] /\ target'[q] = target[q] /\ avail'[q] = avail[q]
    BY <1>2 DEF IInv, TypeOK, ControlType, LockWriter, Goto, DrainFrame
  <2> QED BY <2>1, <2>2, SameChunks
<1>3. CASE ReadSlots(p)
  <2>0. /\ pc[p] = "slots" /\ target[p] \in Threads
        /\ ring[target[p]] \in Seq(PacketType)
        /\ avail' = [avail EXCEPT ![p] = Len(ring[target[p]])]
        /\ UNCHANGED <<op, target>>
    BY <1>3 DEF ReadSlots, Buf, DrainFrame, IInv, ControlInv, TypeOK, QueueType
  <2>1. CASE pc' = [pc EXCEPT ![p] = "writeChunk"] /\ UNCHANGED ring /\ avail'[p] # 0
    <3>1. avail'[p] = Len(ring[target[p]]) /\ Len(ring[target[p]]) \in Nat
      BY <2>0, LenProperties DEF IInv, TypeOK, ControlType
    <3>2. \A q \in Procs \ {p} : avail'[q] = avail[q] /\ pc'[q] = pc[q]
      BY <2>0, <2>1 DEF IInv, TypeOK, ControlType
    <3>3. pc'[p] = "writeChunk"
      BY <2>1 DEF IInv, TypeOK, ControlType
    <3> QED BY <2>0, <2>1, <3>1, <3>2, <3>3 DEF IInv, DrainInv, ChunkInv
  <2>2. CASE /\ pc' = [pc EXCEPT ![p] = "trailing"]
             /\ ring' = [ring EXCEPT ![target[p]] = <<>>]
    <3>1. pc'[p] = "trailing" /\ ring'[target[p]] = <<>>
      BY <2>0, <2>2 DEF IInv, TypeOK, ControlType, QueueType
    <3>2. ASSUME NEW q \in Procs \ {p}
          PROVE  /\ pc'[q] = pc[q] /\ avail'[q] = avail[q]
                 /\ pc[q] = "writeChunk" => ring'[target[q]] = ring[target[q]]
      <4>1. pc'[q] = pc[q] /\ avail'[q] = avail[q]
        BY <2>0, <2>2 DEF IInv, TypeOK, ControlType
      <4>2. pc[q] = "writeChunk" => target[q] \in Threads /\ target[q] # target[p]
        BY <2>0 DEF IInv, ControlInv, DrainInv, LockInv, HasConsumer
      <4> QED BY <2>0, <2>2, <4>1, <4>2 DEF IInv, TypeOK, QueueType
    <3>3. \A q \in Procs : op[q] = "emit" /\ pc'[q] = "trailing" => ring'[q] = <<>>
      BY <2>0, <2>2, <3>1, <3>2
      DEF IInv, TypeOK, ControlType, QueueType, ControlInv, DrainInv, ChunkInv
    <3>4. \A q \in Procs : op[q] = "emit" /\ pc'[q] = "writeTrailing" => ring'[q] = <<>>
      BY <2>0, <2>2, <3>1, <3>2
      DEF IInv, TypeOK, ControlType, QueueType, ControlInv, DrainInv, ChunkInv
    <3> QED BY <2>0, <3>1, <3>2, <3>3, <3>4 DEF IInv, DrainInv, ChunkInv
  <2> QED BY <1>3, <2>1, <2>2 DEF ReadSlots, Goto, Buf
<1>4. CASE WriteChunk(p)
  <2>1. /\ pc[p] = "writeChunk" /\ pc' = [pc EXCEPT ![p] = "trailing"]
        /\ UNCHANGED <<op, target, avail>>
        /\ ring' = [ring EXCEPT ![target[p]] = TS!Drop(@, avail[p])]
    BY <1>4 DEF WriteChunk, Goto, DrainFrame, CommitChunk, Buf
  <2> QED BY <2>1, CommitKeepsChunks
<1>5. CASE FailChunk(p)
  <2>1. /\ pc[p] = "writeChunk" /\ pc' = [pc EXCEPT ![p] = "trailing"]
        /\ UNCHANGED <<op, target, avail>>
        /\ ring' = [ring EXCEPT ![target[p]] = TS!Drop(@, avail[p])]
    BY <1>5 DEF FailChunk, Goto, DrainFrame, CommitChunk, Buf
  <2> QED BY <2>1, CommitKeepsChunks
<1>6. CASE CheckTrailing(p)
  <2>1. PICK l \in {"writeTrailing", "unlockWriter"} : pc' = [pc EXCEPT ![p] = l]
    BY <1>6 DEF CheckTrailing, Goto
  <2>2. pc[p] = "trailing" /\ UNCHANGED <<op, target, avail, ring>>
    BY <1>6 DEF CheckTrailing, DrainFrame
  <2> QED BY <2>1, <2>2 DEF IInv, TypeOK, ControlType, QueueType, ControlInv, DrainInv, ChunkInv
<1>7. CASE WriteTrailing(p)
  <2>1. pc' = [pc EXCEPT ![p] = "unlockWriter"]
    BY <1>7 DEF WriteTrailing, Goto
  <2>2. /\ UNCHANGED ring
       /\ \A q \in Procs \ {p} :
            op'[q] = op[q] /\ target'[q] = target[q] /\ avail'[q] = avail[q]
    BY <1>7 DEF IInv, TypeOK, ControlType, WriteTrailing, Goto, DrainFrame, ClearTrailing
  <2> QED BY <2>1, <2>2, SameChunks
<1>8. CASE FailTrailing(p)
  <2>1. pc' = [pc EXCEPT ![p] = "unlockWriter"]
    BY <1>8 DEF FailTrailing, Goto
  <2>2. /\ UNCHANGED ring
       /\ \A q \in Procs \ {p} :
            op'[q] = op[q] /\ target'[q] = target[q] /\ avail'[q] = avail[q]
    BY <1>8 DEF IInv, TypeOK, ControlType, FailTrailing, Goto, DrainFrame, ClearTrailing
  <2> QED BY <2>1, <2>2, SameChunks
<1>9. CASE UnlockWriter(p)
  <2>1. pc' = [pc EXCEPT ![p] = "unlockConsumer"]
    BY <1>9 DEF UnlockWriter, Goto
  <2>2. /\ UNCHANGED ring
       /\ \A q \in Procs \ {p} :
            op'[q] = op[q] /\ target'[q] = target[q] /\ avail'[q] = avail[q]
    BY <1>9 DEF IInv, TypeOK, ControlType, UnlockWriter, Goto, DrainFrame
  <2> QED BY <2>1, <2>2, SameChunks
<1>10. CASE UnlockConsumer(p)
  <2>1. PICK l \in {"callback", "unref", "result", "next", "record"} : pc' = [pc EXCEPT ![p] = l]
    BY <1>10, ResumeType DEF UnlockConsumer, Goto, DrainFrame
  <2>2. /\ UNCHANGED ring
       /\ \A q \in Procs \ {p} :
            op'[q] = op[q] /\ target'[q] = target[q] /\ avail'[q] = avail[q]
    BY <1>10 DEF IInv, TypeOK, ControlType, UnlockConsumer, Goto, DrainFrame, Resume
  <2> QED BY <2>1, <2>2, SameChunks
<1>11. CASE RecordError(p)
  <2>1. pc' = [pc EXCEPT ![p] = Resume(p)]
    BY <1>11 DEF RecordError, Goto
  <2>2. /\ UNCHANGED ring
       /\ \A q \in Procs \ {p} :
            op'[q] = op[q] /\ target'[q] = target[q] /\ avail'[q] = avail[q]
    BY <1>11 DEF IInv, TypeOK, ControlType, RecordError, Goto, DrainFrame, Resume
  <2> QED BY <2>1, <2>2, SameChunks, ResumeType
<1> QED BY <1>1, <1>2, <1>3, <1>4, <1>5, <1>6, <1>7, <1>8, <1>9, <1>10, <1>11 DEF DrainStep

LEMMA ChunkOwner ==
  ASSUME IInv, NEW f \in Flushers, Flush(f) \/ DropGuard(f) \/ DropLayer(f)
  PROVE  ChunkInv'
<1>1. CASE Flush(f)
  <2>1. pc' = [pc EXCEPT ![f] = "clone"]
    BY <1>1 DEF Flush, Begin, Goto
  <2>2. /\ UNCHANGED ring
       /\ \A q \in Procs \ {f} :
            op'[q] = op[q] /\ target'[q] = target[q] /\ avail'[q] = avail[q]
    BY <1>1 DEF IInv, TypeOK, ControlType, Flush, Begin, Goto, FlushFrame
  <2> QED BY <2>1, <2>2, SameChunks
<1>2. CASE DropGuard(f)
  <2>1. pc' = [pc EXCEPT ![f] = "clone"]
    BY <1>2 DEF DropGuard, Begin, Goto
  <2>2. /\ UNCHANGED ring
       /\ \A q \in Procs \ {f} :
            op'[q] = op[q] /\ target'[q] = target[q] /\ avail'[q] = avail[q]
    BY <1>2 DEF IInv, TypeOK, ControlType, DropGuard, Begin, Goto, FlushFrame
  <2> QED BY <2>1, <2>2, SameChunks
<1>3. CASE DropLayer(f)
  <2>1. CASE UNCHANGED <<pc, op, target>>
    BY <1>3, <2>1 DEF IInv, DrainInv, ChunkInv, DropLayer, FlushFrame
  <2>2. CASE Begin(f, "dropInner", "clone", None)
    <3>1. UNCHANGED <<ring, avail>>
      BY <1>3 DEF DropLayer, FlushFrame
    <3> QED BY <2>2, <3>1, SameChunks DEF Begin, Goto, IInv, TypeOK, ControlType
  <2> QED BY <1>3, <2>1, <2>2 DEF DropLayer
<1> QED BY <1>1, <1>2, <1>3

LEMMA ChunkFlush ==
  ASSUME IInv, NEW p \in Procs, FlushStep(p)
  PROVE  ChunkInv'
<1>1. CASE CloneRegistry(p)
  <2>1. pc' = [pc EXCEPT ![p] = "next"]
    BY <1>1 DEF CloneRegistry, Goto
  <2>2. /\ UNCHANGED ring
       /\ \A q \in Procs \ {p} :
            op'[q] = op[q] /\ target'[q] = target[q] /\ avail'[q] = avail[q]
    BY <1>1 DEF IInv, TypeOK, ControlType, CloneRegistry, Goto, FlushFrame
  <2> QED BY <2>1, <2>2, SameChunks
<1>2. CASE NextBuffer(p)
  <2>1. pc' = [pc EXCEPT ![p] = "lockConsumer"]
    BY <1>2 DEF NextBuffer, Goto
  <2>2. /\ UNCHANGED ring
       /\ \A q \in Procs \ {p} :
            op'[q] = op[q] /\ target'[q] = target[q] /\ avail'[q] = avail[q]
    BY <1>2 DEF IInv, TypeOK, ControlType, NextBuffer, Goto, FlushFrame
  <2> QED BY <2>1, <2>2, SameChunks
<1>3. CASE SyncWriter(p)
  <2>1. PICK l \in {"result", "record"} : pc' = [pc EXCEPT ![p] = l]
    BY <1>3 DEF SyncWriter, Goto, FlushFrame
  <2>2. /\ UNCHANGED ring
       /\ \A q \in Procs \ {p} :
            op'[q] = op[q] /\ target'[q] = target[q] /\ avail'[q] = avail[q]
    BY <1>3 DEF IInv, TypeOK, ControlType, SyncWriter, Goto, FlushFrame
  <2> QED BY <2>1, <2>2, SameChunks
<1>4. CASE FlushResult(p)
  <2>1. PICK l \in {"idle", "unref", "gone"} : pc' = [pc EXCEPT ![p] = l]
    BY <1>4 DEF FlushResult, Goto, FlushFrame
  <2>2. /\ UNCHANGED ring
       /\ \A q \in Procs \ {p} :
            op'[q] = op[q] /\ target'[q] = target[q] /\ avail'[q] = avail[q]
    BY <1>4 DEF IInv, TypeOK, ControlType, FlushResult, Goto, FlushFrame
  <2> QED BY <2>1, <2>2, SameChunks
<1>5. CASE Unref(p)
  <2>1. PICK l \in {"clone", "gone", "idle"} : pc' = [pc EXCEPT ![p] = l]
    BY <1>5 DEF Unref, Begin, Goto, FlushFrame
  <2>2. /\ UNCHANGED ring
       /\ \A q \in Procs \ {p} :
            op'[q] = op[q] /\ target'[q] = target[q] /\ avail'[q] = avail[q]
    BY <1>5 DEF IInv, TypeOK, ControlType, Unref, Begin, Goto, FlushFrame
  <2> QED BY <2>1, <2>2, SameChunks
<1> QED BY <1>1, <1>2, <1>3, <1>4, <1>5 DEF FlushStep

-----------------------------------------------------------------------------
(* The inductive invariant.                                                 *)

LEMMA InitInv == Init => IInv
<1> SUFFICES ASSUME Init PROVE IInv
  OBVIOUS
<1>1. ControlInv
  BY OutputAssumption, EmptySeq DEF Init, ControlInv
<1>2. DrainInv
  BY DEF Init, DrainInv, LockInv, ChunkInv, HasConsumer, HasWriter
<1> QED BY InitType, <1>1, <1>2 DEF IInv

LEMMA StepInv == IInv /\ [Next]_vars => IInv'
<1> SUFFICES ASSUME IInv, [Next]_vars PROVE IInv'
  OBVIOUS
<1>1. ASSUME NEW t \in Threads, Acquire(t) \/ Emit(t) \/ Release(t) \/ Exit(t)
      PROVE  IInv'
  BY <1>1, ThreadType, ControlThread, LockThread, ChunkThread DEF IInv, DrainInv
<1>2. ASSUME NEW f \in Flushers, Flush(f) \/ DropGuard(f) \/ DropLayer(f)
      PROVE  IInv'
  BY <1>2, OwnerType, ControlOwner, LockOwner, ChunkOwner DEF IInv, DrainInv
<1>3. ASSUME NEW p \in Procs, DrainStep(p) PROVE IInv'
  BY <1>3, DrainType, ControlDrain, LockDrain, ChunkDrain DEF IInv, DrainInv
<1>4. ASSUME NEW p \in Procs, FlushStep(p) PROVE IInv'
  BY <1>4, FlushType, ControlFlush, LockFlush, ChunkFlush DEF IInv, DrainInv
<1>5. CASE UNCHANGED vars
  <2>1. TypeOK'
    BY <1>5 DEF IInv, TypeOK, ControlType, QueueType, SharedType, HistoryType,
                RegisteredOnce, vars, control, locks, errors, calls
  <2>2. ControlInv'
    BY <1>5 DEF IInv, ControlInv, vars, control
  <2>3. DrainInv'
    BY <1>5 DEF IInv, DrainInv, LockInv, ChunkInv, HasConsumer, HasWriter, vars, control, locks
  <2> QED BY <2>1, <2>2, <2>3 DEF IInv
<1> QED BY <1>1, <1>2, <1>3, <1>4, <1>5 DEF Next, Done

\* In every reachable state the inductive invariant holds, for any number of
\* threads and flushers, any ring size and any number of write failures.
THEOREM Invariance == Spec => []IInv
  BY InitInv, StepInv, PTL DEF Spec

\* Every variable keeps its type, and a thread's buffer is registered once.
THEOREM TypeCorrect == Spec => []TypeOK
<1>1. IInv => TypeOK
  BY DEF IInv
<1> QED BY <1>1, Invariance, PTL

\* The lock protocol of drain_thread_buffer: exclusive consumer and writer, a
\* reserved chunk stays readable, and an overflowing packet follows an empty
\* queue.
THEOREM DrainCorrect == Spec => []DrainInv
<1>1. IInv => DrainInv
  BY DEF IInv
<1> QED BY <1>1, Invariance, PTL

-----------------------------------------------------------------------------
(* What the stream promises.                                               *)

\* What the error variables say about the failures so far.
ErrInv ==
  /\ hasError => error # 0
  /\ error # 0 => failures > 0
  /\ \A p \in Procs : err[p] # 0 => failures > 0
  /\ \A p \in Procs : pc[p] = "record" => err[p] # 0

-----------------------------------------------------------------------------
(* Lines: a thread's ring followed by its overflowing packet.               *)

\* Cutting a line inside its ring cuts the ring.
LEMMA LineCut ==
  ASSUME NEW a \in Seq(PacketType), NEW b \in Seq(PacketType), NEW k \in 0 .. Len(a)
  PROVE  /\ k \in 0 .. Len(a \o b)
         /\ TS!Front(a \o b, k) = TS!Front(a, k)
         /\ TS!Drop(a \o b, k) = TS!Drop(a, k) \o b
         /\ \A i \in 1 .. Len(a) : i \in 1 .. Len(a \o b) /\ (a \o b)[i] = a[i]
<1>1. /\ a \o b \in Seq(PacketType) /\ Len(a) \in Nat /\ Len(b) \in Nat
      /\ Len(a \o b) = Len(a) + Len(b)
      /\ \A i \in 1 .. Len(a) + Len(b) :
           (a \o b)[i] = IF i <= Len(a) THEN a[i] ELSE b[i - Len(a)]
  BY ConcatProperties, LenProperties
<1>2. k \in 0 .. Len(a \o b)
  BY <1>1
<1>3. /\ TS!Front(a \o b, k) \in Seq(PacketType)
      /\ Len(TS!Front(a \o b, k)) = k
      /\ \A i \in 1 .. k : TS!Front(a \o b, k)[i] = (a \o b)[i]
      /\ TS!Drop(a \o b, k) \in Seq(PacketType)
      /\ Len(TS!Drop(a \o b, k)) = Len(a \o b) - k
      /\ \A i \in 1 .. Len(a \o b) - k : TS!Drop(a \o b, k)[i] = (a \o b)[k + i]
  BY <1>1, <1>2, ChunkType
<1>4. /\ TS!Front(a, k) \in Seq(PacketType)
      /\ Len(TS!Front(a, k)) = k
      /\ \A i \in 1 .. k : TS!Front(a, k)[i] = a[i]
      /\ TS!Drop(a, k) \in Seq(PacketType)
      /\ Len(TS!Drop(a, k)) = Len(a) - k
      /\ \A i \in 1 .. Len(a) - k : TS!Drop(a, k)[i] = a[k + i]
  BY ChunkType
<1>5. TS!Front(a \o b, k) = TS!Front(a, k)
  <2>1. \A i \in 1 .. k : TS!Front(a \o b, k)[i] = TS!Front(a, k)[i]
    BY <1>1, <1>3, <1>4
  <2> QED BY <1>3, <1>4, <2>1, SeqEqual
<1>6. TS!Drop(a \o b, k) = TS!Drop(a, k) \o b
  <2>1. /\ TS!Drop(a, k) \o b \in Seq(PacketType)
        /\ Len(TS!Drop(a, k) \o b) = Len(a) - k + Len(b)
        /\ \A i \in 1 .. Len(a) - k + Len(b) :
             (TS!Drop(a, k) \o b)[i] =
               IF i <= Len(a) - k THEN TS!Drop(a, k)[i] ELSE b[i - (Len(a) - k)]
    <3> DEFINE d == TS!Drop(a, k)
    <3>1. d \in Seq(PacketType) /\ Len(d) = Len(a) - k
      BY <1>4
    <3>2. /\ d \o b \in Seq(PacketType)
          /\ Len(d \o b) = Len(d) + Len(b)
          /\ \A i \in 1 .. Len(d) + Len(b) :
               (d \o b)[i] = IF i <= Len(d) THEN d[i] ELSE b[i - Len(d)]
      <4> HIDE DEF d
      <4> QED BY <3>1, ConcatProperties
    <3> HIDE DEF d
    <3>3. /\ d \o b \in Seq(PacketType)
          /\ Len(d \o b) = Len(a) - k + Len(b)
          /\ \A i \in 1 .. Len(a) - k + Len(b) :
               (d \o b)[i] = IF i <= Len(a) - k THEN d[i] ELSE b[i - (Len(a) - k)]
      BY <3>1, <3>2
    <3> QED BY <3>3 DEF d
  <2>2. ASSUME NEW i \in 1 .. Len(a \o b) - k
        PROVE  TS!Drop(a \o b, k)[i] = (TS!Drop(a, k) \o b)[i]
    <3>1. TS!Drop(a \o b, k)[i] = (a \o b)[k + i]
      BY <1>3
    <3>2. i \in 1 .. Len(a) - k + Len(b) /\ k + i \in 1 .. Len(a) + Len(b)
      BY <1>1
    <3>3. CASE i <= Len(a) - k
      <4>1. i \in 1 .. Len(a) - k /\ k + i <= Len(a)
        BY <1>1, <3>2, <3>3
      <4> QED BY <1>1, <1>4, <2>1, <3>1, <3>2, <4>1
    <3>4. CASE i > Len(a) - k
      <4>1. ~(i <= Len(a) - k) /\ ~(k + i <= Len(a)) /\ i - (Len(a) - k) = k + i - Len(a)
        BY <1>1, <3>2, <3>4
      <4> QED BY <1>1, <2>1, <3>1, <3>2, <4>1
    <3>5. i <= Len(a) - k \/ i > Len(a) - k
      BY <1>1, <3>2
    <3> QED BY <3>3, <3>4, <3>5
  <2>3. Len(TS!Drop(a \o b, k)) = Len(TS!Drop(a, k) \o b)
    BY <1>1, <1>3, <2>1
  <2> QED BY <1>1, <1>3, <2>1, <2>2, <2>3, SeqEqual
<1>7. \A i \in 1 .. Len(a) : i \in 1 .. Len(a \o b) /\ (a \o b)[i] = a[i]
  BY <1>1
<1> QED BY <1>2, <1>5, <1>6, <1>7

\* A line taken as a whole.
LEMMA WholeLine ==
  ASSUME NEW a \in Seq(PacketType)
  PROVE  TS!Front(a, Len(a)) = a /\ TS!Drop(a, Len(a)) = <<>>
<1>1. Len(a) \in Nat
  BY LenProperties
<1>2. TS!Front(a, Len(a)) = a
  BY SubSeqFull DEF TS!Front
<1>3. TS!Drop(a, Len(a)) = <<>>
  <2>1. Len(a) + 1 \in Int /\ Len(a) \in Int /\ Len(a) < Len(a) + 1
    BY <1>1
  <2>2. SubSeq(a, Len(a) + 1, Len(a)) = <<>>
    BY <2>1, SubSeqEmpty
  <2> QED BY <2>2 DEF TS!Drop
<1> QED BY <1>2, <1>3

\* A step that changes the line of t alone, as the abstract stream writes it.
LEMMA LineStep ==
  ASSUME IInv, NEW t \in Threads, NEW line, ring'[t] \o trailing'[t] = line,
         \A u \in Threads \ {t} : ring'[u] = ring[u] /\ trailing'[u] = trailing[u]
  PROVE  [u \in Threads |-> ring'[u] \o trailing'[u]]
           = [[u \in Threads |-> ring[u] \o trailing[u]] EXCEPT ![t] = line]
OBVIOUS

\* A process that is not overflowing has nothing in front of its ring's end,
\* and a buffer's line is a sequence of packets.
LEMMA LineType ==
  ASSUME IInv, NEW t \in Threads
  PROVE  /\ ring[t] \in Seq(PacketType) /\ trailing[t] \in Seq(PacketType)
         /\ ring[t] \o trailing[t] \in Seq(PacketType)
         /\ Len(ring[t]) \in Nat /\ Len(trailing[t]) \in 0 .. 1
<1>1. ring[t] \in Seq(PacketType) /\ trailing[t] \in Seq(PacketType)
  BY DEF IInv, TypeOK, QueueType
<1>2. ring[t] \o trailing[t] \in Seq(PacketType)
  BY <1>1, ConcatProperties
<1>3. Len(ring[t]) \in Nat /\ Len(trailing[t]) \in Nat
  BY <1>1, LenProperties
<1>4. Len(trailing[t]) <= 1
  BY DEF IInv, ControlInv
<1>5. Len(trailing[t]) \in 0 .. 1
  <2>1. \A n \in Nat : n <= 1 => n \in 0 .. 1
    OBVIOUS
  <2> QED BY <1>3, <1>4, <2>1, Zenon
<1> QED BY <1>1, <1>2, <1>3, <1>5, Zenon

-----------------------------------------------------------------------------
(* Every step of the pipeline is a step of the stream.                      *)

\* A packet finished in a callback, whether it fits the ring or not.
LEMMA RefinesFinish ==
  ASSUME IInv, NEW t \in Threads, NEW s \in Sizes, Push(t, s) \/ Overflow(t, s)
  PROVE  TS!Finish(t)
<1> DEFINE pkt == [thr |-> t, num |-> made[t] + 1, size |-> s]
<1>1. trailing[t] = <<>>
  BY DEF IInv, ControlInv, Push, Overflow
<1>2. pkt \in PacketType /\ pkt = Packet(t, s)
  BY OutputAssumption DEF IInv, TypeOK, QueueType, Push, Overflow, Packet, PacketType
<1>3. /\ Append(ring[t], pkt) = ring[t] \o <<pkt>>
      /\ ring[t] \o <<>> = ring[t] /\ Append(ring[t], pkt) \in Seq(PacketType)
      /\ Append(ring[t], pkt) \o <<>> = Append(ring[t], pkt)
  BY <1>2, LineType, AppendIsConcat, AppendProperties, ConcatEmptySeq
<1>4. /\ ring'[t] \o trailing'[t] = Append(ring[t] \o trailing[t], pkt)
      /\ \A u \in Threads \ {t} : ring'[u] = ring[u] /\ trailing'[u] = trailing[u]
  <2> HIDE DEF pkt
  <2>1. CASE Push(t, s)
    <3>1. ring'[t] = Append(ring[t], pkt) /\ trailing' = trailing
          /\ \A u \in Threads \ {t} : ring'[u] = ring[u]
      BY <1>2, <2>1 DEF Push, IInv, TypeOK, QueueType
    <3> QED BY <1>1, <1>3, <3>1
  <2>2. CASE Overflow(t, s)
    <3>1. ring' = ring /\ trailing'[t] = <<pkt>>
          /\ \A u \in Threads \ {t} : trailing'[u] = trailing[u]
      BY <1>2, <2>2 DEF Overflow, IInv, TypeOK, QueueType
    <3> QED BY <1>1, <1>3, <3>1
  <2> QED BY <2>1, <2>2
<1>5. /\ made' = [made EXCEPT ![t] = @ + 1] /\ made'[t] = made[t] + 1
      /\ UNCHANGED <<output, failures>>
  BY DEF Push, Overflow, IInv, TypeOK, QueueType
<1>6. [u \in Threads |-> ring'[u] \o trailing'[u]]
        = [[u \in Threads |-> ring[u] \o trailing[u]]
             EXCEPT ![t] = Append(ring[t] \o trailing[t], pkt)]
  BY <1>4, LineStep
<1>7. [u \in Threads |-> ring'[u] \o trailing'[u]]
        = [[u \in Threads |-> ring[u] \o trailing[u]]
             EXCEPT ![t] = Append(@, [thr |-> t, num |-> made'[t], size |-> s])]
  BY <1>5, <1>6
<1> QED BY <1>5, <1>7 DEF TS!Finish

\* A chunk consumed unwritten is discarded, and only after a failure.
LEMMA RefinesReadSlots ==
  ASSUME IInv, ErrInv, NEW p \in Procs, ReadSlots(p)
  PROVE  TS!Discard(target[p]) \/ UNCHANGED TS!vars
<1> DEFINE t == target[p]
<1>1. t \in Threads
  BY DEF ReadSlots, IInv, ControlInv
<1>2. UNCHANGED <<trailing, made, output, failures>>
  BY DEF ReadSlots, DrainFrame
<1>3. CASE ring' = ring
  BY <1>2, <1>3 DEF TS!vars
<1>4. CASE ring' # ring
  <2>1. /\ ring'[t] = <<>> /\ \A u \in Threads \ {t} : ring'[u] = ring[u]
        /\ Len(ring[t]) # 0 => hasError
    BY <1>4 DEF ReadSlots, Buf, IInv, TypeOK, QueueType, ControlType
  <2>2. Len(ring[t]) # 0
    <3> SUFFICES ASSUME Len(ring[t]) = 0 PROVE ring' = ring
      BY <1>4
    <3>1. ring[t] = <<>>
      BY <1>1, LineType, EmptySeq
    <3>2. ring \in [Threads -> Seq(PacketType)]
      BY DEF IInv, TypeOK, QueueType
    <3>3. ring' = [ring EXCEPT ![t] = <<>>] \/ ring' = ring
      BY DEF ReadSlots, Buf
    <3> QED BY <1>1, <3>1, <3>2, <3>3
  <2>3. failures > 0
    BY <2>1, <2>2 DEF ErrInv
  <2>4. Len(ring[t]) \in 1 .. Len(ring[t] \o trailing[t])
        /\ TS!Drop(ring[t] \o trailing[t], Len(ring[t])) = trailing[t]
    <3>1. Len(ring[t]) \in 0 .. Len(ring[t]) /\ Len(ring[t]) \in 1 .. Len(ring[t])
      BY <1>1, <2>2, LineType
    <3>2. TS!Drop(ring[t] \o trailing[t], Len(ring[t]))
            = TS!Drop(ring[t], Len(ring[t])) \o trailing[t]
      BY <1>1, <3>1, LineType, LineCut
    <3>3. Len(ring[t]) \in 1 .. Len(ring[t] \o trailing[t])
      BY <1>1, <3>1, LineType, LineCut
    <3> QED BY <1>1, <3>2, <3>3, LineType, WholeLine, ConcatEmptySeq
  <2>5. ring'[t] \o trailing'[t] = TS!Drop(ring[t] \o trailing[t], Len(ring[t]))
    BY <1>1, <1>2, <2>1, <2>4, LineType, ConcatEmptySeq
  <2>6. [u \in Threads |-> ring'[u] \o trailing'[u]]
          = [[u \in Threads |-> ring[u] \o trailing[u]]
               EXCEPT ![t] = TS!Drop(ring[t] \o trailing[t], Len(ring[t]))]
    BY <1>1, <1>2, <2>1, <2>5, LineStep
  <2> QED BY <1>1, <1>2, <2>3, <2>4, <2>6 DEF TS!Discard
<1> QED BY <1>3, <1>4

\* A chunk written to the end is delivered; one whose write fails is broken
\* off.
LEMMA RefinesChunk ==
  ASSUME IInv, NEW p \in Procs, WriteChunk(p) \/ FailChunk(p)
  PROVE  TS!Deliver(target[p]) \/ TS!Break(target[p])
<1> DEFINE t == target[p]
           a == avail[p]
           line == ring[t] \o trailing[t]
<1>1. t \in Threads
  BY DEF WriteChunk, FailChunk, IInv, ControlInv
<1>2. a \in 1 .. Len(ring[t]) /\ a \in 0 .. Len(ring[t])
  BY <1>1, LineType DEF WriteChunk, FailChunk, IInv, DrainInv, ChunkInv
<1>3. /\ UNCHANGED <<trailing, made>>
      /\ ring' = [ring EXCEPT ![t] = TS!Drop(ring[t], a)]
  BY DEF WriteChunk, FailChunk, CommitChunk, DrainFrame, Buf
<1>4. /\ ring'[t] = TS!Drop(ring[t], a)
      /\ \A u \in Threads \ {t} : ring'[u] = ring[u]
  BY <1>1, <1>3 DEF IInv, TypeOK, QueueType
<1>5. ring'[t] \o trailing'[t] = TS!Drop(line, a)
  <2> HIDE DEF t, a
  <2>1. TS!Drop(ring[t] \o trailing[t], a) = TS!Drop(ring[t], a) \o trailing[t]
    BY <1>1, <1>2, LineType, LineCut
  <2> QED BY <1>3, <1>4, <2>1
<1>6. [u \in Threads |-> ring'[u] \o trailing'[u]]
        = [[u \in Threads |-> ring[u] \o trailing[u]] EXCEPT ![t] = TS!Drop(line, a)]
  <2> HIDE DEF line, a
  <2> QED BY <1>1, <1>3, <1>4, <1>5, LineStep
<1>7. a \in 1 .. Len(line)
  BY <1>1, <1>2, LineType, LineCut
<1>8. CASE WriteChunk(p)
  <2>1. output' = output \o TS!Front(ring[t], a) /\ failures' = failures
    BY <1>8 DEF WriteChunk, Buf
  <2>2. TS!Front(ring[t], a) = TS!Front(line, a)
    BY <1>1, <1>2, LineType, LineCut
  <2> QED BY <1>1, <1>3, <1>6, <1>7, <2>1, <2>2 DEF TS!Deliver
<1>9. CASE FailChunk(p)
  <2>1. PICK k \in 0 .. a - 1 :
          \/ output' = output \o TS!Front(ring[t], k)
          \/ output' = Append(output \o TS!Front(ring[t], k), TS!Fragment(ring[t][k + 1]))
    BY <1>9 DEF FailChunk, Buf
  <2>2. k \in 0 .. Len(ring[t]) /\ k + 1 \in 1 .. Len(ring[t])
    BY <1>2, <2>1
  <2>3. TS!Front(ring[t], k) = TS!Front(line, k) /\ ring[t][k + 1] = line[k + 1]
    BY <1>1, <2>2, LineType, LineCut
  <2>4. failures' > 0
    BY <1>9 DEF FailChunk, Fail, IInv, TypeOK, HistoryType
  <2>5. TS!Break(t)
    BY <1>1, <1>3, <1>6, <1>7, <2>1, <2>3, <2>4 DEF TS!Break
  <2> QED BY <2>5
<1> QED BY <1>8, <1>9

\* The overflowing packet alone in its line.
LEMMA TrailingLine ==
  ASSUME IInv, NEW p \in Procs, pc[p] \in {"trailing", "writeTrailing"}, op[p] = "emit",
         trailing[p] # <<>>
  PROVE  /\ p \in Threads /\ target[p] = p
         /\ ring[p] = <<>> /\ ring[p] \o trailing[p] = trailing[p]
         /\ Len(trailing[p]) = 1 /\ trailing[p] \in Seq(PacketType)
<1>1. p \in Threads /\ target[p] = p /\ ring[p] = <<>>
  BY DEF IInv, ControlInv, DrainInv, ChunkInv
<1>2. trailing[p] \in Seq(PacketType) /\ Len(trailing[p]) \in 0 .. 1
  BY <1>1, LineType
<1>3. Len(trailing[p]) # 0
  BY <1>2, EmptySeq
<1>4. Len(trailing[p]) = 1
  <2>1. \A n \in 0 .. 1 : n # 0 => n = 1
    OBVIOUS
  <2> QED BY <1>2, <1>3, <2>1, Zenon
<1> QED BY <1>1, <1>2, <1>4, ConcatEmptySeq

\* Clearing it empties the line.
LEMMA TrailingCleared ==
  ASSUME IInv, NEW p \in Threads, op[p] = "emit", ring[p] = <<>>, UNCHANGED ring,
         Len(trailing[p]) = 1, ring[p] \o trailing[p] = trailing[p], ClearTrailing(p)
  PROVE  [u \in Threads |-> ring'[u] \o trailing'[u]]
           = [[u \in Threads |-> ring[u] \o trailing[u]]
                EXCEPT ![p] = TS!Drop(ring[p] \o trailing[p], 1)]
<1>1. trailing'[p] = <<>> /\ \A u \in Threads \ {p} : trailing'[u] = trailing[u]
  BY DEF ClearTrailing, IInv, TypeOK, QueueType
<1>2. TS!Drop(trailing[p], Len(trailing[p])) = <<>> /\ <<>> \o <<>> = <<>>
  BY LineType, WholeLine, ConcatEmptySeq, EmptySeq
<1>3. ring'[p] \o trailing'[p] = TS!Drop(ring[p] \o trailing[p], 1)
  BY <1>1, <1>2
<1> QED BY <1>1, <1>3, LineStep

\* The overflowing packet is discarded after a failure, delivered or broken.
LEMMA RefinesTrailing ==
  ASSUME IInv, ErrInv, NEW p \in Procs,
         CheckTrailing(p) \/ WriteTrailing(p) \/ FailTrailing(p)
  PROVE  \/ UNCHANGED TS!vars
         \/ p \in Threads /\ (TS!Discard(p) \/ TS!Deliver(p) \/ TS!Break(p))
<1>1. UNCHANGED <<ring, made>>
  BY DEF CheckTrailing, WriteTrailing, FailTrailing, DrainFrame
<1>2. CASE CheckTrailing(p)
  <2>1. UNCHANGED <<output, failures>> /\ (trailing' = trailing \/ ClearTrailing(p))
    BY <1>2 DEF CheckTrailing
  <2>2. CASE trailing' = trailing
    BY <1>1, <2>1, <2>2 DEF TS!vars
  <2>3. CASE trailing' # trailing
    <3>1. ClearTrailing(p) /\ op[p] = "emit" /\ pc[p] = "trailing"
      BY <1>2, <2>1, <2>3 DEF CheckTrailing, ClearTrailing
    <3>2. p \in Threads /\ trailing[p] # <<>>
      BY <2>3, <3>1 DEF IInv, ControlInv, TypeOK, QueueType, ClearTrailing
    <3>3. failures > 0
      BY <1>2, <2>3, <3>1, <3>2 DEF CheckTrailing, MayWriteTrailing, Trailing, ErrInv
    <3>4. 1 \in 1 .. Len(ring[p] \o trailing[p])
      <4>1. Len(ring[p] \o trailing[p]) = 1
        BY <3>1, <3>2, TrailingLine
      <4> QED BY <4>1
    <3>5. [u \in Threads |-> ring'[u] \o trailing'[u]]
            = [[u \in Threads |-> ring[u] \o trailing[u]]
                 EXCEPT ![p] = TS!Drop(ring[p] \o trailing[p], 1)]
      BY <1>1, <3>1, <3>2, TrailingLine, TrailingCleared
    <3> QED BY <1>1, <2>1, <3>2, <3>3, <3>4, <3>5 DEF TS!Discard
  <2> QED BY <2>2, <2>3
<1>3. CASE WriteTrailing(p) \/ FailTrailing(p)
  <2>1. /\ pc[p] = "writeTrailing" /\ op[p] = "emit" /\ trailing[p] # <<>>
        /\ ClearTrailing(p) /\ Trailing(p) = trailing[p]
    BY <1>3 DEF WriteTrailing, FailTrailing, Trailing, IInv, ControlInv
  <2>2. /\ p \in Threads /\ 1 \in 1 .. Len(ring[p] \o trailing[p])
        /\ ring[p] \o trailing[p] = trailing[p] /\ Len(trailing[p]) = 1
        /\ trailing[p] \in Seq(PacketType)
    <3>1. /\ p \in Threads /\ trailing[p] \in Seq(PacketType)
          /\ ring[p] \o trailing[p] = trailing[p] /\ Len(trailing[p]) = 1
      BY <2>1, TrailingLine
    <3> QED BY <3>1
  <2>3. [u \in Threads |-> ring'[u] \o trailing'[u]]
          = [[u \in Threads |-> ring[u] \o trailing[u]]
               EXCEPT ![p] = TS!Drop(ring[p] \o trailing[p], 1)]
    BY <1>1, <2>1, TrailingLine, TrailingCleared
  <2>4. CASE WriteTrailing(p)
    <3>1. output' = output \o TS!Front(ring[p] \o trailing[p], 1) /\ failures' = failures
      BY <2>1, <2>2, <2>4, WholeLine DEF WriteTrailing
    <3> QED BY <1>1, <2>2, <2>3, <3>1 DEF TS!Deliver
  <2>5. CASE FailTrailing(p)
    <3>1. failures' > 0
      BY <2>5 DEF FailTrailing, Fail, IInv, TypeOK, HistoryType
    <3>2. TS!Front(ring[p] \o trailing[p], 0) = <<>>
      <4>1. SubSeq(ring[p] \o trailing[p], 1, 0) = <<>>
        BY SubSeqEmpty
      <4> QED BY <4>1 DEF TS!Front
    <3>3. output \o TS!Front(ring[p] \o trailing[p], 0) = output
      BY <3>2, ConcatEmptySeq DEF IInv, TypeOK, QueueType
    <3>4. \/ output' = output
          \/ output' = Append(output, TS!Fragment((ring[p] \o trailing[p])[0 + 1]))
      BY <2>1, <2>2, <2>5 DEF FailTrailing
    <3>5. 0 \in 0 .. 1 - 1
      OBVIOUS
    <3>6. TS!Break(p)
      BY <1>1, <2>2, <2>3, <3>1, <3>3, <3>4, <3>5 DEF TS!Break
    <3> QED BY <2>2, <3>6
  <2> QED BY <1>3, <2>4, <2>5
<1> QED BY <1>2, <1>3

\* Every other step leaves the lines alone; only the writer's own flush can
\* fail there.
LEMMA RefinesRest ==
  ASSUME IInv, NEW p \in Procs
  PROVE  /\ p \in Threads /\ (Acquire(p) \/ Release(p) \/ Exit(p)) => UNCHANGED TS!vars
         /\ p \in Flushers /\ (Flush(p) \/ DropGuard(p) \/ DropLayer(p)) => UNCHANGED TS!vars
         /\ LockConsumer(p) \/ LockWriter(p) \/ UnlockWriter(p) \/ UnlockConsumer(p)
              \/ RecordError(p) => UNCHANGED TS!vars
         /\ CloneRegistry(p) \/ NextBuffer(p) \/ FlushResult(p) \/ Unref(p)
              => UNCHANGED TS!vars
         /\ SyncWriter(p) => TS!BreakSync \/ UNCHANGED TS!vars
<1>1. ASSUME UNCHANGED <<ring, trailing, made, output, failures>> PROVE UNCHANGED TS!vars
  BY <1>1 DEF TS!vars
<1>2. /\ p \in Threads /\ (Acquire(p) \/ Release(p) \/ Exit(p))
           => UNCHANGED <<ring, trailing, made, output, failures>>
      /\ p \in Flushers /\ (Flush(p) \/ DropGuard(p) \/ DropLayer(p))
           => UNCHANGED <<ring, trailing, made, output, failures>>
  BY DEF Acquire, Release, Exit, Flush, DropGuard, DropLayer, FlushFrame
<1>3. LockConsumer(p) \/ LockWriter(p) \/ UnlockWriter(p) \/ UnlockConsumer(p)
        \/ RecordError(p) => UNCHANGED <<ring, trailing, made, output, failures>>
  BY DEF LockConsumer, LockWriter, UnlockWriter, UnlockConsumer, RecordError, DrainFrame
<1>4. CloneRegistry(p) \/ NextBuffer(p) \/ FlushResult(p) \/ Unref(p)
        => UNCHANGED <<ring, trailing, made, output, failures>>
  BY DEF CloneRegistry, NextBuffer, FlushResult, Unref, FlushFrame
<1>5. ASSUME SyncWriter(p) PROVE TS!BreakSync \/ UNCHANGED TS!vars
  <2>1. UNCHANGED <<ring, trailing, made, output>>
    BY <1>5 DEF SyncWriter, FlushFrame
  <2>2. CASE UNCHANGED failures
    BY <1>1, <2>1, <2>2
  <2>3. CASE Fail(p)
    <3>1. failures' > 0
      BY <2>3 DEF Fail, IInv, TypeOK, HistoryType
    <3> QED BY <2>1, <3>1 DEF TS!BreakSync
  <2> QED BY <1>5, <2>2, <2>3 DEF SyncWriter
<1> QED BY <1>1, <1>2, <1>3, <1>4, <1>5

\* Initially no thread has a line.
LEMMA RefinesInit == Init => TS!Init
<1> SUFFICES ASSUME Init PROVE TS!Init
  OBVIOUS
<1>1. <<>> \o <<>> = <<>>
  BY EmptySeq, ConcatEmptySeq
<1>2. ~(failures > 0)
  BY DEF Init
<1> QED BY <1>1, <1>2 DEF Init, TS!Init

LEMMA RefinesStep == IInv /\ ErrInv /\ [Next]_vars => [TS!Next]_TS!vars
<1> SUFFICES ASSUME IInv, ErrInv, [Next]_vars PROVE TS!Next \/ UNCHANGED TS!vars
  OBVIOUS
<1>1. ASSUME NEW t \in Threads, TS!Finish(t) \/ TS!Deliver(t) \/ TS!Break(t) \/ TS!Discard(t)
      PROVE  TS!Next
  BY <1>1 DEF TS!Next
<1>2. ASSUME NEW t \in Threads, Acquire(t) \/ Emit(t) \/ Release(t) \/ Exit(t)
      PROVE  TS!Next \/ UNCHANGED TS!vars
  BY <1>1, <1>2, RefinesFinish, RefinesRest DEF Emit
<1>3. ASSUME NEW f \in Flushers, Flush(f) \/ DropGuard(f) \/ DropLayer(f)
      PROVE  TS!Next \/ UNCHANGED TS!vars
  BY <1>3, RefinesRest
<1>4. ASSUME NEW p \in Procs, DrainStep(p) PROVE TS!Next \/ UNCHANGED TS!vars
  <2>1. ASSUME ReadSlots(p) \/ WriteChunk(p) \/ FailChunk(p)
        PROVE  TS!Next \/ UNCHANGED TS!vars
    <3>1. target[p] \in Threads
      BY <2>1 DEF ReadSlots, WriteChunk, FailChunk, IInv, ControlInv
    <3>2. \/ TS!Discard(target[p]) \/ TS!Deliver(target[p]) \/ TS!Break(target[p])
          \/ UNCHANGED TS!vars
      BY <2>1, RefinesReadSlots, RefinesChunk
    <3> QED BY <3>1, <3>2 DEF TS!Next, TS!Discard, TS!Deliver, TS!Break
  <2>2. ASSUME CheckTrailing(p) \/ WriteTrailing(p) \/ FailTrailing(p)
        PROVE  TS!Next \/ UNCHANGED TS!vars
    BY <1>1, <2>2, RefinesTrailing
  <2>3. ASSUME \/ LockConsumer(p) \/ LockWriter(p) \/ UnlockWriter(p)
               \/ UnlockConsumer(p) \/ RecordError(p)
        PROVE  UNCHANGED TS!vars
    BY <2>3, RefinesRest
  <2> QED BY <1>4, <2>1, <2>2, <2>3 DEF DrainStep
<1>5. ASSUME NEW p \in Procs, FlushStep(p) PROVE TS!Next \/ UNCHANGED TS!vars
  BY <1>5, RefinesRest DEF FlushStep, TS!Next
<1>6. CASE UNCHANGED vars
  BY <1>6 DEF vars, TS!vars
<1> QED BY <1>2, <1>3, <1>4, <1>5, <1>6 DEF Next, Done

-----------------------------------------------------------------------------
(* The error cell.                                                          *)

\* A step that records nothing leaves the invariant alone if a process that
\* comes to "record" or changes its error has just seen a failure.
LEMMA ErrQuiet ==
  ASSUME IInv, ErrInv, NEW p \in Procs,
         UNCHANGED errors,
         \A q \in Procs \ {p} : pc'[q] = pc[q] /\ err'[q] = err[q],
         (failures' = failures /\ err'[p] = err[p]) \/ Fail(p),
         pc'[p] = "record" => err'[p] # 0
  PROVE  ErrInv'
<1>1. failures \in Nat
  BY OutputAssumption DEF IInv, TypeOK, HistoryType
<1>2. CASE failures' = failures /\ err'[p] = err[p]
  BY <1>1, <1>2 DEF ErrInv, errors
<1>3. CASE Fail(p)
  <2>1. failures' > 0 /\ failures' # 0
    BY <1>1, <1>3 DEF Fail
  <2> QED BY <1>1, <1>3, <2>1 DEF ErrInv, errors
<1> QED BY <1>2, <1>3

LEMMA ErrThread ==
  ASSUME IInv, ErrInv, NEW t \in Threads, Acquire(t) \/ Emit(t) \/ Release(t) \/ Exit(t)
  PROVE  ErrInv'
<1>1. /\ UNCHANGED <<errors, failures, err>>
      /\ \E l \in {"callback", "lockConsumer", "idle", "gone"} :
           pc' = [pc EXCEPT ![t] = l]
  BY DEF Acquire, Emit, Push, Overflow, Release, Exit, Begin, Goto, control,
         IInv, TypeOK, ControlType
<1>2. pc'[t] # "record" /\ \A q \in Procs \ {t} : pc'[q] = pc[q]
  BY <1>1 DEF IInv, TypeOK, ControlType
<1> QED BY <1>1, <1>2, ErrQuiet

LEMMA ErrOwner ==
  ASSUME IInv, ErrInv, NEW f \in Flushers, Flush(f) \/ DropGuard(f) \/ DropLayer(f)
  PROVE  ErrInv'
<1>1. /\ UNCHANGED <<errors, failures, err>>
      /\ \E l \in {"clone", "idle"} : pc' = [pc EXCEPT ![f] = l]
  BY DEF Flush, DropGuard, DropLayer, Begin, Goto, IInv, TypeOK, ControlType
<1>2. pc'[f] # "record" /\ \A q \in Procs \ {f} : pc'[q] = pc[q]
  BY <1>1 DEF IInv, TypeOK, ControlType
<1> QED BY <1>1, <1>2, ErrQuiet

LEMMA ErrDrain ==
  ASSUME IInv, ErrInv, NEW p \in Procs, DrainStep(p)
  PROVE  ErrInv' /\ (error # 0 => error' = error)
<1>1. CASE LockConsumer(p) \/ LockWriter(p) \/ ReadSlots(p) \/ WriteChunk(p)
           \/ CheckTrailing(p) \/ WriteTrailing(p) \/ UnlockWriter(p)
  <2>1. /\ UNCHANGED <<errors, failures, err>>
        /\ \E l \in {"lockWriter", "slots", "writeChunk", "trailing", "writeTrailing",
                     "unlockWriter", "unlockConsumer"} : pc' = [pc EXCEPT ![p] = l]
    BY <1>1 DEF LockConsumer, LockWriter, ReadSlots, WriteChunk, CheckTrailing,
                WriteTrailing, UnlockWriter, Goto
  <2>2. pc'[p] # "record" /\ \A q \in Procs \ {p} : pc'[q] = pc[q]
    BY <2>1 DEF IInv, TypeOK, ControlType
  <2> QED BY <2>1, <2>2, ErrQuiet DEF errors
<1>2. CASE FailChunk(p) \/ FailTrailing(p)
  <2>1. /\ UNCHANGED errors /\ Fail(p)
        /\ \E l \in {"trailing", "unlockWriter"} : pc' = [pc EXCEPT ![p] = l]
    BY <1>2 DEF FailChunk, FailTrailing, Goto
  <2>2. pc'[p] # "record" /\ \A q \in Procs \ {p} : pc'[q] = pc[q] /\ err'[q] = err[q]
    BY <2>1 DEF IInv, TypeOK, ControlType, Fail
  <2> QED BY <2>1, <2>2, ErrQuiet DEF errors
<1>3. CASE UnlockConsumer(p)
  <2>1. UNCHANGED <<errors, failures, err>>
        /\ pc' = [pc EXCEPT ![p] = IF err[p] = 0 THEN Resume(p) ELSE "record"]
    BY <1>3 DEF UnlockConsumer, Goto
  <2>2. Resume(p) # "record"
    BY ResumeType
  <2>3. /\ pc'[p] = "record" => err'[p] # 0
        /\ \A q \in Procs \ {p} : pc'[q] = pc[q]
    BY <2>1, <2>2 DEF IInv, TypeOK, ControlType
  <2> QED BY <2>1, <2>3, ErrQuiet DEF errors
<1>4. CASE RecordError(p)
  <2>1. /\ error' = FirstError(p) /\ err[p] # 0 /\ failures > 0 /\ failures' = failures
        /\ err' = [err EXCEPT ![p] = 0] /\ pc' = [pc EXCEPT ![p] = Resume(p)]
    BY <1>4 DEF RecordError, ErrInv, Goto
  <2>2. error' # 0 /\ (error # 0 => error' = error)
    BY <2>1 DEF FirstError
  <2>3. Resume(p) # "record"
    BY ResumeType
  <2>4. /\ pc'[p] # "record" /\ err'[p] = 0
        /\ \A q \in Procs \ {p} : pc'[q] = pc[q] /\ err'[q] = err[q]
    BY <2>1, <2>3 DEF IInv, TypeOK, ControlType
  <2>5. ErrInv'
    BY <2>1, <2>2, <2>4 DEF ErrInv
  <2> QED BY <2>2, <2>5
<1> QED BY <1>1, <1>2, <1>3, <1>4 DEF DrainStep

LEMMA ErrFlush ==
  ASSUME IInv, ErrInv, NEW p \in Procs, FlushStep(p)
  PROVE  ErrInv' /\ UNCHANGED errors
<1>1. CASE CloneRegistry(p) \/ NextBuffer(p) \/ FlushResult(p) \/ Unref(p)
  <2>1. /\ UNCHANGED <<errors, failures, err>>
        /\ \E l \in {"next", "lockConsumer", "idle", "unref", "gone", "clone"} :
             pc' = [pc EXCEPT ![p] = l]
    BY <1>1 DEF CloneRegistry, NextBuffer, FlushResult, Unref, Begin, Goto
  <2>2. pc'[p] # "record" /\ \A q \in Procs \ {p} : pc'[q] = pc[q]
    BY <2>1 DEF IInv, TypeOK, ControlType
  <2> QED BY <2>1, <2>2, ErrQuiet
<1>2. CASE SyncWriter(p)
  <2>1. /\ UNCHANGED errors
        /\ \/ pc' = [pc EXCEPT ![p] = "result"] /\ UNCHANGED <<err, failures>>
           \/ pc' = [pc EXCEPT ![p] = "record"] /\ Fail(p)
    BY <1>2 DEF SyncWriter, Goto
  <2>2. CASE pc' = [pc EXCEPT ![p] = "result"] /\ UNCHANGED <<err, failures>>
    <3>1. pc'[p] # "record" /\ \A q \in Procs \ {p} : pc'[q] = pc[q]
      BY <2>2 DEF IInv, TypeOK, ControlType
    <3> QED BY <2>1, <2>2, <3>1, ErrQuiet
  <2>3. CASE pc' = [pc EXCEPT ![p] = "record"] /\ Fail(p)
    <3>1. err'[p] # 0
      BY <2>3 DEF Fail, IInv, TypeOK, ControlType, HistoryType
    <3>2. \A q \in Procs \ {p} : pc'[q] = pc[q] /\ err'[q] = err[q]
      BY <2>3 DEF Fail, IInv, TypeOK, ControlType
    <3> QED BY <2>1, <2>3, <3>1, <3>2, ErrQuiet
  <2> QED BY <2>1, <2>2, <2>3
<1> QED BY <1>1, <1>2 DEF FlushStep

LEMMA ErrStep ==
  IInv /\ ErrInv /\ [Next]_vars => ErrInv' /\ (error # 0 => error' = error)
<1> SUFFICES ASSUME IInv, ErrInv, [Next]_vars PROVE ErrInv' /\ (error # 0 => error' = error)
  OBVIOUS
<1>1. ASSUME NEW t \in Threads, Acquire(t) \/ Emit(t) \/ Release(t) \/ Exit(t)
      PROVE  ErrInv' /\ error' = error
  BY <1>1, ErrThread
     DEF Acquire, Emit, Push, Overflow, Release, Exit, errors
<1>2. ASSUME NEW f \in Flushers, Flush(f) \/ DropGuard(f) \/ DropLayer(f)
      PROVE  ErrInv' /\ error' = error
  BY <1>2, ErrOwner DEF Flush, DropGuard, DropLayer, errors
<1>3. ASSUME NEW p \in Procs, DrainStep(p) \/ FlushStep(p)
      PROVE  ErrInv' /\ (error # 0 => error' = error)
  BY <1>3, ErrDrain, ErrFlush DEF errors
<1>4. CASE UNCHANGED vars
  BY <1>4 DEF vars, control, errors, ErrInv
<1> QED BY <1>1, <1>2, <1>3, <1>4 DEF Next, Done

LEMMA ErrInit == Init => ErrInv
  BY DEF Init, ErrInv

-----------------------------------------------------------------------------
(* The theorems.                                                            *)

\* What flush() reports never changes and is there whenever has_error is seen:
\* record_error and flush_all agree for any number of failing drains.
THEOREM FirstErrorSticks == Spec => ErrorSticks
<1>1. IInv /\ ErrInv /\ [Next]_vars =>
        [/\ error # 0 => error' = error
         /\ hasError' => error' # 0]_vars
  <2> SUFFICES ASSUME IInv, ErrInv, [Next]_vars
      PROVE  (error # 0 => error' = error) /\ (hasError' => error' # 0)
    OBVIOUS
  <2>1. ErrInv' /\ (error # 0 => error' = error)
    BY ErrStep
  <2> QED BY <2>1 DEF ErrInv
<1> QED BY InitInv, StepInv, ErrInit, ErrStep, <1>1, PTL DEF Spec, ErrorSticks

\* The pipeline implements the abstract trace stream: whatever the rings, the
\* locks and the writer do, only the abstract deliveries, failures and
\* discards are visible in the trace.
THEOREM Refinement == Spec => Implements
  BY InitInv, StepInv, ErrInit, ErrStep, RefinesInit, RefinesStep, PTL
     DEF Spec, Implements, TS!Spec

\* What is proved of the abstract stream, at the values the pipeline gives it.
TSP == INSTANCE TraceStream_proofs WITH
         pending <- [t \in Threads |-> ring[t] \o trailing[t]],
         count   <- made,
         stream  <- output,
         broken  <- failures > 0

LEMMA SameStream == Implements => TSP!Spec
<1>1. TS!Init => TSP!Init
  BY DEF TS!Init, TSP!Init
<1>2. [TS!Next]_TS!vars => [TSP!Next]_TSP!vars
  BY DEF TS!Next, TSP!Next, TS!vars, TSP!vars, TS!Finish, TSP!Finish, TS!Deliver, TSP!Deliver,
         TS!Break, TSP!Break, TS!BreakSync, TSP!BreakSync, TS!Discard, TSP!Discard,
         TS!Front, TSP!Front, TS!Drop, TSP!Drop, TS!Fragment, TSP!Fragment
<1> QED BY <1>1, <1>2, PTL DEF Implements, TS!Spec, TSP!Spec

\* A thread's packets reach the trace in the order it finished them and at
\* most once, for any number of threads, drainers and write failures.
THEOREM OrderPreserved == Spec => []StreamOrdered
<1>1. TSP!Ordered => StreamOrdered
  BY DEF TSP!Ordered, StreamOrdered, TS!Ordered
<1>2. TSP!Spec => []TSP!Ordered
  BY TSP!StreamOrder
<1> QED BY Refinement, SameStream, <1>1, <1>2, PTL

\* While no write has failed every finished packet is in the trace, in a ring
\* or about to follow one.
THEOREM PacketsKept == Spec => []NothingLost
<1>1. TSP!Lossless => NothingLost
  BY DEF TSP!Lossless, TSP!Reached, NothingLost, TS!Lossless, TS!Reached
<1>2. TSP!Spec => []TSP!Lossless
  BY TSP!NoLoss
<1> QED BY Refinement, SameStream, <1>1, <1>2, PTL

-----------------------------------------------------------------------------
(* Delivery: what an exit, a flush and the end of the shared state bring into *)
(* the trace, and how much is written after an error.                        *)

\* The labels of each operation, and who owns the shared state during it.
Sweep == DrainLabels \cup {"clone", "next", "result"}
LabelInv ==
  \A p \in Procs :
    /\ op[p] = "none"      => pc[p] \in {"idle", "callback", "gone"}
    /\ op[p] = "emit"      => pc[p] \in DrainLabels \cup {"callback"}
    /\ op[p] = "exit"      => pc[p] \in DrainLabels \cup {"unref"}
    /\ op[p] = "flush"     => pc[p] \in Sweep
    /\ op[p] = "dropGuard" => pc[p] \in Sweep \cup {"unref"}
    /\ op[p] = "dropInner" => pc[p] \in Sweep
    /\ op[p] = "exit" /\ pc[p] \in DrainLabels => target[p] = p
    /\ op[p] \in {"flush", "dropGuard"} => p \in Flushers

InCallback(t) == pc[t] = "callback" \/ op[t] = "emit"

OwnerInv ==
  /\ \A t \in Threads : InCallback(t) => "layer" \in strong
  /\ \A t \in Threads : op[t] = "exit" => t \in strong
  /\ \A f \in Flushers : op[f] \in {"flush", "dropGuard"} => "guard" \in strong
  /\ \A f, g \in Flushers :
       op[f] = "dropGuard" /\ op[g] \in {"flush", "dropGuard"} => f = g
  /\ \A p \in Procs : op[p] = "dropInner" => strong = {}

\* A packet is its thread's, one that overflowed is the thread's last, and a
\* thread that made any is registered.
PacketInv ==
  \A t \in Threads :
    /\ \A i \in DOMAIN ring[t] : ring[t][i].thr = t
    /\ \A i \in DOMAIN trailing[t] : trailing[t][i].thr = t /\ trailing[t][i].num = made[t]
    /\ InCallback(t) \/ ring[t] # <<>> \/ made[t] > 0 => t \in ToSet(registry)

\* One write can be late, and after it nobody is about to write.
Writing(p) == pc[p] \in {"writeChunk", "writeTrailing"}
LateInv == late > 0 => late = 1 /\ hasError /\ \A p \in Procs : ~Writing(p)

InRing(t, n) == \E i \in DOMAIN ring[t] : ring[t][i].num = n

\* The packets p is to bring into the trace: what was finished when its flush was
\* called, its own when it exits, all when it drops the shared state.
Wanted(p, t) ==
  CASE op[p] = "flush"     -> 1 .. goal[p][t]
    [] op[p] = "exit"      -> IF t = p THEN 1 .. made[t] ELSE {}
    [] op[p] = "dropInner" -> 1 .. made[t]
    [] OTHER               -> {}

\* What p has still to do before it drains the n-th packet of t.
Due(p, t, n) ==
  \/ pc[p] = "clone"
  \/ op[p] \in {"flush", "dropInner"} /\ pc[p] # "result" /\ t \in ToSet(todo[p])
  \/ target[p] = t /\ pc[p] \in {"lockConsumer", "lockWriter", "slots"}
  \/ target[p] = t /\ pc[p] = "writeChunk" /\ \E i \in 1 .. avail[p] : ring[t][i].num = n

Assured(p, t, n) == Reached(t, n) \/ (InRing(t, n) /\ Due(p, t, n))
SweepInv ==
  \A p \in Procs : \A t \in Threads : \A n \in Wanted(p, t) : Assured(p, t, n)

AllReached(t) == \A n \in 1 .. made[t] : Reached(t, n)
GoneInv == strong # {} => \A t \in Threads : pc[t] = "gone" => AllReached(t)
EndInv ==
  strong = {} => (\E p \in Procs : op[p] = "dropInner") \/ \A t \in Threads : AllReached(t)

DeliveryInv == failures = 0 => SweepInv /\ GoneInv /\ EndInv

-----------------------------------------------------------------------------
(* Who is where.                                                            *)

LEMMA TypeNow ==
  ASSUME IInv
  PROVE  /\ pc \in [Procs -> Labels] /\ op \in [Procs -> Operations]
         /\ target \in [Procs -> Threads \cup {None}] /\ todo \in [Procs -> Seq(Threads)]
         /\ avail \in [Procs -> Nat] /\ registry \in Seq(Threads)
         /\ made \in [Threads -> Nat] /\ failures \in Nat /\ late \in Nat
         /\ trailing \in [Threads -> Seq(PacketType)] /\ ring \in [Threads -> Seq(PacketType)]
         /\ output \in Seq(OutputType)
         /\ strong \subseteq {"layer", "guard"} \cup Threads
         /\ goal \in [Flushers -> [Threads -> Int]]
<1>1. /\ \A m \in Nat : 0 .. m \subseteq Nat
      /\ MaxPackets \in Nat /\ MaxFailures \in Nat
  BY OutputAssumption
<1>2. made \in [Threads -> Nat] /\ failures \in Nat
  BY <1>1 DEF IInv, TypeOK, QueueType, HistoryType
<1> QED BY <1>2 DEF IInv, TypeOK, ControlType, QueueType, SharedType, HistoryType

\* A step of a drain stays in the drain or returns from it.
LEMMA DrainMoves ==
  ASSUME IInv, NEW p \in Procs, DrainStep(p)
  PROVE  /\ pc[p] \in DrainLabels
         /\ \E l \in DrainLabels \cup {Resume(p)} : pc' = [pc EXCEPT ![p] = l]
         /\ UNCHANGED <<op, target, todo, registry, strong, made, calls>>
<1>1. UNCHANGED <<op, target, todo, registry, strong, made, calls>>
  BY DEF DrainStep, LockConsumer, LockWriter, ReadSlots, WriteChunk, FailChunk, CheckTrailing,
         WriteTrailing, FailTrailing, UnlockWriter, UnlockConsumer, RecordError, DrainFrame
<1>2. CASE LockConsumer(p) \/ LockWriter(p) \/ ReadSlots(p) \/ WriteChunk(p) \/ FailChunk(p)
  BY <1>1, <1>2 DEF LockConsumer, LockWriter, ReadSlots, WriteChunk, FailChunk, Goto
<1>3. CASE CheckTrailing(p) \/ WriteTrailing(p) \/ FailTrailing(p) \/ UnlockWriter(p)
  BY <1>1, <1>3 DEF CheckTrailing, WriteTrailing, FailTrailing, UnlockWriter, Goto
<1>4. CASE UnlockConsumer(p) \/ RecordError(p)
  BY <1>1, <1>4 DEF UnlockConsumer, RecordError, Goto
<1> QED BY <1>2, <1>3, <1>4 DEF DrainStep

\* A step of p that keeps who owns what.
Owned(p) ==
  /\ pc'[p] = "callback" \/ op'[p] = "emit" => "layer" \in strong
  /\ op'[p] = "exit" => p \in strong
  /\ op'[p] \in {"flush", "dropGuard"} => "guard" \in strong
  /\ op'[p] = "dropInner" => strong = {}

Labelled(p) ==
  /\ op'[p] = "none"      => pc'[p] \in {"idle", "callback", "gone"}
  /\ op'[p] = "emit"      => pc'[p] \in DrainLabels \cup {"callback"}
  /\ op'[p] = "exit"      => pc'[p] \in DrainLabels \cup {"unref"}
  /\ op'[p] = "flush"     => pc'[p] \in Sweep
  /\ op'[p] = "dropGuard" => pc'[p] \in Sweep \cup {"unref"}
  /\ op'[p] = "dropInner" => pc'[p] \in Sweep
  /\ op'[p] = "exit" /\ pc'[p] \in DrainLabels => target'[p] = p
  /\ op'[p] \in {"flush", "dropGuard"} => p \in Flushers

Others(p) ==
  \A q \in Procs \ {p} :
    pc'[q] = pc[q] /\ op'[q] = op[q] /\ target'[q] = target[q] /\ todo'[q] = todo[q]
                   /\ avail'[q] = avail[q]

LEMMA LabelFrame ==
  ASSUME LabelInv, NEW p \in Procs, Labelled(p), Others(p)
  PROVE  LabelInv'
BY DEF LabelInv, Labelled, Others, Sweep

\* A step of p that leaves the owners alone, and begins no guard operation.
LEMMA OwnerFrame ==
  ASSUME OwnerInv, NEW p \in Procs, Owned(p), Others(p), strong' = strong,
         op'[p] \in {"flush", "dropGuard"} => op[p] = op'[p]
  PROVE  OwnerInv'
<1> USE DEF InCallback
<1> Threads \subseteq Procs /\ Flushers \subseteq Procs
  OBVIOUS
<1>1. \A t \in Threads : pc'[t] = "callback" \/ op'[t] = "emit" => "layer" \in strong'
  BY DEF OwnerInv, Owned, Others
<1>2. \A t \in Threads : op'[t] = "exit" => t \in strong'
  BY DEF OwnerInv, Owned, Others
<1>3. \A f \in Flushers : op'[f] \in {"flush", "dropGuard"} => "guard" \in strong'
  BY DEF OwnerInv, Owned, Others
<1>4. \A f, g \in Flushers :
        op'[f] = "dropGuard" /\ op'[g] \in {"flush", "dropGuard"} => f = g
  BY DEF OwnerInv, Others
<1>5. \A q \in Procs : op'[q] = "dropInner" => strong' = {}
  BY DEF OwnerInv, Owned, Others
<1> QED BY <1>1, <1>2, <1>3, <1>4, <1>5 DEF OwnerInv

LEMMA MovesThread ==
  ASSUME IInv, LabelInv, NEW t \in Threads, Acquire(t) \/ Emit(t) \/ Release(t) \/ Exit(t)
  PROVE  Others(t) /\ Labelled(t)
<1>0. t \in Procs /\ pc \in [Procs -> Labels] /\ op \in [Procs -> Operations]
      /\ target \in [Procs -> Threads \cup {None}]
  BY TypeNow
<1>1. pc[t] = "idle" => op[t] = "none"
  BY <1>0 DEF LabelInv, Sweep
<1>2. CASE Acquire(t)
  BY <1>0, <1>1, <1>2 DEF Acquire, Goto, control, Others, Labelled
<1>3. ASSUME NEW s \in Sizes, Push(t, s) PROVE Others(t) /\ Labelled(t)
  BY <1>0, <1>3 DEF Push, control, Others, Labelled, LabelInv
<1>4. ASSUME NEW s \in Sizes, Overflow(t, s) PROVE Others(t) /\ Labelled(t)
  BY <1>0, <1>4 DEF Overflow, Begin, Goto, Others, Labelled
<1>5. CASE Release(t)
  BY <1>0, <1>5 DEF Release, Begin, Goto, Others, Labelled
<1>6. CASE Exit(t)
  <2>1. CASE DrainsOnExit(t)
    BY <1>0, <1>6, <2>1 DEF Exit, Begin, Goto, Others, Labelled
  <2>2. CASE ~DrainsOnExit(t)
    BY <1>0, <1>1, <1>6, <2>2 DEF Exit, Goto, Others, Labelled
  <2> QED BY <2>1, <2>2
<1> QED BY <1>2, <1>3, <1>4, <1>5, <1>6 DEF Emit

LEMMA MovesOwner ==
  ASSUME IInv, LabelInv, NEW f \in Flushers, Flush(f) \/ DropGuard(f) \/ DropLayer(f)
  PROVE  Others(f) /\ Labelled(f)
<1>0. f \in Procs /\ pc \in [Procs -> Labels] /\ op \in [Procs -> Operations]
      /\ target \in [Procs -> Threads \cup {None}]
  BY TypeNow
<1>1. CASE Flush(f)
  BY <1>0, <1>1 DEF Flush, Begin, Goto, Others, Labelled, Sweep
<1>2. CASE DropGuard(f)
  BY <1>0, <1>2 DEF DropGuard, Begin, Goto, Others, Labelled, Sweep
<1>3. CASE DropLayer(f)
  <2>1. CASE strong' = {}
    BY <1>0, <1>3, <2>1 DEF DropLayer, Begin, Goto, Others, Labelled, Sweep
  <2>2. CASE strong' # {}
    BY <1>0, <1>3, <2>2 DEF DropLayer, Others, Labelled, LabelInv
  <2> QED BY <2>1, <2>2
<1> QED BY <1>1, <1>2, <1>3

LEMMA MovesDrain ==
  ASSUME IInv, LabelInv, NEW p \in Procs, DrainStep(p)
  PROVE  Others(p) /\ Labelled(p) /\ op'[p] = op[p] /\ strong' = strong
         /\ (pc'[p] = "callback" => op[p] = "emit")
<1>0. pc \in [Procs -> Labels] /\ op \in [Procs -> Operations] /\ avail \in [Procs -> Nat]
  BY TypeNow
<1>1. /\ pc[p] \in DrainLabels
      /\ UNCHANGED <<op, target, todo, registry, strong, made, calls>>
  BY DrainMoves
<1>2. PICK l \in DrainLabels \cup {Resume(p)} : pc' = [pc EXCEPT ![p] = l]
  BY DrainMoves
<1>3. \A q \in Procs \ {p} : avail'[q] = avail[q]
  BY <1>0 DEF DrainStep, LockConsumer, LockWriter, ReadSlots, WriteChunk, FailChunk,
              CheckTrailing, WriteTrailing, FailTrailing, UnlockWriter, UnlockConsumer, RecordError
<1>4. Others(p)
  BY <1>0, <1>1, <1>2, <1>3 DEF Others
<1>5. pc'[p] = l
  BY <1>0, <1>2
<1>6. CASE l \in DrainLabels
  BY <1>1, <1>4, <1>5, <1>6 DEF LabelInv, Labelled, Sweep
<1>7. CASE l = Resume(p)
  <2>1. op[p] = "exit" => Resume(p) = "unref"
    BY DEF Resume
  <2>2. op[p] = "emit" => Resume(p) = "callback"
    BY DEF Resume
  <2>3. op[p] \notin {"exit", "emit"} => Resume(p) \in {"result", "next"}
    BY DEF Resume
  <2>4. op[p] # "none"
    BY <1>1 DEF LabelInv
  <2>5. op'[p] = op[p]
    BY <1>1
  <2>6. op[p] \in {"flush", "dropGuard"} => p \in Flushers
    BY DEF LabelInv
  <2>7. Labelled(p)
    BY <1>5, <1>7, <2>1, <2>2, <2>3, <2>4, <2>5, <2>6 DEF Labelled, Sweep
  <2> QED BY <1>1, <1>4, <1>5, <1>7, <2>1, <2>2, <2>3, <2>5, <2>7
<1> QED BY <1>6, <1>7

LEMMA MovesFlush ==
  ASSUME IInv, LabelInv, NEW p \in Procs, FlushStep(p)
  PROVE  Others(p) /\ Labelled(p)
<1>0. pc \in [Procs -> Labels] /\ op \in [Procs -> Operations] /\ avail \in [Procs -> Nat]
      /\ target \in [Procs -> Threads \cup {None}] /\ todo \in [Procs -> Seq(Threads)]
  BY TypeNow
<1>1. pc[p] \in {"clone", "next", "result"} => op[p] \in {"flush", "dropGuard", "dropInner"}
  BY <1>0 DEF LabelInv, Sweep
<1>2. CASE CloneRegistry(p)
  BY <1>0, <1>1, <1>2 DEF CloneRegistry, Goto, Others, Labelled, LabelInv, Sweep
<1>3. CASE NextBuffer(p)
  BY <1>0, <1>1, <1>3 DEF NextBuffer, Goto, Others, Labelled, LabelInv, Sweep
<1>4. CASE SyncWriter(p)
  BY <1>0, <1>1, <1>4 DEF SyncWriter, Goto, Others, Labelled, LabelInv, Sweep
<1>5. CASE FlushResult(p)
  <2>1. /\ op' = [op EXCEPT ![p] = IF op[p] = "dropGuard" THEN op[p] ELSE "none"]
        /\ UNCHANGED <<target, todo, avail>> /\ pc[p] = "result"
    BY <1>5 DEF FlushResult
  <2>2. CASE op[p] = "flush"
    <3>1. pc' = [pc EXCEPT ![p] = "idle"] /\ p \in Flushers
      BY <1>5, <2>2 DEF FlushResult, Goto, LabelInv
    <3> QED BY <1>0, <2>1, <2>2, <3>1 DEF Others, Labelled
  <2>3. CASE op[p] = "dropGuard"
    <3>1. pc' = [pc EXCEPT ![p] = "unref"] /\ p \in Flushers
      BY <1>5, <2>3 DEF FlushResult, Goto, LabelInv
    <3> QED BY <1>0, <2>1, <2>3, <3>1 DEF Others, Labelled
  <2>4. CASE op[p] = "dropInner"
    <3>1. \E l \in {"gone", "idle"} : pc' = [pc EXCEPT ![p] = l]
      BY <1>5, <2>4 DEF FlushResult, Goto
    <3> QED BY <1>0, <2>1, <2>4, <3>1 DEF Others, Labelled
  <2> QED BY <1>1, <2>1, <2>2, <2>3, <2>4
<1>6. CASE Unref(p)
  <2>1. CASE strong' = {}
    BY <1>0, <1>6, <2>1 DEF Unref, LastOwner, Begin, Goto, Others, Labelled, Sweep
  <2>2. CASE strong' # {}
    BY <1>0, <1>6, <2>2 DEF Unref, LastOwner, Begin, Goto, Others, Labelled
  <2> QED BY <2>1, <2>2
<1> QED BY <1>2, <1>3, <1>4, <1>5, <1>6 DEF FlushStep

LEMMA OwnerStep ==
  ASSUME IInv, LabelInv, OwnerInv, [Next]_vars
  PROVE  OwnerInv'
<1> USE DEF InCallback
<1>0. pc \in [Procs -> Labels] /\ op \in [Procs -> Operations]
      /\ strong \subseteq {"layer", "guard"} \cup Threads /\ {"layer", "guard"} \cap Threads = {}
      /\ Threads \cap Flushers = {}
  BY TypeNow, OutputAssumption
<1>1. ASSUME NEW t \in Threads, Acquire(t) \/ Emit(t) \/ Release(t) PROVE OwnerInv'
  <2>1. Others(t)
    BY <1>1, MovesThread
  <2>2. strong' = strong
    BY <1>1 DEF Acquire, Emit, Push, Overflow, Release
  <2>3. op[t] \in {"none", "emit"} /\ (op[t] = "emit" => "layer" \in strong)
    <3>1. pc[t] \in {"idle", "callback"}
      BY <1>1 DEF Acquire, Emit, Push, Overflow, Release
    <3> QED BY <1>0, <3>1 DEF LabelInv, Sweep, OwnerInv
  <2>4. op'[t] \in {"none", "emit"} /\ (pc'[t] = "callback" \/ op'[t] = "emit" => "layer" \in strong)
    <3>1. CASE Acquire(t)
      BY <1>0, <2>3, <3>1 DEF Acquire, control
    <3>2. CASE Emit(t)
      <4>1. pc[t] = "callback"
        BY <3>2 DEF Emit, Push, Overflow
      <4>2. "layer" \in strong
        BY <4>1 DEF OwnerInv
      <4>3. op'[t] \in {op[t], "emit"}
        BY <1>0, <3>2 DEF Emit, Push, Overflow, Begin, control
      <4> QED BY <2>3, <4>2, <4>3
    <3>3. CASE Release(t)
      BY <1>0, <3>3 DEF Release, Begin, Goto
    <3> QED BY <1>1, <3>1, <3>2, <3>3
  <2>5. Owned(t)
    BY <2>4 DEF Owned
  <2> QED BY <2>1, <2>2, <2>4, <2>5, OwnerFrame
<1>2. ASSUME NEW t \in Threads, Exit(t) PROVE OwnerInv'
  <2>1. Others(t)
    BY <1>2, MovesThread
  <2>2. op[t] = "none"
    BY <1>0, <1>2 DEF Exit, LabelInv, Sweep
  <2>3. CASE DrainsOnExit(t)
    <3>1. strong' = strong \cup {t} /\ op'[t] = "exit" /\ pc'[t] = "lockConsumer" /\ strong # {}
      BY <1>0, <1>2, <2>3 DEF Exit, Begin, Goto, DrainsOnExit
    <3> QED BY <2>1, <3>1 DEF OwnerInv, Others
  <2>4. CASE ~DrainsOnExit(t)
    <3>1. strong' = strong /\ op'[t] = "none" /\ pc'[t] = "gone"
      BY <1>0, <1>2, <2>2, <2>4 DEF Exit, Goto
    <3>2. Owned(t)
      BY <3>1 DEF Owned
    <3> QED BY <2>1, <3>1, <3>2, OwnerFrame
  <2> QED BY <2>3, <2>4
<1>3. ASSUME NEW f \in Flushers, Flush(f) \/ DropGuard(f) PROVE OwnerInv'
  <2>1. Others(f)
    BY <1>3, MovesOwner
  <2>2. strong' = strong /\ "guard" \in strong /\ op'[f] \in {"flush", "dropGuard"}
        /\ pc'[f] = "clone"
    BY <1>0, <1>3 DEF Flush, DropGuard, Begin, Goto
  <2>3. /\ \A g \in Flushers : op[g] # "dropGuard"
        /\ op'[f] = "dropGuard" => \A g \in Flushers : op[g] \notin {"flush", "dropGuard"}
    BY <1>0, <1>3 DEF Flush, DropGuard, Begin
  <2> QED BY <1>0, <2>1, <2>2, <2>3 DEF OwnerInv, Others
<1>4. ASSUME NEW f \in Flushers, DropLayer(f) PROVE OwnerInv'
  <2>1. Others(f)
    BY <1>4, MovesOwner
  <2>2. /\ strong' = strong \ {"layer"} /\ "layer" \in strong
        /\ \A t \in Threads : pc[t] # "callback" /\ op[t] # "emit"
    BY <1>4 DEF DropLayer
  <2>3. op'[f] = IF strong' = {} THEN "dropInner" ELSE op[f]
    BY <1>0, <1>4 DEF DropLayer, Begin
  <2>4. f \notin Threads /\ "layer" # "guard" /\ "layer" \notin Threads
    BY <1>0
  <2>5. \A q \in Procs : op[q] # "dropInner"
    BY <2>2 DEF OwnerInv
  <2>6. \A t \in Threads : t # f
    BY <2>4
  <2>7. \A t \in Threads : pc'[t] # "callback" /\ op'[t] # "emit" /\ op'[t] = op[t]
    BY <2>1, <2>2, <2>6 DEF Others
  <2>8. \A g \in Flushers : op'[g] \in {"flush", "dropGuard"} => op[g] = op'[g]
    BY <2>1, <2>3 DEF Others
  <2>9. \A q \in Procs : op'[q] = "dropInner" => strong' = {}
    BY <2>1, <2>3, <2>5 DEF Others
  <2> QED BY <2>2, <2>4, <2>7, <2>8, <2>9 DEF OwnerInv
<1>5. ASSUME NEW p \in Procs, DrainStep(p) PROVE OwnerInv'
  <2>1. Others(p) /\ op'[p] = op[p] /\ strong' = strong /\ (pc'[p] = "callback" => op[p] = "emit")
    BY <1>5, MovesDrain
  <2>2. op[p] = "emit" \/ op[p] = "exit" => p \in Threads
    BY DEF IInv, ControlInv
  <2>3. op[p] \in {"flush", "dropGuard"} => p \in Flushers
    BY DEF LabelInv
  <2>4. Owned(p)
    BY <2>1, <2>2, <2>3 DEF Owned, OwnerInv
  <2> QED BY <2>1, <2>4, OwnerFrame
<1>6. ASSUME NEW p \in Procs, CloneRegistry(p) \/ NextBuffer(p) \/ SyncWriter(p) \/ FlushResult(p)
      PROVE  OwnerInv'
  <2>1. Others(p)
    BY <1>6, MovesFlush DEF FlushStep
  <2>2. /\ strong' = strong /\ pc'[p] # "callback"
        /\ op'[p] \in {op[p], "none"} /\ (op'[p] = "none" \/ op'[p] = op[p])
    BY <1>0, <1>6 DEF CloneRegistry, NextBuffer, SyncWriter, FlushResult, Goto
  <2>3. op[p] = "emit" \/ op[p] = "exit" => p \in Threads
    BY DEF IInv, ControlInv
  <2>4. op[p] \in {"flush", "dropGuard"} => p \in Flushers
    BY DEF LabelInv
  <2>5. Owned(p)
    BY <2>2, <2>3, <2>4 DEF Owned, OwnerInv
  <2> QED BY <2>1, <2>2, <2>5, OwnerFrame
<1>7. ASSUME NEW p \in Procs, Unref(p) PROVE OwnerInv'
  <2>1. Others(p)
    BY <1>7, MovesFlush DEF FlushStep
  <2>2. op[p] \in {"exit", "dropGuard"}
    BY <1>0, <1>7 DEF Unref, LabelInv, Sweep
  <2>3. /\ strong' = strong \ {IF op[p] = "exit" THEN p ELSE "guard"}
        /\ op'[p] = IF strong' = {} THEN "dropInner" ELSE "none"
        /\ pc'[p] # "callback"
    BY <1>0, <1>7 DEF Unref, LastOwner, Begin, Goto
  <2>4. \A q \in Procs : op[q] # "dropInner"
    <3>1. op[p] = "exit" => p \in strong
      BY DEF OwnerInv, IInv, ControlInv
    <3>2. op[p] = "dropGuard" => "guard" \in strong
      BY DEF OwnerInv, LabelInv
    <3> QED BY <2>2, <3>1, <3>2 DEF OwnerInv
  <2>5. \A q \in Procs : op'[q] = "dropInner" => strong' = {}
    BY <2>1, <2>3, <2>4 DEF Others
  <2>6. \A q \in Procs : op'[q] \in {"emit", "exit", "flush", "dropGuard"} =>
                           q # p /\ op'[q] = op[q]
    BY <2>1, <2>3 DEF Others
  <2>7. \A q \in Procs : pc'[q] = "callback" => q # p /\ pc'[q] = pc[q]
    BY <2>1, <2>3 DEF Others
  <2>8. CASE op[p] = "exit"
    <3>1. p \in Threads /\ strong' = strong \ {p}
      BY <2>3, <2>8 DEF IInv, ControlInv
    <3>2. p # "layer" /\ p # "guard"
      BY <1>0, <3>1
    <3> QED BY <2>5, <2>6, <2>7, <3>1, <3>2 DEF OwnerInv
  <2>9. CASE op[p] = "dropGuard"
    <3>1. p \in Flushers /\ strong' = strong \ {"guard"}
      BY <2>3, <2>9 DEF LabelInv
    <3>2. \A t \in Threads : t # "guard"
      BY <1>0
    <3>3. \A f \in Flushers : op'[f] \notin {"flush", "dropGuard"}
      BY <2>6, <2>9, <3>1 DEF OwnerInv
    <3> QED BY <2>5, <2>6, <2>7, <3>1, <3>2, <3>3 DEF OwnerInv
  <2> QED BY <2>2, <2>8, <2>9
<1>8. CASE UNCHANGED vars
  BY <1>8 DEF vars, control, OwnerInv
<1> QED BY <1>1, <1>2, <1>3, <1>4, <1>5, <1>6, <1>7, <1>8 DEF Next, FlushStep, Done

LEMMA LabelStep ==
  ASSUME IInv, LabelInv, [Next]_vars
  PROVE  LabelInv'
<1>1. ASSUME NEW p \in Procs, Others(p), Labelled(p) PROVE LabelInv'
  BY <1>1, LabelFrame
<1>2. CASE UNCHANGED vars
  BY <1>2 DEF vars, control, LabelInv, Sweep
<1> QED BY <1>1, <1>2, MovesThread, MovesOwner, MovesDrain, MovesFlush DEF Next, Done

-----------------------------------------------------------------------------
(* Packets, and writes after an error.                                      *)

\* What a step of a thread's ring or of a packet too big for it may do.
RingCut(p) ==
  \E k \in 0 .. Len(ring[target[p]]) :
    ring' = [ring EXCEPT ![target[p]] = TS!Drop(ring[target[p]], k)]

LEMMA DropAll ==
  ASSUME NEW q \in Seq(PacketType)
  PROVE  Len(q) \in 0 .. Len(q) /\ TS!Drop(q, Len(q)) = <<>>
<1>1. Len(q) \in 0 .. Len(q)
  BY LenProperties
<1>2. TS!Drop(q, Len(q)) \in Seq(PacketType) /\ Len(TS!Drop(q, Len(q))) = 0
  BY <1>1, ChunkType
<1> QED BY <1>1, <1>2, EmptySeq

LEMMA DrainQueues ==
  ASSUME IInv, NEW p \in Procs, DrainStep(p)
  PROVE  /\ ring' = ring \/ (pc[p] \in {"slots", "writeChunk"} /\ RingCut(p))
         /\ trailing' = trailing \/ (p \in Threads /\ trailing' = [trailing EXCEPT ![p] = <<>>])
<1>0. /\ ring \in [Threads -> Seq(PacketType)] /\ avail \in [Procs -> Nat]
      /\ pc[p] \in DrainLabels \ {"record"} => target[p] \in Threads
  BY TypeNow DEF IInv, ControlInv
<1>1. CASE LockConsumer(p) \/ LockWriter(p) \/ UnlockWriter(p) \/ UnlockConsumer(p) \/ RecordError(p)
  BY <1>1 DEF LockConsumer, LockWriter, UnlockWriter, UnlockConsumer, RecordError
<1>2. CASE ReadSlots(p)
  <2>1. target[p] \in Threads /\ trailing' = trailing /\ pc[p] = "slots"
        /\ (ring' = ring \/ ring' = [ring EXCEPT ![target[p]] = <<>>])
    BY <1>0, <1>2 DEF ReadSlots, Buf
  <2>2. ring[target[p]] \in Seq(PacketType)
    BY <1>0, <2>1
  <2>3. CASE ring' = ring
    BY <2>1, <2>3
  <2>4. CASE ring' = [ring EXCEPT ![target[p]] = <<>>]
    BY <2>1, <2>2, <2>4, DropAll DEF RingCut
  <2> QED BY <2>1, <2>3, <2>4
<1>3. CASE WriteChunk(p) \/ FailChunk(p)
  <2>1. /\ target[p] \in Threads /\ trailing' = trailing /\ pc[p] = "writeChunk"
        /\ ring' = [ring EXCEPT ![target[p]] = TS!Drop(ring[target[p]], avail[p])]
    BY <1>0, <1>3 DEF WriteChunk, FailChunk, CommitChunk, Buf
  <2>2. avail[p] \in 1 .. Len(ring[target[p]]) /\ Len(ring[target[p]]) \in Nat
    BY <1>0, <2>1, LenProperties DEF IInv, DrainInv, ChunkInv
  <2>3. avail[p] \in 0 .. Len(ring[target[p]])
    BY <2>2
  <2> QED BY <2>1, <2>3 DEF RingCut
<1>4. CASE CheckTrailing(p) \/ WriteTrailing(p) \/ FailTrailing(p)
  <2>1. ring' = ring /\ (trailing' = trailing \/ ClearTrailing(p))
    BY <1>4 DEF CheckTrailing, WriteTrailing, FailTrailing
  <2>2. op[p] = "emit" => p \in Threads
    BY DEF IInv, ControlInv
  <2> QED BY <2>1, <2>2 DEF ClearTrailing
<1> QED BY <1>1, <1>2, <1>3, <1>4 DEF DrainStep

LEMMA RegisterMember ==
  ASSUME IInv, NEW t \in Threads, Acquire(t)
  PROVE  t \in ToSet(registry') /\ ToSet(registry) \subseteq ToSet(registry')
<1>0. registry \in Seq(Threads)
  BY TypeNow
<1>1. registry' = Register(t)
  BY DEF Acquire
<1>2. CASE t \in ToSet(registry)
  BY <1>1, <1>2 DEF Register
<1>3. CASE t \notin ToSet(registry)
  <2>1. registry' = Append(registry, t)
    BY <1>1, <1>3 DEF Register
  <2>2. /\ \A i \in DOMAIN registry : i \in DOMAIN registry' /\ registry'[i] = registry[i]
        /\ Len(registry) + 1 \in DOMAIN registry' /\ registry'[Len(registry) + 1] = t
    BY <1>0, <2>1, AppendProperties, LenProperties
  <2> QED BY <2>2 DEF ToSet
<1> QED BY <1>2, <1>3

LEMMA PacketStep ==
  ASSUME IInv, LabelInv, PacketInv, [Next]_vars
  PROVE  PacketInv'
<1>0. /\ ring \in [Threads -> Seq(PacketType)] /\ trailing \in [Threads -> Seq(PacketType)]
      /\ made \in [Threads -> Nat] /\ pc \in [Procs -> Labels]
      /\ op \in [Procs -> Operations] /\ registry \in Seq(Threads)
  BY TypeNow
<1>1. ASSUME NEW t \in Threads, Acquire(t) PROVE PacketInv'
  <2>1. UNCHANGED <<op, ring, trailing, made>> /\ pc' = [pc EXCEPT ![t] = "callback"]
    BY <1>1 DEF Acquire, Goto, control
  <2>2. t \in ToSet(registry') /\ ToSet(registry) \subseteq ToSet(registry')
    BY <1>1, RegisterMember
  <2>3. ToSet(registry)' = ToSet(registry')
    BY DEF ToSet
  <2>4. \A o \in Threads : InCallback(o)' \/ ring'[o] # <<>> \/ made'[o] > 0 => o \in ToSet(registry)'
    BY <1>0, <2>1, <2>2, <2>3 DEF PacketInv, InCallback
  <2> QED BY <2>1, <2>4 DEF PacketInv
<1>2. ASSUME NEW t \in Threads, NEW s \in Sizes, Push(t, s) \/ Overflow(t, s)
      PROVE  PacketInv'
  <2>1. /\ made' = [made EXCEPT ![t] = @ + 1] /\ registry' = registry /\ pc[t] = "callback"
        /\ \A o \in Threads \ {t} : pc'[o] = pc[o] /\ op'[o] = op[o] /\ ring'[o] = ring[o]
    BY <1>0, <1>2 DEF Push, Overflow, Begin, Goto, control
  <2>2. made'[t] = made[t] + 1 /\ \A o \in Threads \ {t} : made'[o] = made[o]
    BY <1>0, <2>1
  <2>3. trailing[t] = <<>>
    BY <2>1 DEF IInv, ControlInv
  <2>4. t \in ToSet(registry)
    BY <2>1 DEF PacketInv, InCallback
  <2>5. Packet(t, s).thr = t /\ Packet(t, s).num = made'[t]
    BY <2>2 DEF Packet
  <2>6. \A o \in Threads : InCallback(o)' \/ ring'[o] # <<>> \/ made'[o] > 0 => o \in ToSet(registry)'
    BY <2>1, <2>2, <2>4 DEF PacketInv, ToSet, InCallback
  <2>7. CASE Push(t, s)
    <3>1. trailing' = trailing /\ ring' = [ring EXCEPT ![t] = Append(ring[t], Packet(t, s))]
      BY <2>7 DEF Push
    <3>2. ring[t] \in Seq(PacketType)
      BY <1>0
    <3>3. \A i \in DOMAIN Append(ring[t], Packet(t, s)) : Append(ring[t], Packet(t, s))[i].thr = t
      <4>1. \A i \in 1 .. Len(ring[t]) : Append(ring[t], Packet(t, s))[i] = ring[t][i]
        BY <3>2, AppendProperties
      <4>2. Append(ring[t], Packet(t, s))[Len(ring[t]) + 1] = Packet(t, s)
        BY <3>2, AppendProperties
      <4>3. DOMAIN Append(ring[t], Packet(t, s)) = 1 .. Len(ring[t]) + 1
            /\ DOMAIN ring[t] = 1 .. Len(ring[t]) /\ Len(ring[t]) \in Nat
        BY <3>2, AppendProperties, LenProperties
      <4> QED BY <2>5, <4>1, <4>2, <4>3 DEF PacketInv
    <3>4. \A o \in Threads : \A i \in DOMAIN ring'[o] : ring'[o][i].thr = o
      BY <1>0, <3>1, <3>3 DEF PacketInv
    <3>5. \A o \in Threads : \A i \in DOMAIN trailing'[o] :
            trailing'[o][i].thr = o /\ trailing'[o][i].num = made'[o]
      <4>1. DOMAIN trailing[t] = {}
        BY <2>3, EmptySeq
      <4> QED BY <2>2, <3>1, <4>1 DEF PacketInv
    <3> QED BY <2>6, <3>4, <3>5 DEF PacketInv
  <2>8. CASE Overflow(t, s)
    <3>1. ring' = ring /\ trailing' = [trailing EXCEPT ![t] = <<Packet(t, s)>>]
      BY <2>8 DEF Overflow
    <3>2. trailing'[t] = <<Packet(t, s)>> /\ \A o \in Threads \ {t} : trailing'[o] = trailing[o]
      BY <1>0, <3>1
    <3>3. \A i \in DOMAIN <<Packet(t, s)>> : <<Packet(t, s)>>[i] = Packet(t, s)
      OBVIOUS
    <3>4. \A o \in Threads : \A i \in DOMAIN trailing'[o] :
            trailing'[o][i].thr = o /\ trailing'[o][i].num = made'[o]
      BY <2>2, <2>5, <3>2, <3>3 DEF PacketInv
    <3> QED BY <2>6, <3>1, <3>4 DEF PacketInv
  <2> QED BY <1>2, <2>7, <2>8
<1>3. ASSUME UNCHANGED <<ring, trailing, made, registry>>,
             \A t \in Threads : InCallback(t)' => t \in ToSet(registry)
      PROVE  PacketInv'
  <2>1. ToSet(registry)' = ToSet(registry)
    BY <1>3 DEF ToSet
  <2> QED BY <1>3, <2>1 DEF PacketInv
<1>4. ASSUME NEW t \in Threads, Release(t) \/ Exit(t) PROVE PacketInv'
  <2>1. UNCHANGED <<ring, trailing, made, registry>>
        /\ \A o \in Threads : InCallback(o)' => InCallback(o)
    BY <1>0, <1>4 DEF Release, Exit, Begin, Goto, InCallback
  <2> QED BY <1>3, <2>1 DEF PacketInv
<1>5. ASSUME NEW f \in Flushers, Flush(f) \/ DropGuard(f) \/ DropLayer(f) PROVE PacketInv'
  <2>1. UNCHANGED <<ring, trailing, made, registry>>
        /\ \A o \in Threads : InCallback(o)' => InCallback(o)
    BY <1>0, <1>5 DEF Flush, DropGuard, DropLayer, Begin, Goto, FlushFrame, InCallback
  <2> QED BY <1>3, <2>1 DEF PacketInv
<1>6. ASSUME NEW p \in Procs, FlushStep(p) PROVE PacketInv'
  <2>1. UNCHANGED <<ring, trailing, made, registry>>
        /\ \A o \in Threads : InCallback(o)' => InCallback(o)
    BY <1>0, <1>6 DEF FlushStep, CloneRegistry, NextBuffer, SyncWriter, FlushResult, Unref, Begin,
                      Goto, FlushFrame, InCallback
  <2> QED BY <1>3, <2>1 DEF PacketInv
<1>7. ASSUME NEW p \in Procs, DrainStep(p) PROVE PacketInv'
  <2>1. made' = made /\ registry' = registry /\ op'[p] = op[p] /\ Others(p)
        /\ (pc'[p] = "callback" => op[p] = "emit") /\ pc[p] \in DrainLabels
    BY <1>7, DrainMoves, MovesDrain
  <2>2. \A t \in Threads : InCallback(t)' \/ ring'[t] # <<>> \/ made'[t] > 0 => t \in ToSet(registry)'
    <3>1. ToSet(registry)' = ToSet(registry)
      BY <2>1 DEF ToSet
    <3>2. \A t \in Threads : InCallback(t)' => InCallback(t)
      BY <2>1 DEF Others, InCallback
    <3>3. \A t \in Threads : ring'[t] # <<>> => ring[t] # <<>>
      <4>1. CASE RingCut(p) /\ pc[p] \in {"slots", "writeChunk"}
        <5>1. target[p] \in Threads
          BY <4>1 DEF IInv, ControlInv
        <5>2. ASSUME ring[target[p]] = <<>> PROVE ring' = ring
          <6>1. Len(<<>>) = 0 /\ <<>> \in Seq(PacketType)
            BY EmptySeq
          <6>2. TS!Drop(<<>>, 0) = <<>>
            BY <6>1, DropAll
          <6>3. ring' = [ring EXCEPT ![target[p]] = TS!Drop(<<>>, 0)]
            <7>1. PICK k \in 0 .. Len(ring[target[p]]) :
                    ring' = [ring EXCEPT ![target[p]] = TS!Drop(ring[target[p]], k)]
              BY <4>1 DEF RingCut
            <7>2. k = 0
              BY <5>2, <6>1, <7>1
            <7> QED BY <5>2, <7>1, <7>2
          <6> QED BY <1>0, <5>1, <5>2, <6>2, <6>3
        <5>3. \A t \in Threads \ {target[p]} : ring'[t] = ring[t]
          BY <1>0, <4>1 DEF RingCut
        <5> QED BY <5>1, <5>2, <5>3
      <4> QED BY <1>7, <4>1, DrainQueues
    <3> QED BY <2>1, <3>1, <3>2, <3>3 DEF PacketInv
  <2>3. \A t \in Threads : \A i \in DOMAIN ring'[t] : ring'[t][i].thr = t
    <3>1. CASE ring' = ring
      BY <3>1 DEF PacketInv
    <3>2. CASE RingCut(p) /\ pc[p] \in {"slots", "writeChunk"}
      <4>1. target[p] \in Threads
        BY <3>2 DEF IInv, ControlInv
      <4>2. PICK a : a = ring[target[p]]
        OBVIOUS
      <4>3. PICK k \in 0 .. Len(a) : ring' = [ring EXCEPT ![target[p]] = TS!Drop(a, k)]
        BY <3>2, <4>2 DEF RingCut
      <4>4. a \in Seq(PacketType) /\ Len(a) \in Nat /\ DOMAIN a = 1 .. Len(a)
        BY <1>0, <4>1, <4>2, LenProperties
      <4>5. /\ TS!Drop(a, k) \in Seq(PacketType) /\ Len(TS!Drop(a, k)) = Len(a) - k
            /\ \A i \in 1 .. Len(a) - k : TS!Drop(a, k)[i] = a[k + i]
        BY <4>4, ChunkType
      <4>6. DOMAIN TS!Drop(a, k) = 1 .. Len(a) - k
        BY <4>5, LenProperties
      <4>7. \A i \in 1 .. Len(a) - k : k + i \in 1 .. Len(a)
        BY <4>4
      <4>8. \A i \in DOMAIN a : a[i].thr = target[p]
        BY <4>1, <4>2 DEF PacketInv
      <4>9. \A i \in DOMAIN TS!Drop(a, k) : TS!Drop(a, k)[i].thr = target[p]
        BY <4>4, <4>5, <4>6, <4>7, <4>8
      <4>10. PICK d : d = TS!Drop(a, k)
        OBVIOUS
      <4>11. ring' = [ring EXCEPT ![target[p]] = d] /\ \A i \in DOMAIN d : d[i].thr = target[p]
        BY <4>3, <4>9, <4>10
      <4> QED BY <1>0, <4>1, <4>11 DEF PacketInv
    <3> QED BY <1>7, <3>1, <3>2, DrainQueues
  <2>4. \A t \in Threads : \A i \in DOMAIN trailing'[t] :
          trailing'[t][i].thr = t /\ trailing'[t][i].num = made'[t]
    <3>1. \A i : i \notin DOMAIN <<>>
      OBVIOUS
    <3>2. \A t \in Threads : trailing'[t] = trailing[t] \/ trailing'[t] = <<>>
      BY <1>0, <1>7, DrainQueues
    <3> SUFFICES ASSUME NEW t \in Threads, NEW i \in DOMAIN trailing'[t]
        PROVE  trailing'[t][i].thr = t /\ trailing'[t][i].num = made'[t]
      OBVIOUS
    <3>3. trailing'[t] = trailing[t]
      BY <3>1, <3>2
    <3> QED BY <2>1, <3>3 DEF PacketInv
  <2> QED BY <2>2, <2>3, <2>4 DEF PacketInv
<1>8. CASE UNCHANGED vars
  <2>1. \A t \in Threads : InCallback(t)' => t \in ToSet(registry)
    BY <1>8 DEF vars, control, PacketInv, InCallback
  <2> QED BY <1>3, <1>8, <2>1 DEF vars
<1> QED BY <1>1, <1>2, <1>4, <1>5, <1>6, <1>7, <1>8 DEF Next, Emit, Done

\* Who is about to write has the writer, so nobody else is.
LEMMA OneWriting ==
  ASSUME IInv, NEW p \in Procs, NEW q \in Procs, Writing(p), Writing(q)
  PROVE  p = q
<1>1. HasWriter(p) /\ HasWriter(q)
  BY DEF Writing, HasWriter, HasConsumer
<1> QED BY <1>1 DEF IInv, DrainInv, LockInv

LEMMA LateFrame ==
  ASSUME LateInv, late' = late, hasError => hasError',
         \A q \in Procs : Writing(q)' /\ ~Writing(q) => ~hasError
  PROVE  LateInv'
BY DEF LateInv

LEMMA LateStep ==
  ASSUME IInv, LateInv, [Next]_vars
  PROVE  LateInv'
<1>0. /\ pc \in [Procs -> Labels] /\ late \in Nat
  BY TypeNow
<1>1. ASSUME NEW t \in Threads, Acquire(t) \/ Emit(t) \/ Release(t) \/ Exit(t) PROVE LateInv'
  <2>1. late' = late /\ hasError' = hasError
    BY <1>1 DEF Acquire, Emit, Push, Overflow, Release, Exit, errors
  <2>2. \A q \in Procs : Writing(q)' => Writing(q)
    BY <1>0, <1>1 DEF Acquire, Emit, Push, Overflow, Release, Exit, Begin, Goto, Writing
  <2> QED BY <2>1, <2>2, LateFrame
<1>2. ASSUME NEW f \in Flushers, Flush(f) \/ DropGuard(f) \/ DropLayer(f) PROVE LateInv'
  <2>1. late' = late /\ hasError' = hasError
    BY <1>2 DEF Flush, DropGuard, DropLayer, FlushFrame, errors
  <2>2. \A q \in Procs : Writing(q)' => Writing(q)
    BY <1>0, <1>2 DEF Flush, DropGuard, DropLayer, Begin, Goto, Writing
  <2> QED BY <2>1, <2>2, LateFrame
<1>3. ASSUME NEW p \in Procs, FlushStep(p) PROVE LateInv'
  <2>1. late' = late /\ hasError' = hasError
    BY <1>3 DEF FlushStep, CloneRegistry, NextBuffer, SyncWriter, FlushResult, Unref, FlushFrame, errors
  <2>2. \A q \in Procs : Writing(q)' => Writing(q)
    BY <1>0, <1>3 DEF FlushStep, CloneRegistry, NextBuffer, SyncWriter, FlushResult, Unref, Begin,
                      Goto, Writing
  <2> QED BY <2>1, <2>2, LateFrame
<1>4. ASSUME NEW p \in Procs, DrainStep(p) PROVE LateInv'
  <2>1. CASE WriteChunk(p) \/ FailChunk(p) \/ WriteTrailing(p) \/ FailTrailing(p)
    <3>1. Writing(p) /\ CountLate /\ hasError' = hasError
          /\ \E l \in {"trailing", "unlockWriter"} : pc' = [pc EXCEPT ![p] = l]
      BY <2>1 DEF WriteChunk, FailChunk, WriteTrailing, FailTrailing, Goto, Writing, errors
    <3>2. \A q \in Procs : ~Writing(q)'
      <4>1. ~Writing(p)'
        BY <1>0, <3>1 DEF Writing
      <4>2. \A q \in Procs \ {p} : Writing(q)' => Writing(q)
        BY <1>0, <3>1 DEF Writing
      <4> QED BY <3>1, <4>1, <4>2, OneWriting
    <3>3. late = 0
      BY <1>0, <3>1 DEF LateInv
    <3> QED BY <3>1, <3>2, <3>3 DEF LateInv, CountLate
  <2>2. CASE LockConsumer(p) \/ LockWriter(p) \/ UnlockWriter(p)
    <3>1. late' = late /\ hasError' = hasError
          /\ \E l \in {"lockWriter", "slots", "unlockConsumer"} : pc' = [pc EXCEPT ![p] = l]
      BY <2>2 DEF LockConsumer, LockWriter, UnlockWriter, Goto, errors
    <3>2. \A q \in Procs : Writing(q)' => Writing(q)
      BY <1>0, <3>1 DEF Writing
    <3> QED BY <3>1, <3>2, LateFrame
  <2>3. CASE UnlockConsumer(p) \/ RecordError(p)
    <3>1. late' = late /\ (hasError => hasError')
          /\ \E l \in {"record", "callback", "unref", "result", "next"} : pc' = [pc EXCEPT ![p] = l]
      BY <2>3, ResumeType DEF UnlockConsumer, RecordError, Goto, errors
    <3>2. \A q \in Procs : Writing(q)' => Writing(q)
      BY <1>0, <3>1 DEF Writing
    <3> QED BY <3>1, <3>2, LateFrame
  <2>4. CASE ReadSlots(p) \/ CheckTrailing(p)
    <3>1. late' = late /\ hasError' = hasError
          /\ \E l \in {"writeChunk", "trailing", "writeTrailing", "unlockWriter"} :
               /\ pc' = [pc EXCEPT ![p] = l]
               /\ hasError => l \in {"trailing", "unlockWriter"}
      BY <2>4 DEF ReadSlots, CheckTrailing, MayWriteTrailing, Goto, errors
    <3>2. \A q \in Procs : Writing(q)' /\ ~Writing(q) => ~hasError
      BY <1>0, <3>1 DEF Writing
    <3> QED BY <3>1, <3>2, LateFrame
  <2> QED BY <1>4, <2>1, <2>2, <2>3, <2>4 DEF DrainStep
<1>5. CASE UNCHANGED vars
  BY <1>5, LateFrame DEF vars, control, errors, Writing
<1> QED BY <1>1, <1>2, <1>3, <1>4, <1>5 DEF Next, Done

-----------------------------------------------------------------------------
(* What a step does to the packets, while no write has failed.              *)

LEMMA CleanFacts ==
  ASSUME IInv, ErrInv, failures = 0
  PROVE  ~hasError /\ \A p \in Procs : err[p] = 0 /\ pc[p] # "record"
BY DEF ErrInv

LEMMA CleanBefore ==
  ASSUME IInv, [Next]_vars, failures' = 0
  PROVE  failures = 0
<1>0. failures \in Nat
  BY TypeNow
<1>1. ASSUME NEW t \in Threads, Acquire(t) \/ Emit(t) \/ Release(t) \/ Exit(t)
      PROVE  failures' = failures
  BY <1>1 DEF Acquire, Emit, Push, Overflow, Release, Exit
<1>2. ASSUME NEW f \in Flushers, Flush(f) \/ DropGuard(f) \/ DropLayer(f)
      PROVE  failures' = failures
  BY <1>2 DEF Flush, DropGuard, DropLayer
<1>3. ASSUME NEW p \in Procs, DrainStep(p) \/ FlushStep(p)
      PROVE  failures' = failures \/ failures' = failures + 1
  BY <1>3 DEF DrainStep, LockConsumer, LockWriter, ReadSlots, WriteChunk, FailChunk, CheckTrailing,
              WriteTrailing, FailTrailing, UnlockWriter, UnlockConsumer, RecordError,
              FlushStep, CloneRegistry, NextBuffer, SyncWriter, FlushResult, Unref, Fail
<1>4. failures' = failures \/ failures' = failures + 1
  BY <1>1, <1>2, <1>3 DEF Next, Done, vars
<1> QED BY <1>0, <1>4

\* What is in the trace stays there; what leaves a ring gets there.
Keeps ==
  \A t \in Threads : \A n :
    /\ Reached(t, n) => Reached(t, n)'
    /\ InRing(t, n) => InRing(t, n)' \/ Reached(t, n)'

\* A chunk that another process than q has reserved stays.
Spares(q) ==
  \A p \in Procs \ {q} : pc[p] = "writeChunk" =>
    \A i \in 1 .. avail[p] : ring'[target[p]][i] = ring[target[p]][i]

LEMMA QuietKeeps ==
  ASSUME ring' = ring, output' = output, NEW q
  PROVE  Keeps /\ Spares(q)
BY DEF Keeps, Spares, Reached, TS!Reached, InRing

\* What is written is in the trace, after what was there.
LEMMA ReachedMore ==
  ASSUME output \in Seq(OutputType), NEW x \in Seq(OutputType), output' = output \o x,
         NEW t, NEW n
  PROVE  /\ Reached(t, n) => Reached(t, n)'
         /\ \A i \in 1 .. Len(x) : x[i].thr = t /\ x[i].num = n => Reached(t, n)'
<1>1. /\ output \o x \in Seq(OutputType) /\ Len(output \o x) = Len(output) + Len(x)
      /\ \A i \in 1 .. Len(output) + Len(x) :
           (output \o x)[i] = IF i <= Len(output) THEN output[i] ELSE x[i - Len(output)]
  BY ConcatProperties
<1>2. /\ Len(output) \in Nat /\ Len(x) \in Nat
      /\ DOMAIN output = 1 .. Len(output) /\ DOMAIN output' = 1 .. Len(output) + Len(x)
  BY <1>1, LenProperties
<1>3. ASSUME NEW i \in DOMAIN output
      PROVE  i \in DOMAIN output' /\ output'[i] = output[i]
  BY <1>1, <1>2
<1>4. ASSUME NEW i \in 1 .. Len(x)
      PROVE  Len(output) + i \in DOMAIN output' /\ output'[Len(output) + i] = x[i]
  <2>1. /\ Len(output) + i \in 1 .. Len(output) + Len(x)
        /\ ~(Len(output) + i <= Len(output)) /\ Len(output) + i - Len(output) = i
    BY <1>2
  <2> QED BY <1>1, <1>2, <2>1
<1>5. Reached(t, n) => Reached(t, n)'
  BY <1>3 DEF Reached, TS!Reached
<1>6. ASSUME NEW i \in 1 .. Len(x), x[i].thr = t, x[i].num = n
      PROVE  Reached(t, n)'
  BY <1>4, <1>6 DEF Reached, TS!Reached
<1> QED BY <1>5, <1>6

\* Nobody else has the consumer of a buffer that is being drained.
LEMMA OneDrain ==
  ASSUME IInv, NEW p \in Procs, NEW q \in Procs, HasConsumer(p), HasConsumer(q),
         target[p] = target[q]
  PROVE  p = q
BY DEF IInv, DrainInv, LockInv

LEMMA PushKeeps ==
  ASSUME IInv, NEW t \in Threads, NEW s \in Sizes, Push(t, s)
  PROVE  Keeps /\ Spares(t)
<1>0. ring \in [Threads -> Seq(PacketType)]
  BY TypeNow
<1>1. ring' = [ring EXCEPT ![t] = Append(ring[t], Packet(t, s))] /\ output' = output
      /\ pc[t] = "callback"
  BY DEF Push
<1>2. ring[t] \in Seq(PacketType)
  BY <1>0
<1>3. /\ DOMAIN ring[t] = 1 .. Len(ring[t]) /\ Len(ring[t]) \in Nat
      /\ DOMAIN Append(ring[t], Packet(t, s)) = 1 .. Len(ring[t]) + 1
      /\ \A i \in 1 .. Len(ring[t]) : Append(ring[t], Packet(t, s))[i] = ring[t][i]
  BY <1>2, AppendProperties, LenProperties
<1>4. \A i \in 1 .. Len(ring[t]) : i \in DOMAIN ring'[t] /\ ring'[t][i] = ring[t][i]
  BY <1>0, <1>1, <1>3
<1>5. \A o \in Threads \ {t} : ring'[o] = ring[o]
  BY <1>0, <1>1
<1>6. Keeps
  BY <1>1, <1>3, <1>4, <1>5 DEF Keeps, Reached, TS!Reached, InRing
<1>7. Spares(t)
  <2> SUFFICES ASSUME NEW p \in Procs, pc[p] = "writeChunk", NEW i \in 1 .. avail[p]
      PROVE  ring'[target[p]][i] = ring[target[p]][i]
    BY DEF Spares
  <2>1. target[p] \in Threads /\ avail[p] \in 1 .. Len(ring[target[p]])
    BY DEF IInv, ControlInv, DrainInv, ChunkInv
  <2>2. CASE target[p] = t
    <3>1. i \in 1 .. Len(ring[t])
      BY <1>3, <2>1, <2>2
    <3> QED BY <1>4, <2>2, <3>1
  <2>3. CASE target[p] # t
    BY <1>5, <2>1, <2>3
  <2> QED BY <2>2, <2>3
<1> QED BY <1>6, <1>7

\* A drain reserves what is in the ring, or finds the ring empty.
LEMMA SlotsRead ==
  ASSUME IInv, ErrInv, failures = 0, NEW p \in Procs, ReadSlots(p)
  PROVE  /\ ring' = ring /\ output' = output
         /\ ring[target[p]] # <<>> =>
              pc'[p] = "writeChunk" /\ avail'[p] = Len(ring[target[p]])
<1>0. ring \in [Threads -> Seq(PacketType)] /\ pc \in [Procs -> Labels] /\ avail \in [Procs -> Nat]
  BY TypeNow
<1>1. target[p] \in Threads
  BY DEF ReadSlots, IInv, ControlInv
<1>2. ring[target[p]] \in Seq(PacketType)
  BY <1>0, <1>1
<1>3. ~hasError
  BY CleanFacts
<1>4. avail'[p] = Len(ring[target[p]]) /\ output' = output
  BY <1>0 DEF ReadSlots, Buf
<1>5. CASE ring[target[p]] = <<>>
  <2>1. ring' = ring \/ ring' = [ring EXCEPT ![target[p]] = <<>>]
    BY DEF ReadSlots, Buf
  <2> QED BY <1>0, <1>1, <1>4, <1>5, <2>1
<1>6. CASE ring[target[p]] # <<>>
  <2>1. avail'[p] # 0
    BY <1>2, <1>4, <1>6, EmptySeq
  <2>2. ring' = ring /\ pc' = [pc EXCEPT ![p] = "writeChunk"]
    BY <1>3, <2>1 DEF ReadSlots, Goto
  <2> QED BY <1>0, <1>4, <2>2
<1> QED BY <1>5, <1>6

\* Of the packets of a drain's buffer, those it reserved reach the trace and the
\* others stay.
LEMMA ChunkWritten ==
  ASSUME IInv, PacketInv, NEW p \in Procs, WriteChunk(p)
  PROVE  /\ \A t, n : t = target[p] /\ (\E i \in 1 .. avail[p] : ring[t][i].num = n) =>
                       Reached(t, n)'
         /\ Keeps /\ Spares(p)
<1>0. /\ ring \in [Threads -> Seq(PacketType)] /\ pc \in [Procs -> Labels]
      /\ avail \in [Procs -> Nat] /\ output \in Seq(OutputType)
  BY TypeNow
<1>1. target[p] \in Threads /\ pc[p] = "writeChunk"
  BY DEF WriteChunk, IInv, ControlInv
<1>2. PICK u : u = target[p]
  OBVIOUS
<1>3. PICK a : a = ring[u]
  OBVIOUS
<1>4. PICK k : k = avail[p]
  OBVIOUS
<1>5. u \in Threads /\ a \in Seq(PacketType) /\ k \in 1 .. Len(a) /\ Len(a) \in Nat
      /\ DOMAIN a = 1 .. Len(a)
  <2>1. k \in 1 .. Len(a)
    BY <1>1, <1>2, <1>3, <1>4 DEF IInv, DrainInv, ChunkInv
  <2> QED BY <1>0, <1>1, <1>2, <1>3, <2>1, LenProperties
<1>6. k \in 0 .. Len(a)
  BY <1>5
<1>7. PICK x : x = TS!Front(a, k)
  OBVIOUS
<1>8. PICK d : d = TS!Drop(a, k)
  OBVIOUS
<1>9. /\ x \in Seq(PacketType) /\ Len(x) = k /\ \A i \in 1 .. k : x[i] = a[i]
      /\ d \in Seq(PacketType) /\ Len(d) = Len(a) - k
      /\ \A i \in 1 .. Len(a) - k : d[i] = a[k + i]
  BY <1>5, <1>6, <1>7, <1>8, ChunkType
<1>10. output' = output \o x /\ ring' = [ring EXCEPT ![u] = d]
  BY <1>2, <1>3, <1>4, <1>7, <1>8 DEF WriteChunk, CommitChunk, Buf
<1>11. x \in Seq(OutputType)
  BY <1>9, PacketsAreOutput
<1>12. \A i \in 1 .. k : a[i].thr = u
  BY <1>2, <1>3, <1>5 DEF PacketInv
<1>13. \A t, n : /\ Reached(t, n) => Reached(t, n)'
                 /\ \A i \in 1 .. Len(x) : x[i].thr = t /\ x[i].num = n => Reached(t, n)'
  BY <1>0, <1>10, <1>11, ReachedMore
<1>14. \A i \in 1 .. k : Reached(u, a[i].num)'
  BY <1>9, <1>12, <1>13
<1>15. ring'[u] = d /\ \A o \in Threads \ {u} : ring'[o] = ring[o]
  BY <1>0, <1>5, <1>10
<1>16. ASSUME NEW i \in 1 .. Len(a), ~(i <= k)
       PROVE  i - k \in DOMAIN d /\ d[i - k] = a[i]
  <2>1. i - k \in 1 .. Len(a) - k /\ k + (i - k) = i
    BY <1>5, <1>16
  <2>2. DOMAIN d = 1 .. Len(a) - k
    BY <1>9, LenProperties
  <2> QED BY <1>9, <2>1, <2>2
<1>17. ASSUME NEW n, InRing(u, n) PROVE InRing(u, n)' \/ Reached(u, n)'
  <2>1. PICK i \in 1 .. Len(a) : a[i].num = n
    BY <1>3, <1>5, <1>17 DEF InRing
  <2>2. CASE i <= k
    <3>1. i \in 1 .. k
      BY <1>5, <2>2
    <3> QED BY <1>14, <2>1, <3>1
  <2>3. CASE ~(i <= k)
    BY <1>15, <1>16, <2>1, <2>3 DEF InRing
  <2> QED BY <2>2, <2>3
<1>18. Keeps
  <2> SUFFICES ASSUME NEW t \in Threads, NEW n
      PROVE  /\ Reached(t, n) => Reached(t, n)'
             /\ InRing(t, n) => InRing(t, n)' \/ Reached(t, n)'
    BY DEF Keeps
  <2>1. t # u => (InRing(t, n) => InRing(t, n)')
    BY <1>15 DEF InRing
  <2> QED BY <1>13, <1>17, <2>1
<1>19. Spares(p)
  <2> SUFFICES ASSUME NEW q \in Procs \ {p}, pc[q] = "writeChunk", NEW i \in 1 .. avail[q]
      PROVE  ring'[target[q]][i] = ring[target[q]][i]
    BY DEF Spares
  <2>1. HasConsumer(p) /\ HasConsumer(q) /\ target[q] \in Threads
    BY <1>1 DEF HasConsumer, IInv, ControlInv
  <2>2. target[q] # u
    BY <1>2, <2>1, OneDrain
  <2> QED BY <1>15, <2>1, <2>2
<1> QED BY <1>2, <1>3, <1>4, <1>14, <1>18, <1>19

LEMMA DrainKeeps ==
  ASSUME IInv, ErrInv, PacketInv, NEW p \in Procs, DrainStep(p), failures = 0, failures' = 0
  PROVE  Keeps /\ Spares(p)
<1>1. ~FailChunk(p) /\ ~FailTrailing(p)
  BY DEF FailChunk, FailTrailing, Fail
<1>2. CASE LockConsumer(p) \/ LockWriter(p) \/ CheckTrailing(p) \/ UnlockWriter(p)
           \/ UnlockConsumer(p) \/ RecordError(p)
  <2>1. ring' = ring /\ output' = output
    BY <1>2 DEF LockConsumer, LockWriter, CheckTrailing, UnlockWriter, UnlockConsumer, RecordError
  <2> QED BY <2>1, QuietKeeps
<1>3. CASE ReadSlots(p)
  BY <1>3, SlotsRead, QuietKeeps
<1>4. CASE WriteChunk(p)
  BY <1>4, ChunkWritten
<1>5. CASE WriteTrailing(p)
  <2>0. output \in Seq(OutputType) /\ trailing \in [Threads -> Seq(PacketType)]
    BY TypeNow
  <2>1. ring' = ring /\ output' = output \o trailing[p] /\ p \in Threads
    BY <1>5 DEF WriteTrailing, Trailing, IInv, ControlInv
  <2>2. trailing[p] \in Seq(OutputType)
    BY <2>0, <2>1, PacketsAreOutput
  <2>3. \A t, n : Reached(t, n) => Reached(t, n)'
    BY <2>0, <2>1, <2>2, ReachedMore
  <2> QED BY <2>1, <2>3 DEF Keeps, Spares, InRing
<1> QED BY <1>1, <1>2, <1>3, <1>4, <1>5 DEF DrainStep

-----------------------------------------------------------------------------
(* Delivery.                                                                *)

\* An owed packet is not the business of other processes.
LEMMA AssuredOther ==
  ASSUME IInv, NEW q \in Procs, Others(q), Keeps, Spares(q),
         NEW p \in Procs \ {q}, NEW t \in Threads, NEW n, Assured(p, t, n)
  PROVE  Assured(p, t, n)'
<1>1. CASE Reached(t, n)
  BY <1>1 DEF Assured, Keeps
<1>2. CASE InRing(t, n) /\ Due(p, t, n)
  <2>1. InRing(t, n)' \/ Reached(t, n)'
    BY <1>2 DEF Keeps
  <2>2. /\ pc'[p] = pc[p] /\ op'[p] = op[p] /\ target'[p] = target[p] /\ todo'[p] = todo[p]
        /\ avail'[p] = avail[p]
    BY DEF Others
  <2>3. target[p] = t /\ pc[p] = "writeChunk" => \A i \in 1 .. avail[p] : ring'[t][i] = ring[t][i]
    BY DEF Spares
  <2>4. Due(p, t, n)'
    BY <1>2, <2>2, <2>3 DEF Due, ToSet
  <2> QED BY <2>1, <2>4 DEF Assured
<1> QED BY <1>1, <1>2 DEF Assured

\* A drain of p goes on to what p owes, or delivers it.
LEMMA AssuredDrain ==
  ASSUME IInv, ErrInv, LabelInv, PacketInv, NEW p \in Procs, DrainStep(p),
         failures = 0, failures' = 0, NEW t \in Threads, NEW n, Assured(p, t, n)
  PROVE  Assured(p, t, n)'
<1>0. ring \in [Threads -> Seq(PacketType)] /\ pc \in [Procs -> Labels] /\ Keeps
  BY TypeNow, DrainKeeps
<1>1. /\ pc[p] \in DrainLabels \ {"record"} /\ target[p] \in Threads /\ target[p] # None
      /\ UNCHANGED <<op, target, todo>>
  BY CleanFacts, DrainMoves, OutputAssumption DEF IInv, ControlInv
<1>2. CASE Reached(t, n)
  BY <1>0, <1>2 DEF Assured, Keeps
<1>3. CASE InRing(t, n)
  <2>1. InRing(t, n)' \/ Reached(t, n)'
    BY <1>0, <1>3 DEF Keeps
  <2>2. CASE op[p] \in {"flush", "dropInner"} /\ t \in ToSet(todo[p])
    <3>1. \E l \in DrainLabels \cup {"next"} : pc' = [pc EXCEPT ![p] = l]
      BY <1>1, <2>2, DrainMoves DEF Resume
    <3>2. pc'[p] # "result"
      BY <1>0, <3>1
    <3> QED BY <1>1, <2>1, <2>2, <3>2 DEF Assured, Due, ToSet
  <2>3. CASE target[p] = t /\ pc[p] = "lockConsumer"
    <3>1. pc' = [pc EXCEPT ![p] = "lockWriter"]
      BY <2>3 DEF DrainStep, LockConsumer, LockWriter, ReadSlots, WriteChunk, FailChunk,
                  CheckTrailing, WriteTrailing, FailTrailing, UnlockWriter, UnlockConsumer,
                  RecordError, Goto
    <3> QED BY <1>0, <1>1, <2>1, <2>3, <3>1 DEF Assured, Due
  <2>4. CASE target[p] = t /\ pc[p] = "lockWriter"
    <3>1. pc' = [pc EXCEPT ![p] = "slots"]
      BY <2>4 DEF DrainStep, LockConsumer, LockWriter, ReadSlots, WriteChunk, FailChunk,
                  CheckTrailing, WriteTrailing, FailTrailing, UnlockWriter, UnlockConsumer,
                  RecordError, Goto
    <3> QED BY <1>0, <1>1, <2>1, <2>4, <3>1 DEF Assured, Due
  <2>5. CASE target[p] = t /\ pc[p] = "slots"
    <3>1. ReadSlots(p)
      BY <2>5 DEF DrainStep, LockConsumer, LockWriter, ReadSlots, WriteChunk, FailChunk,
                  CheckTrailing, WriteTrailing, FailTrailing, UnlockWriter, UnlockConsumer,
                  RecordError
    <3>2. ring[t] \in Seq(PacketType) /\ DOMAIN ring[t] = 1 .. Len(ring[t])
      BY <1>0, LenProperties
    <3>3. PICK i \in DOMAIN ring[t] : ring[t][i].num = n
      BY <1>3 DEF InRing
    <3>4. ring[t] # <<>>
      BY <3>3, EmptySeq
    <3>5. ring' = ring /\ pc'[p] = "writeChunk" /\ avail'[p] = Len(ring[t]) /\ target'[p] = t
      BY <1>1, <2>5, <3>1, <3>4, SlotsRead
    <3>6. i \in 1 .. avail'[p] /\ ring'[t][i].num = n
      BY <3>2, <3>3, <3>5
    <3>7. Due(p, t, n)'
      BY <3>5, <3>6 DEF Due
    <3> QED BY <2>1, <3>7 DEF Assured
  <2>6. CASE target[p] = t /\ pc[p] = "writeChunk" /\ \E i \in 1 .. avail[p] : ring[t][i].num = n
    <3>1. WriteChunk(p) \/ FailChunk(p)
      BY <2>6 DEF DrainStep, LockConsumer, LockWriter, ReadSlots, WriteChunk, FailChunk,
                  CheckTrailing, WriteTrailing, FailTrailing, UnlockWriter, UnlockConsumer,
                  RecordError
    <3>2. ~FailChunk(p)
      BY DEF FailChunk, Fail
    <3>3. Reached(t, n)'
      BY <2>6, <3>1, <3>2, ChunkWritten
    <3> QED BY <3>3 DEF Assured
  <2>7. CASE ~Due(p, t, n)
    BY <1>0, <1>2, <2>7 DEF Assured
  <2> QED BY <1>1, <2>2, <2>3, <2>4, <2>5, <2>6, <2>7 DEF Due
<1> QED BY <1>2, <1>3 DEF Assured

LEMMA TodoSplit ==
  ASSUME NEW q \in Seq(Threads), q # <<>>, NEW t \in ToSet(q)
  PROVE  t = Head(q) \/ t \in ToSet(Tail(q))
<1>1. /\ Head(q) = q[1] /\ Tail(q) \in Seq(Threads) /\ Len(Tail(q)) = Len(q) - 1
      /\ \A i \in 1 .. Len(Tail(q)) : Tail(q)[i] = q[i + 1]
      /\ Len(q) \in Nat /\ DOMAIN q = 1 .. Len(q)
  BY HeadTailProperties, LenProperties
<1>2. DOMAIN Tail(q) = 1 .. Len(Tail(q))
  BY <1>1, LenProperties
<1>3. PICK i \in 1 .. Len(q) : q[i] = t
  BY <1>1 DEF ToSet
<1>4. CASE i = 1
  BY <1>1, <1>3, <1>4
<1>5. CASE i # 1
  <2>1. i - 1 \in 1 .. Len(Tail(q)) /\ (i - 1) + 1 = i
    BY <1>1, <1>3, <1>5
  <2>2. Tail(q)[i - 1] = t
    BY <1>1, <1>3, <2>1
  <2> QED BY <1>2, <2>1, <2>2 DEF ToSet
<1> QED BY <1>4, <1>5

\* A sweep goes through the registered buffers one by one.
LEMMA AssuredFlush ==
  ASSUME IInv, LabelInv, PacketInv, NEW p \in Procs, failures = 0, failures' = 0,
         CloneRegistry(p) \/ NextBuffer(p) \/ SyncWriter(p), op[p] \in {"flush", "dropInner"},
         NEW t \in Threads, NEW n, Assured(p, t, n)
  PROVE  Assured(p, t, n)'
<1>0. /\ pc \in [Procs -> Labels] /\ todo \in [Procs -> Seq(Threads)]
      /\ target \in [Procs -> Threads \cup {None}]
  BY TypeNow
<1>1. UNCHANGED <<ring, output, op>>
  BY DEF CloneRegistry, NextBuffer, SyncWriter, FlushFrame
<1>2. Reached(t, n) => Reached(t, n)'
  BY <1>1 DEF Reached, TS!Reached
<1>3. InRing(t, n) => InRing(t, n)'
  BY <1>1 DEF InRing
<1>4. CASE Reached(t, n)
  BY <1>2, <1>4 DEF Assured
<1>5. CASE InRing(t, n) /\ Due(p, t, n) /\ CloneRegistry(p)
  <2>1. ring[t] # <<>>
    BY <1>5, EmptySeq DEF InRing
  <2>2. t \in ToSet(registry)
    BY <2>1 DEF PacketInv
  <2>3. pc'[p] = "next" /\ todo'[p] = registry
    BY <1>0, <1>5 DEF CloneRegistry, Goto, Buffers
  <2>4. Due(p, t, n)'
    BY <1>1, <2>2, <2>3 DEF Due, ToSet
  <2> QED BY <1>3, <1>5, <2>4 DEF Assured
<1>6. CASE InRing(t, n) /\ Due(p, t, n) /\ NextBuffer(p)
  <2>1. t \in ToSet(todo[p]) /\ todo[p] # <<>>
    BY <1>6 DEF NextBuffer, Due
  <2>2. todo[p] \in Seq(Threads) /\ Head(todo[p]) \in Threads
    BY <1>0, <2>1, HeadTailProperties
  <2>3. /\ pc'[p] = "lockConsumer" /\ target'[p] = Head(todo[p]) /\ todo'[p] = Tail(todo[p])
    BY <1>0, <1>6 DEF NextBuffer, Goto
  <2>4. t = Head(todo[p]) \/ t \in ToSet(Tail(todo[p]))
    BY <2>1, <2>2, TodoSplit
  <2>5. ToSet(todo[p])' = ToSet(Tail(todo[p]))
    BY <2>3 DEF ToSet
  <2>6. Due(p, t, n)'
    BY <1>1, <2>3, <2>4, <2>5 DEF Due
  <2> QED BY <1>3, <1>6, <2>6 DEF Assured
<1>7. CASE InRing(t, n) /\ Due(p, t, n) /\ SyncWriter(p)
  <2>1. t \in ToSet(todo[p]) /\ todo[p] = <<>>
    BY <1>7 DEF SyncWriter, Due
  <2> QED BY <2>1, EmptySeq DEF ToSet
<1> QED BY <1>4, <1>5, <1>6, <1>7 DEF Assured

\* What q leaves alone of what other processes owe.
Effects(q) ==
  /\ Others(q) /\ Keeps /\ Spares(q)
  /\ \A f \in Flushers \ {q} : goal'[f] = goal[f]
  /\ \A t \in Threads : made'[t] = made[t] \/ (t = q /\ pc[t] = "callback" /\ pc'[t] # "gone")

LEMMA EffectsThread ==
  ASSUME IInv, LabelInv, NEW t \in Threads, Acquire(t) \/ Emit(t) \/ Release(t) \/ Exit(t)
  PROVE  Effects(t)
<1>0. made \in [Threads -> Nat] /\ pc \in [Procs -> Labels]
  BY TypeNow
<1>1. Others(t)
  BY MovesThread
<1>2. UNCHANGED calls
  BY DEF Acquire, Emit, Push, Overflow, Release, Exit
<1>3. Keeps /\ Spares(t)
  <2>1. ASSUME NEW s \in Sizes, Overflow(t, s) PROVE Keeps /\ Spares(t)
    BY <2>1, QuietKeeps DEF Overflow
  <2>2. CASE Acquire(t) \/ Release(t) \/ Exit(t)
    <3>1. ring' = ring /\ output' = output
      BY <2>2 DEF Acquire, Release, Exit
    <3> QED BY <3>1, QuietKeeps
  <2> QED BY <2>1, <2>2, PushKeeps DEF Emit
<1>4. \A o \in Threads : made'[o] = made[o] \/ (o = t /\ pc[o] = "callback" /\ pc'[o] # "gone")
  BY <1>0 DEF Acquire, Emit, Push, Overflow, Release, Exit, Begin, Goto
<1> QED BY <1>1, <1>2, <1>3, <1>4 DEF Effects, calls

LEMMA EffectsOwner ==
  ASSUME IInv, LabelInv, NEW f \in Flushers, Flush(f) \/ DropGuard(f) \/ DropLayer(f)
  PROVE  Effects(f)
<1>0. goal \in [Flushers -> [Threads -> Int]]
  BY TypeNow
<1>1. Others(f)
  BY MovesOwner
<1>2. ring' = ring /\ output' = output /\ made' = made
  BY DEF Flush, DropGuard, DropLayer, FlushFrame
<1>3. \A g \in Flushers \ {f} : goal'[g] = goal[g]
  BY <1>0 DEF Flush, DropGuard, DropLayer, calls
<1> QED BY <1>1, <1>2, <1>3, QuietKeeps DEF Effects

LEMMA EffectsFlush ==
  ASSUME IInv, LabelInv, NEW p \in Procs, FlushStep(p)
  PROVE  Effects(p)
<1>0. goal \in [Flushers -> [Threads -> Int]]
  BY TypeNow
<1>1. Others(p)
  BY MovesFlush
<1>2. ring' = ring /\ output' = output /\ made' = made
  BY DEF FlushStep, CloneRegistry, NextBuffer, SyncWriter, FlushResult, Unref, FlushFrame
<1>3. \A g \in Flushers \ {p} : goal'[g] = goal[g]
  BY <1>0 DEF FlushStep, CloneRegistry, NextBuffer, SyncWriter, FlushResult, Unref, Forget, calls
<1> QED BY <1>1, <1>2, <1>3, QuietKeeps DEF Effects

LEMMA EffectsDrain ==
  ASSUME IInv, ErrInv, LabelInv, PacketInv, NEW p \in Procs, DrainStep(p),
         failures = 0, failures' = 0
  PROVE  Effects(p)
BY MovesDrain, DrainMoves, DrainKeeps DEF Effects, calls

\* The premises of a step of the delivery.
Clean == /\ IInv /\ ErrInv /\ LabelInv /\ OwnerInv /\ PacketInv /\ NothingLost
         /\ failures = 0

\* Every packet that has left its callback is in the trace or in its ring.
LEMMA FinishedFound ==
  ASSUME Clean, NEW t \in Threads, NEW n \in 1 .. Finished(t)
  PROVE  Reached(t, n) \/ InRing(t, n)
<1>0. made \in [Threads -> Nat] /\ ring[t] \in Seq(PacketType) /\ trailing[t] \in Seq(PacketType)
  BY TypeNow DEF Clean
<1>1. PICK a : a = ring[t]
  OBVIOUS
<1>2. PICK b : b = trailing[t]
  OBVIOUS
<1>3. /\ a \o b \in Seq(PacketType) /\ Len(a \o b) = Len(a) + Len(b)
      /\ Len(a) \in Nat /\ Len(b) \in Nat
      /\ DOMAIN a = 1 .. Len(a) /\ DOMAIN b = 1 .. Len(b) /\ DOMAIN (a \o b) = 1 .. Len(a) + Len(b)
      /\ \A i \in 1 .. Len(a) + Len(b) :
           (a \o b)[i] = IF i <= Len(a) THEN a[i] ELSE b[i - Len(a)]
  <2>1. a \in Seq(PacketType) /\ b \in Seq(PacketType)
    BY <1>0, <1>1, <1>2
  <2>2. a \o b \in Seq(PacketType) /\ Len(a \o b) = Len(a) + Len(b)
        /\ \A i \in 1 .. Len(a) + Len(b) :
             (a \o b)[i] = IF i <= Len(a) THEN a[i] ELSE b[i - Len(a)]
    BY <2>1, ConcatProperties
  <2> QED BY <2>1, <2>2, LenProperties
<1>4. n \in 1 .. made[t] /\ n + Len(b) <= made[t]
  BY <1>0, <1>2, <1>3 DEF Finished
<1>5. Reached(t, n) \/ \E i \in DOMAIN (a \o b) : (a \o b)[i].num = n
  <2>1. ~(failures > 0)
    BY DEF Clean
  <2>2. NothingLost
    BY DEF Clean
  <2> QED BY <1>1, <1>2, <1>4, <2>1, <2>2 DEF NothingLost, TS!Lossless, Reached, TS!Reached
<1>6. ASSUME NEW i \in DOMAIN (a \o b), (a \o b)[i].num = n
      PROVE  InRing(t, n)
  <2>1. CASE i <= Len(a)
    <3>1. i \in DOMAIN a /\ a[i].num = n
      BY <1>3, <1>6, <2>1
    <3> QED BY <1>1, <3>1 DEF InRing
  <2>2. CASE ~(i <= Len(a))
    <3>1. i - Len(a) \in DOMAIN b /\ (a \o b)[i] = b[i - Len(a)] /\ Len(b) >= 1
      BY <1>3, <2>2
    <3>2. b[i - Len(a)].num = made[t]
      BY <1>2, <3>1 DEF Clean, PacketInv
    <3>3. n = made[t]
      BY <1>6, <3>1, <3>2
    <3>4. made[t] \in Nat
      BY <1>0
    <3> QED BY <1>3, <1>4, <3>1, <3>3, <3>4
  <2> QED BY <2>1, <2>2
<1> QED BY <1>5, <1>6

\* Without a callback nothing is between a callback and its ring.
LEMMA AllFound ==
  ASSUME Clean, NEW t \in Threads, op[t] # "emit", NEW n \in 1 .. made[t]
  PROVE  Reached(t, n) \/ InRing(t, n)
<1>1. trailing[t] = <<>>
  BY DEF Clean, IInv, ControlInv
<1>2. Len(trailing[t]) = 0 /\ made[t] \in Nat
  BY <1>1, EmptySeq, TypeNow DEF Clean
<1>3. Finished(t) = made[t]
  BY <1>2 DEF Finished
<1> QED BY <1>3, FinishedFound

LEMMA NoneWanted ==
  ASSUME NEW p, NEW t, op'[p] \notin {"flush", "exit", "dropInner"}
  PROVE  Wanted(p, t)' = {}
BY DEF Wanted

LEMMA WantedOther ==
  ASSUME Clean, NEW q \in Procs, Effects(q), NEW p \in Procs \ {q}, NEW t \in Threads
  PROVE  Wanted(p, t)' \subseteq Wanted(p, t)
<1>1. op'[p] = op[p]
  BY DEF Effects, Others
<1>2. CASE op[p] = "flush"
  <2>1. goal'[p] = goal[p]
    BY <1>2 DEF Effects, Clean, LabelInv
  <2> QED BY <1>1, <1>2, <2>1 DEF Wanted
<1>3. CASE op[p] = "exit"
  <2>1. t = p => made'[t] = made[t]
    BY DEF Effects
  <2> QED BY <1>1, <1>3, <2>1 DEF Wanted
<1>4. CASE op[p] = "dropInner"
  <2>1. pc[t] # "callback"
    BY <1>4 DEF Clean, OwnerInv, InCallback
  <2>2. made'[t] = made[t]
    BY <2>1 DEF Effects
  <2> QED BY <1>1, <1>4, <2>2 DEF Wanted
<1>5. CASE op[p] \notin {"flush", "exit", "dropInner"}
  BY <1>1, <1>5, NoneWanted
<1> QED BY <1>2, <1>3, <1>4, <1>5

\* What the others owe is theirs to bring; what p owes after its own step is left
\* to show.
LEMMA SweepOthers ==
  ASSUME Clean, SweepInv, NEW q \in Procs, Effects(q),
         \A t \in Threads : \A n \in Wanted(q, t)' : Assured(q, t, n)'
  PROVE  SweepInv'
<1> SUFFICES ASSUME NEW p \in Procs \ {q}, NEW t \in Threads, NEW n \in Wanted(p, t)'
    PROVE  Assured(p, t, n)'
  BY DEF SweepInv
<1>1. n \in Wanted(p, t)
  BY WantedOther
<1>2. Assured(p, t, n)
  BY <1>1 DEF SweepInv
<1> QED BY <1>2, AssuredOther DEF Effects, Clean

LEMMA SweepThread ==
  ASSUME Clean, SweepInv, NEW q \in Threads, Acquire(q) \/ Emit(q) \/ Release(q) \/ Exit(q)
  PROVE  SweepInv'
<1>0. /\ pc \in [Procs -> Labels] /\ op \in [Procs -> Operations]
      /\ target \in [Procs -> Threads \cup {None}]
  BY TypeNow DEF Clean
<1>1. Effects(q)
  BY EffectsThread DEF Clean
<1>2. pc[q] \in {"idle", "callback"}
  BY DEF Acquire, Emit, Push, Overflow, Release, Exit
<1>3. op[q] \in {"none", "emit"} /\ (pc[q] = "idle" => op[q] = "none")
  BY <1>0, <1>2 DEF Clean, LabelInv, Sweep
<1>4. CASE op'[q] \in {"none", "emit"}
  <2>1. \A t \in Threads : Wanted(q, t)' = {}
    BY <1>4, NoneWanted
  <2> QED BY <1>1, <2>1, SweepOthers
<1>5. CASE Exit(q) /\ DrainsOnExit(q)
  <2>1. /\ op'[q] = "exit" /\ pc'[q] = "lockConsumer" /\ target'[q] = q
        /\ UNCHANGED <<ring, output, made>> /\ op[q] = "none"
    BY <1>0, <1>3, <1>5 DEF Exit, Begin, Goto
  <2>2. ASSUME NEW t \in Threads, NEW n \in Wanted(q, t)' PROVE Assured(q, t, n)'
    <3>1. t = q /\ n \in 1 .. made[t]
      BY <2>1, <2>2 DEF Wanted
    <3>2. Reached(t, n) \/ InRing(t, n)
      BY <2>1, <3>1, AllFound
    <3>3. (Reached(t, n) => Reached(t, n)') /\ (InRing(t, n) => InRing(t, n)')
      BY <2>1 DEF Reached, TS!Reached, InRing
    <3>4. Due(q, t, n)'
      BY <2>1, <3>1 DEF Due
    <3> QED BY <3>2, <3>3, <3>4 DEF Assured
  <2> QED BY <1>1, <2>2, SweepOthers
<1>6. op'[q] \in {"none", "emit"} \/ (Exit(q) /\ DrainsOnExit(q))
  BY <1>0, <1>3 DEF Acquire, Emit, Push, Overflow, Release, Exit, Begin, control
<1> QED BY <1>4, <1>5, <1>6

\* Whoever drops the shared state finds every packet in the trace or in its ring.
LEMMA AllOwed ==
  ASSUME Clean, NEW q \in Procs, \A t \in Threads : op[t] # "emit",
         op'[q] = "dropInner", pc'[q] = "clone", UNCHANGED <<ring, output, made>>
  PROVE  \A t \in Threads : \A n \in Wanted(q, t)' : Assured(q, t, n)'
<1> SUFFICES ASSUME NEW t \in Threads, NEW n \in Wanted(q, t)' PROVE Assured(q, t, n)'
  OBVIOUS
<1>1. n \in 1 .. made[t]
  BY DEF Wanted
<1>2. Reached(t, n) \/ InRing(t, n)
  BY <1>1, AllFound
<1>3. (Reached(t, n) => Reached(t, n)') /\ (InRing(t, n) => InRing(t, n)')
  BY DEF Reached, TS!Reached, InRing
<1>4. Due(q, t, n)'
  BY DEF Due
<1> QED BY <1>2, <1>3, <1>4 DEF Assured

LEMMA SweepOwner ==
  ASSUME Clean, SweepInv, NEW f \in Flushers, Flush(f) \/ DropGuard(f) \/ DropLayer(f)
  PROVE  SweepInv'
<1>0. /\ pc \in [Procs -> Labels] /\ op \in [Procs -> Operations]
      /\ goal \in [Flushers -> [Threads -> Int]]
  BY TypeNow DEF Clean
<1>1. Effects(f)
  BY EffectsOwner DEF Clean
<1>2. op[f] = "none"
  BY <1>0 DEF Flush, DropGuard, DropLayer, Clean, LabelInv, Sweep
<1>3. UNCHANGED <<ring, output, made>>
  BY DEF Flush, DropGuard, DropLayer, FlushFrame
<1>4. CASE Flush(f)
  <2>1. op'[f] = "flush" /\ pc'[f] = "clone"
        /\ goal'[f] = [t \in Threads |-> Finished(t)]
    BY <1>0, <1>4 DEF Flush, Begin, Goto
  <2>2. ASSUME NEW t \in Threads, NEW n \in Wanted(f, t)' PROVE Assured(f, t, n)'
    <3>1. n \in 1 .. Finished(t)
      BY <2>1, <2>2 DEF Wanted
    <3>2. Reached(t, n) \/ InRing(t, n)
      BY <3>1, FinishedFound
    <3>3. (Reached(t, n) => Reached(t, n)') /\ (InRing(t, n) => InRing(t, n)')
      BY <1>3 DEF Reached, TS!Reached, InRing
    <3>4. Due(f, t, n)'
      BY <2>1 DEF Due
    <3> QED BY <3>2, <3>3, <3>4 DEF Assured
  <2> QED BY <1>1, <2>2, SweepOthers
<1>5. CASE DropGuard(f)
  <2>1. op'[f] = "dropGuard"
    BY <1>0, <1>5 DEF DropGuard, Begin
  <2>2. \A t \in Threads : Wanted(f, t)' = {}
    BY <2>1, NoneWanted
  <2> QED BY <1>1, <2>2, SweepOthers
<1>6. CASE DropLayer(f) /\ strong' = {}
  <2>1. /\ op'[f] = "dropInner" /\ pc'[f] = "clone"
        /\ \A t \in Threads : op[t] # "emit"
    BY <1>0, <1>6 DEF DropLayer, Begin, Goto
  <2>2. \A t \in Threads : \A n \in Wanted(f, t)' : Assured(f, t, n)'
    BY <1>3, <2>1, AllOwed
  <2> QED BY <1>1, <2>2, SweepOthers
<1>7. CASE DropLayer(f) /\ strong' # {}
  <2>1. op'[f] = "none"
    BY <1>2, <1>7 DEF DropLayer
  <2>2. \A t \in Threads : Wanted(f, t)' = {}
    BY <2>1, NoneWanted
  <2> QED BY <1>1, <2>2, SweepOthers
<1> QED BY <1>4, <1>5, <1>6, <1>7

LEMMA SweepDrain ==
  ASSUME Clean, SweepInv, NEW q \in Procs, DrainStep(q), failures' = 0
  PROVE  SweepInv'
<1>1. Effects(q)
  BY EffectsDrain DEF Clean
<1>2. UNCHANGED <<op, made, calls>>
  BY DrainMoves DEF Clean
<1>3. ASSUME NEW t \in Threads, NEW n \in Wanted(q, t)' PROVE Assured(q, t, n)'
  <2>1. Wanted(q, t)' = Wanted(q, t)
    BY <1>2 DEF Wanted, calls
  <2>2. Assured(q, t, n)
    BY <1>3, <2>1 DEF SweepInv
  <2> QED BY <2>2, AssuredDrain DEF Clean
<1> QED BY <1>1, <1>3, SweepOthers

LEMMA SweepFlush ==
  ASSUME Clean, SweepInv, NEW q \in Procs, FlushStep(q), failures' = 0
  PROVE  SweepInv'
<1>0. pc \in [Procs -> Labels] /\ op \in [Procs -> Operations]
  BY TypeNow DEF Clean
<1>1. Effects(q)
  BY EffectsFlush DEF Clean
<1>2. UNCHANGED <<ring, output, made>>
  BY DEF FlushStep, CloneRegistry, NextBuffer, SyncWriter, FlushResult, Unref, FlushFrame
<1>3. CASE op'[q] \notin {"flush", "exit", "dropInner"}
  <2>1. \A t \in Threads : Wanted(q, t)' = {}
    BY <1>3, NoneWanted
  <2> QED BY <1>1, <2>1, SweepOthers
<1>4. CASE CloneRegistry(q) \/ NextBuffer(q) \/ SyncWriter(q)
  <2>1. UNCHANGED <<op, goal>> /\ pc[q] \in {"clone", "next"}
    BY <1>4 DEF CloneRegistry, NextBuffer, SyncWriter, calls
  <2>2. op[q] \in {"flush", "dropGuard", "dropInner"}
    BY <1>0, <2>1 DEF Clean, LabelInv
  <2>3. CASE op[q] = "dropGuard"
    BY <1>3, <2>1, <2>3
  <2>4. CASE op[q] \in {"flush", "dropInner"}
    <3>1. ASSUME NEW t \in Threads, NEW n \in Wanted(q, t)' PROVE Assured(q, t, n)'
      <4>1. Wanted(q, t)' = Wanted(q, t)
        BY <1>2, <2>1 DEF Wanted
      <4>2. Assured(q, t, n)
        BY <3>1, <4>1 DEF SweepInv
      <4> QED BY <1>4, <2>4, <4>2, AssuredFlush DEF Clean
    <3> QED BY <1>1, <3>1, SweepOthers
  <2> QED BY <2>2, <2>3, <2>4
<1>5. CASE FlushResult(q)
  <2>1. op'[q] \in {"dropGuard", "none"}
    BY <1>0, <1>5 DEF FlushResult
  <2> QED BY <1>3, <2>1
<1>6. CASE Unref(q) /\ strong' # {}
  <2>1. op'[q] = "none"
    BY <1>0, <1>6 DEF Unref, LastOwner, Begin
  <2> QED BY <1>3, <2>1
<1>7. CASE Unref(q) /\ strong' = {}
  <2>1. op'[q] = "dropInner" /\ pc'[q] = "clone"
    BY <1>0, <1>7 DEF Unref, LastOwner, Begin, Goto
  <2>2. "layer" \notin strong
    <3>1. q # "layer" \/ op[q] # "exit"
      BY OutputAssumption DEF Clean, IInv, ControlInv
    <3> QED BY <1>7, <3>1 DEF Unref
  <2>3. \A t \in Threads : op[t] # "emit"
    BY <2>2 DEF Clean, OwnerInv, InCallback
  <2>4. \A t \in Threads : \A n \in Wanted(q, t)' : Assured(q, t, n)'
    BY <1>2, <2>1, <2>3, AllOwed
  <2> QED BY <1>1, <2>4, SweepOthers
<1> QED BY <1>4, <1>5, <1>6, <1>7 DEF FlushStep

\* Who has nothing left to do for a packet has brought it into the trace.
LEMMA SweepOver ==
  ASSUME SweepInv, NEW p \in Procs,
         \/ pc[p] = "result" /\ op[p] \in {"flush", "dropInner"}
         \/ pc[p] = "unref" /\ op[p] = "exit",
         NEW t \in Threads, NEW n \in Wanted(p, t)
  PROVE  Reached(t, n)
<1>1. ~Due(p, t, n)
  BY DEF Due
<1> QED BY <1>1 DEF SweepInv, Assured

\* What a thread had finished stays in the trace while it finishes nothing more.
LEMMA AllReachedStays ==
  ASSUME Keeps, NEW t \in Threads, AllReached(t), made'[t] = made[t]
  PROVE  AllReached(t)'
BY DEF AllReached, Keeps

LEMMA GoneFrame ==
  ASSUME GoneInv, NEW q \in Procs, Effects(q), strong' # {} => strong # {},
         q \in Threads /\ pc'[q] = "gone" /\ strong' # {} => AllReached(q)'
  PROVE  GoneInv'
<1> SUFFICES ASSUME strong' # {}, NEW t \in Threads, pc'[t] = "gone" PROVE AllReached(t)'
  BY DEF GoneInv
<1>1. CASE t = q
  BY <1>1
<1>2. CASE t # q
  <2>1. pc[t] = "gone" /\ made'[t] = made[t] /\ Keeps
    BY <1>2 DEF Effects, Others
  <2> QED BY <2>1, AllReachedStays DEF GoneInv
<1> QED BY <1>1, <1>2

LEMMA EndFrame ==
  ASSUME Clean, EndInv, NEW q \in Procs, Effects(q),
         strong' = {} => strong = {} \/ op'[q] = "dropInner",
         op[q] = "dropInner" /\ op'[q] # "dropInner" => \A t \in Threads : AllReached(t)'
  PROVE  EndInv'
<1> SUFFICES ASSUME strong' = {}
    PROVE  (\E p \in Procs : op'[p] = "dropInner") \/ \A t \in Threads : AllReached(t)'
  BY DEF EndInv
<1>1. CASE op'[q] = "dropInner"
  BY <1>1
<1>2. CASE op'[q] # "dropInner"
  <2>1. strong = {}
    BY <1>2
  <2>2. ASSUME NEW p \in Procs, op[p] = "dropInner"
        PROVE  (\E r \in Procs : op'[r] = "dropInner") \/ \A t \in Threads : AllReached(t)'
    BY <1>2, <2>2 DEF Effects, Others
  <2>3. ASSUME \A t \in Threads : AllReached(t) PROVE \A t \in Threads : AllReached(t)'
    <3>1. \A t \in Threads : made'[t] = made[t]
      BY <2>1 DEF Effects, Clean, OwnerInv, InCallback
    <3> QED BY <2>3, <3>1, AllReachedStays DEF Effects
  <2> QED BY <2>1, <2>2, <2>3 DEF EndInv
<1> QED BY <1>1, <1>2

LEMMA EndStep ==
  ASSUME Clean, SweepInv, GoneInv, EndInv, [Next]_vars, failures' = 0
  PROVE  GoneInv' /\ EndInv'
<1>0. /\ pc \in [Procs -> Labels] /\ op \in [Procs -> Operations]
      /\ Threads \cap Flushers = {}
  BY TypeNow, OutputAssumption DEF Clean
<1>1. ASSUME NEW q \in Threads, Acquire(q) \/ Emit(q) \/ Release(q) PROVE GoneInv' /\ EndInv'
  <2>1. Effects(q)
    BY <1>1, EffectsThread DEF Clean
  <2>2. strong' = strong /\ pc'[q] # "gone" /\ pc[q] \in {"idle", "callback"}
    BY <1>0, <1>1 DEF Acquire, Emit, Push, Overflow, Release, Begin, Goto
  <2>3. op[q] # "dropInner"
    BY <2>2 DEF Clean, LabelInv, Sweep
  <2> QED BY <2>1, <2>2, <2>3, GoneFrame, EndFrame
<1>2. ASSUME NEW q \in Threads, Exit(q) PROVE GoneInv' /\ EndInv'
  <2>1. Effects(q)
    BY <1>2, EffectsThread DEF Clean
  <2>2. pc[q] = "idle" /\ op[q] # "dropInner"
    BY <1>2 DEF Exit, Clean, LabelInv, Sweep
  <2>3. CASE DrainsOnExit(q)
    <3>1. strong' = strong \cup {q} /\ strong # {} /\ pc'[q] = "lockConsumer"
      BY <1>0, <1>2, <2>3 DEF Exit, Begin, Goto, DrainsOnExit
    <3> QED BY <2>1, <2>2, <3>1, GoneFrame, EndFrame
  <2>4. CASE ~DrainsOnExit(q)
    <3>1. strong' = strong /\ made' = made
      BY <1>2, <2>4 DEF Exit
    <3>2. ASSUME strong' # {} PROVE AllReached(q)'
      <4>1. q \notin ToSet(registry)
        BY <2>4, <3>1, <3>2 DEF DrainsOnExit
      <4>2. ~(made[q] > 0)
        BY <4>1 DEF Clean, PacketInv
      <4>3. made[q] \in Nat
        BY TypeNow DEF Clean
      <4>4. 1 .. made[q] = {}
        BY <4>2, <4>3
      <4> QED BY <3>1, <4>4 DEF AllReached
    <3> QED BY <2>1, <2>2, <3>1, <3>2, GoneFrame, EndFrame
  <2> QED BY <2>3, <2>4
<1>3. ASSUME NEW f \in Flushers, Flush(f) \/ DropGuard(f) \/ DropLayer(f)
      PROVE  GoneInv' /\ EndInv'
  <2>1. Effects(f)
    BY <1>3, EffectsOwner DEF Clean
  <2>2. f \notin Threads /\ op[f] # "dropInner"
    <3>1. pc[f] = "idle"
      BY <1>3 DEF Flush, DropGuard, DropLayer
    <3> QED BY <1>0, <3>1 DEF Clean, LabelInv, Sweep
  <2>3. strong' \subseteq strong /\ (strong' = {} => strong = {} \/ op'[f] = "dropInner")
    BY <1>0, <1>3 DEF Flush, DropGuard, DropLayer, Begin
  <2> QED BY <2>1, <2>2, <2>3, GoneFrame, EndFrame
<1>4. ASSUME NEW q \in Procs, DrainStep(q) PROVE GoneInv' /\ EndInv'
  <2>1. Effects(q)
    BY <1>4, EffectsDrain DEF Clean
  <2>2. strong' = strong /\ op'[q] = op[q]
    BY <1>4, MovesDrain DEF Clean
  <2>3. pc'[q] # "gone"
    <3>1. PICK l \in DrainLabels \cup {Resume(q)} : pc' = [pc EXCEPT ![q] = l]
      BY <1>4, DrainMoves DEF Clean
    <3>2. l # "gone"
      BY <3>1 DEF Resume
    <3> QED BY <1>0, <3>1, <3>2
  <2> QED BY <2>1, <2>2, <2>3, GoneFrame, EndFrame
<1>5. ASSUME NEW q \in Procs, CloneRegistry(q) \/ NextBuffer(q) \/ SyncWriter(q)
      PROVE  GoneInv' /\ EndInv'
  <2>1. Effects(q)
    BY <1>5, EffectsFlush DEF Clean, FlushStep
  <2>2. strong' = strong /\ op' = op /\ pc'[q] # "gone"
    BY <1>0, <1>5 DEF CloneRegistry, NextBuffer, SyncWriter, Goto
  <2> QED BY <2>1, <2>2, GoneFrame, EndFrame
<1>6. ASSUME NEW q \in Procs, FlushResult(q) PROVE GoneInv' /\ EndInv'
  <2>1. Effects(q)
    BY <1>6, EffectsFlush DEF Clean, FlushStep
  <2>2. strong' = strong /\ made' = made /\ pc[q] = "result" /\ op'[q] \in {"dropGuard", "none"}
    BY <1>0, <1>6 DEF FlushResult, FlushFrame
  <2>3. ASSUME q \in Threads, pc'[q] = "gone" PROVE strong' = {}
    <3>1. q \notin Flushers
      BY <1>0, <2>3
    <3>2. op[q] \in {"flush", "dropGuard", "dropInner"}
      BY <1>0, <2>2 DEF Clean, LabelInv, DrainLabels
    <3>3. op[q] = "dropInner"
      BY <3>1, <3>2 DEF Clean, LabelInv
    <3> QED BY <2>2, <3>3 DEF Clean, OwnerInv
  <2>4. ASSUME op[q] = "dropInner" PROVE \A t \in Threads : AllReached(t)'
    <3>1. \A t \in Threads : Wanted(q, t) = 1 .. made[t]
      BY <2>4 DEF Wanted
    <3>2. \A t \in Threads : AllReached(t)
      BY <2>2, <2>4, <3>1, SweepOver DEF AllReached
    <3> QED BY <2>1, <2>2, <3>2, AllReachedStays DEF Effects
  <2> QED BY <2>1, <2>2, <2>3, <2>4, GoneFrame, EndFrame
<1>7. ASSUME NEW q \in Procs, Unref(q) PROVE GoneInv' /\ EndInv'
  <2>1. Effects(q)
    BY <1>7, EffectsFlush DEF Clean, FlushStep
  <2>2. /\ strong' \subseteq strong /\ made' = made /\ pc[q] = "unref"
        /\ strong' = {} => op'[q] = "dropInner"
    BY <1>0, <1>7 DEF Unref, LastOwner, Begin, FlushFrame
  <2>3. op[q] \in {"exit", "dropGuard"}
    BY <1>0, <2>2 DEF Clean, LabelInv, Sweep
  <2>4. ASSUME q \in Threads PROVE AllReached(q)'
    <3>1. op[q] = "exit"
      BY <1>0, <2>3, <2>4 DEF Clean, LabelInv
    <3>2. Wanted(q, q) = 1 .. made[q]
      BY <3>1 DEF Wanted
    <3>3. AllReached(q)
      BY <2>2, <2>4, <3>1, <3>2, SweepOver DEF AllReached
    <3> QED BY <2>1, <2>2, <2>4, <3>3, AllReachedStays DEF Effects
  <2> QED BY <2>1, <2>2, <2>3, <2>4, GoneFrame, EndFrame
<1>8. CASE UNCHANGED vars
  BY <1>8 DEF vars, control, GoneInv, EndInv, AllReached, Reached, TS!Reached
<1> QED BY <1>1, <1>2, <1>3, <1>4, <1>5, <1>6, <1>7, <1>8 DEF Next, FlushStep, Done

LEMMA SweepQuiet ==
  ASSUME SweepInv, UNCHANGED vars
  PROVE  SweepInv'
<1>1. UNCHANGED <<pc, op, target, todo, avail, ring, output, made, goal>>
  BY DEF vars, control, calls
<1>2. ASSUME NEW p, NEW t, NEW n
      PROVE  Wanted(p, t)' = Wanted(p, t) /\ (Assured(p, t, n) => Assured(p, t, n)')
  <2>1. Wanted(p, t)' = Wanted(p, t)
    BY <1>1 DEF Wanted
  <2>2. ToSet(todo[p])' = ToSet(todo[p])
    BY <1>1
  <2>3. Due(p, t, n) => Due(p, t, n)'
    BY <1>1, <2>2 DEF Due
  <2>4. (Reached(t, n) => Reached(t, n)') /\ (InRing(t, n) => InRing(t, n)')
    BY <1>1 DEF Reached, TS!Reached, InRing
  <2> QED BY <2>1, <2>3, <2>4 DEF Assured
<1> QED BY <1>2 DEF SweepInv

LEMMA DeliveryStep ==
  IInv /\ ErrInv /\ LabelInv /\ OwnerInv /\ PacketInv /\ NothingLost /\ DeliveryInv /\ [Next]_vars
    => DeliveryInv'
<1> SUFFICES ASSUME IInv, ErrInv, LabelInv, OwnerInv, PacketInv, NothingLost, DeliveryInv,
                    [Next]_vars, failures' = 0
    PROVE  SweepInv' /\ GoneInv' /\ EndInv'
  BY DEF DeliveryInv
<1>1. failures = 0
  BY CleanBefore
<1>2. Clean /\ SweepInv /\ GoneInv /\ EndInv
  BY <1>1 DEF Clean, DeliveryInv
<1>3. GoneInv' /\ EndInv'
  BY <1>2, EndStep
<1>4. UNCHANGED vars => SweepInv'
  BY <1>2, SweepQuiet
<1>5. ASSUME NEW t \in Threads, Acquire(t) \/ Emit(t) \/ Release(t) \/ Exit(t) PROVE SweepInv'
  BY <1>2, <1>5, SweepThread
<1>6. ASSUME NEW f \in Flushers, Flush(f) \/ DropGuard(f) \/ DropLayer(f) PROVE SweepInv'
  BY <1>2, <1>6, SweepOwner
<1>7. ASSUME NEW p \in Procs, DrainStep(p) PROVE SweepInv'
  BY <1>2, <1>7, SweepDrain
<1>8. ASSUME NEW p \in Procs, FlushStep(p) PROVE SweepInv'
  BY <1>2, <1>8, SweepFlush
<1>9. Done => UNCHANGED vars
  BY DEF Done
<1>10. SweepInv'
  BY <1>4, <1>5, <1>6, <1>7, <1>8, <1>9 DEF Next
<1> QED BY <1>3, <1>10

LEMMA OwnersInit == Init => LabelInv /\ OwnerInv /\ PacketInv /\ LateInv
<1> SUFFICES ASSUME Init PROVE LabelInv /\ OwnerInv /\ PacketInv /\ LateInv
  OBVIOUS
<1>1. LabelInv /\ OwnerInv
  BY DEF Init, LabelInv, OwnerInv, InCallback
<1>2. \A i : i \notin DOMAIN <<>>
  OBVIOUS
<1>3. PacketInv
  BY <1>2 DEF Init, PacketInv, InCallback
<1>4. LateInv
  BY DEF Init, LateInv
<1> QED BY <1>1, <1>3, <1>4

LEMMA DeliveryInit == Init => DeliveryInv
<1> SUFFICES ASSUME Init PROVE DeliveryInv
  OBVIOUS
<1>1. SweepInv
  BY DEF Init, SweepInv, Wanted
<1>2. GoneInv /\ EndInv
  BY DEF Init, GoneInv, EndInv
<1> QED BY <1>1, <1>2 DEF DeliveryInv

LEMMA OwnersNext ==
  IInv /\ LabelInv /\ OwnerInv /\ PacketInv /\ LateInv /\ [Next]_vars =>
    LabelInv' /\ OwnerInv' /\ PacketInv' /\ LateInv'
BY LabelStep, OwnerStep, PacketStep, LateStep

\* Where each process is, who owns the shared state and which packets each has
\* still to bring into the trace, in every reachable state.
THEOREM Deliveries ==
  Spec => [](LabelInv /\ OwnerInv /\ PacketInv /\ LateInv /\ DeliveryInv)
<1>1. Spec => [](IInv /\ ErrInv /\ LabelInv /\ OwnerInv /\ PacketInv /\ LateInv)
  BY InitInv, StepInv, ErrInit, ErrStep, OwnersInit, OwnersNext, PTL DEF Spec
<1> QED BY <1>1, PacketsKept, DeliveryInit, DeliveryStep, PTL DEF Spec

\* A flush() that returns Ok has brought everything into the trace that any thread
\* had finished when it was called, for any number of threads, flushes and drains.
THEOREM FlushDelivers == Spec => []FlushCovers
<1>1. DeliveryInv => FlushCovers
  <2> SUFFICES ASSUME DeliveryInv, NEW f \in Flushers, ReturnsOk(f), failures = 0,
                      NEW t \in Threads, NEW n \in 1 .. goal[f][t]
      PROVE  Reached(t, n)
    BY DEF FlushCovers
  <2>1. SweepInv /\ pc[f] = "result" /\ op[f] = "flush" /\ f \in Procs
    BY DEF DeliveryInv, ReturnsOk
  <2>2. n \in Wanted(f, t)
    BY <2>1 DEF Wanted
  <2> QED BY <2>1, <2>2, SweepOver
<1> QED BY <1>1, Deliveries, PTL

\* A thread that has exited has left nothing in its ring (the drop of ThreadCtx).
THEOREM ExitsDrain == Spec => []ExitedThreadsDrained
<1>1. DeliveryInv => ExitedThreadsDrained
  BY DEF DeliveryInv, GoneInv, AllReached, ExitedThreadsDrained
<1> QED BY <1>1, Deliveries, PTL

\* Whoever drops the last reference of Inner completes the trace: an exiting
\* thread, the guard or the layer.
THEOREM TraceCompleted == Spec => []CompleteAtTheEnd
<1>1. DeliveryInv => CompleteAtTheEnd
  BY DEF DeliveryInv, EndInv, AllReached, CompleteAtTheEnd
<1> QED BY <1>1, Deliveries, PTL

\* After has_error is set only the holder of the writer, which saw it clear, still
\* writes, once; drain_thread_buffer discards what follows.
THEOREM OneLateWrite == Spec => []AtMostOneLateWrite
<1>1. IInv /\ LateInv => AtMostOneLateWrite
  BY TypeNow DEF LateInv, AtMostOneLateWrite
<1> QED BY <1>1, Invariance, Deliveries, PTL
=============================================================================
