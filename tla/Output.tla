------------------------------- MODULE Output -------------------------------
(***************************************************************************)
(* The output pipeline of runtime.rs, thread.rs and sequence.rs: packets   *)
(* finished by a callback go to the thread's byte ring; a full ring, a     *)
(* thread's exit and a flush drain rings to the one writer; a write error  *)
(* is recorded after the locks are released; the last owner of the shared  *)
(* state flushes it.                                                       *)
(*                                                                         *)
(* A step is what a thread does between two points at which another thread *)
(* can observe or disturb it: a lock operation, a load or store of an      *)
(* atomic, a ring operation, a call of the user's writer.                  *)
(***************************************************************************)
EXTENDS Integers, Sequences, SequencesExt

CONSTANTS Threads,      \* threads whose spans and events are traced
          Flushers,     \* threads that hold the FlushGuard and the layer
          None,         \* no process, no buffer
          Capacity,     \* bytes in a thread's ring (32 * 1024)
          Sizes,        \* bytes a packet may have
          MaxPackets,   \* bound: packets a thread finishes
          MaxFlushes,   \* bound: flush() calls of a flusher
          MaxFailures   \* bound: calls of the user's writer that fail

Procs == Threads \cup Flushers

ASSUME OutputAssumption ==
  /\ Threads \cap Flushers = {}
  /\ None \notin Procs
  /\ {"layer", "guard"} \cap Threads = {}
  /\ Capacity \in Nat
  /\ Sizes \subseteq Nat \ {0}
  /\ MaxPackets \in Nat /\ MaxFlushes \in Nat /\ MaxFailures \in Nat

VARIABLES
  pc,            \* where each process is
  op,            \* the operation a process is in
  target,        \* the thread whose buffer a process drains
  todo,          \* buffers a flush has still to drain
  avail,         \* packets in the chunk a drain has reserved
  err,           \* the error a drain or flush will record; 0 is none
  trailing,      \* the packet that did not fit a thread's ring
  ring,          \* packets published in a thread's ring
  consumerLock,  \* PerThreadBuf.consumer: its holder
  writerLock,    \* Inner.writer: its holder
  registry,      \* Inner.threads: registered buffers
  hasError,      \* Inner.has_error
  error,         \* Inner.error; 0 is None
  strong,        \* owners of an Arc<Inner>
  output,        \* what the writer has accepted
  made,          \* history: packets a thread has finished
  failures,      \* history: failed writer calls, which number the errors
  flushes,       \* history: flush() calls made
  goal,          \* history: packets finished when the flush was called
  base,          \* history: failures when the flush was called
  late           \* history: writes made when hasError was already set

control == <<op, target, todo, avail, err>>
locks   == <<consumerLock, writerLock>>
errors  == <<hasError, error>>
calls   == <<flushes, goal, base>>
vars == <<pc, control, trailing, ring, locks, registry, errors, strong,
          output, made, failures, calls, late>>

TS == INSTANCE TraceStream WITH
        pending <- [t \in Threads |-> ring[t] \o trailing[t]],
        count   <- made,
        stream  <- output,
        broken  <- failures > 0

-----------------------------------------------------------------------------
Init ==
  /\ pc = [p \in Procs |-> "idle"]
  /\ op = [p \in Procs |-> "none"]
  /\ target = [p \in Procs |-> None]
  /\ todo = [p \in Procs |-> <<>>]
  /\ avail = [p \in Procs |-> 0]
  /\ err = [p \in Procs |-> 0]
  /\ trailing = [t \in Threads |-> <<>>]
  /\ ring = [t \in Threads |-> <<>>]
  /\ consumerLock = [t \in Threads |-> None]
  /\ writerLock = None
  /\ registry = <<>>
  /\ hasError = FALSE
  /\ error = 0
  /\ strong = {"layer", "guard"}
  /\ output = <<>>
  /\ made = [t \in Threads |-> 0]
  /\ failures = 0
  /\ flushes = [f \in Flushers |-> 0]
  /\ goal = [f \in Flushers |-> [t \in Threads |-> 0]]
  /\ base = [f \in Flushers |-> 0]
  /\ late = 0

Goto(p, l) == pc' = [pc EXCEPT ![p] = l]

\* Enter operation o of process p at label l, with the given buffer.
Begin(p, o, l, buf) ==
  /\ Goto(p, l)
  /\ op' = [op EXCEPT ![p] = o]
  /\ target' = [target EXCEPT ![p] = buf]

Bytes(s) == FoldLeft(LAMBDA n, pkt : n + pkt.size, 0, s)

-----------------------------------------------------------------------------
(* A tracing thread: acquire the context, finish packets, exit.            *)

\* The first acquire of a thread builds its ThreadCtx, which registers the
\* buffer.  (RegisterAgain, like every "Variant" below, is a mistake that the
\* sensitivity runs put in place of the definition after it.)
RegisterAgain(t) == Append(registry, t)      \* Variant: at every acquire.

Register(t) == IF t \in ToSet(registry) THEN registry ELSE Append(registry, t)

\* After an error no context is handed out.
Acquire(t) ==
  /\ pc[t] = "idle" /\ "layer" \in strong
  /\ ~hasError
  /\ Goto(t, "callback")
  /\ registry' = Register(t)
  /\ UNCHANGED <<control, trailing, ring, locks, errors, strong, output, made,
                 failures, calls, late>>

Packet(t, s) == [thr |-> t, num |-> made[t] + 1, size |-> s]

\* push_entire_slice publishes the whole packet or nothing.
Fits(t, s) == Bytes(ring[t]) + s <= Capacity

Push(t, s) ==
  /\ pc[t] = "callback" /\ made[t] < MaxPackets
  /\ Fits(t, s)
  /\ ring' = [ring EXCEPT ![t] = Append(@, Packet(t, s))]
  /\ made' = [made EXCEPT ![t] = @ + 1]
  /\ UNCHANGED <<pc, control, trailing, locks, registry, errors, strong, output,
                 failures, calls, late>>

Overflow(t, s) ==
  /\ pc[t] = "callback" /\ made[t] < MaxPackets
  /\ ~Fits(t, s)
  /\ trailing' = [trailing EXCEPT ![t] = <<Packet(t, s)>>]
  /\ made' = [made EXCEPT ![t] = @ + 1]
  /\ Begin(t, "emit", "lockConsumer", t)
  /\ UNCHANGED <<todo, avail, err, ring, locks, registry, errors, strong, output,
                 failures, calls, late>>

Release(t) ==
  /\ pc[t] = "callback"
  /\ Begin(t, "none", "idle", None)
  /\ UNCHANGED <<todo, avail, err, trailing, ring, locks, registry, errors, strong,
                 output, made, failures, calls, late>>

NeverDrains(t) == FALSE                      \* Variant: no drain on exit.

DrainsOnExit(t) == t \in ToSet(registry) /\ strong # {}

\* The thread ends and drops its context, if it has one: the weak reference
\* is upgraded for the drain unless the shared state is already gone.
Exit(t) ==
  /\ pc[t] = "idle"
  /\ IF DrainsOnExit(t)
       THEN /\ strong' = strong \cup {t}
            /\ Begin(t, "exit", "lockConsumer", t)
       ELSE /\ Goto(t, "gone")
            /\ UNCHANGED <<op, target, strong>>
  /\ UNCHANGED <<todo, avail, err, trailing, ring, locks, registry, errors, output,
                 made, failures, calls, late>>

-----------------------------------------------------------------------------
(* drain_thread_buffer: consumer lock, writer lock, the queue, the trailing *)
(* packet, unlock, and only then the error.                                 *)

Buf(p) == target[p]

\* Everything a step of a drain leaves alone, whatever else it does.
DrainFrame == UNCHANGED <<op, target, todo, registry, strong, made, calls>>

\* Where a drain returns to: the callback, the end of the exiting thread's
\* drop, the flush's result (after a failed sync) or its next buffer.
Resume(p) == IF op[p] = "emit" THEN "callback"
             ELSE IF op[p] = "exit" THEN "unref"
             ELSE IF target[p] = None THEN "result" ELSE "next"

FreeAlways(lock) == TRUE                     \* Variant: no mutual exclusion.

Free(lock) == lock = None

LockConsumer(p) ==
  /\ pc[p] = "lockConsumer"
  /\ Free(consumerLock[Buf(p)])
  /\ consumerLock' = [consumerLock EXCEPT ![Buf(p)] = p]
  /\ Goto(p, "lockWriter")
  /\ DrainFrame
  /\ UNCHANGED <<avail, err, trailing, ring, writerLock, errors, output, failures, late>>

LockWriter(p) ==
  /\ pc[p] = "lockWriter"
  /\ Free(writerLock)
  /\ writerLock' = p
  /\ Goto(p, "slots")
  /\ DrainFrame
  /\ UNCHANGED <<avail, err, trailing, ring, consumerLock, errors, output, failures, late>>

\* The published packets are reserved once; later pushes wait for the next
\* drain.  After an error the chunk is consumed without being written.
ReadSlots(p) ==
  /\ pc[p] = "slots"
  /\ avail' = [avail EXCEPT ![p] = Len(ring[Buf(p)])]
  /\ IF avail'[p] # 0 /\ ~hasError
       THEN Goto(p, "writeChunk") /\ UNCHANGED ring
       ELSE /\ Goto(p, "trailing")
            /\ ring' = [ring EXCEPT ![Buf(p)] = <<>>]
  /\ DrainFrame
  /\ UNCHANGED <<err, trailing, locks, errors, output, failures, late>>

\* Variant: everything published by now is consumed, not what was reserved.
CommitPublished(p) == ring' = [ring EXCEPT ![Buf(p)] = <<>>]

\* Variant: a failed write leaves the chunk in the ring.
CommitUnlessFailed(p) ==
  ring' = IF failures' = failures
            THEN [ring EXCEPT ![Buf(p)] = TS!Drop(@, avail[p])] ELSE ring

CommitChunk(p) == ring' = [ring EXCEPT ![Buf(p)] = TS!Drop(@, avail[p])]

\* A write that starts after hasError was set was let through by an older read.
CountLate == late' = IF hasError THEN late + 1 ELSE late

WriteChunk(p) ==
  /\ pc[p] = "writeChunk"
  /\ output' = output \o TS!Front(ring[Buf(p)], avail[p])
  /\ UNCHANGED <<avail, err, trailing, locks, errors, failures>>
  /\ CommitChunk(p)
  /\ Goto(p, "trailing")
  /\ CountLate
  /\ DrainFrame

\* The writer's n-th failure is error n.
Fail(p) ==
  /\ failures < MaxFailures
  /\ failures' = failures + 1
  /\ err' = [err EXCEPT ![p] = failures']

\* write_all fails after k whole packets, perhaps inside the next one; the
\* chunk is consumed all the same.
FailChunk(p) ==
  /\ pc[p] = "writeChunk"
  /\ Fail(p)
  /\ \E k \in 0 .. avail[p] - 1 :
        LET accepted == output \o TS!Front(ring[Buf(p)], k)
        IN \/ output' = accepted
           \/ output' = Append(accepted, TS!Fragment(ring[Buf(p)][k + 1]))
  /\ CommitChunk(p)
  /\ Goto(p, "trailing")
  /\ CountLate
  /\ DrainFrame
  /\ UNCHANGED <<avail, trailing, locks, errors>>

\* The packet that did not fit follows the queue unless something failed.
Trailing(p) == IF op[p] = "emit" THEN trailing[p] ELSE <<>>

ClearTrailing(p) ==
  trailing' = IF op[p] = "emit" THEN [trailing EXCEPT ![p] = <<>>] ELSE trailing

CleanDrain(p) == err[p] = 0                  \* Variant: no look at hasError.

MayWriteTrailing(p) == err[p] = 0 /\ ~hasError

CheckTrailing(p) ==
  /\ pc[p] = "trailing"
  /\ IF MayWriteTrailing(p) /\ Trailing(p) # <<>>
       THEN Goto(p, "writeTrailing") /\ UNCHANGED trailing
       ELSE Goto(p, "unlockWriter") /\ ClearTrailing(p)
  /\ DrainFrame
  /\ UNCHANGED <<avail, err, ring, locks, errors, output, failures, late>>

WriteTrailing(p) ==
  /\ pc[p] = "writeTrailing"
  /\ output' = output \o Trailing(p)
  /\ ClearTrailing(p)
  /\ Goto(p, "unlockWriter")
  /\ CountLate
  /\ DrainFrame
  /\ UNCHANGED <<avail, err, ring, locks, errors, failures>>

FailTrailing(p) ==
  /\ pc[p] = "writeTrailing"
  /\ Fail(p)
  /\ \/ output' = output
     \/ output' = Append(output, TS!Fragment(Trailing(p)[1]))
  /\ ClearTrailing(p)
  /\ Goto(p, "unlockWriter")
  /\ CountLate
  /\ DrainFrame
  /\ UNCHANGED <<avail, ring, locks, errors>>

\* Variant: an error leaves the writer locked.
UnlockWriterUnlessError(p) ==
  /\ pc[p] = "unlockWriter"
  /\ writerLock' = IF err[p] = 0 THEN None ELSE writerLock
  /\ Goto(p, "unlockConsumer")
  /\ DrainFrame
  /\ UNCHANGED <<avail, err, trailing, ring, consumerLock, errors, output, failures, late>>

UnlockWriter(p) ==
  /\ pc[p] = "unlockWriter"
  /\ writerLock' = None
  /\ Goto(p, "unlockConsumer")
  /\ DrainFrame
  /\ UNCHANGED <<avail, err, trailing, ring, consumerLock, errors, output, failures, late>>

UnlockConsumer(p) ==
  /\ pc[p] = "unlockConsumer"
  /\ consumerLock' = [consumerLock EXCEPT ![Buf(p)] = None]
  /\ Goto(p, IF err[p] = 0 THEN Resume(p) ELSE "record")
  /\ avail' = [avail EXCEPT ![p] = 0]
  /\ DrainFrame
  /\ UNCHANGED <<err, trailing, ring, writerLock, errors, output, failures, late>>

LastError(p) == err[p]                       \* Variant: the last error wins.

FirstError(p) == IF error = 0 THEN err[p] ELSE error

\* record_error keeps the error that gets here first.
RecordError(p) ==
  /\ pc[p] = "record"
  /\ error' = FirstError(p)
  /\ hasError' = TRUE
  /\ err' = [err EXCEPT ![p] = 0]
  /\ Goto(p, Resume(p))
  /\ DrainFrame
  /\ UNCHANGED <<avail, trailing, ring, locks, output, failures, late>>

DrainStep(p) ==
  \/ LockConsumer(p) \/ LockWriter(p) \/ ReadSlots(p)
  \/ WriteChunk(p) \/ FailChunk(p)
  \/ CheckTrailing(p) \/ WriteTrailing(p) \/ FailTrailing(p)
  \/ UnlockWriter(p) \/ UnlockConsumer(p) \/ RecordError(p)

-----------------------------------------------------------------------------
(* flush_all, called by flush(), by the guard's drop and by Inner's drop.   *)

FlushFrame ==
  UNCHANGED <<trailing, ring, consumerLock, output, made, late>>

\* What has left its callback: a packet still on its way into the trace
\* through a full ring is not finished.
Finished(t) == made[t] - Len(trailing[t])

\* Nobody flushes through a guard that is being dropped.
Flush(f) ==
  /\ pc[f] = "idle" /\ "guard" \in strong /\ flushes[f] < MaxFlushes
  /\ \A g \in Flushers : op[g] # "dropGuard"
  /\ flushes' = [flushes EXCEPT ![f] = @ + 1]
  /\ goal' = [goal EXCEPT ![f] = [t \in Threads |-> Finished(t)]]
  /\ base' = [base EXCEPT ![f] = failures]
  /\ Begin(f, "flush", "clone", None)
  /\ FlushFrame
  /\ UNCHANGED <<todo, avail, err, writerLock, registry, errors, strong, failures>>

\* Dropping the guard flushes first; nobody else can be using the guard.
DropGuard(f) ==
  /\ pc[f] = "idle" /\ "guard" \in strong
  /\ \A g \in Flushers : op[g] \notin {"flush", "dropGuard"}
  /\ Begin(f, "dropGuard", "clone", None)
  /\ FlushFrame
  /\ UNCHANGED <<todo, avail, err, writerLock, registry, errors, strong, failures, calls>>

\* The layer goes with the last dispatcher, so no callback is running.
DropLayer(f) ==
  /\ pc[f] = "idle" /\ "layer" \in strong
  /\ \A t \in Threads : pc[t] # "callback" /\ op[t] # "emit"
  /\ strong' = strong \ {"layer"}
  /\ IF strong' = {}
       THEN Begin(f, "dropInner", "clone", None)
       ELSE UNCHANGED <<pc, op, target>>
  /\ FlushFrame
  /\ UNCHANGED <<todo, avail, err, writerLock, registry, errors, failures, calls>>

\* Variant: buffers that somebody is draining already are left out.
IdleBuffers == SelectSeq(registry, LAMBDA t : consumerLock[t] = None)

Buffers == registry

CloneRegistry(p) ==
  /\ pc[p] = "clone"
  /\ todo' = [todo EXCEPT ![p] = Buffers]
  /\ Goto(p, "next")
  /\ FlushFrame
  /\ UNCHANGED <<op, target, avail, err, writerLock, registry, errors, strong,
                 failures, calls>>

NextBuffer(p) ==
  /\ pc[p] = "next" /\ todo[p] # <<>>
  /\ target' = [target EXCEPT ![p] = Head(todo[p])]
  /\ todo' = [todo EXCEPT ![p] = Tail(@)]
  /\ Goto(p, "lockConsumer")
  /\ FlushFrame
  /\ UNCHANGED <<op, avail, err, writerLock, registry, errors, strong, failures, calls>>

\* The writer's own flush, under its lock, succeeds or fails.
SyncWriter(p) ==
  /\ pc[p] = "next" /\ todo[p] = <<>>
  /\ Free(writerLock)
  /\ target' = [target EXCEPT ![p] = None]
  /\ \/ Goto(p, "result") /\ UNCHANGED <<err, failures>>
     \/ Goto(p, "record") /\ Fail(p)
  /\ FlushFrame
  /\ UNCHANGED <<op, todo, avail, writerLock, registry, errors, strong, calls>>

\* flush() returns Ok if hasError is still clear here, else the error.
ReturnsOk(p) == pc[p] = "result" /\ op[p] = "flush" /\ ~hasError

Forget(f) == /\ goal' = [goal EXCEPT ![f] = [t \in Threads |-> 0]]
             /\ base' = [base EXCEPT ![f] = 0]

FlushResult(p) ==
  /\ pc[p] = "result"
  /\ Goto(p, CASE op[p] = "flush"     -> "idle"
               [] op[p] = "dropGuard" -> "unref"
               [] OTHER               -> IF p \in Threads THEN "gone" ELSE "idle")
  /\ op' = [op EXCEPT ![p] = IF op[p] = "dropGuard" THEN @ ELSE "none"]
  /\ IF p \in Flushers THEN Forget(p) ELSE UNCHANGED <<goal, base>>
  /\ FlushFrame
  /\ UNCHANGED <<target, todo, avail, err, writerLock, registry, errors, strong,
                 failures, flushes>>

\* Variant: an exiting thread never drops Inner.
LastFlusher(p, left) == left = {} /\ p \in Flushers

LastOwner(p, left) == left = {}

\* An Arc goes: the exiting thread's upgraded one, or the guard's.  The last
\* owner drops Inner, which flushes everything once more.
Unref(p) ==
  /\ pc[p] = "unref"
  /\ strong' = strong \ {IF op[p] = "exit" THEN p ELSE "guard"}
  /\ IF LastOwner(p, strong')
       THEN Begin(p, "dropInner", "clone", None)
       ELSE Begin(p, "none", IF p \in Threads THEN "gone" ELSE "idle", None)
  /\ FlushFrame
  /\ UNCHANGED <<todo, avail, err, writerLock, registry, errors, failures, calls>>

FlushStep(p) == \/ CloneRegistry(p) \/ NextBuffer(p) \/ SyncWriter(p)
                \/ FlushResult(p) \/ Unref(p)

\* Nothing is left to do: every thread has ended and Inner is dropped.
Done ==
  /\ strong = {}
  /\ \A p \in Procs : pc[p] = IF p \in Threads THEN "gone" ELSE "idle"
  /\ UNCHANGED vars

-----------------------------------------------------------------------------
Emit(t) == \E s \in Sizes : Push(t, s) \/ Overflow(t, s)

Next ==
  \/ \E t \in Threads : Acquire(t) \/ Emit(t) \/ Release(t) \/ Exit(t)
  \/ \E f \in Flushers : Flush(f) \/ DropGuard(f) \/ DropLayer(f)
  \/ \E p \in Procs : DrainStep(p) \/ FlushStep(p)
  \/ Done

Spec == Init /\ [][Next]_vars

\* A thread inside a drain or a flush keeps running; nobody is obliged to
\* start a callback, call flush(), exit or drop the guard.
FairSpec == Spec /\ \A p \in Procs : WF_vars(DrainStep(p) \/ FlushStep(p))

-----------------------------------------------------------------------------
(* Properties.                                                              *)

DrainLabels == {"lockConsumer", "lockWriter", "slots", "writeChunk", "trailing",
                "writeTrailing", "unlockWriter", "unlockConsumer", "record"}
Labels == DrainLabels \cup {"idle", "callback", "clone", "next", "result",
                            "unref", "gone"}
Operations == {"none", "emit", "exit", "flush", "dropGuard", "dropInner"}

PacketType == [thr : Threads, num : 1 .. MaxPackets, size : Sizes]
OutputType == [thr : Threads, num : 1 .. MaxPackets, size : Sizes \cup {0}]

ControlType ==
  /\ pc \in [Procs -> Labels]
  /\ op \in [Procs -> Operations]
  /\ target \in [Procs -> Threads \cup {None}]
  /\ todo \in [Procs -> Seq(Threads)]
  /\ avail \in [Procs -> Nat]
  /\ err \in [Procs -> 0 .. MaxFailures]

QueueType ==
  /\ trailing \in [Threads -> Seq(PacketType)]
  /\ ring \in [Threads -> Seq(PacketType)]
  /\ output \in Seq(OutputType)
  /\ made \in [Threads -> 0 .. MaxPackets]

SharedType ==
  /\ consumerLock \in [Threads -> Procs \cup {None}]
  /\ writerLock \in Procs \cup {None}
  /\ registry \in Seq(Threads)
  /\ hasError \in BOOLEAN
  /\ error \in 0 .. MaxFailures
  /\ strong \subseteq {"layer", "guard"} \cup Threads

HistoryType ==
  /\ failures \in 0 .. MaxFailures
  /\ flushes \in [Flushers -> 0 .. MaxFlushes]
  /\ goal \in [Flushers -> [Threads -> Int]]
  /\ base \in [Flushers -> 0 .. MaxFailures]
  /\ late \in Nat

RegisteredOnce == \A i, j \in DOMAIN registry : registry[i] = registry[j] => i = j

\* Every variable keeps its type; a thread registers its buffer once, however
\* often it acquires its context.
TypeOK == ControlType /\ QueueType /\ SharedType /\ HistoryType /\ RegisteredOnce

\* The labels at which a drain of target[p] holds each lock.
HasConsumer(p) == pc[p] \in DrainLabels \ {"lockConsumer", "record"}
HasWriter(p) == HasConsumer(p) /\ pc[p] \notin {"lockWriter", "unlockConsumer"}

LockInv ==
  /\ \A p \in Procs : HasConsumer(p) => consumerLock[target[p]] = p
  /\ \A p \in Procs : HasWriter(p) => writerLock = p

ChunkInv ==
  /\ \A p \in Procs :
       pc[p] = "writeChunk" =>
         /\ avail[p] \in 1 .. Len(ring[target[p]])
         /\ op[p] = "emit" => avail[p] = Len(ring[target[p]])
  /\ \A p \in Procs :
       pc[p] \in {"trailing", "writeTrailing"} /\ op[p] = "emit" => ring[p] = <<>>

\* Each lock has the holder its protocol says, and only that one; a chunk that
\* was reserved stays readable until it is committed although the producer
\* keeps pushing; and when a full ring's packet is about to be written the
\* queue before it has been consumed (drain_thread_buffer, "preserving packet
\* order on overflow").
DrainInv == LockInv /\ ChunkInv

Reached(t, n) == TS!Reached(t, n)

\* A thread's packets reach the trace in the order it finished them and at
\* most once, also across a full ring, a torn write and several drainers: the
\* trace, the ring and the overflowing packet, read in this order, carry
\* increasing numbers.
StreamOrdered == TS!Ordered

\* While no write has failed no packet disappears between its callback and the
\* trace, whichever of the drainers moves it.
NothingLost == TS!Lossless

\* flush() drains what every thread had finished when it was called, also what
\* another drainer was moving at the time (lib.rs: "Drains all threads' queues
\* to the writer").
FlushCovers ==
  \A f \in Flushers :
    ReturnsOk(f) /\ failures = 0 =>
      \A t \in Threads : \A n \in 1 .. goal[f][t] : Reached(t, n)

\* "... only reach the output writer when a queue fills, a thread exits, or the
\* trace is flushed": a thread that has exited has nothing left in its ring as
\* long as the shared state lives.
ExitedThreadsDrained ==
  failures = 0 /\ strong # {} =>
    \A t \in Threads : pc[t] = "gone" => \A n \in 1 .. made[t] : Reached(t, n)

\* Once Inner has been dropped the trace is complete, whoever was its last
\* owner and whichever threads were then still alive or about to exit.
CompleteAtTheEnd ==
  failures = 0 /\ strong = {} /\ (\A p \in Procs : op[p] # "dropInner") =>
    \A t \in Threads : \A n \in 1 .. made[t] : Reached(t, n)

\* After has_error is set at most one more write gets through, the one that was
\* let through by the writer lock's holder before ("once a write error occurs,
\* further trace data is discarded").
AtMostOneLateWrite == late <= 1

\* The error a flush reports never changes and is there whenever has_error is
\* seen ("None => write error" in flush_all is not reached).
ErrorSticks ==
  [][ /\ error # 0 => error' = error
      /\ hasError' => error' # 0 ]_vars

\* The pipeline implements the abstract trace stream.
Implements == TS!Spec

\* Nobody waits forever for the two locks: a callback whose ring is full, an
\* exiting thread and a flush all come back.
DrainsReturn ==
  \A p \in Procs :
    pc[p] \in DrainLabels \cup {"clone", "next", "result", "unref"}
      ~> pc[p] \in {"callback", "idle", "gone"}

\* lib.rs: "once a write error occurs, further trace data is discarded", so a
\* packet cut short is the last thing in the trace.
DiscardsAfterError ==
  \A i \in DOMAIN output : output[i].size = 0 => i = Len(output)

\* lib.rs: flush() "also surfaces the first write error hit by background
\* emission, if any": it does not return Ok when a write failed before it was
\* called.
FlushSurfacesError ==
  \A f \in Flushers : ReturnsOk(f) => base[f] = 0
=============================================================================
