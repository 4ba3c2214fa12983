------------------------------- MODULE Mirror -------------------------------
(***************************************************************************)
(* The live capture-stream mirror (internal/capturestream/mirror.go).      *)
(*                                                                         *)
(* Mirror sits between the DCA1000 receiver and the authoritative capture  *)
(* file.  Every WriteAt goes to the file first and then into a bounded     *)
(* spool of incomplete frames; complete frames leave the spool in order    *)
(* through a channel that a worker goroutine (runSink) feeds to the sink.  *)
(* The threads are the receiver ("the writer"), the worker, and callers of *)
(* Seal and Abort (session.Run and the application).  A critical section   *)
(* of mirror.mu is one action; what the code does after unlocking          *)
(* (sinkCancel, cancelCapture) is an action of its own.                    *)
(***************************************************************************)
EXTENDS Coverage, Sequences

CONSTANTS
  FrameBytes,    \* config.FrameBytes, in the units the model writes
  FrameLimit,    \* config.FrameCount, or config.MaxFrameCount if open-ended
  BufferFrames,  \* config.BufferBytes / config.FrameBytes, capped at 4096
  MaxRanges,     \* maxMirrorRangesPerFrame
  MaxWrite,      \* bound on the length of one WriteAt payload
  Tags,          \* distinguishes the contents two packets give one byte
  Genuine,       \* the tag of what the ADC produced
  Callers,       \* threads that call Seal and Abort
  None           \* an output byte that was never written

ExpectedBytes == FrameLimit * FrameBytes
MaxSlots == IF BufferFrames > FrameLimit THEN FrameLimit ELSE BufferFrames

\* Byte p of the capture as a packet with this tag carries it.
Bytes == Tags \X (0 .. (ExpectedBytes - 1))
Byte(tag, p) == <<tag, p>>

\* What NewMirror validates before it builds a Mirror.
ASSUME ConfigAssumption ==
  /\ FrameBytes \in Nat \ {0}
  /\ FrameLimit \in Nat \ {0}
  /\ BufferFrames \in Nat \ {0}
  /\ MaxRanges \in Nat \ {0}
  /\ MaxWrite \in Nat
  /\ Genuine \in Tags
  /\ None \notin Bytes

VARIABLES
  frameCount,        \* config.FrameCount: FrameLimit, or 0 when open-ended
  state,             \* mirror.state
  failure,           \* mirror.failure: "nil" or the kind of the first error
  slots,             \* mirror.slots: frame index -> frameSpool
  allocated,         \* mirror.allocated
  nextEmit,          \* mirror.nextEmit
  delivered,         \* mirror.delivered
  sealedFrameCount,  \* mirror.sealedFrameCount
  queue,             \* mirror.queue
  queueClosed,       \* mirror.queueClosed
  sinkCancelled,     \* mirror.sinkContext is cancelled
  captureCancelled,  \* mirror.cancel has been called
  writer,            \* receiver thread
  worker,            \* runSink goroutine
  caller,            \* Seal/Abort threads: where each is and what it got
  output,            \* the authoritative capture output
  sunk               \* frames the sink accepted, in order

vars == <<frameCount, state, failure, slots, allocated, nextEmit, delivered,
          sealedFrameCount, queue, queueClosed, sinkCancelled,
          captureCancelled, writer, worker, caller, output, sunk>>

\* Variables no critical section on behalf of Seal, Abort or the worker writes.
writeVars == <<nextEmit, output, writer>>

Frames == 0 .. (FrameLimit - 1)
FrameOffsets == 0 .. (FrameBytes - 1)
Payloads == [FrameOffsets -> Bytes \cup {None}]
ByteRanges == [start : 0 .. FrameBytes, end : 0 .. FrameBytes]
Spools == [data : Payloads, ranges : SUBSET ByteRanges, covered : Nat]
QueuedFrames == [index : Frames, payload : Payloads]
Failures == {"integrity", "backpressure", "output", "sink", "deadline"}

EmptySpool ==
  [data |-> [u \in FrameOffsets |-> None], ranges |-> {}, covered |-> 0]
NoSlots == [i \in {} |-> EmptySpool]
NoFrame == [index |-> 0, payload |-> EmptySpool.data]

Init ==
  /\ frameCount \in {0, FrameLimit}
  /\ state = "open"
  /\ failure = "nil"
  /\ slots = NoSlots
  /\ allocated = 0
  /\ nextEmit = 0
  /\ delivered = 0
  /\ sealedFrameCount = 0
  /\ queue = <<>>
  /\ queueClosed = FALSE
  /\ sinkCancelled = FALSE
  /\ captureCancelled = FALSE
  /\ writer = "ready"
  /\ worker = [pc |-> "range", frame |-> NoFrame, discard |-> FALSE]
  /\ caller = [c \in Callers |-> "idle"]
  /\ output = [b \in 0 .. (ExpectedBytes - 1) |-> None]
  /\ sunk = <<>>

-----------------------------------------------------------------------------
(* failLocked, recordFailureLocked, abortLocked and closeQueueLocked.  The *)
(* caller names the spools and the allocation count it leaves behind.      *)

AbortLocked(spools, alloc) ==
  IF state \in {"sealed", "aborted"}
  THEN /\ slots' = spools
       /\ allocated' = alloc
       /\ UNCHANGED <<state, queueClosed>>
  ELSE /\ state' = "aborted"
       /\ slots' = NoSlots
       /\ allocated' = alloc - Cardinality(DOMAIN spools)
       /\ queueClosed' = TRUE

RecordFailure(err) == failure' = IF failure = "nil" THEN err ELSE failure

FailLocked(err, spools, alloc) ==
  /\ RecordFailure(err)
  /\ AbortLocked(spools, alloc)

-----------------------------------------------------------------------------
(* WriteAt.                                                                *)

FirstFrame(offset) == offset \div FrameBytes
LastFrame(offset, length) == (offset + length - 1) \div FrameBytes
FramesOf(offset, length) == FirstFrame(offset) .. LastFrame(offset, length)
MissingSlots(offset, length) == FramesOf(offset, length) \ DOMAIN slots

\* The part of [offset, offset + length) in frame i, relative to its start.
FragmentStart(i, offset) ==
  IF offset > i * FrameBytes THEN offset - i * FrameBytes ELSE 0
FragmentEnd(i, offset, length) ==
  IF offset + length < (i + 1) * FrameBytes
  THEN offset + length - i * FrameBytes ELSE FrameBytes

SpoolAt(i) == IF i \in DOMAIN slots THEN slots[i] ELSE EmptySpool

\* frameSpool.preflight for the fragment of a write in frame i.
Preflight(i, offset, length) ==
  LET start  == FragmentStart(i, offset)
      end    == FragmentEnd(i, offset, length)
      ranges == SpoolAt(i).ranges
  IN  IF Overlapping(ranges, start, end) # {} THEN "integrity"
      ELSE IF ResultingCount(ranges, start, end) > MaxRanges
           THEN "backpressure" ELSE "ok"

\* Mutant: a write into a frame that was already emitted is accepted.
PlanWrite_emitted(offset, length) ==
  IF length = 0 \/ offset + length > ExpectedBytes THEN "integrity"
  ELSE IF LastFrame(offset, length) - nextEmit >= MaxSlots THEN "backpressure"
  ELSE "ok"

\* planWriteLocked: "ok", or the error of the first check that fails.
PlanWrite(offset, length) ==
  IF length = 0 \/ offset + length > ExpectedBytes THEN "integrity"
  ELSE IF FirstFrame(offset) < nextEmit THEN "integrity"
  ELSE IF LastFrame(offset, length) - nextEmit >= MaxSlots THEN "backpressure"
  ELSE IF Cardinality(MissingSlots(offset, length)) > MaxSlots - allocated
       THEN "backpressure"
  ELSE LET bad == {i \in FramesOf(offset, length) :
                     Preflight(i, offset, length) # "ok"}
       IN  IF bad = {} THEN "ok"
           ELSE Preflight(LeastOf(bad), offset, length)

\* payload[k] of a WriteAt at this offset.
PayloadByte(offset, k, tag) == Byte(tag, offset + k)

\* frameSpool.apply of payload[payloadStart:] to the fragment in frame i.
ApplyFragment(i, offset, length, tag) ==
  LET start == FragmentStart(i, offset)
      end   == FragmentEnd(i, offset, length)
      payloadStart == i * FrameBytes + start - offset
      spool == SpoolAt(i)
  IN  [data    |-> [u \in FrameOffsets |->
                      IF u \in start .. (end - 1)
                      THEN PayloadByte(offset, payloadStart + (u - start), tag)
                      ELSE spool.data[u]],
       ranges  |-> AddRange(spool.ranges, start, end),
       covered |-> spool.covered + (end - start)]

SpoolsAfter(offset, length, tag) ==
  [i \in DOMAIN slots \cup FramesOf(offset, length) |->
     IF i \in FramesOf(offset, length)
     THEN ApplyFragment(i, offset, length, tag) ELSE slots[i]]

\* Mutant: a frame counts as complete once its last byte has arrived.
Complete_lastByte(spool) == \E r \in spool.ranges : r.end = FrameBytes

\* frameSpool.complete.
Complete(spool) ==
  /\ spool.covered = FrameBytes
  /\ spool.ranges = {[start |-> 0, end |-> FrameBytes]}

Ready(spools, i) == i \in DOMAIN spools /\ Complete(spools[i])

\* enqueueCompleteLocked leaves its loop with nextEmit = e: at the frame limit,
\* at a frame that is not complete, or with the channel full.
EmitsTo(spools, e) ==
  /\ \A i \in nextEmit .. (e - 1) : Ready(spools, i)
  /\ Len(queue) + (e - nextEmit) <= MaxSlots
  /\ \/ e = FrameLimit
     \/ ~ Ready(spools, e)
     \/ Len(queue) + (e - nextEmit) = MaxSlots

QueueFull(spools, e) == e < FrameLimit /\ Ready(spools, e)

OutputAfter(offset, count, tag) ==
  [b \in DOMAIN output |-> IF b \in offset .. (offset + count - 1)
                           THEN PayloadByte(offset, b - offset, tag)
                           ELSE output[b]]

\* Mutant: the new frame slots of a write are not counted.
AllocatedAfter_uncounted(offset, length) == allocated

AllocatedAfter(offset, length) ==
  allocated + Cardinality(MissingSlots(offset, length))

\* A packet carries what the ADC produced; one that repeats bytes already in
\* the file may carry anything.
PayloadTags(offset, length) ==
  IF \E b \in DOMAIN output : b \in offset .. (offset + length - 1) /\ output[b] # None
  THEN Tags ELSE {Genuine}

\* writableErrorLocked: the receive loop ends on the error.
WriteRefused ==
  /\ writer = "ready"
  /\ failure # "nil" \/ state # "open"
  /\ writer' = "stopped"
  /\ UNCHANGED <<frameCount, state, failure, slots, allocated, nextEmit,
                 delivered, sealedFrameCount, queue, queueClosed,
                 sinkCancelled, captureCancelled, worker, caller,
                 output, sunk>>

Writable == writer = "ready" /\ failure = "nil" /\ state = "open"

WritePlanFails(offset, length) ==
  /\ Writable
  /\ PlanWrite(offset, length) # "ok"
  /\ FailLocked(PlanWrite(offset, length), slots, allocated)
  /\ writer' = "cancel"
  /\ UNCHANGED <<frameCount, nextEmit, delivered, sealedFrameCount, queue,
                 sinkCancelled, captureCancelled, worker, caller,
                 output, sunk>>

\* The authoritative write fails or is short: a prefix may be in the file.
WriteOutputFails(offset, length, tag, written) ==
  /\ Writable
  /\ PlanWrite(offset, length) = "ok"
  /\ written < length
  /\ output' = OutputAfter(offset, written, tag)
  /\ FailLocked("output", slots, allocated)
  /\ writer' = "cancel"
  /\ UNCHANGED <<frameCount, nextEmit, delivered, sealedFrameCount, queue,
                 sinkCancelled, captureCancelled, worker, caller,
                 sunk>>

WriteAccepted(offset, length, tag) ==
  /\ Writable
  /\ PlanWrite(offset, length) = "ok"
  /\ output' = OutputAfter(offset, length, tag)
  /\ LET spools == SpoolsAfter(offset, length, tag)
         alloc  == AllocatedAfter(offset, length)
     IN  \E e \in nextEmit .. FrameLimit :
           LET left == [i \in DOMAIN spools \ (nextEmit .. (e - 1)) |-> spools[i]]
           IN  /\ EmitsTo(spools, e)
               /\ queue' = queue \o
                    [k \in 1 .. (e - nextEmit) |->
                       [index   |-> nextEmit + k - 1,
                        payload |-> spools[nextEmit + k - 1].data]]
               /\ nextEmit' = e
               /\ IF QueueFull(spools, e)
                  THEN /\ FailLocked("backpressure", left, alloc)
                       /\ writer' = "cancel"
                  ELSE /\ slots' = left
                       /\ allocated' = alloc
                       /\ UNCHANGED <<state, failure, queueClosed, writer>>
  /\ UNCHANGED <<frameCount, delivered, sealedFrameCount, sinkCancelled,
                 captureCancelled, worker, caller, sunk>>

\* After the unlock of a failing call: sinkCancel, then cancelCapture.
WriterCancels ==
  /\ writer = "cancel"
  /\ writer' = "stopped"
  /\ sinkCancelled' = TRUE
  /\ captureCancelled' = TRUE
  /\ UNCHANGED <<frameCount, state, failure, slots, allocated, nextEmit,
                 delivered, sealedFrameCount, queue, queueClosed, worker,
                 caller, output, sunk>>

-----------------------------------------------------------------------------
(* runSink.                                                                *)

WorkerReceive ==
  /\ worker.pc = "range"
  /\ queue # <<>>
  /\ queue' = Tail(queue)
  /\ worker' = [worker EXCEPT !.pc = IF worker.discard THEN "settle" ELSE "check",
                              !.frame = Head(queue)]
  /\ UNCHANGED <<frameCount, state, failure, slots, allocated, delivered,
                 sealedFrameCount, queueClosed, sinkCancelled,
                 captureCancelled, caller, sunk, writeVars>>

\* Mutant: a worker that has a frame in hand gives it to the sink.
WorkerCheck_unconditional ==
  /\ worker.pc = "check"
  /\ worker' = [worker EXCEPT !.pc = "sink"]
  /\ UNCHANGED <<frameCount, state, failure, slots, allocated, delivered,
                 sealedFrameCount, queue, queueClosed, sinkCancelled,
                 captureCancelled, caller, sunk, writeVars>>

WorkerCheck ==
  /\ worker.pc = "check"
  /\ LET discard == failure # "nil" \/ state = "aborted" \/ sinkCancelled
     IN  worker' = [worker EXCEPT !.pc = IF discard THEN "settle" ELSE "sink",
                                 !.discard = discard]
  /\ UNCHANGED <<frameCount, state, failure, slots, allocated, delivered,
                 sealedFrameCount, queue, queueClosed, sinkCancelled,
                 captureCancelled, caller, sunk, writeVars>>

WorkerDiscards ==
  /\ worker.pc = "settle"
  /\ allocated' = allocated - 1
  /\ worker' = [worker EXCEPT !.pc = "range"]
  /\ UNCHANGED <<frameCount, state, failure, slots, delivered,
                 sealedFrameCount, queue, queueClosed, sinkCancelled,
                 captureCancelled, caller, sunk, writeVars>>

\* sink.WriteFrame returns nil; an abort may have overtaken it.
SinkAccepts ==
  /\ worker.pc = "sink"
  /\ sunk' = Append(sunk, worker.frame)
  /\ allocated' = allocated - 1
  /\ delivered' = IF state # "aborted" THEN delivered + 1 ELSE delivered
  /\ worker' = [worker EXCEPT !.pc = "range"]
  /\ UNCHANGED <<frameCount, state, failure, slots, sealedFrameCount, queue,
                 queueClosed, sinkCancelled, captureCancelled, caller, writeVars>>

SinkFails ==
  /\ worker.pc = "sink"
  /\ IF state # "aborted"
     THEN FailLocked("sink", slots, allocated - 1)
     ELSE /\ allocated' = allocated - 1
          /\ UNCHANGED <<state, failure, slots, queueClosed>>
  /\ worker' = [worker EXCEPT
       !.pc = IF state # "aborted" /\ failure = "nil" THEN "cancel" ELSE "range",
       !.discard = TRUE]
  /\ UNCHANGED <<frameCount, delivered, sealedFrameCount, queue,
                 sinkCancelled, captureCancelled, caller, sunk,
                 writeVars>>

WorkerCancels ==
  /\ worker.pc = "cancel"
  /\ worker' = [worker EXCEPT !.pc = "range"]
  /\ sinkCancelled' = TRUE
  /\ captureCancelled' = TRUE
  /\ UNCHANGED <<frameCount, state, failure, slots, allocated, delivered,
                 sealedFrameCount, queue, queueClosed, caller,
                 sunk, writeVars>>

WorkerExits ==
  /\ worker.pc = "range"
  /\ queue = <<>>
  /\ queueClosed
  /\ worker' = [worker EXCEPT !.pc = "exited"]
  /\ UNCHANGED <<frameCount, state, failure, slots, allocated, delivered,
                 sealedFrameCount, queue, queueClosed, sinkCancelled,
                 captureCancelled, caller, sunk, writeVars>>

-----------------------------------------------------------------------------
(* Seal and Abort.                                                         *)

\* A caller makes at most one Seal call, and may Abort before or after it.
Returns(c, result) == caller' = [caller EXCEPT ![c] = result]

\* Mutant: a finite capture may be sealed with the frames that came.
SealTarget_emitted == nextEmit

SealTarget == IF frameCount = 0 THEN nextEmit ELSE frameCount

\* Nothing failed and every frame of the capture has been queued.
SealReady ==
  /\ failure = "nil"
  /\ SealTarget # 0
  /\ nextEmit = SealTarget
  /\ DOMAIN slots = {}

\* Seal with mirror.state open: close the queue and wait, or fail.
SealOpen(c) ==
  /\ caller[c] = "idle"
  /\ state = "open"
  /\ IF SealReady
     THEN /\ sealedFrameCount' = SealTarget
          /\ state' = "sealing"
          /\ queueClosed' = TRUE
          /\ Returns(c, "wait")
          /\ UNCHANGED <<failure, slots, allocated>>
     ELSE /\ FailLocked("integrity", slots, allocated)
          /\ Returns(c, "cancel")
          /\ UNCHANGED sealedFrameCount
  /\ UNCHANGED <<frameCount, delivered, queue, sinkCancelled,
                 captureCancelled, worker, sunk, writeVars>>

\* Seal with mirror.state sealed, aborted or sealing.
SealAgain(c) ==
  /\ caller[c] = "idle"
  /\ state # "open"
  /\ CASE state = "sealed"  -> Returns(c, "sealed")
       [] state = "aborted" -> Returns(c, "failed")
       [] state = "sealing" -> Returns(c, "wait")
  /\ UNCHANGED <<frameCount, state, failure, slots, allocated, delivered,
                 sealedFrameCount, queue, queueClosed, sinkCancelled,
                 captureCancelled, worker, sunk, writeVars>>

\* The worker closed mirror.done while Seal waited.
SealDone(c) ==
  /\ caller[c] = "wait"
  /\ worker.pc = "exited"
  /\ IF state # "sealing"
     THEN /\ Returns(c, IF state = "sealed" THEN "sealed" ELSE "failed")
          /\ UNCHANGED <<state, failure, slots, allocated, queueClosed>>
     ELSE IF failure # "nil"
     THEN /\ state' = "aborted"
          /\ Returns(c, "cancelSink")
          /\ UNCHANGED <<failure, slots, allocated, queueClosed>>
     ELSE IF delivered # sealedFrameCount \/ allocated # 0
     THEN /\ FailLocked("integrity", slots, allocated)
          /\ Returns(c, "cancel")
     ELSE /\ state' = "sealed"
          /\ Returns(c, "cancelSink")
          /\ UNCHANGED <<failure, slots, allocated, queueClosed>>
  /\ UNCHANGED <<frameCount, delivered, sealedFrameCount, queue,
                 sinkCancelled, captureCancelled, worker, sunk, writeVars>>

\* The deadline of Seal's context passes; it may win against a closed done.
SealDeadline(c) ==
  /\ caller[c] = "wait"
  /\ IF state \in {"sealed", "aborted"}
     THEN /\ Returns(c, IF state = "sealed" THEN "sealed" ELSE "failed")
          /\ UNCHANGED <<state, failure, slots, allocated, queueClosed>>
     ELSE /\ FailLocked("deadline", slots, allocated)
          /\ Returns(c, "cancel")
  /\ UNCHANGED <<frameCount, delivered, sealedFrameCount, queue,
                 sinkCancelled, captureCancelled, worker, sunk, writeVars>>

Abort(c) ==
  /\ caller[c] \in {"idle", "failed"}
  /\ state # "sealed"
  /\ AbortLocked(slots, allocated)
  /\ Returns(c, "cancel")
  /\ UNCHANGED <<frameCount, failure, delivered, sealedFrameCount, queue,
                 sinkCancelled, captureCancelled, worker, sunk,
                 writeVars>>

\* Mutant: a caller that aborts cancels the capture but not the sink.
CallerCancels_keepsSink(c) ==
  /\ caller[c] \in {"cancel", "cancelSink"}
  /\ captureCancelled' = (captureCancelled \/ caller[c] = "cancel")
  /\ Returns(c, IF state = "sealed" THEN "sealed" ELSE "failed")
  /\ UNCHANGED <<frameCount, state, failure, slots, allocated, delivered,
                 sealedFrameCount, queue, queueClosed, sinkCancelled, worker, sunk, writeVars>>

\* After the unlock: sinkCancel, and cancelCapture unless the worker is done.
CallerCancels(c) ==
  /\ caller[c] \in {"cancel", "cancelSink"}
  /\ sinkCancelled' = TRUE
  /\ captureCancelled' = (captureCancelled \/ caller[c] = "cancel")
  /\ Returns(c, IF state = "sealed" THEN "sealed" ELSE "failed")
  /\ UNCHANGED <<frameCount, state, failure, slots, allocated, delivered,
                 sealedFrameCount, queue, queueClosed, worker,
                 sunk, writeVars>>

-----------------------------------------------------------------------------
WorkerStep ==
  \/ WorkerReceive
  \/ WorkerCheck
  \/ WorkerDiscards
  \/ WorkerCancels
  \/ WorkerExits

SinkReturns == SinkAccepts \/ SinkFails

WriteAt ==
  \E offset \in 0 .. ExpectedBytes, length \in 0 .. MaxWrite :
    \/ WritePlanFails(offset, length)
    \/ \E tag \in PayloadTags(offset, length) :
         \/ WriteAccepted(offset, length, tag)
         \/ \E written \in 0 .. MaxWrite :
              WriteOutputFails(offset, length, tag, written)

\* Mutant: Seal waits for the worker without a deadline.
SealWaits_noDeadline(c) == SealDone(c)

SealWaits(c) == SealDone(c) \/ SealDeadline(c)

Next ==
  \/ WriteRefused
  \/ WriteAt
  \/ WriterCancels
  \/ WorkerStep
  \/ SinkReturns
  \/ \E c \in Callers : \/ SealOpen(c)
                         \/ SealAgain(c)
                         \/ SealWaits(c)
                         \/ Abort(c)
                         \/ CallerCancels(c)

\* The Go scheduler runs every runnable goroutine; Seal requires a deadline;
\* a FrameSink must return promptly once its context is cancelled, and may
\* block for ever before that.
Fairness ==
  /\ WF_vars(WriterCancels)
  /\ WF_vars(WorkerStep)
  /\ WF_vars(sinkCancelled /\ SinkReturns)
  /\ \A c \in Callers : WF_vars(SealWaits(c)) /\ WF_vars(CallerCancels(c))

Spec == Init /\ [][Next]_vars
FairSpec == Spec /\ Fairness

-----------------------------------------------------------------------------
(* Properties.                                                             *)

\* The fields of Mirror keep the types the code declares.
TypeOK ==
  /\ frameCount \in {0, FrameLimit}
  /\ state \in {"open", "sealing", "sealed", "aborted"}
  /\ failure \in Failures \cup {"nil"}
  /\ DOMAIN slots \subseteq Frames
  /\ \A i \in DOMAIN slots : slots[i] \in Spools
  /\ allocated \in Nat
  /\ nextEmit \in 0 .. FrameLimit
  /\ delivered \in Nat
  /\ sealedFrameCount \in Nat
  /\ queue \in Seq(QueuedFrames)
  /\ queueClosed \in BOOLEAN
  /\ sinkCancelled \in BOOLEAN
  /\ captureCancelled \in BOOLEAN
  /\ writer \in {"ready", "cancel", "stopped"}
  /\ worker \in [pc : {"range", "check", "sink", "settle", "cancel", "exited"},
                  frame : QueuedFrames, discard : BOOLEAN]
  /\ caller \in [Callers -> {"idle", "wait", "cancel", "cancelSink",
                             "sealed", "failed"}]
  /\ output \in [0 .. (ExpectedBytes - 1) -> Bytes \cup {None}]
  /\ sunk \in Seq(QueuedFrames)

HeldByWorker == IF worker.pc \in {"check", "sink", "settle"} THEN 1 ELSE 0

\* mirror.allocated counts exactly the frame buffers in the spool, in the
\* channel and in the worker's hands, and never exceeds the buffer the
\* configuration allows, whatever the order of writes, aborts and deliveries.
\* With it the channel can never be full when a frame completes: the
\* "encoder queue is full" branch of enqueueCompleteLocked is unreachable.
SlotAccounting ==
  /\ allocated = Cardinality(DOMAIN slots) + Len(queue) + HeldByWorker
  /\ allocated <= MaxSlots

\* The sink sees frames 0, 1, 2, ... without gap or repetition, each complete
\* and equal to the bytes the authoritative output holds at its offset.
DeliveryMatchesOutput ==
  \A k \in 1 .. Len(sunk) :
    /\ sunk[k].index = k - 1
    /\ \A u \in FrameOffsets :
         /\ sunk[k].payload[u] # None
         /\ sunk[k].payload[u] = output[(k - 1) * FrameBytes + u]

\* A sealed mirror delivered the whole capture: the sink holds every frame,
\* the authoritative output holds no byte outside them, the mirror never asked
\* for the capture to be cancelled, and only then does Seal return nil.
SealedIsExact ==
  /\ state = "sealed" =>
       /\ Len(sunk) = sealedFrameCount
       /\ sealedFrameCount = delivered
       /\ sealedFrameCount > 0
       /\ frameCount # 0 => sealedFrameCount = frameCount
       /\ \A b \in DOMAIN output :
            output[b] # None <=> b < sealedFrameCount * FrameBytes
       /\ ~ captureCancelled
  /\ \A c \in Callers : caller[c] = "sealed" => state = "sealed"

\* No byte of the authoritative output is ever written twice: a duplicate or
\* overlapping packet is refused before it reaches the file.
OutputNeverRewritten ==
  [][\A b \in DOMAIN output : output[b] # None => output'[b] = output[b]]_output

\* What the contract sees of a mirror: whether it is live, and whether the sink
\* has been given a frame and not answered.
Status == IF state \in {"open", "sealing"} THEN "live" ELSE state
Offered == worker.pc = "sink"

Contract ==
  INSTANCE MirrorContract
    WITH promised <- frameCount, file <- output, copy <- sunk,
         offered <- Offered, status <- Status

\* With its threads, spool and channel the mirror keeps the contract of
\* MirrorContract: whatever overtakes the worker between its check and the
\* sink's answer, no frame is offered after an abort or a seal, at most one is
\* with the sink, the sink's copy grows by the next frame of the file only, no
\* byte is written after the end, and sealed and aborted are final.
ImplementsContract == Contract!CSpec

\* Once the mirror is aborted, by a failure or by a caller, the worker drains
\* its queue and exits and the capture context is cancelled, even when the
\* sink was blocked at that moment.
AbortConverges ==
  state = "aborted" ~> (worker.pc = "exited" /\ captureCancelled)

\* A Seal that waits for the worker returns, however long the sink blocks.
SealReturns == \A c \in Callers : caller[c] = "wait" ~> caller[c] \in {"sealed", "failed"}
=============================================================================
