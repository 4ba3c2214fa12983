# Verification of mmwcli

mmwcli configures a TI mmWave radar and a DCA1000 capture board, records the
board's UDP data stream into a file, optionally mirrors it as a framed stream on
stdout, and publishes the result as a session directory. This directory holds
TLA+ models of its core, the TLC runs that check them on small instances, and
TLAPS proofs for all instances. `PROJECT.json` lists the runs, the source lines
each definition models, the mutants that show that each property can fail, the
hazards the properties are aimed at, and the findings. Paths below are relative
to `src/internal/`.

## 1. The system

| Component | State | Operations | Talks to | What is hard |
|---|---|---|---|---|
| Capture session, `session/session.go` | lifecycle booleans of `Run`, `resultErr` | `Run`, deferred `cleanup`, `validateResult` | everything below | any of ~20 calls fails or is cancelled; cleanup must still converge; validation reads another thread's statistics |
| Data receiver, `dca/receiver.go` | received ranges, base offset, statistics, deadlines | `Start`, receive loop, `WaitForFirst`, `Wait`, `Close` | UDP socket; writes through the mirror or to the file | loss, duplication, reordering, idle time-outs, close during a write |
| Control client, `dca/client.go` | pending command, queue of asynchronous statuses, poison cause | `Execute`, `StartRecordConvergent`, `DrainAsyncStatuses`, `Close` | UDP socket | answers without identifiers, late answers, queue overflow |
| Mirror, `capturestream/mirror.go`, `coverage.go` | frame spools, slot count, emission and delivery counters, state | `WriteAt`, `runSink`, `Seal`, `Abort` | file, frame sink, capture context | three kinds of threads, a sink that blocks, bounded buffers |
| Stream encoder, `capturestream/encoder.go`, `stdout_encoder.go` | next frame, ready/poisoned/terminal, ownership of stdout | `WriteFrame`, `Commit`, `Abort`, `Close` | pipe, mirror, application | a blocked write holds the mutex the terminal record needs |
| Output transactions, `capturefile/*.go`, `capturemanifest/manifest.go` | names on disk, open handle, committed | `Create*`, `WriteAt`, `CommitContext`, `publishNoReplace`, `Close` | file system | kill or failure between two system calls, two processes with one destination |
| Radar CLI client, `radar/client.go` | desynchronised flag, platform gate | `VerifyPlatform`, `Stop`, `Apply`, `Start`, `SendCommand`, `Close` | serial port; session, radar commands, REPL | time-outs and late responses without identifiers, half-written lines |
| Sensor producer client, `sensorproducer/*.go` | state of the protocol, the outstanding request, a bounded queue of records, the child process | start, arm, start, stop, cancel, record queue, kill and reap | two pipes to the child | cancellation closes pipes in the middle of a record; a full queue; a child that hangs |
| Fixed-frame producer, `fixedframeproducer/*.go` | position in the protocol, frame counter, camera child | READY, ARM, START, STOP, CANCEL | pipes to the client and to the camera | frames complete while START is on its way |
| Coordinator and recorders, `multisensorcapture/*.go` | phase, failure of each source, one recorder thread per source | start, arm, start, finish, abort | producers, stream, session | one of several sources fails, hangs or is lost in the middle of an operation on all |
| Multi-sensor stream, `multisensorstream/*.go`, `app/multisensor_capture.go`, `multisensor/*.go` | aggregate encoder, owner of stdout, start gate of the radar, staged directory | header, radar frames, items, END, COMMIT, ABORT | pipe, mirror, recorders, session files | three kinds of threads on one stream; the cancellation of any closes it for all |
| Debug transport, `debugcapture/*.go`, `app/debug_capture.go` | pins, Enhanced COM rate, firmware progress, mmWaveLink queue, controller state | reset, negotiate, download, bootstrap, configure, start, stop, close | FTDI pins, serial, SPI | writes with an unknown result, events that overtake responses, a frame that ends by itself |
| Configuration, drivers, command line | none that is shared | parsing, system calls, wiring | | |

How they interact in one capture: `session.Run` stops the radar, stops,
configures and starts the DCA1000 through the control client, starts the
receiver on its own goroutine, starts the radar, waits for the end of the
capture, cleans up in a deferred function, validates the receiver's statistics,
seals the mirror and commits the output. The receiver's goroutine calls
`Mirror.WriteAt`, which writes the file and hands complete frames to the
mirror's worker goroutine; the worker calls `StdoutEncoder.WriteFrame`. A
failure anywhere cancels the capture context; the mirror cancels the sink's
context as well. After `Run` the application writes COMMIT or ABORT.

In a multi-sensor capture the coordinator is a participant of `Run`: it is armed
before the radar starts, started at the radar's first packet, and finished in the
clean-up. Each source's recorder drains its producer into a payload file and
offers each item to the aggregate stream, on which the mirror's worker writes
radar frames and the main thread everything else. In a debug-cli capture the
radar of `Run` is `debugcapture.Controller` instead of the CLI client.

What makes each component correct is stated as the properties in section 3.

## 2. Modules

| Module | Models | State and actions |
|---|---|---|
| `Coverage` | `coverage.go`: merging of byte ranges within a frame | pure operators; used by `Mirror` |
| `MirrorContract` | the contract of `Mirror` | abstract: the file, the copy the consumer has taken, whether a frame is with the consumer, and whether the capture is live, sealed or aborted |
| `Mirror` | `mirror.go`, `coverage.go` | One variable per field of `Mirror`. `WriteAt` is one action per outcome under the lock (refused, plan fails, output fails, accepted); the worker's loop is split where it releases the lock; `Seal` where it waits; cancellation callbacks, which run after the unlock, are steps of their own. `output` and `sunk` record what the file and the sink got |
| `Receiver` | `receiver.go` | One iteration of the receive loop is one action per exit or accepted packet; the network is a bag of packets that may be lost, delayed, repeated. `Close` is split at the join. The count of missing bytes is the sweep of `finalizeStats` over the ranges (`Swept`, `Sweep`) |
| `CaptureSession` | `session.go`, extends `Receiver` | `pc` is the position in `Run` and `cleanup`; every call is an action with its success and its failures. The receiver runs concurrently as in its own module; radar, board, participant and mirror are reduced to what `Run` sees |
| `DcaClient` | `client.go`, in the order `Run` uses it | One datagram read is one action; requests reach the device in order or are lost; answers are delivered in any order, late or never |
| `StdoutEncoder` | `encoder.go`, `stdout_encoder.go`, `app/capture_stream.go` | Two threads, the mutex, the AfterFunc hooks as steps of their own; a record reaches the pipe whole, torn or not at all |
| `RadarClient` | `radar/client.go`, the calls of `app/radar_commands.go`, `app/repl.go` and `session.go` | `job` is the caller and `todo` its remaining calls; `sendCommandLocked` is split at the purge, the write and every line read. The line from the device is one sequence; whatever drops what has arrived drops any prefix of it and may cut a line |
| `SessionDirectory` | `capturefile`, finaliser of `capturemanifest` | One action per system call, for any number of processes with the same destination; paths are looked up when they are used |
| `Participant` | the contract of `Coordinator` | abstract: phase, and for each source its drain, whether it was dropped, how much it recorded |
| `SensorProducer` | `sensorproducer/*.go`, `fixedframeproducer/*.go` | `client[s]` and `child[s]` with the two pipes between them; one record read, checked and queued is one action, so is one record written. The camera completes frames at any time; the environment may crash, hang or misbehave |
| `MultiSensorCapture` | `multisensorcapture/*.go`, extends `SensorProducer` | `coord` is where the coordinator is with which source in which operation; abort and `Process.Cancel` are split at every wait; each recorder is a thread |
| `MultiSensorStream` | `multisensorstream/*.go`, `app/multisensor_capture.go`, `multisensor/directory.go`, extends `Participant` | `call[c]` is how far the operation of thread `c` is (waiting for the mutex, writing); the AfterFunc that closes stdout is a step of its own. The decoder reads what was written, record by record |
| `DebugController` | `debugcapture/*.go`, `app/debug_capture.go` | `op` is the operation and `todo` the rest of its script; a step succeeds, fails before the write or ends with an unknown result. The target executes, refuses, ignores, reports |
| `MirrorProofs`, `CaptureSessionProofs`, `DeviceClientProofs`, `StdoutEncoderProofs`, `SessionDirectoryProofs`, `MultiSensorCaptureProofs`, `MultiSensorStreamProofs`, `DebugControllerProofs` | | theorems about the modules each extends (section 4) |

Composition: `CaptureSession` extends `Receiver` and runs both together.
`Mirror` and `StdoutEncoder` meet at the `FrameSink` contract: `Mirror` assumes
under fairness that a sink returns once its context is cancelled, and
`StdoutEncoder`'s property `CallsReturn` is that contract. `CaptureSession`
publishes in one step; `SessionDirectory` is that step in detail.
`Mirror` implements `MirrorContract` (`Contract == INSTANCE MirrorContract WITH ...`):
the file is `output`, the copy is `sunk`, a frame is with the consumer while the
worker is inside `sink.WriteFrame`, and an open or sealing mirror is live.
`MultiSensorCapture` runs producers, recorders and coordinator together and
implements `Participant` (`Abstract == INSTANCE Participant WITH ...`): a drain is
"on" while the recorder runs, and a source is dropped once its slot has failed, its
abort was intended or its recorder failed. `MultiSensorStream` composes the stream
with `Participant` in the coordinator's place, and `CaptureSession` sees the same
three calls (arm, start, finish) with their outcomes. `DebugController` stands in
the place of the radar of `CaptureSession`, with the calls in the order `Run` makes
them.

Data is abstracted to what properties tell apart. A payload is a tag, a
digest is the version of the bytes it was computed from, time is the freedom of
a deadline to pass at any moment it is armed. Cadence and minimum time-out
arithmetic in `session.go` is one Boolean option. An item of a camera is the
number of its frame; a record of the aggregate stream is its kind, source, index and
outcome. A run of register writes without a branch is one step of `DebugController`.
The poison of the mmWaveLink client is not a variable: whatever sets it also puts
the controller into its unknown state, which refuses every later call. A truncated
Enhanced COM reply is a read that failed.

## 3. Runs

Each module's run uses the configuration file of the same name unless noted.

**mirror** (FrameBytes 3, three frames, two slots, one range per frame, writes of
up to 4 units, two payload tags, two callers). Writes cross frame boundaries,
overlap and arrive out of order, the window fills, the sink fails or blocks.
`SlotAccounting`: the slot count equals the buffers that exist and respects the
limit. `DeliveryMatchesOutput`: the sink sees frames in order, complete and equal
to the file. `SealedIsExact`: a successful `Seal` means the whole capture and
nothing else. `OutputNeverRewritten`: no byte of the file is written twice.
`ImplementsContract`: the refinement; a frame is offered to the sink only before the
end, only when it is the next one and whole, and one at a time, although the worker
decides under the lock and calls the sink outside it.
`AbortConverges`, `SealReturns`: liveness. A third frame is needed for a write
that spans an emitted, a current and a future frame; the second tag makes a
duplicate distinguishable from the original.

**session** (three packets of two bytes, first offset 3, a limit of 7 bytes that no
packet boundary meets, two tracked ranges, one duplicate, one malformed packet,
finite plan of 4 bytes or open-ended, all options). The receiver and `Run` together.
Of the receiver, `CoverageExact`: ranges are what the file holds;
`PlacementExact`: every byte comes from its own packet; `CleanEndIsAccounted`: after
a clean end, zero missing bytes means no hole. Of `Run`: `PublishedIsWhole`,
`PublishedAfterConvergence`, `EveryStartIsStopped`, `ValidatedCaptureIsFrozen` (no
write after the validation). `RunReturns`: a cancelled, stopped or finite capture
returns, or stays for ever in the one call of `Run` without a deadline, RADAR_START on
an aggregate stream that nobody reads (see section 6); a cancelled capture always
returns. Three packets suffice for a lost one
between two received ones and for one beyond the plan. 0.8 million states.

**session_gap** (`CaptureSessionGap.cfg`, expected violation of `NoGapPublished`):
see section 6.

**dca_client** (queue of two statuses instead of 32, three statuses).
`ConfirmedStopIsReal`: a confirmed StopRecord is a stopped device with no
StartRecord left in the network. `AnswersAreFresh`: no late answer is taken for
the pending command's. `FatalStatusIsReported`, `Returns`. Three statuses overflow the queue by one.

**dca_poisoned** (`DcaClientPoisoned.cfg`, expected violation of
`UnconfirmedStartIsStopped`): see section 6.

**stdout_encoder** (three frames). `StreamWellFormed`: the pipe holds a prefix of
one stream and only its last record may be torn. `CommitIsTruthful`: COMMIT is on
the wire only for a published capture with all frames and a matching digest, and
`Commit` reports success exactly when the whole record is there and stdout was closed
without an error. The first close of stdout, by a hook or by the call itself, may fail,
and `terminal` returns its error even behind a whole COMMIT. `CallsReturn`: a blocked
pipe blocks neither a cancelled `WriteFrame` nor a terminal record.

**session_directory** (three processes, each a file, a session or a transaction,
two writes). `PublishedIsComplete`, `CommittedStays` (never overwritten, never
removed), `StageIsOwn`, `CaptureIsKept` (recorded bytes keep a name through every
failure and rollback), `FailedIsUnpublished`. Three processes are one that
publishes, one that checked before it, and one more that meets what both leave.

**radar_client** (eight callers, two configuration commands, two REPL commands, up
to two commands of an earlier process unanswered, possibly a half-written line).
`AnswersAreOwn`: a state command is never answered by a stale line, and the
platform gate never opens on one. `ConfirmationIsReal`: what `Stop`, `Start` and
`Apply` report has happened at the device. `OperationReturns`. Two left-over commands are a start and the stop that cleaned up
after it; a third brings no new order of lines.

**radar_echo** (`RadarClientEcho.cfg`, an unanswered `version` left over, expected
violation of `EchoRequired`): see section 6.

**multisensor_capture** (two sources, the first required, the second with a camera
that completes two frames without a fault or one with; queue of one record, two
items per source, one fault). `CompleteIsExact`: a source reported complete holds
consecutive frames, none from
before START, up to the count of END. `NothingLeftBehind`: after the coordinator has
returned no producer runs, and after a success everything was joined and a failed
source has no directory. `OperationReturns`: every call returns although a producer
hangs or a sink blocks. `ImplementsParticipant`: the refinement. One fault is a crash,
a hang or a misplaced record of a producer, a failing start, recorder or removal, a
deadline that passes on a source that is merely slow, or the cancellation of the
capture; a sink may block in addition;
with a required and an optional source it meets both ways
of handling it, before and after the other source had its turn. SESSION, a frame
and END behind a blocked sink overflow a queue of one. 0.6 million states.

**multisensor_stream** (two sources, the first required, two items each, two
radar frames). `ReaderNeverRejects`: whatever was written decodes, and nothing follows a
torn or a terminal record. `TerminalIsTruthful`: COMMIT means that the directory is
published, every required source is complete and the reader has every item of the
complete ones; ABORT means that nothing is published. `FinishReturns`: the program
ends although nobody reads. Two frames and two items of each
source are the fewest that can interleave and get out of step. 1.1 million states.

**debug_controller** (two blocks per image, a queue of one event, three reports). Both
boot policies, with and without reset, finite and endless frames, either part
family. `UnmarkedEndIsSafe`: a command that ends without `TargetStateError` or
`CleanupError` leaves a target that needs no reset. `OnlyKnownPartIsWritten`: the
part gate comes before the first register write. `NothingAfterUnknown`: no command
follows a write whose result is unknown. Two blocks leave half an image when the
second fails; which rate a target boots with after a reset is left open; one queued
event and a second report overflow the queue, a third may still overtake a response.
Deadlock is checked: the code ends in `ended` and nowhere else.
1.6 million states.

Deadlock checking is off where the system really stops: after the last call of a
capture nothing has to happen.

### Fairness

Only steps the Go scheduler or an armed deadline guarantees are fair.
`Mirror`: the worker, the callbacks, a waiting `Seal` (its context must have a
deadline), and the sink only after its context is cancelled. `Receiver`: the loop
notices a cancellation or a closed socket at its next poll. `CaptureSession`:
every call of `Run` but one has a time-out, so `Run` advances; packets are never
guaranteed. The exception is `RadarFrameStartObserved`, which writes RADAR_START with
the capture's context: with an aggregate stream it is fair only once the capture is
cancelled and the hook has closed stdout (`Unblocked`). `DcaClient`: every call has a deadline; the device and the network owe
nothing. `StdoutEncoder`: threads and hooks run, a write to a closed descriptor
returns, the terminal time-out passes; the reader of the pipe owes nothing.
`RadarClient`: the caller's goroutine runs, and the deadline that every iteration
of the read loop tests passes; the device owes nothing. `MultiSensorCapture`: the
goroutines of client, recorder and coordinator run, a deadline that is waited for
passes, and a conforming producer answers; cameras, faults and blocked sinks owe
nothing. No behaviour repeats a step for ever, so weak fairness of all these steps
together suffices. `MultiSensorStream`: the main thread, each thread's own steps (a
write to a closed descriptor returns) and the deadline of the terminal context; the
reader and the sources owe nothing. `DebugController` states no liveness: each of
its steps is bounded by a time-out of the driver, which is outside the model.

## 4. Proofs

Each theorem holds for every value of the constants that the ASSUME of its module
admits: any number of packets, frames, callers, processes, sources, statuses, any
size and limit. The inductive invariants were checked by TLC on the instance of
the module's run before they were proved.

Every proof has the same outline: a lemma for the initial states, one lemma per
action or group of actions (and under it a step per conjunct the action can
disturb), `Inv /\ [Next]_vars => Inv'`, and theorems that read a property off the
invariant. Facts about sequences, ranges and finite sets that several steps need
are lemmas of their own. Where an argument is an induction over naturals (what the
sweep over the ranges has counted after n of them, what a prefix of a merged slice
covers) it goes through the least member of the set of counterexamples (`Least`,
`SetInduction`), since the induction rule of the library cannot be instantiated.

**`MirrorProofs`** (`ConfigAssumption`: what `NewMirror` checks).

- `TypeCorrect`: `Spec => []TypeOK`; `SlotsAccounted`: `Spec => []SlotAccounting`;
- `QueueNeverOverflows`: a write that `planWriteLocked` admits never meets a full
  channel, so the "encoder queue is full" branch is dead code;
- `DeliveryExact`: `Spec => []DeliveryMatchesOutput`;
- `SealExact`: `Spec => []SealedIsExact`;
- `NeverRewritten`: `Spec => OutputNeverRewritten`;
- `MirrorImplementsContract`: `Spec => ImplementsContract`, the refinement.

The first three rest on `Inv == TypeOK /\ SlotAccounting`. Types alone are not
inductive: that `allocated` stays a natural number when an abort or a delivery
gives slots back needs the count of what is held. The work is in
`WriteAcceptedInv`, where a write allocates spools for missing frames, completes
some of them and moves them to the channel, and in `AbortLockedAccounting`.

The others rest on `ContentInv`, which adds what is where: spool and file agree byte
by byte and the coverage of a spool is what the file holds of its frame
(`Reflected`), a frame in the channel, in the worker's hands or with the sink is
complete and equal to the file (`InTransit`), these three hold the frames in order
(`InOrder`), and the states of mirror, callers and worker fit (`Concluded`,
`CancelsAborted`). They need each other: a frame in transit stays equal to the file
only because no byte is written twice, no byte is written twice because
`planWriteLocked` finds the overlap in the spool, and it finds it because spool and
file agree. `AddRangeCovers` shows that merging ranges covers exactly both,
`WriteFindsNone` that an admitted write meets unwritten bytes only, `CompleteFills`
that a frame counted as complete has all its bytes.

The refinement takes `ContentInv` and `SealExact` and shows, one lemma per kind of
thread (`WriteIsContract`, `WorkerIsContract`, `CallerIsContract`), that a critical
section is one step of `MirrorContract` or a stutter. `HeldFrame` carries the worker's
part: from its check to the sink's answer, whatever the other threads do meanwhile, the
frame in its hands is the next one and equal to the file; and it never finds the mirror
sealed, because `Seal` waits for its exit (`StatusFacts`).

**`CaptureSessionProofs`** (`ReceiverAssumption`, `FrameBytesAssumption`: a finite plan
is a whole number of frames, which `Run` checks first), about `Receiver` and `Run`
running together.

- `Coverage`, `Placement`, `CleanEnd`: the receiver's `CoverageExact`,
  `PlacementExact` and `CleanEndIsAccounted`;
- `PublishedWhole`, `Convergence`, `StartsStopped`: the session's `PublishedIsWhole`,
  `PublishedAfterConvergence`, `EveryStartIsStopped`;
- `ValidatedFrozen`: `SessionSpec => ValidatedCaptureIsFrozen`, an action property.

`ReceiverInv` says that the slice of ranges is sorted with gaps and covers the bytes
of the file (`Bookkept`), every byte is where its packet belongs (`Placed`), and what
the loop reports when it has ended (`Settled`). Its proof shows `AddRange` correct (the
merged slice is again sorted with gaps and covers exactly the old bytes and the
new), and that the sweep of `finalizeStats` counts exactly the holes (`MissingExact`). `SessionInv` adds, for each
position of `Run` and `cleanup`, what an undisturbed run has done by then
(`Progress`), which commands are on the wire (`Commanded`), that the receiver is
joined before its result is read (`ReceiverHeld`), that the devices are stopped
(`Converged`) and what of the result is established (`Concluded`).

**`DeviceClientProofs`**, about the clients of the two devices. Neither protocol has
identifiers, so that an answer is not stale needs to know what is in flight at every
point of an exchange.

`DcaClient` (`DcaAssumption`). `ConfirmedStop`, `FreshAnswers`, `FatalReported`:
`ConfirmedStopIsReal`, `AnswersAreFresh`, `FatalStatusIsReported`. Between two calls
nothing is in the network, in a call its own request or the answer to it, and only
`converge` follows an unanswered request, which was no StopRecord (`InFlight`).
`StopHolds` is about the order of requests still on their way: no StartRecord behind a
StopRecord.

`RadarClient` (`RadarAssumption`). `OwnAnswers`, `RealConfirmation`: `AnswersAreOwn`,
`ConfirmationIsReal`, for every number of configuration and REPL commands and any
leftovers of an earlier process but a `version`. That condition is the hypothesis of
both theorems and no convenience: with a `version` left over they are false (run
`radar_echo`, section 6). `RadarInv` follows the serial line through the three
situations a command can meet (`BetweenExchanges`, `InExchange`):

- before the gate the line may hold anything an earlier process asked for, but no
  request for a platform and no line that names one, so a gate that reads a platform
  has reached its own response;
- behind the gate every exchange of a synchronised client begins on an empty line,
  because the terminal it took before was the last line of the last response (`Order`),
  and so all it reads is its own;
- a start that times out leaves its request or response on the line, and the only
  command that may follow is the stop of the cleanup (`Scheduled`, from the scripts of
  the callers). Nothing left over carries that command, so the echo the desynchronised
  client waits for can only be its own, and what follows the echo is its own too.

`Effect` and `Counted` say that an answer on the line has already happened to the
device: the frames are stopped, this start was obeyed, as many configuration commands
were obeyed as the client has counted. They hold until the answer is read because
nothing is left in front of the device by then. TLC checked `RadarInv` for the run's
instance, and with configuration commands and both starts left over, before it was
proved.

**`StdoutEncoderProofs`** (at least one frame). `StreamIsWellFormed`, `CommitTruthful`:
`StreamWellFormed`, `CommitIsTruthful`. The invariant ties the state of the encoder to
what is in the pipe: who writes has the mutex (`Exclusion`), only a ready encoder has
a record under way and it is the next one (`NextRecord`), a ready encoder has written
whole records only (`Shape`), and what `Commit` checked is still true when its record
is written (`Promise`).

**`SessionDirectoryProofs`** (`NoProcess` is not a process). `NeverOverwritten`,
`StageExclusive`, `CapturesKept`, `PublicationComplete`, `FailureUnpublished`:
`CommittedStays`, `StageIsOwn`, `CaptureIsKept`, `PublishedIsComplete`,
`FailedIsUnpublished`. That nobody removes a committed output needs to know that a
process in the rollback of a file still owns both names, and that a published stage
is complete needs to know, at every step of the finaliser, which files are already
there and from which bytes the manifest was made. `DiskInv` adds both, for each
process at each position of its commit: `Position` (which outputs reach it),
`Ownership` (who holds the two names) and `Progress` (what the stage contains). A step
of one process is split into what it does to that process and the lemma
`UntouchedInv` for all others.

**`MultiSensorCaptureProofs`** (`ProducerAssumption`; `RequiredAssumption` is not needed),
about the coordinator with all its recorders, clients, producers and cameras.

- `NothingIsLeftBehind`: `MSpec => []NothingLeftBehind`;
- `CompleteCapturesAreExact`: `MSpec => []CompleteIsExact`;
- `CoordinatorImplementsParticipant`: `MSpec => ImplementsParticipant`, the refinement.

The invariant has two parts that speak of one source each. `SourcesInv` follows the
frames from the camera to the payload file: nobody has heard of START before the
coordinator has passed Arm (`Timely`), a client that may still send START has a
producer that knows nothing of it (`Fresh`), what the producer has streamed is
consecutive, after the boundary, and reaches up to the camera's counter (`Filmed`),
every END on its way announces such frames and what a recorder has at the end is what
its END announced (`Announced`), and a recorder that ended well has seen the end of the
transport (`Drawn`). `CoordinatorInv` says, for each position of the coordinator, how it
has left each source: not reached by Start (`Ahead`), the one it is at (`Current`), left
(`Left`), visited in this operation (`Visited`), accounted for by Finish (`Accounted`).
Neither property is inductive: that a success leaves no recorder behind depends on what
a command that failed at some earlier source, or the abort after it, has waited for.

Steps of clients, producers, cameras and recorders change one source and nothing the
coordinator counts on (`Harmless`, `AloneKeeps`), so they never need the position of the
coordinator. Its own steps change the current source and stay there (`StayKeeps`) or
pass to the next one that concerns the operation (`Passing`, `Arrived`, `LoopMoves`).
The refinement uses the invariant at both ends of a step (`StepContract`): `Finish`
completes only with all sources accounted for, and a recorder that sees an item is past
Arm.

**`MultiSensorStreamProofs`** (`StreamAssumption`, `ParticipantAssumption`).
`ReaderAccepts`, `TerminalTruthful`: `ReaderNeverRejects`, `TerminalIsTruthful`. The
invariant says that at most one thread emits and what its record is made of does not
change meanwhile (`Exclusion`), the encoder has accepted that record (`Emitting`), both
ends of the stream agree while the encoder works (`Agreement`), the counts of
recorders, mirror and encoder match (`Counted`), a finished participant stays as it
was found (`Finished`, `Endings`), and what the main thread has reached (`Stages`).

**`DebugControllerProofs`** (`DebugAssumption`). `KnownPartOnly`, `UnmarkedEndSafe`:
`OnlyKnownPartIsWritten`, `UnmarkedEndIsSafe`; `UnknownIsLast`: `NothingAfterUnknown`, an
action property. The invariant says which steps may still be in the script of each
operation and that every write among them is behind a read of the part (`Gated`),
where the target is meanwhile (`Located`), and how the frame the target runs relates
to the command under way, the responses and events in the wire and the queue, and the
controller's flags (`Framed`): a frame-end event may overtake the response to the
start, which is why the messages in flight belong to the invariant.

Only model-checked:

- all liveness properties (`AbortConverges`, `SealReturns`, `RunReturns`, `Returns`,
  `CallsReturn`, `OperationReturns`, `FinishReturns`): fairness and ENABLED are outside
  what the prover handles. Every safety property of a passing run is proved.

## 5. Not modelled

- Byte layouts and parsing (DCA1000 requests, stream records, JSON, CFG, RPRC):
  pure functions without state.
- `SequenceGaps`, `OutOfOrder` and cadence statistics of the receiver: reported,
  read by no decision that the models contain.
- Power loss: the repository disclaims durability (`docs/architecture.md:177`).
- A user or another program that changes OUT.part while a capture runs:
  `session_directory.go:112-115` assumes a cooperative parent directory.
- Windows publication, which is one atomic move.
- Duplicated control datagrams, which the protocol cannot tell apart.
- Loss of the very first packets of a recording: the base offset is that of the
  first packet that arrives, and nothing in the code says what it should be.
- Radar configuration (`radar/config.go`), the debug capture's configuration tables
  and encoders (`debugcapture/mmwavelink_config.go` apart from the order of its
  messages), `multisensor/model.go` and `plan.go`: parsing, validation and encoding
  of values, with no state and no concurrency. The plan they yield is a constant of
  the models.
- Drivers, firmware tools and command line: system calls, wiring and text. Where
  `app` decides an order of calls (radar commands, REPL, the end of a stream,
  multi-sensor and debug captures), that order is modelled.
- The time a kill takes: `sensorproducer/process.go:145-150` kills as best it can, the
  model lets the process end at once. The wait for its end is modelled.
- `DebugController` counts the commands of ROM monitor and mmWaveLink and the pins of
  the reset as `sent`, not the CNYS word that precedes the read of a message nor the
  reset of the bit mode on close.
- A gracefully stopped open-ended multi-sensor capture is a capture with the number
  of frames it has reached, another value of the constant of `MultiSensorStream`. That
  module leaves out the error of the last close of stdout: it only changes the error
  `finish` returns, about which no property there speaks.
- The test of the context at the start of `Seal` (`mirror.go:272`): it returns before
  anything has changed.
- Sequence numbers of the producer protocol and the JPEG scanner: pipes keep order
  and one request is outstanding at a time; a record out of place is a fault.

## 6. Findings

- **A stopped open-ended capture with a gap can be published.** `receive` leaves
  through its output-limit, write and read errors without `finalizeStats`, so
  `MissingBytes` stays 0 (`dca/receiver.go:442, 476, 493`). If the drain of the
  clean-up has timed out before that, nobody reads the loop's error and
  `validateResult` accepts the statistics. README.md:218 says gaps fail. Run
  `session_gap`; `PublishedIsWhole` holds for every other exit.
- **A status overflow during StartRecord suppresses the recovering StopRecord.**
  The comment of `StartRecordConvergent` promises exactly one StopRecord after an
  unconfirmed StartRecord; the overflow poisons the client first and the
  StopRecord is refused. Run `dca_poisoned`.
- **A text command is answered without its echo.** `docs/architecture.md:39` says
  text commands require their own echo; `sendCommandLocked` requires it only of a
  desynchronised client (`radar/client.go:173`), and a new client starts
  synchronised. If an earlier process gave up on `version`, its late response opens
  the gate of the next process, whose own `version` then confirms `sensorStop`.
  Run `radar_echo`. With any other command left over the gate reads a response
  without a Platform field and stays shut, which is what `AnswersAreOwn` shows.

Observed in passing, without a run of their own:

- The comment of `File.CommitContext` (`capturefile.go:72-76`) calls the publication
  one atomic operation. Outside Windows it is a link and a removal, and when the
  removal and its rollback both fail, OUT exists although the commit reported an
  error; `FailedIsUnpublished` is therefore stated for the directories, which are
  published by one `renameat2`.
- `docs/multisensor-sync.md:219-221` says that the failure of an optional source does
  not turn a published aggregate into an abort. The recorder of a dropped source may
  still offer an item with its cancelled context, and `StdoutAdapter.operation`
  (`stdout_adapter.go:87-123`) answers a cancelled context by closing stdout: the
  capture is published and its stream ends without COMMIT. `TerminalIsTruthful`
  holds, since no terminal record is written.
- `Client.command` (`sensorproducer/client.go:191-207`) selects between the answer and
  the end of the client. When STOP's acknowledgement and the end of the stream are both
  ready it may return `io.EOF` for a stop that succeeded; the model takes both branches.
- `WriteRadarStart` has no deadline of its own (`app/multisensor_capture.go:306`, called
  from `session.go:513`). While nobody reads the aggregate stream, `Run` stays in it: a
  long capture is freed when the mirror's window overflows and cancels it, a capture
  that fits the window only when the user cancels. A stop request does not free it.
  `RunReturns` names this wait.
- `abortStream` calls the mirror's `Abort`, which may close stdout before ABORT is
  written: a reader has to take an end of file without a terminal record for an abort.
- The comment of `Commit` (`stdout_encoder.go:145-147`) calls the whole record the
  linearization point even if cancellation races with the close. If the close itself
  fails, `Commit` reports its error although the reader has COMMIT.
- The comment of `TargetStateError` speaks of a failure after a target-facing state
  change. A failure of the baud negotiation after its register writes is a plain
  error; the target then waits in its monitor, which is why `UnmarkedEndIsSafe`
  allows it.

## 7. Limits and further work

All components with state of their own that the code under `src/` shares between
threads, processes or devices are modelled; what section 5 lists is left out for good.
Every invariant, every action property without fairness and both refinements
(`Mirror` of `MirrorContract`, `MultiSensorCapture` of `Participant`) that the passing
runs check are also proved for all constants the assumptions of section 4 admit; liveness is model-checked only. What
could follow:

1. `StdoutEncoder` and `Mirror` as one composition, with `WriteFrame` in the place of
   the sink; today they meet at the `FrameSink` contract.
2. A contract of the session directory that `CaptureSession` uses in its publishing
   step and `SessionDirectory` implements.
