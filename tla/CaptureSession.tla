--------------------------- MODULE CaptureSession ---------------------------
(***************************************************************************)
(* session.Run (internal/session/session.go): one capture from the stopped *)
(* hardware to the published file, composed with the data receiver.        *)
(*                                                                         *)
(* pc is the statement session.Run is about to execute.  Radar, DCA1000    *)
(* control, participant, mirror and output are used through their          *)
(* interfaces: a call may succeed or fail, a failed command may or may not *)
(* have reached the device, and the true state of the devices is in radar  *)
(* and dca.  The capture context may be cancelled and a graceful stop      *)
(* requested at any moment.                                                *)
(***************************************************************************)
EXTENDS Receiver

CONSTANT FrameBytes  \* plan.BytesPerFrame

\* Run refuses a finite plan that is not a whole number of frames.
ASSUME FrameBytesAssumption ==
  /\ FrameBytes \in Nat \ {0}
  /\ FiniteBytes % FrameBytes = 0

VARIABLES
  pc,             \* position in Run and in its deferred cleanup
  failed,         \* resultErr # nil
  flags,          \* the lifecycle booleans of Run
  options,        \* what the caller configured
  ctxCancelled,   \* the capture context is cancelled
  stopRequested,  \* options.StopRequested is closed
  radar,          \* "stopped" or "running": the device itself
  dca,            \* "stopped" or "recording": the device itself
  dcaPoisoned,    \* the DCA control client refuses further commands
  issued,         \* commands put on the wire
  participant,    \* what the participant was last told
  mirror,         \* the capture-stream mirror
  published       \* CommitContext succeeded

sessionVars == <<pc, failed, flags, options, ctxCancelled, stopRequested, radar,
                 dca, dcaPoisoned, issued, participant, mirror, published>>
vars == <<rvars, sessionVars>>

Infinite == expected = 0

SessionInit ==
  /\ ReceiverInit
  /\ pc = "verify"
  /\ failed = FALSE
  /\ flags = [dcaUsed |-> FALSE, bound |-> FALSE, receiverStarted |-> FALSE,
              dcaRecording |-> FALSE, radarMayBeRunning |-> FALSE,
              frameEndObserved |-> FALSE, participantActive |-> FALSE]
  /\ options \in [stoppable : BOOLEAN,   \* options.StopRequested # nil
                  awaiter : BOOLEAN,     \* the radar can await a frame end
                  participant : BOOLEAN, \* options.Participant # nil
                  timely : BOOLEAN]      \* validateFiniteFrameTiming accepts
  /\ options.stoppable => Infinite
  /\ Infinite => options.timely /\ ~ options.awaiter \* neither is consulted
  /\ ctxCancelled = FALSE
  /\ stopRequested = FALSE
  /\ radar \in {"stopped", "running"}
  /\ dca \in {"stopped", "recording"}
  /\ dcaPoisoned = FALSE
  /\ issued = [startRecord |-> FALSE, stopRecord |-> FALSE,
               startRadar |-> FALSE, stopRadar |-> FALSE]
  /\ participant = "idle"
  /\ mirror \in {"absent", "open"}
  /\ published = FALSE

-----------------------------------------------------------------------------
(* Control flow of Run.                                                    *)

At(label) == pc = label
Goto(label) == pc' = label /\ UNCHANGED failed
\* return stats, err: the deferred function takes over.
ReturnError == pc' = "stopRadar" /\ failed' = TRUE
\* An error joined to resultErr inside the deferred function.
ContinueWith(label, err) == pc' = label /\ failed' = (failed \/ err)

keep == <<options, stopRequested, published>>

VerifyPlatform ==
  /\ At("verify")
  /\ \/ ~ ctxCancelled /\ Goto("radarOff")
     \/ ReturnError
  /\ UNCHANGED <<rvars, keep, flags, ctxCancelled, radar, dca, dcaPoisoned,
                 issued, participant, mirror>>

\* Establish the stopped radar state.
FirstRadarStop ==
  /\ At("radarOff")
  /\ \/ Goto("dcaOff") /\ radar' = "stopped"
     \/ ReturnError /\ radar' \in {radar, "stopped"}
  /\ UNCHANGED <<rvars, keep, flags, ctxCancelled, dca, dcaPoisoned, issued,
                 participant, mirror>>

\* A DCA command on a usable client; a failing one may poison the client.
DcaCommandFails == ReturnError /\ dcaPoisoned' \in BOOLEAN

FirstStopRecord ==
  /\ At("dcaOff")
  /\ flags' = [flags EXCEPT !.dcaUsed = TRUE]
  /\ \/ Goto("configure") /\ dca' = "stopped" /\ UNCHANGED dcaPoisoned
     \/ DcaCommandFails /\ dca' \in {dca, "stopped"}
  /\ UNCHANGED <<rvars, keep, ctxCancelled, radar, issued, participant, mirror>>

\* Optional FPGA reset, Configure and the check of asynchronous statuses.
ConfigureDca ==
  /\ At("configure")
  /\ \/ Goto("apply") /\ UNCHANGED dcaPoisoned
     \/ DcaCommandFails
  /\ UNCHANGED <<rvars, keep, flags, ctxCancelled, radar, dca, issued,
                 participant, mirror>>

ApplyRadar ==
  /\ At("apply")
  /\ Goto("arm") \/ ReturnError
  /\ UNCHANGED <<rvars, keep, flags, ctxCancelled, radar, dca, dcaPoisoned,
                 issued, participant, mirror>>

ArmParticipant ==
  /\ At("arm")
  /\ IF options.participant
     THEN /\ flags' = [flags EXCEPT !.participantActive = TRUE]
          /\ participant' = "armed"
          /\ Goto("bind") \/ ReturnError
     ELSE Goto("bind") /\ UNCHANGED <<flags, participant>>
  /\ UNCHANGED <<rvars, keep, ctxCancelled, radar, dca, dcaPoisoned, issued,
                 mirror>>

\* newReceiver binds the socket.
BindReceiver ==
  /\ At("bind")
  /\ \/ Goto("startReceiver") /\ flags' = [flags EXCEPT !.bound = TRUE]
     \/ ReturnError /\ UNCHANGED flags
  /\ UNCHANGED <<rvars, keep, ctxCancelled, radar, dca, dcaPoisoned, issued,
                 participant, mirror>>

StartReceiver ==
  /\ At("startReceiver")
  /\ Start
  /\ Goto("startRecord")
  /\ flags' = [flags EXCEPT !.receiverStarted = TRUE]
  /\ UNCHANGED <<keep, ctxCancelled, radar, dca, dcaPoisoned, issued,
                 participant, mirror>>

\* StartRecordConvergent with a good response.
StartRecordOk ==
  /\ At("startRecord")
  /\ ~ ctxCancelled
  /\ Goto("recordStarted")
  /\ dca' = "recording"
  /\ issued' = [issued EXCEPT !.startRecord = TRUE]
  /\ flags' = [flags EXCEPT !.dcaRecording = TRUE]
  /\ UNCHANGED <<rvars, keep, ctxCancelled, radar, dcaPoisoned, participant,
                 mirror>>

\* StartRecordConvergent fails: a cancelled context sends nothing; otherwise
\* StartRecord may have taken effect and one StopRecord follows it, unless the
\* failure poisoned the client.
StartRecordFails ==
  /\ At("startRecord")
  /\ ReturnError
  /\ \/ /\ ctxCancelled
        /\ UNCHANGED <<dca, dcaPoisoned, issued>>
     \/ /\ ~ ctxCancelled
        /\ dca' \in {"stopped", "recording"}
        /\ dcaPoisoned' \in BOOLEAN
        /\ issued' = [issued EXCEPT !.startRecord = TRUE,
                                   !.stopRecord = ~ dcaPoisoned']
  /\ UNCHANGED <<rvars, keep, flags, ctxCancelled, radar, participant, mirror>>

\* Asynchronous statuses and the context are checked before the radar starts.
AfterStartRecord ==
  /\ At("recordStarted")
  /\ \/ ~ ctxCancelled /\ Goto("startParticipant")
     \/ ReturnError
  /\ UNCHANGED <<rvars, keep, flags, ctxCancelled, radar, dca, dcaPoisoned,
                 issued, participant, mirror>>

StartParticipant ==
  /\ At("startParticipant")
  /\ IF options.participant
     THEN participant' = "started" /\ (Goto("startRadar") \/ ReturnError)
     ELSE Goto("startRadar") /\ UNCHANGED participant
  /\ UNCHANGED <<rvars, keep, flags, ctxCancelled, radar, dca, dcaPoisoned,
                 issued, mirror>>

StartRadar ==
  /\ At("startRadar")
  /\ flags' = [flags EXCEPT !.radarMayBeRunning = TRUE]
  /\ issued' = [issued EXCEPT !.startRadar = TRUE]
  /\ \/ Goto("waitFirst") /\ radar' = "running"
     \/ ReturnError /\ radar' \in {"stopped", "running"}
  /\ UNCHANGED <<rvars, keep, ctxCancelled, dca, dcaPoisoned, participant,
                 mirror>>

EnterWaitForFirst ==
  /\ At("waitFirst")
  /\ BeginWait
  /\ Goto("waitingFirst")
  /\ UNCHANGED <<keep, flags, ctxCancelled, radar, dca, dcaPoisoned, issued,
                 participant, mirror>>

\* WaitForFirst returns; with a participant the radar's frame-start interval
\* is resolved, which can fail.
WaitForFirst ==
  /\ At("waitingFirst")
  /\ \/ /\ ~ ctxCancelled /\ FirstSeen
        /\ Goto(IF options.participant THEN "observe" ELSE "capture")
     \/ /\ ctxCancelled \/ (rstate = "done" /\ ~ FirstSeen)
                        \/ (FirstSeen /\ options.participant)
        /\ ReturnError
  /\ UNCHANGED <<rvars, keep, flags, ctxCancelled, radar, dca, dcaPoisoned,
                 issued, participant, mirror>>

\* The multisensor participant publishes RADAR_START on the aggregate stream; a
\* repeated or misplaced interval, or a write that fails, cancels the capture.
RadarFrameStartObserved ==
  /\ At("observe")
  /\ Goto("capture")
  /\ ctxCancelled' \in {ctxCancelled, TRUE}
  /\ UNCHANGED <<rvars, keep, flags, radar, dca, dcaPoisoned, issued,
                 participant, mirror>>

\* An open-ended capture ends well only through a requested stop.  receiver.Wait
\* lets the cancelled wait context hide what the receive loop returned.
CaptureStopped ==
  /\ At("capture")
  /\ Infinite
  /\ stopRequested
  /\ ~ ctxCancelled
  /\ Goto("stopRadar")
  /\ UNCHANGED <<rvars, keep, flags, ctxCancelled, radar, dca, dcaPoisoned,
                 issued, participant, mirror>>

\* Mutant: waiting for a finite capture has no deadline of its own.
CaptureFails_noDeadline ==
  /\ At("capture")
  /\ ctxCancelled \/ (rstate = "done" /\ (Infinite \/ runErr # "nil"))
  /\ ReturnError
  /\ UNCHANGED <<rvars, keep, flags, ctxCancelled, radar, dca, dcaPoisoned,
                 issued, participant, mirror>>

\* The context is cancelled, the loop ended early, or the finite deadline passed.
CaptureFails ==
  /\ At("capture")
  /\ \/ ctxCancelled
     \/ rstate = "done" /\ (Infinite \/ runErr # "nil")
     \/ ~ Infinite
  /\ ReturnError
  /\ UNCHANGED <<rvars, keep, flags, ctxCancelled, radar, dca, dcaPoisoned,
                 issued, participant, mirror>>

\* A finite capture whose receive loop settled cleanly.
CaptureCompletes ==
  /\ At("capture")
  /\ ~ Infinite
  /\ ~ ctxCancelled
  /\ rstate = "done" /\ runErr = "nil"
  /\ Goto("stopRadar")
  /\ flags' = [flags EXCEPT !.frameEndObserved =
                 stats.output = expected /\ options.timely]
  /\ UNCHANGED <<rvars, keep, ctxCancelled, radar, dca, dcaPoisoned, issued,
                 participant, mirror>>

-----------------------------------------------------------------------------
(* The deferred cleanup.                                                   *)

AwaitsFrameEnd ==
  options.awaiter /\ flags.frameEndObserved /\ ~ ctxCancelled

\* Mutant: cleanup leaves a finite capture's radar to stop by itself.
CleanupRadar_finiteStops ==
  /\ At("stopRadar")
  /\ IF flags.radarMayBeRunning /\ Infinite
     THEN /\ radar' = "stopped" /\ Goto("drain")
          /\ issued' = [issued EXCEPT !.stopRadar = TRUE]
     ELSE Goto("drain") /\ UNCHANGED <<radar, issued>>
  /\ UNCHANGED <<rvars, keep, flags, ctxCancelled, dca, dcaPoisoned,
                 participant, mirror>>

CleanupRadar ==
  /\ At("stopRadar")
  /\ IF ~ flags.radarMayBeRunning
     THEN Goto("drain") /\ UNCHANGED <<radar, issued>>
     ELSE IF AwaitsFrameEnd
     THEN /\ \/ radar = "stopped" /\ ContinueWith("drain", FALSE)
             \/ ContinueWith("drain", TRUE)
          /\ UNCHANGED <<radar, issued>>
     ELSE /\ \/ radar' = "stopped" /\ ContinueWith("drain", FALSE)
             \/ radar' \in {radar, "stopped"} /\ ContinueWith("drain", TRUE)
          /\ issued' = [issued EXCEPT !.stopRadar = TRUE]
  /\ UNCHANGED <<rvars, keep, flags, ctxCancelled, dca, dcaPoisoned,
                 participant, mirror>>

\* Errors of the receive loop that the drain does not count as failures.
Tolerated == {"nil", "firstPacketTimeout", "closed"}

DrainError == rstate = "done" /\ runErr \notin Tolerated

\* receiver.Wait bounded by DrainTimeout: what a finished loop returned counts,
\* a deadline that passes while the loop still receives is no failure.
DrainReceiver ==
  /\ At("drain")
  /\ IF flags.receiverStarted /\ flags.radarMayBeRunning
     THEN /\ firstWait' = TRUE
          /\ \/ rstate = "done" /\ ContinueWith("stopRecord", DrainError)
             \/ rstate # "done" /\ ContinueWith("stopRecord", FALSE)
     ELSE Goto("stopRecord") /\ UNCHANGED firstWait
  /\ UNCHANGED <<expected, rstate, socketClosed, rcancelled, recvVars, netVars,
                 keep, flags, ctxCancelled, radar, dca, dcaPoisoned, issued,
                 participant, mirror>>

\* Mutant: cleanup drops the StopRecord when the capture already failed.
CleanupRecording_failed == flags.dcaRecording /\ ~ failed

CleanupRecording == flags.dcaRecording

\* StopRecord and, after it, the drain of the control socket.
CleanupStopRecord ==
  /\ At("stopRecord")
  /\ IF CleanupRecording
     THEN /\ issued' = [issued EXCEPT !.stopRecord = TRUE]
          /\ \/ dca' = "stopped" /\ ContinueWith("stopReceiver", FALSE)
             \/ dca' \in {dca, "stopped"} /\ ContinueWith("stopReceiver", TRUE)
     ELSE Goto("stopReceiver") /\ UNCHANGED <<dca, issued>>
  /\ UNCHANGED <<rvars, keep, flags, ctxCancelled, radar, dcaPoisoned,
                 participant, mirror>>

\* receiverCancel, then the first half of Close.  A packet read between the two
\* might as well have been read before both.
CleanupStopReceiver ==
  /\ At("stopReceiver")
  /\ IF flags.bound
     THEN CloseSocket
     ELSE UNCHANGED <<rcancelled, socketClosed>>
  /\ Goto("join")
  /\ UNCHANGED <<expected, rstate, firstWait, recvVars, netVars, keep, flags,
                 ctxCancelled, radar, dca, dcaPoisoned, issued, participant,
                 mirror>>

\* Close has joined the loop; a close error or a fatal asynchronous status
\* fails the capture.
CleanupJoin ==
  /\ At("join")
  /\ flags.bound => CloseReturns
  /\ ContinueWith("validate", FALSE) \/ ContinueWith("validate", TRUE)
  /\ UNCHANGED <<rvars, keep, flags, ctxCancelled, radar, dca, dcaPoisoned,
                 issued, participant, mirror>>

\* Mutant: validation trusts the span and not the coverage.
ResultValid_span ==
  /\ stats.packets > 0
  /\ stats.discarded = 0 /\ stats.malformed = 0 /\ stats.overlapping = 0
  /\ expected > 0 => stats.output = expected
  /\ Infinite => stats.output > 0 /\ stats.output % FrameBytes = 0
  /\ options.timely

\* validateResult.
ResultValid ==
  /\ stats.packets > 0
  /\ stats.missing = 0 /\ stats.discarded = 0
  /\ stats.malformed = 0
  /\ stats.overlapping = 0
  /\ expected > 0 => stats.output = expected
  /\ Infinite => stats.output > 0 /\ stats.output % FrameBytes = 0
  /\ options.timely

\* What follows validation: the participant and the mirror are optional.
AfterFinish == IF mirror = "absent" THEN "commit" ELSE "seal"
AfterValidate == IF flags.participantActive THEN "finish" ELSE AfterFinish

ValidateResult ==
  /\ At("validate")
  /\ ContinueWith(AfterValidate, ctxCancelled \/ ~ ResultValid)
  /\ UNCHANGED <<rvars, keep, flags, ctxCancelled, radar, dca, dcaPoisoned,
                 issued, participant, mirror>>

FinishParticipant ==
  /\ At("finish")
  /\ participant' = IF failed THEN "finishedFailed" ELSE "finishedOk"
  /\ ContinueWith(AfterFinish, FALSE) \/ ContinueWith(AfterFinish, TRUE)
  /\ UNCHANGED <<rvars, keep, flags, ctxCancelled, radar, dca, dcaPoisoned,
                 issued, mirror>>

\* mirror.Err, then Abort or a bounded Seal; a failed Seal cancels the capture.
SealMirror ==
  /\ At("seal")
  /\ \/ /\ mirror = "open" /\ ~ failed
        /\ mirror' = "sealed" /\ Goto("commit")
        /\ UNCHANGED ctxCancelled
     \/ /\ mirror \in {"open", "failed"}
        /\ mirror' = "aborted" /\ ContinueWith("commit", TRUE)
        /\ ctxCancelled' = TRUE
  /\ UNCHANGED <<rvars, keep, flags, radar, dca, dcaPoisoned, issued,
                 participant>>

\* Truncate and CommitContext, or Close of the output.
Publish ==
  /\ At("commit")
  /\ pc' = "returned"
  /\ \/ ~ failed /\ ~ ctxCancelled /\ published' = TRUE /\ UNCHANGED failed
     \/ failed' = TRUE /\ UNCHANGED published
  /\ UNCHANGED <<rvars, options, stopRequested, flags, ctxCancelled, radar, dca,
                 dcaPoisoned, issued, participant, mirror>>

-----------------------------------------------------------------------------
(* The environment and the receive loop.                                   *)

Cancel ==
  /\ ~ ctxCancelled
  /\ pc # "returned"
  /\ ctxCancelled' = TRUE
  /\ UNCHANGED <<rvars, pc, failed, flags, options, stopRequested, radar, dca,
                 dcaPoisoned, issued, participant, mirror, published>>

\* Nothing listens to a stop request once the capture phase is over.
RequestStop ==
  /\ options.stoppable
  /\ ~ stopRequested
  /\ At("waitingFirst") \/ At("observe") \/ At("capture")
  /\ stopRequested' = TRUE
  /\ UNCHANGED <<rvars, pc, failed, flags, options, ctxCancelled, radar, dca,
                 dcaPoisoned, issued, participant, mirror, published>>

\* The frames of a finite configuration have been sent.
RadarFinishes ==
  /\ ~ Infinite
  /\ radar = "running"
  /\ issued.startRadar
  /\ radar' = "stopped"
  /\ UNCHANGED <<rvars, pc, failed, flags, options, ctxCancelled, stopRequested,
                 dca, dcaPoisoned, issued, participant, mirror, published>>

\* The recording FPGA forwards what the radar produces; the last packets may be
\* on their way long after the radar has stopped.
RecordingSends ==
  /\ dca = "recording"
  /\ radar = "running"
  /\ issued.startRadar
  /\ DcaSends
  /\ UNCHANGED sessionVars

\* A write that fails behind the mirror fails the mirror, which then refuses
\* every further write and cancels the capture.
BehindMirror ==
  /\ mirror = "failed" => file' = file
  /\ IF mirror = "open" /\ runErr' = "write"
     THEN mirror' = "failed" /\ ctxCancelled' = TRUE
     ELSE UNCHANGED <<mirror, ctxCancelled>>
  /\ UNCHANGED <<pc, failed, flags, options, stopRequested, radar, dca,
                 dcaPoisoned, issued, participant, published>>

LoopStep == ReceiveLoop /\ BehindMirror

\* The sink fails, or a frame does not fit the mirror's window.
MirrorFails ==
  /\ mirror = "open"
  /\ rstate # "bound"
  /\ mirror' = "failed"
  /\ ctxCancelled' = TRUE
  /\ UNCHANGED <<rvars, pc, failed, flags, options, stopRequested, radar, dca,
                 dcaPoisoned, issued, participant, published>>

Prepare ==
  \/ VerifyPlatform \/ FirstRadarStop \/ FirstStopRecord \/ ConfigureDca
  \/ ApplyRadar \/ ArmParticipant \/ BindReceiver \/ StartReceiver
  \/ StartRecordOk \/ StartRecordFails \/ AfterStartRecord
  \/ StartParticipant \/ StartRadar

Capture ==
  \/ EnterWaitForFirst \/ WaitForFirst \/ RadarFrameStartObserved
  \/ CaptureStopped \/ CaptureFails \/ CaptureCompletes

Cleanup ==
  \/ CleanupRadar \/ DrainReceiver \/ CleanupStopRecord
  \/ CleanupStopReceiver \/ CleanupJoin

Conclude ==
  \/ ValidateResult \/ FinishParticipant \/ SealMirror \/ Publish

RunStep == Prepare \/ Capture \/ Cleanup \/ Conclude

Environment ==
  \/ Cancel \/ RequestStop \/ RadarFinishes \/ RecordingSends
  \/ MirrorFails

SessionNext == RunStep \/ LoopStep \/ Environment

\* RADAR_START is written with the capture's context alone: while nobody reads
\* the aggregate stream, which a capture with participant and mirror has, only a
\* cancellation of the capture ends the write.
Unblocked == ~ At("observe") \/ ctxCancelled \/ mirror = "absent"

\* Every other call of Run carries a timeout, so Run advances whenever a step is
\* possible; the receive loop notices a cancellation, a close and the passing
\* of its deadlines.  Nothing obliges the network, the user or the reader of the
\* aggregate stream to act.
SessionFairness ==
  /\ WF_vars(Unblocked /\ RunStep)
  /\ WF_vars((LoopStops \/ LoopTimesOut) /\ BehindMirror)

SessionSpec == SessionInit /\ [][SessionNext]_vars /\ SessionFairness

-----------------------------------------------------------------------------
(* Properties.                                                             *)

\* Exits of the receive loop that skip finalizeStats (receiver.go).
Unfinalized == {"limit", "write", "read"}

Whole == WrittenBytes = 0 .. (stats.output - 1)

\* A published capture has no gap: every byte of [0, OutputBytes) was received
\* and written, it is a positive whole number of frames, and a finite capture
\* has its planned size, whatever the network lost, delayed, repeated or
\* reordered and wherever a stop or a cancellation fell.  Excepted are captures
\* whose receive loop ended, unobserved, through an exit without finalizeStats:
\* see NoGapPublished.
PublishedIsWhole ==
  published /\ runErr \notin Unfinalized =>
    /\ Whole
    /\ stats.output > 0
    /\ stats.output % FrameBytes = 0
    /\ expected > 0 => stats.output = expected

\* README: "Gaps, overlaps, partial frames, short finite data, and extra finite
\* data fail."  No published file has a gap.
NoGapPublished == published => Whole

\* Publication comes last: by then both devices are really stopped, the receive
\* loop has been joined, the participant has finished well and the mirror has
\* delivered every frame.
PublishedAfterConvergence ==
  published =>
    /\ radar = "stopped"
    /\ dca = "stopped"
    /\ rstate = "done"
    /\ options.participant => participant = "finishedOk"
    /\ mirror \in {"absent", "sealed"}

\* Whatever fails and wherever the capture is cancelled, Run does not return
\* before it has sent a StopRecord after every StartRecord (unless the control
\* client is poisoned) and a sensorStop after every sensorStart (unless the
\* natural end of a complete finite capture is awaited instead).
EveryStartIsStopped ==
  pc = "returned" =>
    /\ issued.startRecord => issued.stopRecord \/ dcaPoisoned
    /\ issued.startRadar =>
         issued.stopRadar \/ (options.awaiter /\ flags.frameEndObserved)

Frozen == pc \in {"validate", "finish", "seal", "commit", "returned"}

\* What is validated is what is published: after the receiver is closed neither
\* the file nor its statistics change, however late a packet arrives.
ValidatedCaptureIsFrozen ==
  [][Frozen => UNCHANGED <<file, stats>>]_vars

\* Run returns: a cancelled, stopped or finite capture is never left waiting
\* for a packet, a device, a participant or the receive loop.  The one wait it may
\* be left in is RADAR_START on an aggregate stream that nobody reads, and only as
\* long as nothing cancels the capture.
RunReturns ==
  (ctxCancelled \/ stopRequested \/ ~ Infinite) ~>
    (pc = "returned" \/ [](At("observe") /\ ~ Unblocked))
=============================================================================
