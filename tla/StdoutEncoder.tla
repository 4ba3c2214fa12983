---------------------------- MODULE StdoutEncoder ----------------------------
(***************************************************************************)
(* The capture stream on stdout: Encoder and StdoutEncoder                 *)
(* (internal/capturestream/encoder.go, stdout_encoder.go) and the calls    *)
(* the application makes (internal/app/capture_stream.go).                 *)
(*                                                                         *)
(* The mirror's worker writes frames while the application's thread, the   *)
(* owner, creates the stream and ends it with one terminal record.  The    *)
(* reader of the pipe may stop reading for ever: a write then blocks until *)
(* somebody closes stdout, which a hook armed on the caller's context      *)
(* (context.AfterFunc) does.  Records reach the pipe whole, torn or not at *)
(* all.                                                                    *)
(***************************************************************************)
EXTENDS Integers, Sequences, FiniteSets

CONSTANT FrameCount  \* frames of the finite capture plan

ASSUME FrameCountAssumption == FrameCount \in Nat \ {0}

VARIABLES
  stdout,           \* records in the pipe, the last one possibly torn
  outputClosed,     \* ownedInterruptibleWriter has closed stdout
  closeErr,         \* its closeErr: that close failed
  mutex,            \* holder of encoderMu
  encoder,          \* Encoder.state and Encoder.nextFrame
  worker,           \* the mirror's worker: position, frame, last result
  owner,            \* the application's thread: position, call, result
  hook,             \* outputCancellation of each thread's call
  captureCancelled, \* context of NewStdoutEncoder
  sinkCancelled,    \* context of WriteFrame: the mirror's sinkContext
  expired,          \* context of Commit and Abort: the terminal timeout
  outcome,          \* what session.Run has returned so far
  artifactMatches   \* digest of the published file = digest of the frames

vars == <<stdout, outputClosed, closeErr, mutex, encoder, worker, owner, hook,
          captureCancelled, sinkCancelled, expired, outcome, artifactMatches>>
output == <<outputClosed, closeErr>>
contexts == <<captureCancelled, sinkCancelled, expired>>
session == <<outcome, artifactMatches>>

Record(kind, index) == [kind |-> kind, index |-> index, whole |-> TRUE]

Init ==
  /\ stdout = <<>>
  /\ outputClosed = FALSE
  /\ closeErr = FALSE
  /\ mutex = "free"
  /\ encoder = [state |-> "ready", nextFrame |-> 0]
  /\ worker = [pc |-> "idle", frame |-> 0, err |-> FALSE]
  /\ owner = [pc |-> "create", call |-> "create", ok |-> FALSE]
  /\ hook = [t \in {"worker", "owner"} |-> "off"]
  /\ captureCancelled = FALSE
  /\ sinkCancelled = FALSE
  /\ expired = FALSE
  /\ outcome = "running"
  /\ artifactMatches \in BOOLEAN

-----------------------------------------------------------------------------
(* Hooks and record writes, for either thread.                             *)

ContextDone(t) ==
  CASE t = "worker"                          -> sinkCancelled
    [] t = "owner" /\ owner.call = "create"  -> captureCancelled
    [] t = "owner" /\ owner.call # "create"  -> expired

\* ownedInterruptibleWriter.Close: the first close may fail, and every later one
\* returns the same error.
Close ==
  /\ outputClosed' = TRUE
  /\ closeErr' \in IF outputClosed THEN {closeErr} ELSE BOOLEAN

\* The AfterFunc callback closes stdout.
HookFires(t) ==
  /\ hook[t] = "armed"
  /\ ContextDone(t)
  /\ hook' = [hook EXCEPT ![t] = "fired"]
  /\ Close
  /\ UNCHANGED <<stdout, mutex, encoder, worker, owner, contexts, session>>

Writing(t) == IF t = "worker" THEN worker.pc = "writing" ELSE owner.pc = "writing"

\* The record the thread is writing.
Pending(t) ==
  IF t = "worker" THEN Record("frame", worker.frame)
  ELSE IF owner.call = "create"
       THEN Record(IF stdout = <<>> THEN "session" ELSE "config", 0)
       ELSE Record(owner.call, encoder.nextFrame)

\* encoder.WriteFrame, Commit, Abort or NewEncoder after writeRecord returned nil.
RecordWritten(t) ==
  /\ Writing(t)
  /\ ~ outputClosed
  /\ stdout' = Append(stdout, Pending(t))
  /\ IF t = "worker"
     THEN /\ encoder' = [encoder EXCEPT !.nextFrame = @ + 1]
          /\ worker' = [worker EXCEPT !.pc = "settle", !.err = FALSE]
          /\ UNCHANGED owner
     ELSE IF owner.call = "create"
     THEN /\ owner' = [owner EXCEPT !.pc = IF stdout = <<>> THEN "writing" ELSE "settle",
                                    !.ok = stdout # <<>>]
          /\ UNCHANGED <<encoder, worker>>
     ELSE /\ encoder' = [encoder EXCEPT !.state = "terminal"]
          /\ owner' = [owner EXCEPT !.pc = "settle", !.ok = TRUE]
          /\ UNCHANGED worker
  /\ UNCHANGED <<output, mutex, hook, contexts, session>>

\* writeRecord returned an error with a part of the record, or nothing, written.
RecordFails(t) ==
  /\ Writing(t)
  /\ stdout' \in {stdout, Append(stdout, [Pending(t) EXCEPT !.whole = FALSE])}
  /\ encoder' = [encoder EXCEPT !.state = "poisoned"]
  /\ IF t = "worker"
     THEN worker' = [worker EXCEPT !.pc = "settle", !.err = TRUE] /\ UNCHANGED owner
     ELSE owner' = [owner EXCEPT !.pc = "settle", !.ok = FALSE] /\ UNCHANGED worker
  /\ UNCHANGED <<output, mutex, hook, contexts, session>>

\* A write interrupted by the close of stdout, or refused by the reader's end.
WriteInterrupted(t) == outputClosed /\ RecordFails(t)
WriteBreaks(t) == ~ outputClosed /\ RecordFails(t)

\* Mutant: a poisoned encoder goes on writing.
Ready_poisoned == encoder.state # "terminal"

\* requireReady.
Ready == encoder.state = "ready"

-----------------------------------------------------------------------------
(* newStdoutEncoder.                                                       *)

Create ==
  /\ owner.pc = "create"
  /\ IF captureCancelled
     THEN /\ owner' = [owner EXCEPT !.pc = "done", !.ok = FALSE]
          /\ Close
          /\ UNCHANGED hook
     ELSE /\ owner' = [owner EXCEPT !.pc = "writing"]
          /\ hook' = [hook EXCEPT !["owner"] = "armed"]
          /\ UNCHANGED output
  /\ UNCHANGED <<stdout, mutex, encoder, worker, contexts, session>>

CreateSettles ==
  /\ owner.pc = "settle"
  /\ owner.call = "create"
  /\ IF owner.ok /\ hook["owner"] # "fired" /\ ~ captureCancelled
     THEN owner' = [owner EXCEPT !.pc = "serving"] /\ UNCHANGED output
     ELSE /\ owner' = [owner EXCEPT !.pc = "done", !.ok = FALSE]
          /\ Close
  /\ hook' = [hook EXCEPT !["owner"] = "off"]
  /\ UNCHANGED <<stdout, mutex, encoder, worker, contexts, session>>

-----------------------------------------------------------------------------
(* WriteFrame, called by the mirror's worker for frame after frame.        *)

FrameEnters ==
  /\ owner.pc = "serving" \/ owner.call # "create"
  /\ worker.pc = "idle"
  /\ worker.frame < FrameCount
  /\ worker' = [worker EXCEPT !.pc = IF sinkCancelled THEN "stopped" ELSE "lock"]
  /\ UNCHANGED <<stdout, output, mutex, encoder, owner, hook, contexts,
                 session>>

\* Mutant: the frame is written without a hook on its context.
ArmFrame_off == hook

ArmFrame == [hook EXCEPT !["worker"] = "armed"]

\* With the mutex, the context is tested and the hook armed.
FrameLocks ==
  /\ worker.pc = "lock"
  /\ mutex = "free"
  /\ IF sinkCancelled
     THEN /\ worker' = [worker EXCEPT !.pc = "stopped"]
          /\ UNCHANGED <<mutex, hook>>
     ELSE /\ worker' = [worker EXCEPT !.pc = "armed"]
          /\ mutex' = "worker"
          /\ hook' = ArmFrame
  /\ UNCHANGED <<stdout, output, encoder, owner, contexts, session>>

\* The second test of the context and encoder.WriteFrame up to its first Write,
\* which a closed stdout refuses.
FrameBegins ==
  /\ worker.pc = "armed"
  /\ LET inPlan == worker.frame = encoder.nextFrame /\ worker.frame < FrameCount
         fails == sinkCancelled \/ ~ Ready \/ ~ inPlan \/ outputClosed
     IN  /\ worker' = [worker EXCEPT !.pc = IF fails THEN "settle" ELSE "writing",
                                     !.err = fails]
         /\ encoder' = IF fails /\ ~ sinkCancelled /\ Ready
                       THEN [encoder EXCEPT !.state = "poisoned"]
                       ELSE encoder
  /\ UNCHANGED <<stdout, output, mutex, owner, hook, contexts, session>>

\* stopAndWait: a hook that fired turns even a whole record into an error.
FrameAccepted == ~ worker.err /\ hook["worker"] # "fired"

FrameSettles ==
  /\ worker.pc = "settle"
  /\ worker' = IF FrameAccepted
               THEN [pc |-> "idle", frame |-> worker.frame + 1, err |-> FALSE]
               ELSE [worker EXCEPT !.pc = "stopped"]
  /\ hook' = [hook EXCEPT !["worker"] = "off"]
  /\ mutex' = "free"
  /\ UNCHANGED <<stdout, output, encoder, owner, contexts, session>>

-----------------------------------------------------------------------------
(* finish: Commit after a published capture, Abort otherwise.              *)

ArmTerminal == [hook EXCEPT !["owner"] = "armed"]

\* terminal up to encoderMu.Lock; an expired context only closes stdout.
TerminalEnters(call) ==
  /\ owner.pc = "serving"
  /\ outcome # "running"
  /\ outcome = "failed" => call = "abort"
  /\ IF expired
     THEN /\ owner' = [pc |-> "done", call |-> call, ok |-> FALSE]
          /\ Close
          /\ UNCHANGED hook
     ELSE /\ owner' = [pc |-> "lock", call |-> call, ok |-> FALSE]
          /\ hook' = ArmTerminal
          /\ UNCHANGED output
  /\ UNCHANGED <<stdout, mutex, encoder, worker, contexts, session>>

\* Mutant: COMMIT is not held against the published file.
Committable_unmatched == encoder.nextFrame = FrameCount

\* Encoder.Commit: all frames were written and the published file matches them.
Committable == encoder.nextFrame = FrameCount /\ artifactMatches

\* emit up to its first Write, which a closed stdout refuses.
TerminalLocks ==
  /\ owner.pc = "lock"
  /\ mutex = "free"
  /\ mutex' = "owner"
  /\ IF expired \/ ~ Ready
     THEN owner' = [owner EXCEPT !.pc = "settle"] /\ UNCHANGED encoder
     ELSE IF outputClosed \/ (owner.call = "commit" /\ ~ Committable)
     THEN /\ owner' = [owner EXCEPT !.pc = "settle"]
          /\ encoder' = [encoder EXCEPT !.state = "poisoned"]
     ELSE owner' = [owner EXCEPT !.pc = "writing"] /\ UNCHANGED encoder
  /\ UNCHANGED <<stdout, output, worker, hook, contexts, session>>

\* stopAndWait, close of stdout, unlock; a whole record is followed by the
\* error of the close.
TerminalSettles ==
  /\ owner.pc = "settle"
  /\ owner.call # "create"
  /\ Close
  /\ owner' = [owner EXCEPT !.pc = "done", !.ok = @ /\ ~ closeErr']
  /\ hook' = [hook EXCEPT !["owner"] = "off"]
  /\ mutex' = "free"
  /\ UNCHANGED <<stdout, encoder, worker, contexts, session>>

-----------------------------------------------------------------------------
(* The capture session and the mirror behind the calls.                    *)

\* A capture is published once the mirror is sealed: the sink took every frame.
SessionPublishes ==
  /\ owner.pc = "serving"
  /\ outcome = "running"
  /\ worker.pc = "idle" /\ worker.frame = FrameCount
  /\ ~ captureCancelled /\ ~ sinkCancelled
  /\ outcome' = "published"
  /\ sinkCancelled' = TRUE
  /\ UNCHANGED <<stdout, output, mutex, encoder, worker, owner, hook,
                 captureCancelled, expired, artifactMatches>>

\* finish aborts the mirror before it aborts the stream.
SessionFails ==
  /\ owner.pc = "serving"
  /\ outcome = "running"
  /\ outcome' = "failed"
  /\ sinkCancelled' = TRUE
  /\ UNCHANGED <<stdout, output, mutex, encoder, worker, owner, hook,
                 captureCancelled, expired, artifactMatches>>

\* The mirror fails or is aborted while session.Run still cleans up.
MirrorCancelsSink ==
  /\ owner.pc = "serving"
  /\ ~ sinkCancelled
  /\ sinkCancelled' = TRUE
  /\ UNCHANGED <<stdout, output, mutex, encoder, worker, owner, hook,
                 captureCancelled, expired, session>>

CancelCapture ==
  /\ ~ captureCancelled
  /\ captureCancelled' = TRUE
  /\ UNCHANGED <<stdout, output, mutex, encoder, worker, owner, hook,
                 sinkCancelled, expired, session>>

TerminalExpires ==
  /\ outcome # "running"
  /\ ~ expired
  /\ expired' = TRUE
  /\ UNCHANGED <<stdout, output, mutex, encoder, worker, owner, hook,
                 captureCancelled, sinkCancelled, session>>

-----------------------------------------------------------------------------
Threads == {"worker", "owner"}

OwnerStep ==
  \/ Create
  \/ CreateSettles
  \/ \E call \in {"commit", "abort"} : TerminalEnters(call)
  \/ TerminalLocks
  \/ TerminalSettles

FrameStep == FrameLocks \/ FrameBegins \/ FrameSettles

Environment ==
  \/ SessionPublishes
  \/ SessionFails
  \/ MirrorCancelsSink
  \/ CancelCapture
  \/ TerminalExpires

Next ==
  \/ OwnerStep
  \/ FrameEnters
  \/ FrameStep
  \/ \E t \in Threads : \/ HookFires(t)
                        \/ RecordWritten(t)
                        \/ WriteInterrupted(t)
                        \/ WriteBreaks(t)
  \/ Environment

\* The Go scheduler runs the threads and the hooks, a write to a closed
\* descriptor returns, and the terminal timeout passes.  The reader of the pipe
\* need not read.
Fairness ==
  /\ WF_vars(OwnerStep)
  /\ WF_vars(FrameStep)
  /\ WF_vars(TerminalExpires)
  /\ \A t \in Threads : WF_vars(HookFires(t)) /\ WF_vars(WriteInterrupted(t))

Spec == Init /\ [][Next]_vars /\ Fairness

-----------------------------------------------------------------------------
(* Properties.                                                             *)

WholeFrames == {i \in DOMAIN stdout : stdout[i].kind = "frame" /\ stdout[i].whole}

\* The kind and index of the record at each place of a stream.
Expected(i) ==
  CASE i = 1 -> {<<"session", 0>>}
    [] i = 2 -> {<<"config", 0>>}
    [] OTHER -> {<<"frame", i - 3>>, <<"commit", i - 3>>, <<"abort", i - 3>>}

\* What the consumer reads is a prefix of one stream: SESSION, RADAR_CONFIG,
\* frames 0, 1, 2, ..., one terminal record; only the last record may be torn,
\* and nothing follows a torn or a terminal record, whichever thread was
\* interrupted in the middle of which record.
StreamWellFormed ==
  \A i \in DOMAIN stdout :
    /\ <<stdout[i].kind, stdout[i].index>> \in Expected(i)
    /\ i < Len(stdout) =>
         stdout[i].whole /\ stdout[i].kind \notin {"commit", "abort"}

Committed == \E i \in DOMAIN stdout : stdout[i].kind = "commit" /\ stdout[i].whole

\* COMMIT is on the wire only for a published capture whose every frame precedes
\* it and whose file has the digest of those frames.  Commit reports success
\* exactly when the whole record is on the wire and stdout was closed without an
\* error: a deadline that races the end of the record turns no success into a
\* failure, and the error of a close is returned even behind a whole COMMIT.
CommitIsTruthful ==
  /\ Committed =>
       /\ outcome = "published"
       /\ artifactMatches
       /\ Cardinality(WholeFrames) = FrameCount
  /\ owner.pc = "done" =>
       (owner.call = "commit" /\ owner.ok <=> Committed /\ ~ closeErr)

\* Nobody need read the pipe for a call to return: WriteFrame returns once its
\* context is cancelled (the contract Mirror relies on), and a terminal call
\* returns with stdout closed although a frame write holds the encoder.
CallsReturn ==
  /\ sinkCancelled ~> worker.pc \in {"idle", "stopped"}
  /\ outcome # "running" ~> (owner.pc = "done" /\ outputClosed)
=============================================================================
