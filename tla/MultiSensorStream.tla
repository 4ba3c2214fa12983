-------------------------- MODULE MultiSensorStream --------------------------
(***************************************************************************)
(* The live aggregate stream of a multi-sensor capture on standard output: *)
(* encoder, output adapter, radar sink and decoder                         *)
(* (internal/multisensorstream) with the part of the application that      *)
(* drives them (internal/app/multisensor_capture.go) and publishes         *)
(* session.json (internal/multisensor/directory.go).                       *)
(*                                                                         *)
(* Three kinds of threads write to the one stream under the adapter's      *)
(* mutex: the main thread, the radar mirror's delivery worker (source 0)   *)
(* and the recorder of every external source.  call[c] is how far the      *)
(* operation of thread c is: "idle", "lock" (cancellation armed, waiting   *)
(* for the mutex) or "emit" (holding it).  The external sources are the    *)
(* contract Participant, which the coordinator is shown to implement.      *)
(*                                                                         *)
(* The receiver and the mirror are reduced to frames that arrive and are   *)
(* delivered in order; Receiver and Mirror model them.                     *)
(***************************************************************************)
EXTENDS Participant, FiniteSets

CONSTANT MaxRadarFrames \* plan.NumberOfFrames

ASSUME StreamAssumption == MaxRadarFrames \in Nat \ {0} /\ Sources \subseteq Nat \ {0}

VARIABLES
  pc,         \* where the main thread is
  err,        \* resultErr of session.Run is not nil
  frameStart, \* RadarFrameStartObserved: "none", "observed" or "failed"
  gate,       \* RadarSink.startReady: "shut", "open" or "failed"
  frames,     \* radar frames the mirror has received
  mirror,     \* capturestream.Mirror: state, frames delivered
  call,       \* operation in progress of each thread
  enc,        \* Encoder
  dec,        \* Decoder of the process that reads the stream
  closed,     \* ownedStdoutFile is closed
  reader,     \* the reading process: "reading", "stalled" or "gone"
  expired,    \* the terminal context's deadline has passed
  radarDir,   \* the radar source's directory is committed
  published   \* OUT with session.json is published

mainVars == <<pc, err, frameStart, gate>>
radarVars == <<frames, mirror>>
outVars == <<call, enc, dec, closed>>
restVars == <<reader, expired, radarDir, published>>
vars == <<partVars, mainVars, radarVars, outVars, restVars>>

Radar == 0
Main == -1
Streams == {Radar} \cup Sources
Threads == {Main} \cup Streams

NewProgress ==
  [state |-> "active", config |-> FALSE, started |-> FALSE,
   next |-> [s \in Streams |-> 0], ended |-> [s \in Streams |-> "no"]]

\* SESSION has been written: NewStdoutAdapter, NewRadarSink, NewMirror.
Init ==
  /\ PartInit
  /\ pc = "config" /\ err = FALSE /\ frameStart = "none" /\ gate = "shut"
  /\ frames = 0 /\ mirror = [state |-> "on", delivered |-> 0]
  /\ call = [c \in Threads |-> "idle"]
  /\ enc = NewProgress /\ dec = NewProgress
  /\ closed = FALSE /\ reader = "reading" /\ expired = FALSE
  /\ radarDir = FALSE /\ published = FALSE

-----------------------------------------------------------------------------
(* Records, and the two ends of the stream.                                *)

Least(S) == CHOOSE s \in S : \A t \in S : s <= t
Unended(p) == {s \in Streams : p.ended[s] = "no"}
EndingStarted(p) == Unended(p) # Streams
RecordsStarted(p) == EndingStarted(p) \/ \E s \in Streams : p.next[s] > 0

\* The record a thread emits: finish ends the radar first, then the sources.
RecordOf(c) ==
  CASE c = Radar -> [type |-> "ITEM", source |-> Radar, index |-> mirror.delivered]
    [] c \in Sources -> [type |-> "ITEM", source |-> c, index |-> recorded[c] - 1]
    [] c = Main /\ pc = "config" -> [type |-> "CONFIG"]
    [] c = Main /\ pc = "observe" -> [type |-> "START"]
    [] c = Main /\ pc = "end" ->
         LET s == Least(Unended(enc))
         IN  [type |-> "END", source |-> s, count |-> enc.next[s],
              outcome |-> IF s \in Sources /\ dropped[s] THEN "failed" ELSE "complete"]
    [] c = Main /\ pc = "commit" -> [type |-> "COMMIT"]
    [] c = Main /\ pc = "abort" -> [type |-> "ABORT"]

Limit(s) == IF s = Radar THEN MaxRadarFrames ELSE MaxRecorded

\* validateCommitOutcomes, of both ends.
CommitOutcomes(p) ==
  /\ Unended(p) = {}
  /\ \A s \in Required \cup {Radar} : p.ended[s] = "complete"
  /\ p.next[Radar] # 0 => p.started

\* The checks of the Encoder's operations.
EncoderTakes(e, r) ==
  /\ e.state = "active"
  /\ CASE r.type = "CONFIG" -> ~e.config /\ ~RecordsStarted(e)
       [] r.type = "START" -> ~e.started /\ e.next[Radar] = 0 /\ ~EndingStarted(e)
       [] r.type = "ITEM" ->
            /\ r.source = Radar => e.started
            /\ ~EndingStarted(e)
            /\ r.index = e.next[r.source] /\ r.index < Limit(r.source)
       [] r.type = "END" -> e.ended[r.source] = "no"
       [] r.type = "COMMIT" -> CommitOutcomes(e)
       [] r.type = "ABORT" -> TRUE

\* What a record that was written, or read, changes at either end.
After(p, r) ==
  CASE r.type = "CONFIG" -> [p EXCEPT !.config = TRUE]
    [] r.type = "START" -> [p EXCEPT !.started = TRUE]
    [] r.type = "ITEM" -> [p EXCEPT !.next[r.source] = @ + 1]
    [] r.type = "END" -> [p EXCEPT !.ended[r.source] = r.outcome]
    [] r.type \in {"COMMIT", "ABORT"} -> [p EXCEPT !.state = r.type]

\* Mutant: only the radar's items are counted.
UncountedItem(e, r) ==
  IF r.type = "ITEM" /\ r.source # Radar THEN e ELSE After(e, r)

EncoderAfter(e, r) == After(e, r)

\* Decoder.accept.  A torn record, or a second terminal one, is rejected.
DecoderTakes(d, r) ==
  /\ d.state = "active"
  /\ CASE r.type = "CONFIG" -> ~d.config /\ ~RecordsStarted(d)
       [] r.type = "START" -> ~d.started /\ d.next[Radar] = 0 /\ ~EndingStarted(d)
       [] r.type = "ITEM" ->
            /\ r.source = Radar => d.started
            /\ ~EndingStarted(d)
            /\ r.index = d.next[r.source] /\ r.index < Limit(r.source)
       [] r.type = "END" -> d.ended[r.source] = "no" /\ r.count = d.next[r.source]
       [] r.type = "COMMIT" -> CommitOutcomes(d)
       [] r.type = "ABORT" -> TRUE

DecoderAfter(d, r) ==
  IF DecoderTakes(d, r) THEN After(d, r) ELSE [d EXCEPT !.state = "rejected"]

-----------------------------------------------------------------------------
(* Contexts.                                                               *)

\* Mutant: the terminal operations have no deadline.
ContextEndedUnbounded(c) ==
  CASE c = Main -> {cancelled /\ (pc \in {"config", "observe"})}
    [] c = Radar -> {(mirror.state \in {"failed", "aborted"})}
    [] c \in Sources ->
         IF cancelled THEN {TRUE} ELSE IF dropped[c] THEN BOOLEAN ELSE {FALSE}

\* Whether the context of a thread's operation has ended.  The coordinator
\* cancels the drain of a source it drops at some point after dropping it.
ContextEnded(c) ==
  CASE c = Main -> {IF pc \in {"config", "observe"} THEN cancelled ELSE expired}
    [] c = Radar -> {(mirror.state \in {"failed", "aborted"})}
    [] c \in Sources ->
         IF cancelled THEN {TRUE} ELSE IF dropped[c] THEN BOOLEAN ELSE {FALSE}

\* captureStreamTerminalTimeout passes.
TerminalDeadline ==
  /\ pc \in {"end", "commit", "abort"} /\ ~expired
  /\ expired' = TRUE
  /\ UNCHANGED <<partVars, mainVars, radarVars, outVars, reader, radarDir, published>>

\* The AfterFunc of an armed operation closes the whole stream.
CancellationCloses(c) ==
  /\ call[c] # "idle" /\ TRUE \in ContextEnded(c) /\ ~closed
  /\ closed' = TRUE
  /\ UNCHANGED <<partVars, mainVars, radarVars, call, enc, dec, restVars>>

-----------------------------------------------------------------------------
(* StdoutAdapter.operation and terminal.                                   *)

Terminal(c) == c = Main /\ pc \in {"commit", "abort"}

\* What the callers do with the result of their operation.

\* WriteFrame failed: the mirror fails and cancels the capture.
RadarOutcome(ok) ==
  /\ mirror' = IF ok THEN [mirror EXCEPT !.delivered = @ + 1]
               ELSE [mirror EXCEPT !.state = IF @ = "on" THEN "failed" ELSE @]
  /\ cancelled' = (cancelled \/ ~ok)
  /\ UNCHANGED <<phase, drain, dropped, recorded, mainVars, frames>>

\* readStream: a failed sink breaks the recorder.
SourceOutcome(s, ok) ==
  /\ IF ok THEN UNCHANGED partVars ELSE DrainLost(s)
  /\ UNCHANGED <<mainVars, radarVars>>

\* The main thread: config in startMultisensorStream, RADAR_START in
\* RadarFrameStartObserved, the rest in finish and abortStream.
MainOutcome(ok) ==
  /\ pc' = CASE pc = "config" -> IF ok THEN "launch" ELSE "done"
             [] pc = "observe" -> "capture"
             [] pc = "end" /\ ok -> IF Unended(enc') = {} THEN "commit" ELSE "end"
             [] OTHER -> "done"
  /\ gate' = IF pc = "observe" /\ gate = "shut"
             THEN IF ok THEN "open" ELSE "failed" ELSE gate
  /\ frameStart' = IF pc = "observe" /\ ~ok THEN "failed" ELSE frameStart
  /\ cancelled' = (cancelled \/ (pc = "observe" /\ ~ok))
  /\ UNCHANGED <<phase, drain, dropped, recorded, err, radarVars>>

Outcome(c, ok) ==
  CASE c = Main -> MainOutcome(ok)
    [] c = Radar -> RadarOutcome(ok)
    [] c \in Sources -> SourceOutcome(c, ok)

\* Entry: an ended context closes the stream without asking for the mutex.
Enter(c) ==
  /\ call[c] = "idle"
  /\ \E ended \in ContextEnded(c) :
       IF ended
       THEN closed' = TRUE /\ Outcome(c, FALSE) /\ UNCHANGED <<call, enc, dec>>
       ELSE /\ call' = [call EXCEPT ![c] = "lock"]
            /\ UNCHANGED <<partVars, mainVars, radarVars, enc, dec, closed>>
  /\ UNCHANGED restVars

\* With the mutex: the stream is closed, the context has ended, the encoder
\* refuses and is poisoned, or the record is on its way.
Acquire(c) ==
  /\ call[c] = "lock" /\ \A d \in Threads : call[d] # "emit"
  /\ \E ended \in ContextEnded(c) :
       IF ~closed /\ ~ended /\ EncoderTakes(enc, RecordOf(c))
       THEN /\ call' = [call EXCEPT ![c] = "emit"]
            /\ UNCHANGED <<partVars, mainVars, radarVars, enc, dec, closed>>
       ELSE /\ call' = [call EXCEPT ![c] = "idle"]
            /\ closed' = TRUE
            /\ enc' = IF closed \/ ended THEN enc
                      ELSE [enc EXCEPT !.state = "poisoned"]
            /\ Outcome(c, FALSE)
            /\ UNCHANGED dec
  /\ UNCHANGED restVars

\* The record has been written.  A terminal one, with its EOF, stands whatever
\* became of the context; any other is an error if the context has ended.
Written(c) ==
  /\ call[c] = "emit" /\ ~closed /\ reader = "reading"
  /\ call' = [call EXCEPT ![c] = "idle"]
  /\ enc' = EncoderAfter(enc, RecordOf(c))
  /\ dec' = DecoderAfter(dec, RecordOf(c))
  /\ \E ended \in IF Terminal(c) THEN {FALSE} ELSE ContextEnded(c) :
       closed' = (ended \/ Terminal(c)) /\ Outcome(c, ~ended)
  /\ UNCHANGED restVars

\* The write fails part way: the reader has part of a record, at most.
WriteBreaks(c) ==
  /\ call[c] = "emit"
  /\ closed \/ reader = "gone"
  /\ call' = [call EXCEPT ![c] = "idle"]
  /\ enc' = [enc EXCEPT !.state = "poisoned"]
  /\ dec' = [dec EXCEPT !.state = "torn"]
  /\ closed' = TRUE
  /\ Outcome(c, FALSE)
  /\ UNCHANGED restVars

\* The process that reads the stream stops reading, or goes away.
ReaderStops ==
  /\ reader = "reading"
  /\ reader' \in {"stalled", "gone"}
  /\ UNCHANGED <<partVars, mainVars, radarVars, outVars, expired, radarDir, published>>

-----------------------------------------------------------------------------
(* The external sources, between the coordinator's calls.                  *)

\* A step of the participant that touches nothing else.
Participates(A) == A /\ UNCHANGED <<mainVars, radarVars, outVars, restVars>>

InCoordinator == pc \in {"launch", "arm", "start", "part"}

\* readStream: the payload is written first, then the record is offered.
RecordsItem(s) ==
  /\ call[s] = "idle"
  /\ \E ended \in ContextEnded(s) :
       IF ended THEN closed' = TRUE /\ DrainLost(s) /\ UNCHANGED call
       ELSE Records(s) /\ call' = [call EXCEPT ![s] = "lock"] /\ UNCHANGED closed
  /\ UNCHANGED <<mainVars, radarVars, enc, dec, restVars>>

SourceStep(s) ==
  \/ RecordsItem(s)
  \/ call[s] = "idle" /\ Participates(DrainEnds(s) \/ DrainLost(s))
  \/ pc = "launch" /\ Participates(Launches(s))
  \/ InCoordinator /\ Participates(Drops(s))

-----------------------------------------------------------------------------
(* The radar.                                                              *)

RadarFrame ==
  /\ pc \in {"radio", "observe", "capture"} /\ frames < MaxRadarFrames
  /\ frames' = frames + 1
  /\ UNCHANGED <<partVars, mainVars, mirror, outVars, restVars>>

\* RadarSink.WriteFrame: held back until RADAR_START has been resolved.
RadarDelivers ==
  /\ mirror.state = "on" /\ mirror.delivered < frames
  /\ \/ gate = "open" /\ Enter(Radar)
     \/ gate = "failed" /\ RadarOutcome(FALSE) /\ UNCHANGED <<outVars, restVars>>

\* Backpressure, or the integrity of the file.
MirrorFails ==
  /\ mirror.state = "on" /\ frames > 0
  /\ mirror' = [mirror EXCEPT !.state = "failed"]
  /\ cancelled' = TRUE
  /\ UNCHANGED <<phase, drain, dropped, recorded, mainVars, frames, outVars, restVars>>

-----------------------------------------------------------------------------
(* The main thread.                                                        *)

\* Mirror.Abort, which also cancels the capture; a sealed mirror stays sealed.
MirrorAbort ==
  /\ mirror' = [mirror EXCEPT !.state = IF @ = "sealed" THEN @ ELSE "aborted"]
  /\ cancelled' = (cancelled \/ mirror.state # "sealed")
  /\ UNCHANGED frames

\* abortStream up to the ABORT record, with a fresh terminal context.
AbortStream ==
  /\ pc' = "abort"
  /\ gate' = IF gate = "shut" THEN "failed" ELSE gate
  /\ MirrorAbort
  /\ expired' = FALSE
  /\ UNCHANGED <<frameStart, outVars, reader, radarDir, published>>

Step(from, to) == pc = from /\ pc' = to

\* Coordinator.Start, Arm and Start.
CoordinatorAdvances ==
  /\ Advances
  /\ Step("launch", "arm") \/ Step("arm", "start") \/ Step("start", "radio")
  /\ pc = "launch" => \A s \in Sources : drain[s] # "none" \/ dropped[s]
  /\ UNCHANGED <<err, frameStart, gate, radarVars, outVars, restVars>>

LaunchFails ==
  /\ pc = "launch" /\ phase' = "failed" /\ err' = TRUE
  /\ AbortStream
  /\ UNCHANGED <<drain, dropped, recorded>>

CoordinatorFails ==
  /\ pc \in {"arm", "start"} /\ Fails /\ err' = TRUE /\ pc' = "part"
  /\ UNCHANGED <<frameStart, gate, radarVars, outVars, restVars>>

\* The radar cannot be started, or no packet arrives.
RadioFails ==
  /\ Step("radio", "part") /\ err' = TRUE
  /\ UNCHANGED <<partVars, frameStart, gate, radarVars, outVars, restVars>>

\* RadarFrameStartObserved: the bracket is stored before RADAR_START is written.
FrameStartObserved ==
  /\ Step("radio", "observe") /\ frames > 0
  /\ frameStart' = "observed"
  /\ UNCHANGED <<partVars, err, gate, radarVars, outVars, restVars>>

FrameStartRejected ==
  /\ Step("radio", "capture") /\ frames > 0
  /\ frameStart' = "failed" /\ gate' = "failed" /\ cancelled' = TRUE
  /\ UNCHANGED <<phase, drain, dropped, recorded, err, radarVars, outVars, restVars>>

\* The receiver ends: complete, or with an error or a cancelled context.
CaptureEnds ==
  /\ Step("capture", "part")
  /\ err' \in (IF frames = MaxRadarFrames /\ ~cancelled THEN BOOLEAN ELSE {TRUE})
  /\ UNCHANGED <<partVars, frameStart, gate, radarVars, outVars, restVars>>

\* Participant.Finish of the application, true or false.
ParticipantCompletes ==
  /\ Step("part", "mirror") /\ ~err /\ Finishes
  /\ err' = (frameStart # "observed")
  /\ UNCHANGED <<frameStart, gate, radarVars, outVars, restVars>>

ParticipantAborts ==
  /\ Step("part", "mirror") /\ err' = TRUE
  /\ Fails \/ (phase = "failed" /\ UNCHANGED partVars)
  /\ UNCHANGED <<frameStart, gate, radarVars, outVars, restVars>>

\* Mirror.Err, then Abort or Seal.
MirrorAborted ==
  /\ Step("mirror", "finish") /\ err' = TRUE
  /\ err \/ mirror.state = "failed" \/ mirror.delivered < frames
  /\ MirrorAbort
  /\ UNCHANGED <<phase, drain, dropped, recorded, frameStart, gate, outVars, restVars>>

\* Mutant: Seal does not wait for the delivery worker.
MirrorSealedEarly ==
  /\ Step("mirror", "radarCommit") /\ ~err
  /\ mirror.state = "on"
  /\ mirror' = [mirror EXCEPT !.state = "sealed"]
  /\ UNCHANGED <<partVars, err, frameStart, gate, frames, outVars, restVars>>

MirrorSealed ==
  /\ Step("mirror", "radarCommit") /\ ~err
  /\ mirror.state = "on" /\ mirror.delivered = frames /\ call[Radar] = "idle"
  /\ mirror' = [mirror EXCEPT !.state = "sealed"]
  /\ UNCHANGED <<partVars, err, frameStart, gate, frames, outVars, restVars>>

\* SessionDirectory.CommitContext of the radar source.
RadarCommitted ==
  /\ Step("radarCommit", "finish")
  /\ \E ok \in IF cancelled THEN {FALSE} ELSE BOOLEAN :
       radarDir' = ok /\ err' = ~ok
  /\ UNCHANGED <<partVars, frameStart, gate, radarVars, outVars, reader, expired, published>>

\* finish, FinalizeRadarSource and Directory.CommitContext.
Published ==
  /\ Step("finish", "end") /\ ~err /\ ~cancelled
  /\ published' = TRUE /\ expired' = FALSE
  /\ UNCHANGED <<partVars, err, frameStart, gate, radarVars, outVars, reader, radarDir>>

FinishAborts ==
  /\ pc = "finish" /\ err' = TRUE
  /\ AbortStream
  /\ UNCHANGED <<phase, drain, dropped, recorded>>

\* Ctrl-C.
Interrupted == pc # "done" /\ Participates(Cancels)

MainCalls == pc \in {"config", "observe", "end", "commit", "abort"} /\ Enter(Main)

MainStep ==
  \/ MainCalls \/ CoordinatorAdvances \/ LaunchFails \/ CoordinatorFails
  \/ RadioFails \/ FrameStartObserved \/ FrameStartRejected \/ CaptureEnds
  \/ ParticipantCompletes \/ ParticipantAborts \/ MirrorAborted \/ MirrorSealed
  \/ RadarCommitted \/ Published \/ FinishAborts

StreamStep(c) == CancellationCloses(c) \/ Acquire(c) \/ Written(c) \/ WriteBreaks(c)

Next ==
  \/ MainStep \/ TerminalDeadline \/ Interrupted \/ ReaderStops
  \/ RadarFrame \/ RadarDelivers \/ MirrorFails
  \/ \E c \in Threads : StreamStep(c)
  \/ \E s \in Sources : SourceStep(s)

Fairness ==
  /\ WF_vars(MainStep) /\ WF_vars(TerminalDeadline)
  /\ \A c \in Threads : WF_vars(StreamStep(c))

Spec == Init /\ [][Next]_vars /\ Fairness

-----------------------------------------------------------------------------
(* Properties.                                                             *)

\* Every record the program manages to write is one the decoder accepts, in
\* whatever order the radar, the recorders and the main thread get the mutex,
\* fail or are cancelled; nothing follows a torn record or a terminal one.
ReaderNeverRejects == dec.state # "rejected"

\* A reader may rely on the last record.  COMMIT: session.json and the radar
\* are published, every required source is complete, and every complete source
\* has as many items in its payload as the reader has been given; a source that
\* is not complete is an optional one that was dropped.  ABORT: nothing was
\* published.
TerminalIsTruthful ==
  /\ dec.state = "COMMIT" =>
       /\ published /\ radarDir /\ dec.next[Radar] = frames
       /\ \A s \in Sources :
            IF dec.ended[s] = "complete"
            THEN dec.next[s] = recorded[s] /\ drain[s] = "over"
            ELSE s \notin Required /\ dropped[s]
  /\ dec.state = "ABORT" => ~published

\* Once the capture has ended the program ends, even if whoever reads the
\* stream never reads again.
FinishReturns == (pc = "part") ~> (pc = "done")
=============================================================================
