------------------------- MODULE MultiSensorCapture -------------------------
(***************************************************************************)
(* The multi-sensor coordinator and its recorders                          *)
(* (internal/multisensorcapture) with the producers of SensorProducer.     *)
(*                                                                         *)
(* The coordinator runs on its caller's thread, under its mutex, one       *)
(* source after the other: coord.pc is where it is with source coord.at in *)
(* operation coord.op.  "abort", "abortAck", "abortWait" and "abortDrain"  *)
(* are sourceWorker.abort with Process.Cancel inlined.  A deadline may     *)
(* pass at any moment at which it is waited for.  Every source has a       *)
(* recorder (worker[s]) on a thread of its own.                            *)
(***************************************************************************)
EXTENDS SensorProducer

CONSTANT Required \* the sources whose plan says required

ASSUME RequiredAssumption == Required \subseteq Sources

VARIABLES
  coord,  \* Coordinator and the position of the call in progress
  slot,   \* sourceSlot: failure of each source, nil or not
  worker, \* sourceWorker, one per source
  dir     \* the source's directory in OUT.part: "none", "made" or "removed"

mvars == <<pvars, coord, slot, worker, dir>>

NewWorker ==
  [state |-> "read", seen |-> "nothing", got |-> <<>>, failed |-> FALSE,
   intentional |-> FALSE, stop |-> FALSE,
   from |-> 0] \* history: frames complete when START was sent
NoWorker == [NewWorker EXCEPT !.state = "none"]

\* What remains of a recorder that gave up.
Broken == [NewWorker EXCEPT !.state = "done", !.failed = TRUE]

MInit ==
  /\ PInit
  /\ coord = [phase |-> "starting", pc |-> "launch", op |-> "READY", at |-> 1,
              fatal |-> FALSE, late |-> FALSE, over |-> FALSE]
  /\ slot = [s \in Sources |-> "ok"]
  /\ worker = [s \in Sources |-> NoWorker]
  /\ dir = [s \in Sources |-> "none"]

-----------------------------------------------------------------------------
(* The recorder: newSourceWorker's goroutine, drain and readStream.        *)

Drained(s) == worker[s].state \in {"none", "done"}

\* The context of the drain: cancelled by drainCancel and with the capture.
DrainStopped(s) == worker[s].stop \/ cancelled

\* readStream on one record: where it goes next.
Recorded(w, record) ==
  CASE record.type = "SESSION" /\ w.seen = "nothing" ->
         [w EXCEPT !.seen = "session"]
    [] record.type = "ITEM" /\ w.seen = "session" /\ Len(w.got) < MaxItems ->
         [w EXCEPT !.got = Append(@, record.frame), !.state = "sink"]
    [] record.type = "END" /\ w.seen = "session" /\ record.frames = w.got ->
         [w EXCEPT !.seen = "end"]
    [] record.type = "EOF" /\ w.seen = "end" -> [w EXCEPT !.seen = "eof"]
    [] OTHER -> Broken

\* Mutant: nobody is told that a required source was lost.
Unreported(s) == UNCHANGED cancelled

\* drain has returned: its error is stored, a required source reports a
\* failure nobody intended, which cancels the capture, and done is closed.
Reported(s) ==
  cancelled' = (cancelled \/ (worker'[s].state = "done" /\ worker'[s].failed
                              /\ ~worker[s].intentional /\ s \in Required))

\* Next prefers a queued record to everything else.
RecorderReads(s) ==
  /\ worker[s].state = "read" /\ client[s].queue # <<>>
  /\ worker' = [worker EXCEPT ![s] = Recorded(@, Head(client[s].queue))]
  /\ client' = [client EXCEPT ![s].queue = Tail(@)]
  /\ Reported(s)
  /\ UNCHANGED <<child, faults, coord, slot, dir>>

\* Writing the payload, the index or the sink's record fails.
RecorderFails(s) ==
  /\ worker[s].state = "sink" \/ (worker[s].state = "read" /\ client[s].queue # <<>>)
  /\ Fault
  /\ worker' = [worker EXCEPT ![s] = Broken]
  /\ Reported(s)
  /\ UNCHANGED <<client, child, coord, slot, dir>>

\* ItemSink.WriteItem returns; with its context cancelled it may fail.
SinkReturns(s) ==
  /\ worker[s].state = "sink"
  /\ \E failed \in IF DrainStopped(s) THEN BOOLEAN ELSE {FALSE} :
       worker' = [worker EXCEPT ![s] =
         IF failed THEN Broken ELSE [@ EXCEPT !.state = "read"]]
  /\ Reported(s)
  /\ UNCHANGED <<client, child, faults, coord, slot, dir>>

\* The queue is empty and Next reports the end of the client, or its context.
RecorderEnds(s) ==
  /\ worker[s].state = "read" /\ client[s].queue = <<>>
  /\ \/ client[s].terminal # "none"
     \/ DrainStopped(s)
  /\ worker' = [worker EXCEPT ![s] =
       IF client[s].terminal = "ok" /\ @.seen = "eof"
       THEN [@ EXCEPT !.state = "done"] ELSE Broken]
  /\ Reported(s)
  /\ UNCHANGED <<client, child, faults, coord, slot, dir>>

-----------------------------------------------------------------------------
(* Control flow of the coordinator.                                        *)

\* The context of a command, an abort or a drain ends.  It may while the
\* source cannot move on its own (a hung producer, a blocked sink) and while
\* an ended capture context takes a derived one with it; a deadline that
\* passes on a source that is merely slow is one of the faults.
Deadline(s) ==
  IF child[s].pc = "stuck" \/ worker[s].state = "sink"
       \/ (cancelled /\ coord.op \in {"ARM", "START"})
  THEN UNCHANGED faults ELSE Fault

At(pc) == coord.pc = pc
Here == coord.at
Go(pc) == coord' = [coord EXCEPT !.pc = pc]
Idle == coord.pc = "idle"

FirstPc(op) ==
  CASE op = "READY" -> "launch" [] op = "ABORT" -> "abort"
    [] op = "COLLECT" -> "collect" [] OTHER -> "send"

\* slot.failure == nil, or abortAllLocked on a slot with a worker.
Concerned(op, s) ==
  CASE op = "ABORT" -> worker[s].state # "none"
    [] op \in {"READY", "COLLECT"} -> TRUE
    [] OTHER -> slot[s] = "ok"

Least(S) == CHOOSE s \in S : \A t \in S : s <= t

\* The call is over.
Back(c, phase) ==
  [c EXCEPT !.phase = phase, !.pc = "idle", !.at = 0, !.op = "none"]

\* The loop of `op` at its first source after `from`, or what follows it.
Loop(c, op, from, after) ==
  LET todo == {s \in Sources : s > from /\ Concerned(op, s)}
  IN  IF todo = {} THEN after
      ELSE [c EXCEPT !.op = op, !.pc = FirstPc(op), !.at = Least(todo)]

Aborting(c) == Loop(c, "ABORT", 0, Back(c, "failed"))

AfterLoop(c) ==
  CASE c.op = "READY" -> Back(c, "ready")
    [] c.op = "ARM" -> Back(c, "armed")
    [] c.op = "START" -> Back(c, "started")
    [] c.op = "STOP" -> Loop(c, "COLLECT", 0, c)
    [] c.op = "COLLECT" -> IF c.fatal THEN Aborting(c) ELSE Back(c, "finished")
    [] c.op = "ABORT" -> Back(c, "failed")

Advanced(c) == Loop(c, c.op, c.at, AfterLoop(c))
Entered(c, op) == Advanced([c EXCEPT !.op = op, !.at = 0])

\* The context of Ready, Arm or Start has ended; Stop has its own.
ContextDone == coord.late \/ (cancelled /\ coord.op # "STOP")

\* Start, one source: its directory, its process, its recorder.
Launch ==
  /\ At("launch") /\ ~cancelled
  /\ coord' = [coord EXCEPT !.pc = "send", !.late = FALSE]
  /\ dir' = [dir EXCEPT ![Here] = "made"]
  /\ client' = [client EXCEPT ![Here] = NewClient]
  /\ child' = [child EXCEPT ![Here] = NewChild]
  /\ worker' = [worker EXCEPT ![Here] = NewWorker]
  /\ UNCHANGED <<cancelled, faults, slot>>

\* The context has ended, or the directory or the process cannot be created.
Unlaunched ==
  /\ At("launch")
  /\ slot' = [slot EXCEPT ![Here] = "failed"]
  /\ Go("remove")
  /\ UNCHANGED <<client, child, cancelled, worker, dir>>

LaunchRefused == cancelled /\ Unlaunched /\ UNCHANGED faults
LaunchFails == ~cancelled /\ Fault /\ Unlaunched

\* The process runs, the payload file cannot be created: stopUnownedProducer.
LaunchUnowned ==
  /\ At("launch") /\ ~cancelled /\ Fault
  /\ Go("abort")
  /\ slot' = [slot EXCEPT ![Here] = "failed"]
  /\ dir' = [dir EXCEPT ![Here] = "made"]
  /\ client' = [client EXCEPT ![Here] = NewClient]
  /\ child' = [child EXCEPT ![Here] = NewChild]
  /\ UNCHANGED <<cancelled, worker>>

\* Ready, Arm, Start or Stop of the current source.
Send ==
  /\ At("send") /\ ~ContextDone
  /\ CommandSent(Here, coord.op)
  /\ Go("await")
  /\ worker' = [worker EXCEPT ![Here].from =
                   IF coord.op = "START" THEN child[Here].frame ELSE @]
  /\ UNCHANGED <<cancelled, faults, slot, dir>>

CommandOK ==
  /\ At("await") /\ ~ContextDone
  /\ CommandAnswered(Here)
  /\ coord' = Advanced(coord)
  /\ UNCHANGED <<child, cancelled, faults, slot, worker, dir>>

\* The command failed: slot.failure is set and the worker is aborted.
GiveUp(late) ==
  /\ slot' = [slot EXCEPT ![Here] = "failed"]
  /\ coord' = [coord EXCEPT !.pc = "abort", !.late = late]

SendFails ==
  /\ At("send")
  /\ \/ ContextDone /\ UNCHANGED <<client, child>>
     \/ ~ContextDone /\ CommandRefused(Here, coord.op)
     \/ ~ContextDone /\ CommandBreaks(Here, coord.op)
  /\ GiveUp(coord.late)
  /\ UNCHANGED <<cancelled, faults, worker, dir>>

CommandFailed ==
  /\ At("await")
  /\ CommandFails(Here)
  /\ GiveUp(coord.late)
  /\ UNCHANGED <<child, cancelled, faults, worker, dir>>

\* The context of the operation ends while it waits for the answer.
CommandTimesOut ==
  /\ At("await")
  /\ IF cancelled /\ ContextDone THEN UNCHANGED faults ELSE Deadline(Here)
  /\ CommandExpires(Here)
  /\ GiveUp(~cancelled)
  /\ UNCHANGED <<child, cancelled, worker, dir>>

\* sourceWorker.abort and the failure path of collect: CANCEL first.
AbortCancels ==
  /\ At("abort")
  /\ worker' = [worker EXCEPT ![Here].intentional =
                   @ \/ (coord.op # "COLLECT" /\ ~Drained(Here))]
  /\ \/ CommandSent(Here, "CANCEL") /\ Go("abortAck")
     \/ CommandRefused(Here, "CANCEL") /\ Go("abortWait")
     \/ CommandBreaks(Here, "CANCEL") /\ Go("abortWait")
  /\ UNCHANGED <<cancelled, faults, slot, dir>>

AbortAnswered ==
  /\ At("abortAck")
  /\ CommandAnswered(Here) \/ CommandFails(Here)
  /\ Go("abortWait")
  /\ UNCHANGED <<child, cancelled, faults, slot, worker, dir>>

AbortTimesOut ==
  /\ At("abortAck") /\ Deadline(Here)
  /\ CommandExpires(Here)
  /\ Go("abortWait")
  /\ UNCHANGED <<child, cancelled, slot, worker, dir>>

\* Process.Wait proves that the child is gone; then drainCancel.
AbortConverges ==
  /\ At("abortWait") /\ Converged(Here)
  /\ worker' = [worker EXCEPT ![Here].stop = ~Drained(Here)]
  /\ Go("abortDrain")
  /\ UNCHANGED <<pvars, slot, dir>>

\* The bound passes first: close the pipes and kill, once, without waiting.
AbortKills ==
  /\ At("abortWait") /\ ~Converged(Here) /\ Deadline(Here)
  /\ client' = [client EXCEPT ![Here].open = FALSE]
  /\ child' = [child EXCEPT ![Here] = IF Alive(Here) THEN Killed(@) ELSE @]
  /\ worker' = [worker EXCEPT ![Here].stop = ~Drained(Here)]
  /\ coord' = [coord EXCEPT !.pc = "abortDrain", !.fatal = TRUE]
  /\ UNCHANGED <<cancelled, slot, dir>>

\* After the abort: remove the source, or go on with the loop.
AfterAbort(c) ==
  IF c.op \in {"STOP", "ABORT"}
  THEN Advanced([c EXCEPT !.fatal = @ \/ (c.op = "STOP" /\ c.at \in Required)])
  ELSE [c EXCEPT !.pc = "remove"]

\* waitForDrain.
AbortDrained ==
  /\ At("abortDrain") /\ Drained(Here)
  /\ coord' = AfterAbort(coord)
  /\ UNCHANGED <<pvars, slot, worker, dir>>

AbortUndrained ==
  /\ At("abortDrain") /\ ~Drained(Here) /\ Deadline(Here)
  /\ coord' = AfterAbort([coord EXCEPT !.fatal = TRUE])
  /\ UNCHANGED <<client, child, cancelled, slot, worker, dir>>

\* Mutant: a cleanup that did not converge is not fatal.
FatalIfRequired(c) == c.at \in Required

\* Whether the failure of one source ends the operation for all: an unclean
\* process or directory, or a required source.
Fatal(c) == c.fatal \/ c.at \in Required

AfterRemove(c) ==
  IF c.op = "COLLECT" THEN Advanced([c EXCEPT !.fatal = Fatal(c)])
  ELSE IF Fatal(c)
  THEN Aborting([c EXCEPT !.fatal = TRUE, !.over = c.op = "READY"])
  ELSE Advanced(c)

\* removeSource: os.RemoveAll of the source's directory.
Remove ==
  /\ At("remove")
  /\ dir' = [dir EXCEPT ![Here] = "removed"]
  /\ coord' = AfterRemove(coord)
  /\ UNCHANGED <<pvars, slot, worker>>

RemoveFails ==
  /\ At("remove") /\ Fault
  /\ coord' = AfterRemove([coord EXCEPT !.fatal = TRUE])
  /\ UNCHANGED <<client, child, cancelled, slot, worker, dir>>

-----------------------------------------------------------------------------
(* Finish(true): collect what every source recorded.                       *)

\* A source that failed at STOP only has its directory removed.
CollectFailed ==
  /\ At("collect") /\ slot[Here] = "failed"
  /\ Go("remove")
  /\ UNCHANGED <<pvars, slot, worker, dir>>

Collected ==
  /\ At("collect") /\ slot[Here] = "ok" /\ Drained(Here) /\ Converged(Here)
  /\ LET failed == worker[Here].failed \/ child[Here].code # 0
                   \/ client[Here].terminal = "failed"
     IN  /\ slot' = [slot EXCEPT ![Here] = IF failed THEN "failed" ELSE "ok"]
         /\ coord' = IF failed THEN [coord EXCEPT !.pc = "remove"]
                     ELSE Advanced(coord)
  /\ UNCHANGED <<pvars, worker, dir>>

\* Mutant: the drain is waited for without the caller's context.
CollectTimesOutDrained ==
  /\ At("collect") /\ slot[Here] = "ok" /\ Deadline(Here)
  /\ Drained(Here) /\ ~Converged(Here)
  /\ coord' = [coord EXCEPT !.pc = "remove", !.fatal = TRUE]
  /\ slot' = [slot EXCEPT ![Here] = "failed"]
  /\ UNCHANGED <<client, child, cancelled, worker, dir>>

\* The deadline passes: before the drain, which is then aborted, or after it,
\* while the child is waited for.
CollectTimesOut ==
  /\ At("collect") /\ slot[Here] = "ok" /\ Deadline(Here)
  /\ \/ ~Drained(Here)
        /\ coord' = [coord EXCEPT !.pc = "abort", !.fatal = TRUE]
     \/ Drained(Here) /\ ~Converged(Here)
        /\ coord' = [coord EXCEPT !.pc = "remove", !.fatal = TRUE]
  /\ slot' = [slot EXCEPT ![Here] = "failed"]
  /\ UNCHANGED <<client, child, cancelled, worker, dir>>

\* The calls of session.Run and of the application: Arm, Start, then Finish
\* once; Finish(true) only after both, Finish(false) at any point, and as the
\* answer to an error of Arm or Start.
Call(phases, op, over) ==
  /\ Idle /\ ~coord.over /\ coord.phase \in phases
  /\ coord' = [Entered(coord, op) EXCEPT !.late = FALSE, !.over = over]
  /\ UNCHANGED <<pvars, slot, worker, dir>>

Arm == Call({"ready"}, "ARM", FALSE)
Start == Call({"armed"}, "START", FALSE)
FinishComplete == Call({"started"}, "STOP", TRUE)
FinishAborted == Call({"ready", "armed", "started", "failed"}, "ABORT", TRUE)

\* Ctrl-C, or a failure of the radar side: the capture context ends.
CaptureCancelled ==
  /\ ~cancelled /\ Fault
  /\ cancelled' = TRUE
  /\ UNCHANGED <<client, child, coord, slot, worker, dir>>

CommandStep ==
  \/ Send \/ SendFails \/ CommandOK \/ CommandFailed \/ CommandTimesOut
AbortStep ==
  \/ AbortCancels \/ AbortAnswered \/ AbortTimesOut \/ AbortConverges
  \/ AbortKills \/ AbortDrained \/ AbortUndrained
CoordinatorStep ==
  \/ Launch \/ LaunchRefused \/ CommandStep \/ AbortStep \/ Remove
  \/ CollectFailed \/ Collected \/ CollectTimesOut
CoordinatorFault == LaunchFails \/ LaunchUnowned \/ RemoveFails
CallerStep == Arm \/ Start \/ FinishComplete \/ FinishAborted

RecorderStep(s) == RecorderReads(s) \/ RecorderEnds(s)

\* The steps of SensorProducer leave the coordinator alone.
Outside(A) == A /\ UNCHANGED <<coord, slot, worker, dir>>

\* What the scheduler runs: the coordinator, the goroutines and the producers
\* that are not stuck.  A sink may block for good, and a camera may stay dark.
SystemStep ==
  \/ CoordinatorStep
  \/ \E s \in Sources :
       \/ RecorderStep(s)
       \/ Outside(ClientStep(s) \/ ContextKills(s) \/ ProducerStep(s))

MNext ==
  \/ SystemStep \/ CoordinatorFault \/ CallerStep \/ CaptureCancelled
  \/ \E s \in Sources :
       \/ SinkReturns(s) \/ RecorderFails(s)
       \/ Outside(CameraFrame(s) \/ SourceFault(s))

\* No behaviour repeats a step forever, so it is enough that the scheduler
\* never leaves everything that can run standing.
Fairness == WF_mvars(SystemStep)

MSpec == MInit /\ [][MNext]_mvars /\ Fairness

-----------------------------------------------------------------------------
(* Properties.                                                             *)

Returned == Idle /\ coord.phase \in {"finished", "failed"}

\* What Finish(true) reports as complete is exact: the payload of a source that
\* did not fail holds consecutive camera frames, none of them complete before
\* START was sent, up to the count the producer announced in END, and its
\* directory is still there.  Frame boundary in awaitStart, queue and recorder
\* of readStream, and cleanup of the coordinator together.
CompleteIsExact ==
  coord.phase = "finished" =>
    \A s \in Sources : slot[s] = "ok" =>
      /\ dir[s] = "made" /\ worker[s].seen = "eof"
      /\ \A i \in DOMAIN worker[s].got :
           /\ worker[s].got[i] > worker[s].from
           /\ i > 1 => worker[s].got[i] = worker[s].got[i - 1] + 1

\* When the coordinator has returned for good, no producer runs, whatever hung,
\* crashed or timed out; when it reports success, every child has been reaped,
\* every recorder has stopped, and a failed source has left no directory.
NothingLeftBehind ==
  Returned =>
    \A s \in Sources :
      /\ ~Alive(s)
      /\ coord.phase = "finished" =>
           /\ Converged(s) /\ Drained(s)
           /\ slot[s] = "failed" => dir[s] = "removed"

\* Every call of the coordinator returns: Start, Arm, Start and Finish, with a
\* producer that hangs, a sink that never returns, or a cancelled capture.
OperationReturns == [](~Idle => <>Idle)

\* The contract, in terms of this module: a recorder that runs is a drain that
\* is on; a source is dropped from the moment its slot fails, its abort begins
\* or its recorder breaks.
DrainOf(w) ==
  CASE w.state = "none" -> "none"
    [] w.state \in {"read", "sink"} -> "on"
    [] w.state = "done" -> IF w.failed THEN "lost" ELSE "over"

Drains == [s \in Sources |-> DrainOf(worker[s])]
Dropped ==
  [s \in Sources |->
    slot[s] = "failed" \/ worker[s].intentional \/ worker[s].failed]
Payloads == [s \in Sources |-> Len(worker[s].got)]

Abstract ==
  INSTANCE Participant WITH
    MaxRecorded <- MaxItems,
    phase <- coord.phase,
    drain <- Drains,
    dropped <- Dropped,
    recorded <- Payloads

\* The coordinator keeps the contract of Participant: it finishes only when all
\* drains are over and no required source was lost, nothing is recorded after
\* that, and a required source that is lost ends the capture.
ImplementsParticipant == Abstract!PartSpec
=============================================================================
