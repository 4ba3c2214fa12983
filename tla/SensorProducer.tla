--------------------------- MODULE SensorProducer ---------------------------
(***************************************************************************)
(* One external sensor: the protocol client and process supervisor in the  *)
(* capturing program (internal/sensorproducer) and, on the other side of   *)
(* two pipes, the camera producer the program ships                        *)
(* (internal/fixedframeproducer) with its camera child.                    *)
(*                                                                         *)
(* For every source: client[s] is Client and its State, child[s] is the    *)
(* producer process with the two pipes (inbox, out).  One record read,     *)
(* checked and queued by Client.run is one action; so is one record        *)
(* written by the producer.  `script` holds the records a producer that    *)
(* has decided what to answer still has to write.  Reaping is immediate:   *)
(* Process.done is closed when the client has ended and the child exited.  *)
(*                                                                         *)
(* Sequence numbers are left out: one request is outstanding at a time and *)
(* pipes keep order.  A record a conforming producer would not send at     *)
(* this point is a fault of the environment (Misbehaves).                  *)
(***************************************************************************)
EXTENDS Integers, Sequences, FiniteSets

CONSTANTS
  NumSources,  \* external sources of the plan, in plan order
  QueueSize,   \* ProcessOptions.QueueSize: capacity of Client.records
  Filming,     \* bound: the sources whose camera completes frames at all
  MaxEvents,   \* bound: frames such a camera completes, and faults, together
  MaxItems,    \* plan.Limits.MaxItems
  MaxFaults    \* bound: faults of the environment, all sources together

ASSUME ProducerAssumption ==
  /\ NumSources \in Nat \ {0}
  /\ QueueSize \in Nat \ {0}
  /\ Filming \subseteq 1 .. NumSources
  /\ MaxEvents \in Nat
  /\ MaxItems \in Nat \ {0}
  /\ MaxFaults \in Nat

VARIABLES
  client,    \* sensorproducer.Client, one per source
  child,     \* the producer process and its pipes, one per source
  cancelled, \* the capture context is cancelled
  faults     \* faults so far

pvars == <<client, child, cancelled, faults>>

Sources == 1 .. NumSources
Commands == {"READY", "ARM", "START", "STOP", "CANCEL"}
Unset == -1

\* Records on the wire, by what later decisions read of them.
ACK(command, ok) == [type |-> "ACK", command |-> command, ok |-> ok]
ITEM(frame) == [type |-> "ITEM", frame |-> frame]
END(frames) == [type |-> "END", frames |-> frames] \* counts and SHA-256
SESSION == [type |-> "SESSION"]
ERROR == [type |-> "ERROR"]
EOF == [type |-> "EOF"]

NewClient ==
  [phase |-> "init", pending |-> "none", ack |-> "none", queue |-> <<>>,
   open |-> TRUE, cause |-> FALSE, terminal |-> "none"]

NewChild ==
  [pc |-> "ready", inbox |-> <<>>, out |-> <<>>, script |-> <<>>,
   next |-> "none", camera |-> "off", frame |-> 0, held |-> 0,
   mark |-> Unset, boundary |-> 0, items |-> <<>>, code |-> 0]

\* Before StartProcess: nothing runs, and a client nobody can talk to.
NoClient == [NewClient EXCEPT !.open = FALSE, !.terminal = "failed"]
NoChild == [NewChild EXCEPT !.pc = "none"]

PInit ==
  /\ client = [s \in Sources |-> NoClient]
  /\ child = [s \in Sources |-> NoChild]
  /\ cancelled = FALSE
  /\ faults = 0

Fault ==
  /\ faults < MaxFaults
  /\ \A s \in Sources : child[s].frame + faults < MaxEvents
  /\ faults' = faults + 1

Alive(s) == child[s].pc \notin {"none", "exit"}

\* Process.done: the client has ended and the child has been waited for.
Converged(s) == client[s].terminal # "none" /\ ~Alive(s)

-----------------------------------------------------------------------------
(* Client and State: the capturing program's end of the pipes.             *)

\* Client.finish: close(records), close(done), close both pipes.  Of the rest
\* only the queue and a stored answer are still looked at.
Finish(c, failed) ==
  [NewClient EXCEPT !.terminal = IF failed THEN "failed" ELSE "ok",
                    !.open = FALSE, !.queue = c.queue, !.ack = c.ack]

\* State.fail and protocolFailure.
Fail(c) == [c EXCEPT !.phase = "failed", !.cause = TRUE]

CommandAllowed(phase, command) ==
  CASE command = "CANCEL" ->
         phase \in {"init", "ready", "armed", "started", "streaming"}
    [] command = "READY" -> phase = "init"
    [] command = "ARM" -> phase = "ready"
    [] command = "START" -> phase = "armed"
    [] command = "STOP" -> phase \in {"started", "streaming"}

Prepared(c, command) ==
  c.pending = "none" /\ CommandAllowed(c.phase, command)

PhaseAfter(command) ==
  CASE command = "READY" -> "ready"
    [] command = "ARM" -> "armed"
    [] command = "START" -> "started"
    [] command = "STOP" -> "stopped"
    [] command = "CANCEL" -> "canceled"

\* Client.run on an ACK: State.acceptACK, then the one-slot channel acks.
AcceptACK(c, record) ==
  LET expected == c.pending # "none" /\ c.pending = record.command
      accepted ==
        IF ~expected THEN Fail(c)
        ELSE IF ~record.ok THEN [Fail(c) EXCEPT !.pending = "none"]
        ELSE [c EXCEPT !.pending = "none", !.phase = PhaseAfter(record.command)]
  IN  IF c.ack # "none" THEN Finish(accepted, TRUE)
      ELSE IF expected
      THEN [accepted EXCEPT !.ack = IF record.ok THEN "ok" ELSE "rejected"]
      ELSE Finish([accepted EXCEPT !.ack = "rejected"], TRUE)

\* State.Accept: the phases in which a data record is valid, and the next one.
DataAllowed(c, record) ==
  CASE record.type = "SESSION" -> c.phase = "started"
    [] record.type = "ITEM" -> c.phase = "streaming"
    [] record.type = "END" -> c.phase = "stopped"
    [] record.type = "EOF" -> c.phase \in {"ended", "canceled", "failed"}
    [] record.type = "ERROR" -> TRUE

AcceptData(c, record) ==
  CASE record.type = "SESSION" -> [c EXCEPT !.phase = "streaming"]
    [] record.type = "ITEM" -> c
    [] record.type = "END" -> [c EXCEPT !.phase = "ended"]
    [] record.type = "EOF" -> [c EXCEPT !.phase = "eof"]
    [] record.type = "ERROR" -> [c EXCEPT !.phase = "failed", !.cause = TRUE]

\* Client.run on a data record: never waits for the reader of the queue.
Enqueue(c, record) ==
  IF Len(c.queue) < QueueSize
  THEN [c EXCEPT !.queue = Append(@, record)]
  ELSE Finish(c, TRUE)

Receive(c, record) ==
  IF record.type = "ACK" THEN AcceptACK(c, record)
  ELSE IF ~DataAllowed(c, record) THEN Finish(Fail(c), TRUE)
  ELSE Enqueue(AcceptData(c, record), record)

ClientReads(s) ==
  /\ client[s].terminal = "none" /\ client[s].open
  /\ child[s].out # <<>>
  /\ client' = [client EXCEPT ![s] = Receive(@, Head(child[s].out))]
  /\ child' = [child EXCEPT ![s].out =
                  IF client'[s].terminal = "none" THEN Tail(@) ELSE <<>>]
  /\ UNCHANGED <<cancelled, faults>>

\* The pipe is drained and the child is gone: AcceptTransportEOF.
ClientSeesEOF(s) ==
  /\ client[s].terminal = "none" /\ client[s].open
  /\ child[s].out = <<>> /\ ~Alive(s)
  /\ client' = [client EXCEPT ![s] =
       IF @.phase = "eof"
       THEN Finish([@ EXCEPT !.phase = "complete"], @.cause)
       ELSE Finish(Fail(@), TRUE)]
  /\ UNCHANGED <<child, cancelled, faults>>

\* The decoder fails because abort has closed the pipes: finish(abortCause).
ClientSeesAbort(s) ==
  /\ client[s].terminal = "none" /\ ~client[s].open
  /\ client' = [client EXCEPT ![s] = Finish(@, TRUE)]
  /\ child' = [child EXCEPT ![s].out = <<>>]
  /\ UNCHANGED <<cancelled, faults>>

\* Client.command up to the written request: it is refused, it breaks on a
\* closed pipe, or it is on its way.
CommandRefused(s, command) ==
  /\ client[s].terminal # "none" \/ ~Prepared(client[s], command)
  /\ UNCHANGED <<client, child>>

CommandBreaks(s, command) ==
  /\ client[s].terminal = "none" /\ Prepared(client[s], command)
  /\ ~client[s].open \/ ~Alive(s)
  /\ client' = [client EXCEPT ![s].pending = command, ![s].open = FALSE]
  /\ UNCHANGED child

CommandSent(s, command) ==
  /\ client[s].terminal = "none" /\ Prepared(client[s], command)
  /\ client[s].open /\ Alive(s)
  /\ client' = [client EXCEPT ![s].pending = command]
  /\ child' = [child EXCEPT ![s].inbox = Append(@, command)]

\* Client.command after the write, when its context lives: the select takes
\* whichever of acks and done is ready, and either one when both are.
CommandAnswered(s) ==
  /\ client[s].ack = "ok"
  /\ client' = [client EXCEPT ![s].ack = "none"]

CommandFails(s) ==
  \/ /\ client[s].ack = "rejected"
     /\ client' = [client EXCEPT ![s].ack = "none"]
  \/ client[s].terminal # "none" /\ UNCHANGED client

\* Its context ends: the AfterFunc closes the pipes.
CommandExpires(s) == client' = [client EXCEPT ![s].open = FALSE]

\* The process is gone: what remains is its exit code and what it wrote
\* (and the count of the frames, for the bound).
Gone(p, code) ==
  [NewChild EXCEPT !.pc = "exit", !.out = p.out, !.code = code, !.frame = p.frame]

\* Process.kill, a signal, or a return with an error.
Killed(p) == Gone(p, 1)

\* exec.CommandContext kills the child when the capture context ends.
ContextKills(s) ==
  /\ cancelled /\ Alive(s)
  /\ child' = [child EXCEPT ![s] = Killed(@)]
  /\ UNCHANGED <<client, cancelled, faults>>

-----------------------------------------------------------------------------
(* The camera producer.                                                    *)

Asked(s, command) == child[s].inbox # <<>> /\ Head(child[s].inbox) = command
Taken(p) == [p EXCEPT !.inbox = Tail(@)]

\* Answer with the records of `script`, then go on at `next`.
Answer(p, script, next) ==
  [Taken(p) EXCEPT !.pc = "write", !.script = script, !.next = next]

\* Terminate the camera, write the last records and exit.
LastWords(p, script, code) ==
  [NewChild EXCEPT !.pc = "write", !.script = script, !.next = "exit",
                   !.code = code, !.out = p.out, !.frame = p.frame]

CancelScript(p) == LastWords(p, <<ACK("CANCEL", TRUE), EOF>>, 0)
FailScript(p) == LastWords(p, <<ERROR, EOF>>, 1)

\* producer.run up to ARM.
ServeReady(s) ==
  /\ child[s].pc = "ready" /\ Asked(s, "READY")
  /\ child' = [child EXCEPT ![s] =
       Answer(@, <<ACK("READY", TRUE)>>, "arm")]
  /\ UNCHANGED <<client, cancelled, faults>>

ServeArm(s) ==
  /\ child[s].pc = "arm" /\ Asked(s, "ARM")
  /\ child' = [child EXCEPT ![s] =
       Answer([@ EXCEPT !.camera = "on"], <<ACK("ARM", TRUE)>>, "idle")]
  /\ UNCHANGED <<client, cancelled, faults>>

\* startCameraChild fails: reject.
ArmFails(s) ==
  /\ child[s].pc = "arm" /\ Asked(s, "ARM")
  /\ Fault
  /\ child' = [child EXCEPT ![s] =
       LastWords(@, <<ACK("ARM", FALSE), ERROR, EOF>>, 1)]
  /\ UNCHANGED <<client, cancelled>>

\* CANCEL in any state that waits for a request.
ServeCancel(s) ==
  /\ child[s].pc \in {"ready", "arm", "idle", "stream"}
  /\ Asked(s, "CANCEL")
  /\ child' = [child EXCEPT ![s] = CancelScript(@)]
  /\ UNCHANGED <<client, cancelled, faults>>

\* awaitStart: the goroutine that reads the request also reads the frame
\* boundary; the loop may discard more frames before it takes the result.
MarkBoundary(s) ==
  /\ child[s].pc = "idle" /\ Asked(s, "START")
  /\ child[s].mark = Unset
  /\ child' = [child EXCEPT ![s].mark = child[s].frame]
  /\ UNCHANGED <<client, cancelled, faults>>

ServeStart(s) ==
  /\ child[s].pc = "idle" /\ child[s].mark # Unset
  /\ child' = [child EXCEPT ![s] =
       Answer([@ EXCEPT !.boundary = child[s].mark, !.mark = Unset],
              <<ACK("START", TRUE), SESSION>>, "stream")]
  /\ UNCHANGED <<client, cancelled, faults>>

\* discardPreStart.
DiscardPreStart(s) ==
  /\ child[s].pc = "idle" /\ child[s].held # 0
  /\ child' = [child EXCEPT ![s].held = 0]
  /\ UNCHANGED <<client, cancelled, faults>>

\* readFrames: one complete frame at a time, held until it is consumed.
CameraFrame(s) ==
  /\ child[s].camera = "on" /\ Alive(s) /\ child[s].pc # "stuck"
  /\ child[s].held = 0 /\ s \in Filming /\ child[s].frame + faults < MaxEvents
  /\ child' = [child EXCEPT ![s].frame = @ + 1, ![s].held = child[s].frame + 1]
  /\ UNCHANGED <<client, cancelled, faults>>

\* Mutant: the frame that completed last before START slips through.
DiscardedButLast(p) == p.held < p.boundary

\* A frame that was complete when START arrived is not part of the stream.
Discarded(p) == p.held <= p.boundary

StreamFrame(s) ==
  /\ child[s].pc = "stream" /\ child[s].held # 0 /\ client[s].open
  /\ child' = [child EXCEPT ![s] =
       IF Discarded(@) THEN [@ EXCEPT !.held = 0]
       ELSE IF Len(@.items) >= MaxItems THEN FailScript(@)
       ELSE [@ EXCEPT !.out = Append(child[s].out, ITEM(child[s].held)),
                      !.items = Append(child[s].items, child[s].held), !.held = 0]]
  /\ UNCHANGED <<client, cancelled, faults>>

\* frameFailure: the reader met the end of the camera's output.
CameraLost(s) ==
  /\ child[s].pc \in {"idle", "stream"}
  /\ child[s].camera = "gone" /\ child[s].held = 0
  /\ child' = [child EXCEPT ![s] = FailScript(@)]
  /\ UNCHANGED <<client, cancelled, faults>>

\* stop: terminate reports a camera that had exited by itself if its exit
\* has been noticed; only then is the stream a failed one.
ServeStop(s) ==
  /\ child[s].pc = "stream" /\ Asked(s, "STOP")
  /\ \E alreadyExited \in IF child[s].camera = "gone" THEN BOOLEAN ELSE {FALSE} :
       child' = [child EXCEPT ![s] =
         IF alreadyExited
         THEN LastWords(@, <<ACK("STOP", TRUE), ERROR, EOF>>, 1)
         ELSE LastWords(@, <<ACK("STOP", TRUE), END(@.items), EOF>>, 0)]
  /\ UNCHANGED <<client, cancelled, faults>>

\* Encoder.Write: the records of the answer, then the producer goes on.
ChildWrites(s) ==
  /\ child[s].pc = "write" /\ client[s].open
  /\ child' = [child EXCEPT ![s] =
       LET wrote == [@ EXCEPT !.out = child[s].out \o child[s].script, !.script = <<>>]
       IN  IF wrote.next = "exit" THEN Gone(wrote, wrote.code)
           ELSE [wrote EXCEPT !.pc = wrote.next, !.next = "none"]]
  /\ UNCHANGED <<client, cancelled, faults>>

\* The other end is closed: reading the request fails, or writing does.
ChildBroken(s) ==
  /\ child[s].pc \in {"ready", "arm", "idle", "stream", "write"}
  /\ ~client[s].open
  /\ child' = [child EXCEPT ![s] = Killed(@)]
  /\ UNCHANGED <<client, cancelled, faults>>

-----------------------------------------------------------------------------
(* What the environment may do to a producer.                              *)

\* The producer crashes, is killed, or gets the user's signal, between any
\* two records of an answer.
ChildDies(s) ==
  /\ Alive(s) /\ Fault
  /\ \E n \in 0 .. Len(child[s].script) :
       child' = [child EXCEPT ![s] =
         Killed([@ EXCEPT !.out = child[s].out \o SubSeq(child[s].script, 1, n)])]
  /\ UNCHANGED <<client, cancelled>>

\* The producer hangs for good, whatever happens to its pipes.
ChildHangs(s) ==
  /\ child[s].pc \in {"ready", "arm", "idle", "stream", "write"} /\ Fault
  /\ child' = [child EXCEPT ![s].pc = "stuck"]
  /\ UNCHANGED <<client, cancelled>>

\* The camera exits, or its output ends.
CameraExits(s) ==
  /\ child[s].camera = "on" /\ Alive(s) /\ Fault
  /\ child' = [child EXCEPT ![s].camera = "gone"]
  /\ UNCHANGED <<client, cancelled>>

\* A record that does not belong here; an ITEM the final count leaves out.
Rogue == {ACK("START", TRUE), ITEM(0)}

Misbehaves(s) ==
  /\ child[s].pc \in {"idle", "stream"} /\ client[s].open /\ Fault
  /\ \E record \in Rogue : child' = [child EXCEPT ![s].out = Append(@, record)]
  /\ UNCHANGED <<client, cancelled>>

ClientStep(s) == ClientReads(s) \/ ClientSeesEOF(s) \/ ClientSeesAbort(s)

ProducerStep(s) ==
  \/ ServeReady(s) \/ ServeArm(s) \/ ServeCancel(s) \/ MarkBoundary(s)
  \/ ServeStart(s) \/ DiscardPreStart(s) \/ StreamFrame(s) \/ CameraLost(s)
  \/ ServeStop(s) \/ ChildWrites(s) \/ ChildBroken(s)

SourceFault(s) ==
  \/ ArmFails(s) \/ ChildDies(s) \/ ChildHangs(s) \/ CameraExits(s)
  \/ Misbehaves(s)
=============================================================================
