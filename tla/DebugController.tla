--------------------------- MODULE DebugController ---------------------------
(***************************************************************************)
(* The radar of debug-cli capture (internal/debugcapture): the optional    *)
(* SOP2 reset over bit-banged pins, the Enhanced COM monitor with its baud *)
(* negotiation and part gate, the firmware download, the D2XX transport,   *)
(* the mmWaveLink bootstrap, and the Controller that one capture session   *)
(* drives until the command ends.                                          *)
(*                                                                         *)
(* The code is sequential: op is the operation in progress and todo what   *)
(* is left of its script.  What makes it hard is the other side.  A write  *)
(* may be cut in the middle or arrive unnoticed, a read may stay silent or *)
(* come back garbled, events overtake responses, the target may refuse or  *)
(* ignore a command, a finite frame ends by itself, and the context of the *)
(* capture may be cancelled between any two steps.                         *)
(***************************************************************************)
EXTENDS Integers, Sequences, FiniteSets, SequencesExt

CONSTANTS
  Blocks,      \* memory writes of each firmware image
  QueueLimit,  \* mmWaveLinkAsyncQueueLimit
  MaxReports   \* bound: events and stray messages the target sends unasked

ASSUME DebugAssumption ==
  /\ Blocks \in Nat \ {0}
  /\ QueueLimit \in Nat
  /\ MaxReports \in Nat

VARIABLES
  options,    \* reset: --sop2-reset, warm: boot policy, finite: frame plan
  op,         \* the operation in progress
  todo,       \* the steps it has left
  handles,    \* open ports and interfaces
  baud,       \* rate at which the Enhanced COM port is open
  link,       \* mmWaveLink: command on its way, messages to the host, queue
  ctl,        \* controllerState
  outcome,    \* what the command returns, and what Run's cleanup consults
  cancelled,  \* the capture context is cancelled
  target,     \* the radar itself
  sent,       \* commands and pin writes handed to the target
  unknown,    \* a write ended with an unknown result
  reports     \* messages the target sent unasked

vars == <<options, op, todo, handles, baud, link, ctl, outcome, cancelled,
          target, sent, unknown, reports>>

Fast == 921600
Cold == 115200

Exec(c) == [do |-> "exec", what |-> c]
Await(e) == [do |-> "await", what |-> e]

Copies(step, n) == [i \in 1 .. n |-> step]

-----------------------------------------------------------------------------
(* The scripts.                                                            *)

\* prepareSOP2TargetWithBackend: interface D selects SOP2, C pulses NRST.
ResetScript ==
  <<"openGPIO", "initGPIO", "writeSOP2", "openReset", "initReset",
    "assertNRST", "releaseNRST">>

\* initialize: three wakes around the read of the monitor's status.
InitializeScript == <<"wake", "wake", "readStatus", "wake">>

\* Mutant: the cold side of the negotiation trusts the probe alone.
NegotiateScript_ungated ==
  <<"wake", "readStatus", "readClock", "writeClock", "writeBaud">>

\* negotiateEnhancedCOMBaud up to the close of the cold-boot port.
NegotiateScript ==
  <<"wake", "readStatus", "readPart", "readClock", "writeClock", "writeBaud">>

\* submitBSS, then submitMSS: unlock, power and map, poll, write the image.  One
\* writeRegister stands for each run of register writes, poll for the reads of
\* one register until it is ready.
SubmitScript ==
  <<"writeRegister", "poll", "writeRegister", "readRegister", "writeRegister",
    "poll", "writeRegister">> \o Copies("writeBlock", Blocks) \o
  <<"writeRegister", "poll", "writeRegister">> \o Copies("writeBlock", Blocks)
  \o <<"release">>

\* openD2XXTransport and initialize.
TransportScript == <<"openSPI", "openIRQ", "initSPI", "initIRQ">>

\* bootstrapMMWaveLinkForContract.
BootstrapScript ==
  <<Await("mssUp"), Exec("version"), Exec("rfStart"), Await("rfUp"),
    Exec("version")>>

\* buildMMWaveLinkOperations: one operation of each kind around RF init, the
\* only one that is followed by an event.
ApplyScript == <<Exec("set"), Exec("rfInit"), Await("rfInit"), Exec("frame")>>

TriggerScript(start) ==
  IF start THEN <<Exec("start"), Await("frameStart")>>
           ELSE <<Exec("stop"), Await("frameEnd")>>

AwaitEndScript == <<Await("frameEnd")>>

-----------------------------------------------------------------------------

NoCommand == "none"

Init ==
  /\ options \in [reset : BOOLEAN, warm : BOOLEAN, finite : BOOLEAN]
  /\ op = "open"
  /\ todo = <<>>
  /\ handles = {}
  /\ baud = Fast
  /\ link = [command |-> NoCommand, wire |-> <<>>, queue |-> <<>>]
  /\ ctl = "none"
  /\ outcome = [failed |-> FALSE, marked |-> FALSE, mayRun |-> FALSE,
                complete |-> FALSE]
  /\ cancelled = FALSE
  /\ target \in [mode : {"away", "monitor"}, baud : {Fast, Cold},
                 part : {"supported", "foreign"}, changed : {{}},
                 frame : {"unset"}]
  /\ sent = 0
  /\ unknown = FALSE
  /\ reports = 0

Step == Head(todo)
Enter(o, script) == op' = o /\ todo' = script

Advance == op' = op /\ todo' = Tail(todo)

Blame(marked) ==
  outcome' = [outcome EXCEPT !.failed = TRUE, !.marked = @ \/ marked]

\* OpenController gives up: whatever is open is closed, no controller exists.
OpenFails(marked) ==
  /\ Enter("ended", <<>>)
  /\ handles' = {}
  /\ Blame(marked)

\* openControllerWithBackend: preflights, then the reset or the port.
OpenController ==
  /\ op = "open"
  /\ \/ /\ cancelled
        /\ OpenFails(FALSE)
        /\ UNCHANGED baud
     \/ /\ ~ cancelled
        /\ IF options.reset
           THEN Enter("reset", ResetScript) /\ UNCHANGED <<handles, baud>>
           ELSE Enter("probe", <<"openPort">> \o InitializeScript)
                /\ baud' = Fast /\ UNCHANGED handles
        /\ UNCHANGED outcome
  /\ UNCHANGED <<options, link, ctl, cancelled, target, sent, unknown, reports>>

-----------------------------------------------------------------------------
(* sop2_reset.go                                                           *)

PinWrites == {"writeSOP2", "assertNRST", "releaseNRST"}

ResetOpens ==
  [s \in {"openGPIO", "openReset"} |-> IF s = "openGPIO" THEN "gpio" ELSE "reset"]

\* From the open of interface D on the target-facing pins may be driven.
ResetStep ==
  /\ op = "reset"
  /\ todo # <<>>
  /\ ~ cancelled
  /\ Advance
  /\ handles' = handles \cup
       {ResetOpens[s] : s \in {Step} \cap DOMAIN ResetOpens}
  /\ target' = [target EXCEPT !.mode = "driven"]
  /\ sent' = IF Step \in PinWrites THEN sent + 1 ELSE sent
  /\ UNCHANGED <<options, baud, link, ctl, outcome, cancelled, unknown, reports>>

\* A native call fails, the deadline passes or the context ends; the deferred
\* function closes C and D and marks the error unless D was never opened.
\* updateBitBangPins cannot tell whether a failed pin write took effect.
ResetFails ==
  /\ op = "reset"
  /\ \E driven \in {"gpio" \in handles, TRUE} :
       /\ target' = IF driven THEN [target EXCEPT !.mode = "driven"] ELSE target
       /\ OpenFails(driven)
  /\ LET pin == todo # <<>> /\ Step \in PinWrites
     IN  \E partly \in {FALSE, pin} :
           /\ sent' = IF partly THEN sent + 1 ELSE sent
           /\ unknown' = (unknown \/ partly)
  /\ UNCHANGED <<options, baud, link, ctl, cancelled, reports>>

\* Both interfaces are closed in order: the target waits in its monitor, at the
\* rate its family boots with.
ResetDone ==
  /\ op = "reset"
  /\ todo = <<>>
  /\ Enter("probe", <<"openPort">> \o InitializeScript)
  /\ baud' = Fast
  /\ handles' = {}
  /\ \E rate \in {Fast, Cold} :
       target' = [target EXCEPT !.mode = "monitor", !.baud = rate]
  /\ UNCHANGED <<options, link, ctl, outcome, cancelled, sent, unknown, reports>>

-----------------------------------------------------------------------------
(* enhancedcom_client.go, enhancedcom_connection.go, firmware_downloader.go *)

SerialOps == {"probe", "negotiate", "reopen", "gate", "submit"}

Reads == {"readStatus", "readPart", "readClock", "readRegister", "poll"}
Changes == [writeClock |-> "clock", writeBaud |-> "baud",
            writeRegister |-> "image", writeBlock |-> "image",
            release |-> "image"]

OnSerial == op \in SerialOps /\ todo # <<>> /\ Step # "openPort"

\* The monitor hears the host when both use the same rate.
Hears == target.mode \in {"monitor", "loading"} /\ target.baud = baud

\* What a command does to the target once the monitor has it.
Acted(s) ==
  IF s \notin DOMAIN Changes THEN target
  ELSE [target EXCEPT
          !.changed = @ \cup {Changes[s]},
          !.baud = IF s = "writeBaud" THEN Fast ELSE @,
          !.mode = IF s = "release" THEN "booted"
                   ELSE IF Changes[s] = "image" THEN "loading" ELSE @]

\* A booted MSS announces itself.
WireAfter(t) ==
  IF t.mode = "booted"
  THEN Append(link.wire, [class |-> "async", id |-> "mssUp", status |-> "ok"])
  ELSE link.wire

\* There is no write acknowledgement: a command handed to the port may be lost.
Delivered(s) ==
  \E t \in {target} \cup (IF Hears THEN {Acted(s)} ELSE {}) :
    /\ target' = t
    /\ link' = [link EXCEPT !.wire = WireAfter(t)]

\* Mutant: any failed probe may be followed by the negotiation.
Negotiable_always(kind) == ~ options.warm

\* openInitializedEnhancedCOMClient: only a probe that was not answered, or not
\* understood, may be followed by the negotiation at the cold-boot rate.
Negotiable(kind) == ~ options.warm /\ kind = "rejected"

\* The operation fails with an error of this kind; the port is closed.  Every
\* error inside the submission requires a reset.
SerialFails(kind) ==
  IF op = "probe" /\ Negotiable(kind)
  THEN \/ /\ Enter("negotiate", <<"openPort">> \o NegotiateScript)
          /\ baud' = Cold
          /\ handles' = handles \ {"port"}
          /\ UNCHANGED outcome
       \/ OpenFails(FALSE) /\ UNCHANGED baud  \* the port did not close
  ELSE OpenFails(op = "submit") /\ UNCHANGED baud

\* openEnhancedCOMClient, after its wait.
OpenPort ==
  /\ op \in SerialOps
  /\ todo # <<>>
  /\ Step = "openPort"
  /\ \/ /\ ~ cancelled
        /\ Advance
        /\ handles' = handles \cup {"port"}
        /\ UNCHANGED <<baud, outcome>>
     \/ OpenFails(FALSE) /\ UNCHANGED baud
  /\ UNCHANGED <<options, link, ctl, cancelled, target, sent, unknown, reports>>

\* beginLocked or writeLocked refuses before a byte is written, or the input
\* cannot be purged.
SerialRefused ==
  /\ OnSerial
  /\ SerialFails("error")
  /\ UNCHANGED <<options, link, ctl, cancelled, target, sent, unknown, reports>>

\* writeLocked: short, failed, or overtaken by the end of its context.
SerialWriteUnknown ==
  /\ OnSerial
  /\ sent' = sent + 1
  /\ unknown' = TRUE
  /\ Delivered(Step)
  /\ SerialFails("error")
  /\ UNCHANGED <<options, ctl, cancelled, reports>>

SerialWrite ==
  /\ OnSerial
  /\ Step \notin Reads
  /\ ~ cancelled
  /\ sent' = sent + 1
  /\ Delivered(Step)
  /\ Advance
  /\ UNCHANGED <<options, handles, baud, ctl, outcome, cancelled, unknown, reports>>

\* readRegisterLocked gets a number; gateDebugFamilyPart and poll look at it.
SerialRead ==
  /\ OnSerial
  /\ Step \in Reads
  /\ ~ cancelled
  /\ Hears
  /\ sent' = sent + 1
  /\ IF Step = "readPart" /\ target.part = "foreign"
     THEN SerialFails("error")
     ELSE Advance /\ UNCHANGED <<handles, baud, outcome>>
  /\ UNCHANGED <<options, link, ctl, cancelled, target, unknown, reports>>

\* The request is out and no number comes back: silence or garbage (rejected),
\* the end of the context, a fault of the port, or a poll that is never ready.
SerialReadFails ==
  /\ OnSerial
  /\ Step \in Reads
  /\ sent' = sent + 1
  /\ \E kind \in {"rejected", "error"} : SerialFails(kind)
  /\ UNCHANGED <<options, link, ctl, cancelled, target, unknown, reports>>

\* The end of a script on the port.  Negotiated: close, wait, verify at the new
\* rate.  Gated: submitFirmware starts unless its context has ended.
SerialDone ==
  /\ op \in SerialOps
  /\ todo = <<>>
  /\ \/ /\ op \in {"probe", "reopen"}
        /\ Enter("gate", <<"readPart">>)
        /\ UNCHANGED <<handles, baud, outcome>>
     \/ /\ op = "negotiate"
        /\ Enter("reopen", <<"openPort">> \o InitializeScript)
        /\ handles' = handles \ {"port"}
        /\ baud' = Fast
        /\ UNCHANGED outcome
     \/ op = "negotiate" /\ OpenFails(FALSE) /\ UNCHANGED baud
     \/ /\ op = "gate"
        /\ ~ cancelled
        /\ Enter("submit", SubmitScript)
        /\ UNCHANGED <<handles, baud, outcome>>
     \/ op = "gate" /\ cancelled /\ OpenFails(FALSE) /\ UNCHANGED baud
     \/ /\ op = "submit"
        /\ Enter("transport", TransportScript)
        /\ UNCHANGED <<handles, baud, outcome>>
  /\ UNCHANGED <<options, link, ctl, cancelled, target, sent, unknown, reports>>

-----------------------------------------------------------------------------
(* transport.go                                                            *)

TransportOpens ==
  [s \in {"openSPI", "openIRQ"} |-> IF s = "openSPI" THEN "spi" ELSE "irq"]

TransportStep ==
  /\ op = "transport"
  /\ todo # <<>>
  /\ ~ cancelled
  /\ IF Len(todo) > 1 THEN Advance ELSE Enter("bootstrap", BootstrapScript)
  /\ handles' = handles \cup
       {TransportOpens[s] : s \in {Step} \cap DOMAIN TransportOpens}
  /\ UNCHANGED <<options, baud, link, ctl, outcome, cancelled, target, sent,
                 unknown, reports>>

\* The submission is over: from here on every failure to open is marked.
TransportFails ==
  /\ op = "transport"
  /\ OpenFails(TRUE)
  /\ UNCHANGED <<options, baud, link, ctl, cancelled, target, sent, unknown,
                 reports>>

-----------------------------------------------------------------------------
(* mmwavelink_client.go: the exchanges of bootstrap and Controller.  Every *)
(* transport or protocol failure poisons the client; it also ends the      *)
(* operation in the unknown state, in which readyLocked refuses all        *)
(* others, so the poison is not a variable of its own.                     *)

LinkOps == {"bootstrap", "apply", "start", "stop", "awaitEnd"}
OnLink == op \in LinkOps /\ todo # <<>>

\* The operations that cleanup starts have a fresh context.
Cleaning == op \in {"stop", "awaitEnd"}
ContextEnded == cancelled /\ ~ Cleaning

\* Mutant: any status error of the stop trigger counts as stopped.
KnownStopped_any(status) == status # "ok"

\* isKnownStoppedStatus: frame already ended, or not configured.
KnownStopped(status) == status = "stopped"

\* An exchange failed: OpenController gives up, or the operation of the
\* controller ends in its unknown state with a TargetStateError, which Run
\* reports after its cleanup.
LinkFails ==
  IF op = "bootstrap"
  THEN OpenFails(TRUE) /\ UNCHANGED ctl
  ELSE /\ Enter(IF Cleaning THEN "close" ELSE "cleanup", <<>>)
       /\ Blame(TRUE)
       /\ ctl' = "unknown"
       /\ UNCHANGED handles

\* executeLocked writes its frame.
Execute ==
  /\ OnLink
  /\ Step.do = "exec"
  /\ link.command = NoCommand
  /\ ~ ContextEnded
  /\ sent' = sent + 1
  /\ link' = [link EXCEPT !.command = Step.what]
  /\ todo' = <<[Step EXCEPT !.do = "answer"]>> \o Tail(todo)
  /\ UNCHANGED <<options, op, handles, baud, ctl, outcome, cancelled, target,
                 unknown, reports>>

\* SPIWrite fails: the target may have the whole command, or none of it.
ExecuteFails ==
  /\ OnLink
  /\ Step.do = "exec"
  /\ \E written \in {"nothing", "partly", "whole"} :
       /\ sent' = IF written = "nothing" THEN sent ELSE sent + 1
       /\ unknown' = (unknown \/ written # "nothing")
       /\ link' = IF written = "whole"
                  THEN [link EXCEPT !.command = Step.what] ELSE link
  /\ LinkFails
  /\ UNCHANGED <<options, baud, cancelled, target, reports>>

Arrived == Head(link.wire)
Taken == [link EXCEPT !.wire = Tail(@)]

Receiving == OnLink /\ Step.do \in {"answer", "await"} /\ link.wire # <<>>

Wanted(message) ==
  /\ message.class = "async"
  /\ Step = Await(message.id)

\* takeQueuedEventLocked: the oldest queued event that matches.
TakeQueued ==
  /\ OnLink
  /\ \E i \in DOMAIN link.queue :
       /\ Wanted(link.queue[i])
       /\ \A j \in 1 .. (i - 1) : ~ Wanted(link.queue[j])
       /\ link' = [link EXCEPT !.queue = RemoveAt(@, i)]
       /\ IF link.queue[i].status = "ok"
          THEN Advance /\ UNCHANGED <<handles, ctl, outcome>>
          ELSE LinkFails
  /\ UNCHANGED <<options, baud, cancelled, target, sent, unknown, reports>>

\* The awaited event arrives; its caller validates what it carries.
ReceiveAwaited ==
  /\ Receiving
  /\ \A i \in DOMAIN link.queue : ~ Wanted(link.queue[i])
  /\ Wanted(Arrived)
  /\ link' = Taken
  /\ IF Arrived.status = "ok"
     THEN Advance /\ UNCHANGED <<handles, ctl, outcome>>
     ELSE LinkFails
  /\ UNCHANGED <<options, baud, cancelled, target, sent, unknown, reports>>

\* Another event: enqueueAsyncLocked, unless it is a fatal fault or the queue
\* has reached its limit.
ReceiveOther ==
  /\ Receiving
  /\ Arrived.class = "async"
  /\ ~ Wanted(Arrived)
  /\ IF Arrived.status # "fault" /\ Len(link.queue) < QueueLimit
     THEN /\ link' = [Taken EXCEPT !.queue = Append(@, Arrived)]
          /\ UNCHANGED <<op, todo, handles, ctl, outcome>>
     ELSE link' = Taken /\ LinkFails
  /\ UNCHANGED <<options, baud, cancelled, target, sent, unknown, reports>>

\* A response.  validateResponseLocked refuses one that does not belong to the
\* command, waitEventLocked refuses any.  A status error is returned to the
\* caller: StopContext takes two of them for a stopped frame.
ReceiveResponse ==
  /\ Receiving
  /\ Arrived.class = "response"
  /\ link' = Taken
  /\ LET answers == Step.do = "answer" /\ Arrived.id = Step.what
     IN  \/ /\ answers /\ Arrived.status = "ok"
            /\ Advance
            /\ UNCHANGED <<handles, ctl, outcome>>
         \/ /\ answers /\ op = "stop" /\ KnownStopped(Arrived.status)
            /\ Enter("close", <<>>)
            /\ ctl' = "configured"
            /\ UNCHANGED <<handles, outcome>>
         \/ /\ ~ (answers /\ Arrived.status = "ok")
            /\ ~ (answers /\ op = "stop" /\ KnownStopped(Arrived.status))
            /\ LinkFails
  /\ UNCHANGED <<options, baud, cancelled, target, sent, unknown, reports>>

\* receiveLocked: timeout, end of the context, transport error, bad checksum.
ReceiveFails ==
  /\ OnLink
  /\ Step.do \in {"answer", "await"}
  /\ LinkFails
  /\ UNCHANGED <<options, baud, link, cancelled, target, sent, unknown, reports>>

-----------------------------------------------------------------------------
(* OpenController's end, Controller and the calls session.Run makes.       *)

\* Bootstrapped: the port has served its purpose.
Opened ==
  /\ op = "bootstrap"
  /\ todo = <<>>
  /\ \/ /\ Enter("prepare", <<>>)
        /\ handles' = handles \ {"port"}
        /\ ctl' = "bootstrapped"
        /\ UNCHANGED outcome
     \/ OpenFails(TRUE) /\ UNCHANGED ctl  \* the port did not close
  /\ UNCHANGED <<options, baud, link, cancelled, target, sent, unknown, reports>>

\* Run leaves with an error of its own; its deferred cleanup comes next.
RunFails ==
  /\ Enter("cleanup", <<>>)
  /\ Blame(FALSE)

\* VerifyPlatformContext, the first StopContext (a no-op after bootstrap) and
\* the DCA1000's configuration, then ApplyContext.
Prepare ==
  /\ op = "prepare"
  /\ \/ ~ cancelled /\ Enter("apply", ApplyScript) /\ UNCHANGED outcome
     \/ RunFails
  /\ UNCHANGED <<options, handles, baud, link, ctl, cancelled, target, sent,
                 unknown, reports>>

Applied ==
  /\ op = "apply"
  /\ todo = <<>>
  /\ Enter("arm", <<>>)
  /\ ctl' = "configured"
  /\ UNCHANGED <<options, handles, baud, link, outcome, cancelled, target, sent,
                 unknown, reports>>

\* Participant, receiver and StartRecord, any of which may fail.
ArmFails ==
  /\ op = "arm"
  /\ RunFails
  /\ UNCHANGED <<options, handles, baud, link, ctl, cancelled, target, sent,
                 unknown, reports>>

\* StartContext: the state is unknown from before the trigger to the event.
StartContext ==
  /\ op = "arm"
  /\ IF cancelled
     THEN /\ Enter("cleanup", <<>>)
          /\ outcome' = [outcome EXCEPT !.mayRun = TRUE, !.failed = TRUE]
          /\ UNCHANGED ctl
     ELSE /\ Enter("start", TriggerScript(TRUE))
          /\ outcome' = [outcome EXCEPT !.mayRun = TRUE]
          /\ ctl' = "unknown"
  /\ UNCHANGED <<options, handles, baud, link, cancelled, target, sent, unknown,
                 reports>>

Started ==
  /\ op = "start"
  /\ todo = <<>>
  /\ Enter("capture", <<>>)
  /\ ctl' = "running"
  /\ UNCHANGED <<options, handles, baud, link, outcome, cancelled, target, sent,
                 unknown, reports>>

\* The capture ends: its planned bytes are there, a stop was requested, or it
\* fails or is cancelled.
CaptureEnds ==
  /\ op = "capture"
  /\ \/ /\ options.finite /\ ~ cancelled
        /\ Enter("cleanup", <<>>)
        /\ outcome' = [outcome EXCEPT !.complete = TRUE]
     \/ /\ ~ options.finite /\ ~ cancelled
        /\ Enter("cleanup", <<>>)
        /\ UNCHANGED outcome
     \/ RunFails
  /\ UNCHANGED <<options, handles, baud, link, ctl, cancelled, target, sent,
                 unknown, reports>>

\* Run's cleanup: AwaitFiniteFrameEndContext or StopContext if the radar may be
\* running.  readyLocked refuses both in the unknown state: a CleanupError.
Cleanup ==
  /\ op = "cleanup"
  /\ IF ~ outcome.mayRun
     THEN Enter("close", <<>>) /\ UNCHANGED <<ctl, outcome>>
     ELSE IF ctl = "unknown"
     THEN Enter("close", <<>>) /\ Blame(TRUE) /\ UNCHANGED ctl
     ELSE /\ IF outcome.complete /\ ~ cancelled
             THEN Enter("awaitEnd", AwaitEndScript)
             ELSE Enter("stop", TriggerScript(FALSE))
          /\ ctl' = "unknown"
          /\ UNCHANGED outcome
  /\ UNCHANGED <<options, handles, baud, link, cancelled, target, sent, unknown,
                 reports>>

Stopped ==
  /\ Cleaning
  /\ todo = <<>>
  /\ Enter("close", <<>>)
  /\ ctl' = "configured"
  /\ UNCHANGED <<options, handles, baud, link, outcome, cancelled, target, sent,
                 unknown, reports>>

\* Controller.Close, through closeCaptureClient.
Close ==
  /\ op = "close"
  /\ Enter("ended", <<>>)
  /\ handles' = {}
  /\ UNCHANGED outcome \/ Blame(TRUE)
  /\ UNCHANGED <<options, baud, link, ctl, cancelled, target, sent, unknown,
                 reports>>

Returned == op = "ended" /\ UNCHANGED vars

-----------------------------------------------------------------------------
(* The environment.                                                        *)

Cancel ==
  /\ op # "ended"
  /\ cancelled' = TRUE
  /\ UNCHANGED <<options, op, todo, handles, baud, link, ctl, outcome, target,
                 sent, unknown, reports>>

Response(status) ==
  [class |-> "response", id |-> link.command, status |-> status]
Event(id, status) == [class |-> "async", id |-> id, status |-> status]

Tells(messages) ==
  link' = [link EXCEPT !.command = NoCommand, !.wire = @ \o messages]

\* The event that follows a command, "none" for most.
Announces == [rfStart |-> "rfUp", rfInit |-> "rfInit", start |-> "frameStart",
              stop |-> "frameEnd"]

\* The target carries a command out; its event may report a failure and may
\* overtake the response.
TargetExecutes ==
  /\ target.mode = "booted"
  /\ link.command # NoCommand
  /\ link.command = "stop" => target.frame = "running"
  /\ link.command = "start" => target.frame = "set"
  /\ target' = [target EXCEPT !.frame =
                  CASE link.command \in {"frame", "stop"} -> "set"
                    [] link.command = "start" -> "running"
                    [] OTHER -> @]
  /\ IF link.command \in DOMAIN Announces
     THEN \E status \in {"ok", "odd"} :
            LET event == Event(Announces[link.command], status)
            IN  \/ Tells(<<Response("ok"), event>>)
                \/ Tells(<<event, Response("ok")>>)
     ELSE Tells(<<Response("ok")>>)
  /\ UNCHANGED <<options, op, todo, handles, baud, ctl, outcome, cancelled, sent,
                 unknown, reports>>

\* It answers with a status error (an unusable response is one too), or not at
\* all.  The stop of a frame that does not run is answered with 21 or 22.
TargetRefuses ==
  /\ link.command # NoCommand
  /\ \/ target.mode = "booted" /\ Tells(<<Response("refused")>>)
     \/ /\ target.mode = "booted"
        /\ link.command = "stop"
        /\ target.frame # "running"
        /\ Tells(<<Response("stopped")>>)
     \/ Tells(<<>>)
  /\ UNCHANGED <<options, op, todo, handles, baud, ctl, outcome, cancelled,
                 target, sent, unknown, reports>>

FrameEnds ==
  /\ options.finite
  /\ target.frame = "running"
  /\ target' = [target EXCEPT !.frame = "set"]
  /\ link' = [link EXCEPT !.wire = Append(@, Event("frameEnd", "ok"))]
  /\ UNCHANGED <<options, op, todo, handles, baud, ctl, outcome, cancelled, sent,
                 unknown, reports>>

Reports ==
  /\ target.mode = "booted"
  /\ op \in LinkOps \cup {"transport"}
  /\ reports < MaxReports
  /\ reports' = reports + 1
  /\ \E message \in {Event("report", "ok"), Event("report", "fault"),
                     [class |-> "response", id |-> "stray", status |-> "ok"]} :
       link' = [link EXCEPT !.wire = Append(@, message)]
  /\ UNCHANGED <<options, op, todo, handles, baud, ctl, outcome, cancelled,
                 target, sent, unknown>>

Serial ==
  \/ OpenPort \/ SerialRefused \/ SerialWriteUnknown \/ SerialWrite
  \/ SerialRead \/ SerialReadFails \/ SerialDone

Link ==
  \/ Execute \/ ExecuteFails \/ TakeQueued \/ ReceiveAwaited
  \/ ReceiveOther \/ ReceiveResponse \/ ReceiveFails

Session ==
  \/ Opened \/ Prepare \/ Applied \/ ArmFails \/ StartContext \/ Started
  \/ CaptureEnds \/ Cleanup \/ Stopped \/ Close \/ Returned

Environment ==
  \/ Cancel \/ TargetExecutes \/ TargetRefuses \/ FrameEnds \/ Reports

Next ==
  \/ OpenController \/ ResetStep \/ ResetFails \/ ResetDone
  \/ Serial \/ TransportStep \/ TransportFails \/ Link \/ Session \/ Environment

Spec == Init /\ [][Next]_vars

-----------------------------------------------------------------------------
(* Properties.                                                             *)

\* TargetStateError and CleanupError tell the operator that the target needs a
\* reset.  A command that ends without one of them, well or not, leaves a target
\* that is untouched, waits in its monitor, or is booted with no frame running:
\* never one with driven pins, half an image, or a frame that nobody stopped.
UnmarkedEndIsSafe ==
  op = "ended" /\ ~ outcome.marked =>
    /\ target.mode \in {"away", "monitor", "booted"}
    /\ target.frame # "running"

\* initialize: "the connection must still gate TOPRCM part identity before any
\* target write".  No register of a part outside the selected family is ever
\* written, and the baud registers only on the cold-boot route, however the
\* monitor was reached.
OnlyKnownPartIsWritten ==
  target.changed # {} =>
    /\ target.part = "supported"
    /\ options.warm => target.changed = {"image"}

\* "A failed or indeterminate write is never retried": once a write has ended
\* with an unknown result, nothing more is sent to the target, not by the
\* negotiation, the bootstrap or the cleanup.
NothingAfterUnknown == [][unknown => UNCHANGED sent]_vars
=============================================================================
