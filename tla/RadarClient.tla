----------------------------- MODULE RadarClient -----------------------------
(***************************************************************************)
(* The text CLI client of the radar (internal/radar/client.go) with its    *)
(* callers: session.Run, the radar commands and the REPL.                  *)
(*                                                                         *)
(* A command is one line on a serial line and its response is a sequence   *)
(* of lines that ends in Done or Error; neither carries an identifier.     *)
(* The device answers in order, late or never, and echoes every command.   *)
(* What is in flight when a command gives up is still there for the next   *)
(* command, and for the next process that opens the port.                  *)
(*                                                                         *)
(* The bytes between the device and the reader are one sequence of lines.  *)
(* Which of them have arrived is a matter of time: what drops the arrived  *)
(* ones drops any prefix, and may cut a line in two.                       *)
(***************************************************************************)
EXTENDS Integers, Sequences, SequencesExt

CONSTANTS
  NConfig,   \* number of configuration commands of the capture plan
  MaxRepl,   \* bound: commands entered into the REPL
  Leftovers, \* the commands an earlier process may have left unanswered
  MaxLeft    \* bound: how many of them

State == {"sensorStop", "sensorStart", "sensorStart 0", "config"}
Commands == State \cup {"version"}
Starts == {"sensorStart", "sensorStart 0"}

ASSUME RadarAssumption ==
  /\ NConfig \in Nat \ {0}
  /\ MaxRepl \in Nat
  /\ Leftovers \subseteq Commands
  /\ MaxLeft \in Nat

VARIABLES
  job,             \* the caller
  planValid,       \* the plan given to ApplyContext passes its checks
  todo,            \* operations the caller has still to call
  op,              \* the operation called last
  phase,           \* where it is; "idle" when it has returned
  outcome,         \* how it returned
  cmd,             \* the command being exchanged
  left,            \* configuration commands left, the current one included
  echoSeen,        \* the local of sendCommandLocked
  field,           \* the first Platform field of the response
  cancelled,       \* the context of the operation is done
  portClosed,      \* client.closed, and the transport is closed
  platformVerified,
  desynchronized,
  input,           \* complete lines on their way to the device
  partial,         \* the device has the beginning of an unfinished line
  lines,           \* lines on their way from the device
  platform,        \* what the device reports as its platform
  streaming,       \* the device is sending frames
  written,         \* commands written so far; the number is the identity
  started,         \* the last command of this client that started frames
  configs,         \* configuration commands of this client the device obeyed
  echoed,          \* a line echoing cmd was read since cmd was written
  taken            \* the last terminal line taken as an answer

caller == <<job, planValid>>
call == <<op, phase, outcome, cmd, left, todo>>
parse == <<echoSeen, field, echoed, taken>>
sensor == <<platform, streaming, started, configs>>
radarVars == <<caller, call, parse, cancelled, portClosed, platformVerified,
               desynchronized, input, partial, lines, sensor, written>>

-----------------------------------------------------------------------------
(* The callers.                                                            *)

\* The operations each caller calls, in order, when all of them succeed.
Script ==
  [capture |-> <<"Verify", "Stop", "Apply", "Start", "Stop">>,
   reuse   |-> <<"Verify", "Stop", "Restart", "Stop">>,
   apply   |-> <<"Stop", "Apply">>,
   start   |-> <<"Start">>,
   restart |-> <<"Restart">>,
   stop    |-> <<"Stop">>,
   version |-> <<"Verify">>,
   repl    |-> <<"Verify">> \o [i \in 1..MaxRepl |-> "Send"]]

\* An error ends the job.  After a start session.Run cleans up with a stop
\* whatever happened, and the REPL goes on after an explicit error.
Remaining(o, result) ==
  IF \/ result = "ok"
     \/ o \in {"Start", "Restart"}
     \/ o = "Send" /\ result = "rejected"
  THEN todo ELSE <<>>

\* The REPL makes a context for every command, cleanup one for its stop.
FreshContext == \/ Head(todo) = "Send"
                \/ job \in {"capture", "reuse"} /\ Len(todo) = 1

RadarInit ==
  /\ job \in DOMAIN Script
  /\ planValid \in BOOLEAN
  /\ todo = Script[job]
  /\ op = "none"
  /\ phase = "idle"
  /\ outcome = "none"
  /\ cmd = "version"
  /\ left = 0
  /\ echoSeen = FALSE
  /\ field = "none"
  /\ cancelled = FALSE
  /\ portClosed = FALSE
  /\ platformVerified = FALSE
  /\ desynchronized = FALSE
  /\ input \in {[i \in DOMAIN q |-> [cmd |-> q[i], id |-> 0]] : q \in BoundedSeq(Leftovers, MaxLeft)}
  /\ partial \in BOOLEAN
  /\ lines = <<>>
  /\ platform \in {"right", "wrong"}
  /\ streaming \in BOOLEAN
  /\ written = 0
  /\ started = 0
  /\ configs = 0
  /\ echoed = TRUE
  /\ taken = [cmd |-> "version", asked |-> 0, from |-> 0, echoed |-> TRUE]

-----------------------------------------------------------------------------
(* Operations: what precedes and follows an exchange.                      *)

Return(o, result) ==
  /\ phase' = "idle"
  /\ outcome' = result
  /\ todo' = Remaining(o, result)

CommandOf == [Stop |-> "sensorStop", Start |-> "sensorStart",
              Restart |-> "sensorStart 0", Apply |-> "config",
              Verify |-> "version"]

Exchange(c) ==
  /\ phase' = "exchange"
  /\ cmd' = c
  /\ UNCHANGED outcome

\* ApplyContext checks its plan before any I/O.
BeginRefused ==
  /\ phase = "idle" /\ todo # <<>>
  /\ op' = Head(todo)
  /\ \/ cancelled /\ ~ FreshContext
     \/ op' = "Apply" /\ ~ planValid
  /\ phase' = "idle"
  /\ outcome' = "failed"
  /\ todo' = IF op' \in {"Start", "Restart"} THEN Tail(todo) ELSE <<>>
  /\ UNCHANGED <<caller, cmd, left, parse, cancelled, portClosed, platformVerified,
                 desynchronized, input, partial, lines, sensor, written>>

\* Every operation but a raw command passes the platform gate first.
Begin ==
  /\ phase = "idle" /\ todo # <<>>
  /\ op' = Head(todo)
  /\ todo' = Tail(todo)
  /\ FreshContext \/ ~ cancelled
  /\ op' = "Apply" => planValid
  /\ left' = IF op' = "Apply" THEN NConfig ELSE 0
  /\ \/ op' = "Send" /\ \E c \in Commands : Exchange(c)
     \/ op' # "Send" /\ ~ platformVerified /\ Exchange("version")
     \/ op' \notin {"Send", "Verify"} /\ platformVerified /\ Exchange(CommandOf[op'])
  /\ cancelled' = FALSE
  /\ UNCHANGED <<caller, parse, portClosed, platformVerified, desynchronized, input,
                 partial, lines, sensor, written>>

-----------------------------------------------------------------------------
(* sendCommandLocked.                                                      *)

Fragment == [kind |-> "text", cmd |-> "", id |-> 0, value |-> 0]

\* What can be left of s when the bytes that have arrived are dropped.
Dropped(s) ==
  Suffixes(s) \cup {<<Fragment>> \o SubSeq(s, k + 1, Len(s)) : k \in DOMAIN s}

\* The context is done, the client closed, the purge or a deadline refused.
Refused ==
  /\ phase = "exchange"
  /\ lines' \in Dropped(lines)
  /\ Return(op, "failed")
  /\ UNCHANGED <<caller, op, cmd, left, parse, cancelled, portClosed,
                 platformVerified, desynchronized, input, partial, sensor, written>>

PurgeInput ==
  /\ phase = "exchange"
  /\ ~ cancelled /\ ~ portClosed
  /\ lines' \in Dropped(lines)
  /\ phase' = "write"
  /\ UNCHANGED <<caller, op, outcome, cmd, left, todo, parse, cancelled, portClosed,
                 platformVerified, desynchronized, input, partial, sensor, written>>

\* Nothing reached the line: the exchange has not begun.
WriteNothing ==
  /\ phase = "write"
  /\ Return(op, "failed")
  /\ UNCHANGED <<caller, op, cmd, left, parse, cancelled, portClosed,
                 platformVerified, desynchronized, input, partial, lines, sensor,
                 written>>

\* unknownResult.
UnknownResult ==
  /\ desynchronized' = TRUE
  /\ Return(op, "unknown")

WritePartly ==
  /\ phase = "write" /\ ~ portClosed
  /\ partial' = TRUE
  /\ UnknownResult
  /\ UNCHANGED <<caller, op, cmd, left, parse, cancelled, portClosed,
                 platformVerified, input, lines, sensor, written>>

\* Mutant: every terminal counts, echo or not.
RequireEcho_never == FALSE

\* A desynchronized client takes a terminal only after the command's echo.
RequireEcho == desynchronized

WriteWhole ==
  /\ phase = "write" /\ ~ portClosed
  /\ input' = Append(input, [cmd |-> IF partial THEN "garbled" ELSE cmd,
                             id |-> written + 1])
  /\ partial' = FALSE
  /\ written' = written + 1
  /\ echoSeen' = ~ RequireEcho
  /\ desynchronized' = TRUE
  /\ field' = "none"
  /\ echoed' = FALSE
  /\ phase' = "read"
  /\ UNCHANGED <<caller, op, outcome, cmd, left, todo, taken, cancelled, portClosed,
                 platformVerified, lines, sensor>>

ResponseLineEchoes(line) == line.kind = "echo" /\ line.cmd = cmd

SeenAfter(line) == echoSeen \/ ResponseLineEchoes(line)

FieldAfter(line) ==
  IF line.kind = "platform" /\ field = "none" THEN line.value ELSE field

\* FindTerminal.
IsTerminal(line) == line.kind \in {"done", "error"}

ReadingLine == phase = "read" /\ lines # <<>> /\ ~ cancelled /\ ~ portClosed

\* A line that ends nothing.
ReadOn ==
  /\ ReadingLine
  /\ LET line == Head(lines) IN
       /\ ~ (IsTerminal(line) /\ SeenAfter(line))
       /\ echoSeen' = SeenAfter(line)
       /\ field' = FieldAfter(line)
       /\ echoed' = (echoed \/ ResponseLineEchoes(line))
  /\ lines' = Tail(lines)
  /\ UNCHANGED <<caller, call, taken, cancelled, portClosed, platformVerified,
                 desynchronized, input, partial, sensor, written>>

\* The exchange that runs is the platform gate's.
Gate == cmd = "version" /\ op # "Send"

VerifyPlatformResponse == field = "right"

\* Mutant: any error of a stop is taken for "already stopped".
IsAlreadyStopped_anyCode(code) == cmd = "sensorStop"

IsAlreadyStopped(code) == cmd = "sensorStop" /\ code = -54

\* What follows a Done.
AfterDone ==
  \/ /\ Gate /\ ~ VerifyPlatformResponse
     /\ Return(op, "failed")
     /\ UNCHANGED <<cmd, left, platformVerified>>
  \/ /\ Gate /\ VerifyPlatformResponse
     /\ platformVerified' = TRUE
     /\ IF op = "Verify" THEN Return(op, "ok") /\ UNCHANGED cmd
                         ELSE Exchange(CommandOf[op]) /\ UNCHANGED todo
     /\ UNCHANGED left
  \/ /\ cmd = "config" /\ left > 1
     /\ left' = left - 1
     /\ Exchange(cmd)
     /\ UNCHANGED <<todo, platformVerified>>
  \/ /\ ~ Gate /\ (cmd = "config" => left <= 1)
     /\ left' = 0
     /\ Return(op, "ok")
     /\ UNCHANGED <<cmd, platformVerified>>

\* What follows an Error: only StopContext forgives one.
AfterError(code) ==
  /\ Return(op, IF op = "Stop" /\ IsAlreadyStopped(code) THEN "ok" ELSE "rejected")
  /\ UNCHANGED <<cmd, left, platformVerified>>

\* The rest of what was read together with the terminal is dropped.
ReadTerminal ==
  /\ ReadingLine
  /\ LET line == Head(lines) IN
       /\ IsTerminal(line) /\ SeenAfter(line)
       /\ taken' = [cmd |-> cmd, asked |-> written, from |-> line.id, echoed |-> echoed]
       /\ \/ line.kind = "done" /\ AfterDone
          \/ line.kind = "error" /\ AfterError(line.value)
  /\ desynchronized' = FALSE
  /\ lines' \in Dropped(Tail(lines))
  /\ UNCHANGED <<caller, op, echoSeen, field, echoed, cancelled, portClosed, input,
                 partial, sensor, written>>

\* Mutant: only a cancellation or a close ends the wait.
ReadEnds_noDeadline == phase = "read" /\ (cancelled \/ portClosed)

\* The deadline passes, the context is done, the read fails, or the response
\* is too long: each may happen at any moment.
ReadEnds == phase = "read"

\* What was read and not looked at is lost.
ReadGivesUp ==
  /\ ReadEnds
  /\ lines' \in Dropped(lines)
  /\ UnknownResult
  /\ UNCHANGED <<caller, op, cmd, left, parse, cancelled, portClosed,
                 platformVerified, input, partial, sensor, written>>

-----------------------------------------------------------------------------
(* The environment.                                                        *)

CancelCommand ==
  /\ ~ cancelled
  /\ cancelled' = TRUE
  /\ UNCHANGED <<caller, call, parse, portClosed, platformVerified, desynchronized,
                 input, partial, lines, sensor, written>>

\* Close does not wait for the command mutex.
ClosePort ==
  /\ ~ portClosed
  /\ portClosed' = TRUE
  /\ UNCHANGED <<caller, call, parse, cancelled, platformVerified,
                 desynchronized, input, partial, lines, sensor, written>>

\* The answers the code knows of: 0 is Done.  A command that the device
\* refuses changes nothing.
Answers(c) ==
  CASE c = "version" -> {0}
    [] c = "garbled" -> {-50}
    [] c = "sensorStop" -> IF streaming THEN {0, -57} ELSE {-54}
    [] c \in Starts -> IF streaming THEN {-54} ELSE {0, -57}
    [] c = "config" -> IF streaming THEN {-58} ELSE {0, -52}

Line(kind, request, value) ==
  [kind |-> kind, cmd |-> request.cmd, id |-> request.id, value |-> value]

Response(request, code) ==
  <<Line("echo", request, 0)>>
  \o (IF request.cmd = "version" THEN <<Line("platform", request, platform)>> ELSE <<>>)
  \o <<Line(IF code = 0 THEN "done" ELSE "error", request, code)>>

DeviceExecutes ==
  /\ input # <<>>
  /\ LET request == Head(input) IN
       \E code \in Answers(request.cmd) :
         /\ lines' = lines \o Response(request, code)
         /\ streaming' = IF code # 0 THEN streaming
                         ELSE (streaming \/ request.cmd \in Starts)
                              /\ request.cmd # "sensorStop"
         /\ started' = IF code = 0 /\ request.cmd \in Starts THEN request.id ELSE started
         /\ configs' = IF code = 0 /\ request.cmd = "config" /\ request.id > 0
                       THEN configs + 1 ELSE configs
  /\ input' = Tail(input)
  /\ UNCHANGED <<caller, call, parse, cancelled, portClosed, platformVerified,
                 desynchronized, partial, platform, written>>

\* The configured number of frames is over.
FramesEnd ==
  /\ streaming
  /\ streaming' = FALSE
  /\ UNCHANGED <<caller, call, parse, cancelled, portClosed, platformVerified,
                 desynchronized, input, partial, lines, platform, started,
                 configs, written>>

-----------------------------------------------------------------------------

RadarStep ==
  \/ BeginRefused \/ Begin
  \/ Refused \/ PurgeInput
  \/ WriteNothing \/ WritePartly \/ WriteWhole
  \/ ReadOn \/ ReadTerminal \/ ReadGivesUp

RadarNext == RadarStep \/ CancelCommand \/ ClosePort \/ DeviceExecutes \/ FramesEnd

\* The client's goroutine runs, and the deadline, which every iteration of the
\* read loop tests, passes.  The device owes nothing.
RadarSpec ==
  /\ RadarInit /\ [][RadarNext]_radarVars
  /\ WF_radarVars(RadarStep) /\ WF_radarVars(ReadGivesUp)

-----------------------------------------------------------------------------
(* Properties.                                                             *)

\* A terminal line that the client takes as the answer to a state command, or
\* that opens the platform gate, is the device's answer to that very command:
\* not to one that timed out before, not to one of an earlier process (the
\* echo rule and the purge of sendCommandLocked with the gate of
\* verifyPlatformLocked).  A gate that stays shut may have read a stale line.
AnswersAreOwn ==
  taken.asked # taken.from => taken.cmd = "version" /\ ~ platformVerified

\* What an operation reports as done is done: after StopContext the device
\* sends no frames and no start is left in front of it, after StartContext this
\* very start was obeyed, after ApplyContext every configuration command was
\* (StopContext, start, ApplyContext, IsAlreadyStopped).
ConfirmationIsReal ==
  phase = "idle" /\ outcome = "ok" =>
    /\ op = "Stop" => ~ streaming /\ \A i \in DOMAIN input : input[i].cmd \notin Starts
    /\ op \in {"Start", "Restart"} => started = written
    /\ op = "Apply" => configs = NConfig

\* Every operation returns, whatever the device sends or keeps back
\* (the deadlines of sendCommandLocked).
OperationReturns == phase # "idle" ~> phase = "idle"

\* "Text commands require their own echo followed by explicit Done or numeric
\* Error" (docs/architecture.md): no terminal is taken as the answer to a state
\* command before a line that echoes the command (sendCommandLocked).
EchoRequired == taken.cmd \in State => taken.echoed
=============================================================================
