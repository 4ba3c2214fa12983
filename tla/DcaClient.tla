------------------------------ MODULE DcaClient ------------------------------
(***************************************************************************)
(* The DCA1000 control client (internal/dca/client.go) used the way        *)
(* session.Run uses it: stop, optional reset, configure, start, record,    *)
(* stop, drain, close.                                                     *)
(*                                                                         *)
(* Commands and answers are single datagrams without an identifier beyond  *)
(* the command code.  Requests reach the device in order or are lost;      *)
(* answers and asynchronous statuses may come late, in any order or never. *)
(* Execute is a loop of reads: one datagram is one action, and its         *)
(* deadlines may pass between any two of them.                             *)
(***************************************************************************)
EXTENDS Integers, Sequences, FiniteSets

CONSTANTS
  AsyncLimit,   \* asyncStatusQueueLimit
  MaxStatuses   \* bound: asynchronous statuses the device sends

ASSUME DcaAssumption == AsyncLimit \in Nat \ {0} /\ MaxStatuses \in Nat

VARIABLES
  step,         \* the call session.Run is in
  waiting,      \* Execute has sent its request and reads datagrams
  failed,       \* an error was reported to session.Run
  ctxCancelled, \* the capture context is cancelled
  closed,       \* client.closed
  poisoned,     \* client.poisonCause # nil
  async,        \* client.async: is each queued status fatal?
  sent,         \* requests sent so far; the number of a request is its identity
  requests,     \* datagrams on their way to the device
  inbox,        \* datagrams on their way to the client
  device,       \* "stopped" or "recording"
  statuses,     \* asynchronous statuses sent so far
  fatalRead,    \* a fatal status was read from the socket
  unstopped,    \* the socket got a StartRecord and no StopRecord after it
  confirmed,    \* a StopRecord was confirmed and no StartRecord sent since
  fresh         \* every answer Execute returned was to its own request

clientVars == <<step, waiting, failed, closed, poisoned, async, sent, fatalRead,
                unstopped, confirmed, fresh>>
vars == <<clientVars, ctxCancelled, requests, inbox, device, statuses>>

\* The command of each Execute call.
Command == [stopFirst |-> "StopRecord", reset |-> "ResetFPGA",
            configureFPGA |-> "ConfigureFPGA",
            configureRecord |-> "ConfigureRecord", start |-> "StartRecord",
            converge |-> "StopRecord", stopLast |-> "StopRecord"]
Executes == DOMAIN Command

\* Calls that run under the capture context; the others have a context of
\* their own with a timeout.
CtxBound == {"stopFirst", "reset", "configureFPGA", "configureRecord", "start"}

Init ==
  /\ step = "stopFirst"
  /\ waiting = FALSE
  /\ failed = FALSE
  /\ ctxCancelled = FALSE
  /\ closed = FALSE
  /\ poisoned = FALSE
  /\ async = <<>>
  /\ sent = 0
  /\ requests = <<>>
  /\ inbox = {}
  /\ device \in {"stopped", "recording"}
  /\ statuses = 0
  /\ fatalRead = FALSE
  /\ unstopped = FALSE
  /\ confirmed = FALSE
  /\ fresh = TRUE

-----------------------------------------------------------------------------
(* What follows a call.                                                    *)

AfterOk ==
  [stopFirst |-> {"reset", "configureFPGA"}, reset |-> {"configureFPGA"},
   configureFPGA |-> {"configureRecord"}, configureRecord |-> {"checkStatuses"},
   start |-> {"checkStarted"}, converge |-> {"lastStatuses"},
   stopLast |-> {"drain"}]

\* Mutant: an unconfirmed StartRecord is sent again.
AfterFailure_retry(s) == IF s = "start" THEN "start" ELSE "lastStatuses"

\* StartRecordConvergent answers an unconfirmed StartRecord with one StopRecord;
\* every other failure ends the use of the client.
AfterFailure(s) == IF s = "start" THEN "converge" ELSE "lastStatuses"

Succeeds ==
  /\ step' \in AfterOk[step]
  /\ waiting' = FALSE
  /\ UNCHANGED failed

Fails ==
  /\ step' = AfterFailure(step)
  /\ waiting' = FALSE
  /\ failed' = TRUE

-----------------------------------------------------------------------------
(* Execute.                                                                *)

\* usabilityError.
Usable == ~ closed /\ ~ poisoned

Calling(s) == step = s /\ s \in Executes /\ ~ waiting
Cancelled(s) == s \in CtxBound /\ ctxCancelled

\* The client is closed or poisoned, or the context cancelled: nothing is sent.
ExecuteRefused(s) ==
  /\ Calling(s)
  /\ ~ Usable \/ Cancelled(s)
  /\ Fails
  /\ UNCHANGED <<closed, poisoned, async, sent, fatalRead, unstopped, confirmed,
                 fresh, ctxCancelled, requests, inbox, device, statuses>>

\* What handing the command of a call to the socket does to unstopped.
UnstoppedAfter(s) ==
  CASE Command[s] = "StartRecord" -> TRUE
    [] Command[s] = "StopRecord"  -> FALSE
    [] OTHER                      -> unstopped

\* The socket refuses the request.
ExecuteSendFails(s) ==
  /\ Calling(s)
  /\ Usable
  /\ ~ Cancelled(s)
  /\ Fails
  /\ unstopped' = UnstoppedAfter(s)
  /\ UNCHANGED <<closed, poisoned, async, sent, fatalRead, confirmed, fresh,
                 ctxCancelled, requests, inbox, device, statuses>>

ExecuteSends(s) ==
  /\ Calling(s)
  /\ Usable
  /\ ~ Cancelled(s)
  /\ waiting' = TRUE
  /\ sent' = sent + 1
  /\ requests' = Append(requests, [command |-> Command[s], id |-> sent + 1])
  /\ unstopped' = UnstoppedAfter(s)
  /\ confirmed' = (confirmed /\ Command[s] # "StartRecord")
  /\ UNCHANGED <<step, failed, closed, poisoned, async, fatalRead, fresh,
                 ctxCancelled, inbox, device, statuses>>

\* Mutant: the wait for an answer has no deadline.
ExecuteTimesOut_never(s) ==
  /\ step = s /\ waiting
  /\ Cancelled(s)
  /\ Fails
  /\ UNCHANGED <<closed, poisoned, async, sent, fatalRead, unstopped, confirmed,
                 fresh, ctxCancelled, requests, inbox, device, statuses>>

\* The command deadline or the context's passes, the context is cancelled, or
\* the socket fails: the request stays unanswered.
ExecuteTimesOut(s) ==
  /\ step = s /\ waiting
  /\ Fails
  /\ UNCHANGED <<closed, poisoned, async, sent, fatalRead, unstopped, confirmed,
                 fresh, ctxCancelled, requests, inbox, device, statuses>>

\* Mutant: a status that does not fit the queue is dropped.
Enqueue_drops(d) ==
  /\ fatalRead' = (fatalRead \/ d.fatal)
  /\ async' = IF Len(async) < AsyncLimit THEN Append(async, d.fatal) ELSE async
  /\ UNCHANGED <<step, waiting, failed, poisoned>>

\* enqueueAsyncStatus inside a reading call: a full queue poisons the client.
Enqueue(d) ==
  /\ fatalRead' = (fatalRead \/ d.fatal)
  /\ IF Len(async) >= AsyncLimit
     THEN poisoned' = TRUE /\ Fails /\ UNCHANGED async
     ELSE /\ async' = Append(async, d.fatal)
          /\ UNCHANGED <<step, waiting, failed, poisoned>>

ExecuteReadsStatus(s, d) ==
  /\ step = s /\ waiting
  /\ d.command = "AsyncStatus"
  /\ inbox' = inbox \ {d}
  /\ Enqueue(d)
  /\ UNCHANGED <<closed, sent, unstopped, confirmed, fresh, ctxCancelled,
                 requests, device, statuses>>

\* Mutant: any answer satisfies the pending command.
Matches_any(s, d) == d.command # "AsyncStatus"

Matches(s, d) == d.command = Command[s]

ExecuteIgnores(s, d) ==
  /\ step = s /\ waiting
  /\ d.command # "AsyncStatus"
  /\ ~ Matches(s, d)
  /\ inbox' = inbox \ {d}
  /\ UNCHANGED <<clientVars, ctxCancelled, requests, device, statuses>>

\* A matching answer; a status other than zero is an error to every caller.
ExecuteReturns(s, d) ==
  /\ step = s /\ waiting
  /\ Matches(s, d)
  /\ inbox' = inbox \ {d}
  /\ fresh' = (fresh /\ d.id = sent)
  /\ IF d.ok
     THEN Succeeds /\ confirmed' = (confirmed \/ Command[s] = "StopRecord")
     ELSE Fails /\ UNCHANGED confirmed
  /\ UNCHANGED <<closed, poisoned, async, sent, fatalRead, unstopped,
                 ctxCancelled, requests, device, statuses>>

Execute(s) ==
  \/ ExecuteRefused(s)
  \/ ExecuteSendFails(s)
  \/ ExecuteSends(s)
  \/ ExecuteTimesOut(s)

ExecuteReads(s) ==
  \E d \in inbox : \/ ExecuteReadsStatus(s, d)
                   \/ ExecuteIgnores(s, d)
                   \/ ExecuteReturns(s, d)

-----------------------------------------------------------------------------
(* The calls between and after the commands.                               *)

Fatal == \E i \in DOMAIN async : async[i]

\* TakeAsyncStatuses and fatalAsyncError.
TakeStatuses(here, good, bad) ==
  /\ step = here
  /\ async' = <<>>
  /\ step' = IF Fatal THEN bad ELSE good
  /\ failed' = (failed \/ Fatal)
  /\ UNCHANGED <<waiting, closed, poisoned, sent, fatalRead, unstopped,
                 confirmed, fresh, ctxCancelled, requests, inbox, device,
                 statuses>>

\* StartRecordConvergent looks at the context once more before it begins.
StartRecordConvergent ==
  /\ step = "startConvergent"
  /\ step' = IF ctxCancelled THEN "lastStatuses" ELSE "start"
  /\ failed' = (failed \/ ctxCancelled)
  /\ UNCHANGED <<waiting, closed, poisoned, async, sent, fatalRead, unstopped,
                 confirmed, fresh, ctxCancelled, requests, inbox, device,
                 statuses>>

\* The capture ends, well or badly.
CaptureEnds ==
  /\ step = "recording"
  /\ step' = "stopLast"
  /\ failed' \in {failed, TRUE}
  /\ UNCHANGED <<waiting, closed, poisoned, async, sent, fatalRead, unstopped,
                 confirmed, fresh, ctxCancelled, requests, inbox, device,
                 statuses>>

\* DrainAsyncStatuses reads one datagram; a status that does not fit ends it
\* and the statuses taken so far are still examined.
DrainReads(d) ==
  /\ step = "drain"
  /\ Usable
  /\ inbox' = inbox \ {d}
  /\ IF d.command = "AsyncStatus" THEN Enqueue(d)
     ELSE UNCHANGED <<step, waiting, failed, poisoned, async, fatalRead>>
  /\ UNCHANGED <<closed, sent, unstopped, confirmed, fresh, ctxCancelled,
                 requests, device, statuses>>

\* The quiet window or the drain's deadline passes, or the socket fails.
DrainEnds ==
  /\ step = "drain"
  /\ \/ Usable /\ UNCHANGED failed
     \/ failed' = TRUE
  /\ step' = "lastStatuses"
  /\ UNCHANGED <<waiting, closed, poisoned, async, sent, fatalRead, unstopped,
                 confirmed, fresh, ctxCancelled, requests, inbox, device,
                 statuses>>

Close ==
  /\ step = "close"
  /\ step' = "closed"
  /\ closed' = TRUE
  /\ UNCHANGED <<waiting, failed, poisoned, async, sent, fatalRead, unstopped,
                 confirmed, fresh, ctxCancelled, requests, inbox, device,
                 statuses>>

-----------------------------------------------------------------------------
(* The device, the network and the user.                                   *)

\* A refused start or stop leaves the device in either state.
DeviceHandles ==
  /\ requests # <<>>
  /\ requests' = Tail(requests)
  /\ \E ok \in BOOLEAN :
       LET r == Head(requests)
           target == CASE r.command = "StartRecord" -> "recording"
                       [] r.command = "StopRecord"  -> "stopped"
                       [] OTHER                     -> device
       IN  /\ device' \in IF ok THEN {target} ELSE {device, target}
           /\ inbox' = inbox \cup {[command |-> r.command, id |-> r.id, ok |-> ok]}
  /\ UNCHANGED <<clientVars, ctxCancelled, statuses>>

RequestLost ==
  /\ requests # <<>>
  /\ requests' = Tail(requests)
  /\ UNCHANGED <<clientVars, ctxCancelled, inbox, device, statuses>>

DeviceReports ==
  /\ statuses < MaxStatuses
  /\ statuses' = statuses + 1
  /\ \E fatal \in BOOLEAN :
       inbox' = inbox \cup {[command |-> "AsyncStatus", id |-> statuses + 1,
                             fatal |-> fatal]}
  /\ UNCHANGED <<clientVars, ctxCancelled, requests, device>>

Cancel ==
  /\ ~ ctxCancelled
  /\ ctxCancelled' = TRUE
  /\ UNCHANGED <<clientVars, requests, inbox, device, statuses>>

-----------------------------------------------------------------------------
ClientStep ==
  \/ \E s \in Executes : Execute(s)
  \/ TakeStatuses("checkStatuses", "startConvergent", "lastStatuses")
  \/ StartRecordConvergent
  \/ TakeStatuses("checkStarted", "recording", "stopLast")
  \/ CaptureEnds
  \/ DrainEnds
  \/ TakeStatuses("lastStatuses", "close", "close")
  \/ Close

SocketReads ==
  \/ \E s \in Executes : ExecuteReads(s)
  \/ \E d \in inbox : DrainReads(d)

Environment == DeviceHandles \/ RequestLost \/ DeviceReports \/ Cancel

Next == ClientStep \/ SocketReads \/ Environment

\* Every call has a deadline, so the client advances; nothing obliges the device
\* or the network to act.
Spec == Init /\ [][Next]_vars /\ WF_vars(ClientStep)

-----------------------------------------------------------------------------
(* Properties.                                                             *)

\* A confirmed StopRecord is a stopped device: the recording has ended and no
\* StartRecord is left in the network that could begin another one, however
\* late the answers of earlier commands arrive.
ConfirmedStopIsReal ==
  confirmed =>
    /\ device = "stopped"
    /\ \A i \in DOMAIN requests : requests[i].command # "StartRecord"

\* No answer to an earlier request is taken for the answer to the pending one,
\* although answers carry only a command code: session.Run never repeats a
\* command that it left unanswered.
AnswersAreFresh == fresh

\* A fatal status that was read from the socket, during whatever command, fails
\* the capture, also when the queue of statuses overflows.
FatalStatusIsReported == step = "closed" /\ fatalRead => failed

\* client.go: "it uses a fresh bounded context to send exactly one StopRecord":
\* every StartRecord handed to the socket is followed by a StopRecord before the
\* client is closed, whether it was answered, refused, lost or cancelled.
UnconfirmedStartIsStopped == step = "closed" => ~ unstopped

\* Every call returns and the client is closed in the end, although the device
\* may never answer.
Returns == <>(step = "closed")
=============================================================================
