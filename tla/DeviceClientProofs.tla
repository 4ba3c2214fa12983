------------------------- MODULE DeviceClientProofs -------------------------
(***************************************************************************)
(* TLAPS proofs about the clients of the two devices of a capture: module  *)
(* DcaClient, for every limit of the queue of statuses and any number of   *)
(* statuses, and module RadarClient, for every number of configuration     *)
(* commands, of raw commands and of commands an earlier process left.      *)
(***************************************************************************)
EXTENDS DcaClient, RadarClient, TLAPS


-----------------------------------------------------------------------------
(* The DCA1000 client: the inductive invariant.                            *)

DcaCommands == {"StopRecord", "ResetFPGA", "ConfigureFPGA", "ConfigureRecord", "StartRecord"}
Requests == [command : DcaCommands, id : Nat]
DcaAnswers == [command : DcaCommands, id : Nat, ok : BOOLEAN]
Statuses == [command : {"AsyncStatus"}, id : Nat, fatal : BOOLEAN]

Calls == {"stopFirst", "reset", "configureFPGA", "configureRecord", "start",
          "converge", "stopLast"}

\* The calls in which session.Run has an answer to everything it sent before.
Quiet == (Calls \ {"converge"})
         \cup {"checkStatuses", "startConvergent", "checkStarted", "recording"}

DcaTypes ==
  /\ step \in Quiet \cup {"converge", "drain", "lastStatuses", "close", "closed"}
  /\ waiting \in BOOLEAN
  /\ waiting => step \in Calls
  /\ failed \in BOOLEAN
  /\ async \in Seq(BOOLEAN)
  /\ sent \in Nat
  /\ requests \in Seq(Requests)
  /\ inbox \subseteq DcaAnswers \cup Statuses
  /\ device \in {"stopped", "recording"}
  /\ statuses \in Nat
  /\ fatalRead \in BOOLEAN
  /\ confirmed \in BOOLEAN

\* What the network still holds of the requests sent so far.
Unread == {d \in inbox : d.command # "AsyncStatus"}

\* Between two calls nothing is in flight; in a call its own request or the
\* answer to it is, and nothing else.  Only converge follows an unanswered
\* request, and that one was no StopRecord.
InFlight ==
  /\ step \in Quiet /\ ~ waiting => requests = <<>> /\ Unread = {}
  /\ step \in Quiet /\ waiting =>
       /\ requests \in {<<>>, <<[command |-> Command[step], id |-> sent]>>}
       /\ requests # <<>> => Unread = {}
       /\ \A d \in Unread : d.command = Command[step] /\ d.id = sent
       /\ \A d, e \in Unread : d = e
  /\ step = "converge" =>
       /\ \A i \in DOMAIN requests :
            requests[i].command = "StopRecord" => waiting /\ requests[i].id = sent
       /\ \A d \in Unread : d.command = "StopRecord" => waiting /\ d.id = sent

NoStart == \A i \in DOMAIN requests : requests[i].command # "StartRecord"

\* A carried out StopRecord is the last word on the recording.
StopHolds ==
  /\ confirmed => device = "stopped" /\ NoStart
  /\ \A d \in Unread : d.command = "StopRecord" /\ d.ok => device = "stopped" /\ NoStart
  /\ \A i, j \in DOMAIN requests :
       i < j /\ requests[i].command = "StopRecord" => requests[j].command # "StartRecord"

\* A fatal status is in the queue until it has failed the capture.
FatalKept ==
  /\ fatalRead => failed \/ Fatal
  /\ step \in {"close", "closed"} /\ fatalRead => failed

DcaInv == DcaTypes /\ InFlight /\ fresh /\ StopHolds /\ FatalKept

-----------------------------------------------------------------------------
(* The DCA1000 client: facts about its tables.                             *)

LEMMA DcaTables ==
  /\ Executes = Calls
  /\ \A s \in Calls : Command[s] \in DcaCommands
  /\ \A s \in Calls : Command[s] = "StartRecord" <=> s = "start"
  /\ Command["converge"] = "StopRecord"
  /\ \A s \in Calls : AfterOk[s] \subseteq Quiet \cup {"drain", "lastStatuses"}
  /\ \A s \in Calls : AfterFailure(s) = IF s = "start" THEN "converge" ELSE "lastStatuses"
  /\ "start" \in Quiet /\ Command["start"] = "StartRecord"
  /\ \A s \in Calls : s = "converge" \/ s \in Quiet
  /\ "converge" \notin Quiet /\ "lastStatuses" \notin Quiet
  <1>1. Executes = Calls
    BY DEF Executes, Command, Calls
  <1>2. \A s \in Calls : Command[s] \in DcaCommands /\ (Command[s] = "StartRecord" <=> s = "start")
    BY DEF Command, Calls, DcaCommands
  <1>3. \A s \in Calls : AfterOk[s] \subseteq Quiet \cup {"drain", "lastStatuses"}
    BY DEF AfterOk, Calls, Quiet
  <1>4. /\ Command["converge"] = "StopRecord" /\ Command["start"] = "StartRecord"
        /\ "start" \in Quiet
    BY DEF Command, Quiet, Calls
  <1>5. /\ \A s \in Calls : s = "converge" \/ s \in Quiet
        /\ "converge" \notin Quiet /\ "lastStatuses" \notin Quiet
    BY DEF Calls, Quiet
  <1> QED
    BY <1>1, <1>2, <1>3, <1>4, <1>5 DEF AfterFailure

LEMMA UnreadShrinks ==
  ASSUME inbox' \subseteq inbox PROVE Unread' \subseteq Unread
  BY DEF Unread

LEMMA UnreadTyped ==
  ASSUME DcaTypes
  PROVE  \A d \in Unread : d \in DcaAnswers
  BY DEF DcaTypes, Unread, Statuses

-----------------------------------------------------------------------------
(* The DCA1000 client: what a step has to show, part by part.              *)

\* A call that fails leaves nothing in flight that converge could mistake.
LEMMA FailsInFlight ==
  ASSUME DcaInv, step \in Calls, Fails, inbox' \subseteq inbox, UNCHANGED <<requests, sent>>
  PROVE  InFlight'
  <1>1. Unread' \subseteq Unread
    BY UnreadShrinks
  <1>2. CASE step = "start"
    <2>1. step' = "converge" /\ step \in Quiet /\ Command[step] = "StartRecord"
      BY <1>2, DcaTables DEF Fails
    <2>2. \A i \in DOMAIN requests : requests[i].command = "StartRecord"
      BY <2>1 DEF DcaInv, InFlight
    <2>3. \A d \in Unread : d.command = "StartRecord"
      BY <2>1 DEF DcaInv, InFlight
    <2> QED
      BY <1>1, <2>1, <2>2, <2>3, DcaTables DEF InFlight
  <1>3. CASE step # "start"
    <2>1. step' = "lastStatuses"
      BY <1>3, DcaTables DEF Fails
    <2> QED
      BY <2>1, DcaTables DEF InFlight
  <1> QED
    BY <1>2, <1>3

\* StopHolds where nothing is sent and the device does nothing.
LEMMA StopKept ==
  ASSUME DcaInv, inbox' \subseteq inbox, UNCHANGED <<requests, device>>,
         confirmed' => confirmed \/ (device = "stopped" /\ NoStart)
  PROVE  StopHolds'
  <1>1. Unread' \subseteq Unread
    BY UnreadShrinks
  <1> QED
    BY <1>1 DEF DcaInv, StopHolds, NoStart

\* FatalKept where no status is taken or read.
LEMMA FatalQuiet ==
  ASSUME DcaInv, UNCHANGED <<async, fatalRead>>, failed => failed',
         step' \in {"close", "closed"} => step \in {"close", "closed"}
  PROVE  FatalKept'
  BY DEF DcaInv, DcaTypes, FatalKept, Fatal

LEMMA EnqueueKeeps ==
  ASSUME DcaInv, NEW d \in Statuses, Enqueue(d), step' \notin {"close", "closed"}
  PROVE  FatalKept' /\ async' \in Seq(BOOLEAN) /\ fatalRead' \in BOOLEAN
  <1>1. d.fatal \in BOOLEAN /\ async \in Seq(BOOLEAN) /\ fatalRead \in BOOLEAN
    BY DEF Statuses, DcaInv, DcaTypes
  <1>2. fatalRead' = (fatalRead \/ d.fatal)
    BY DEF Enqueue
  <1>3. CASE failed' = TRUE /\ async' = async
    BY <1>1, <1>2, <1>3 DEF FatalKept
  <1>4. CASE async' = Append(async, d.fatal) /\ failed' = failed
    <2>1. /\ DOMAIN async' = 1 .. (Len(async) + 1) /\ Len(async) \in Nat
          /\ DOMAIN async = 1 .. Len(async)
          /\ \A i \in 1 .. Len(async) : async'[i] = async[i]
          /\ async'[Len(async) + 1] = d.fatal
      BY <1>1, <1>4
    <2>2. Fatal \/ d.fatal => Fatal'
      BY <2>1 DEF Fatal
    <2>3. FatalKept'
      BY <1>1, <1>2, <1>4, <2>2 DEF FatalKept, DcaInv
    <2> QED
      BY <1>1, <1>2, <1>4, <2>3
  <1> QED
    BY <1>3, <1>4 DEF Enqueue, Fails

-----------------------------------------------------------------------------
(* The DCA1000 client: execute.                                            *)

\* The type invariant after a call that has failed.
LEMMA FailsTyped ==
  ASSUME DcaInv, step \in Calls, Fails, inbox' \subseteq inbox,
         async' \in Seq(BOOLEAN), fatalRead' \in BOOLEAN,
         UNCHANGED <<sent, requests, device, statuses, confirmed>>
  PROVE  DcaTypes'
  <1>1. step' \in {"converge", "lastStatuses"} /\ waiting' = FALSE /\ failed' = TRUE
    BY DcaTables DEF Fails
  <1> QED
    BY <1>1 DEF DcaInv, DcaTypes

LEMMA ExecuteInv ==
  ASSUME DcaInv, NEW s \in Executes, Execute(s) PROVE DcaInv'
  <1>1. step = s /\ s \in Calls
    BY DcaTables DEF Execute, ExecuteRefused, ExecuteSendFails, ExecuteSends, ExecuteTimesOut,
       Calling
  <1>2. CASE ExecuteRefused(s) \/ ExecuteSendFails(s) \/ ExecuteTimesOut(s)
    <2>1. /\ Fails
          /\ UNCHANGED <<async, sent, fatalRead, confirmed, fresh, requests, inbox, device,
                         statuses>>
      BY <1>2 DEF ExecuteRefused, ExecuteSendFails, ExecuteTimesOut
    <2>2. DcaTypes'
      BY <1>1, <2>1, FailsTyped DEF DcaInv, DcaTypes
    <2>3. InFlight'
      BY <1>1, <2>1, FailsInFlight
    <2>4. StopHolds'
      BY <2>1, StopKept
    <2>5. FatalKept'
      BY <1>1, <2>1, DcaTables, FatalQuiet DEF Fails
    <2> QED
      BY <2>1, <2>2, <2>3, <2>4, <2>5 DEF DcaInv
  <1>3. CASE ExecuteSends(s)
    <2> DEFINE r == [command |-> Command[s], id |-> sent + 1]
    <2>1. /\ ~ waiting /\ waiting' /\ waiting' \in BOOLEAN
          /\ sent' = sent + 1
          /\ requests' = Append(requests, r)
          /\ confirmed' = (confirmed /\ Command[s] # "StartRecord")
          /\ UNCHANGED <<step, failed, async, fatalRead, fresh, inbox, device, statuses>>
      BY <1>3 DEF ExecuteSends, Calling
    <2>2. r \in Requests /\ r.command = Command[s] /\ r.id = sent'
      BY <1>1, <2>1, DcaTables DEF Requests, DcaInv, DcaTypes
    <2> HIDE DEF r
    <2>3. /\ requests' \in Seq(Requests) /\ Len(requests) \in Nat
          /\ DOMAIN requests = 1 .. Len(requests)
          /\ DOMAIN requests' = 1 .. (Len(requests) + 1)
          /\ \A i \in 1 .. Len(requests) : requests'[i] = requests[i]
          /\ requests'[Len(requests) + 1] = r
      BY <2>1, <2>2 DEF DcaInv, DcaTypes
    <2>4. DcaTypes'
      BY <1>1, <2>1, <2>3 DEF DcaInv, DcaTypes
    <2>5. Unread' = Unread
      BY <2>1 DEF Unread
    <2>6. CASE s = "converge"
      <3>1. r.command = "StopRecord"
        BY <2>2, <2>6, DcaTables
      <3>2. InFlight'
        BY <1>1, <2>1, <2>2, <2>3, <2>5, <2>6, <3>1, DcaTables DEF DcaInv, InFlight
      <3>3. StopHolds'
        <4>1. NoStart => NoStart'
          BY <2>3, <3>1 DEF NoStart
        <4>2. ASSUME NEW i \in DOMAIN requests', NEW j \in DOMAIN requests', i < j,
                     requests'[i].command = "StopRecord"
              PROVE  requests'[j].command # "StartRecord"
          <5>1. i \in DOMAIN requests
            BY <2>3, <4>2
          <5>2. CASE j \in DOMAIN requests
            BY <2>3, <4>2, <5>1, <5>2 DEF DcaInv, StopHolds
          <5>3. CASE j = Len(requests) + 1
            BY <2>3, <3>1, <5>3
          <5> QED
            BY <2>3, <5>2, <5>3
        <4>3. confirmed' => device' = "stopped" /\ NoStart'
          BY <2>1, <4>1 DEF DcaInv, StopHolds
        <4>4. \A d \in Unread' : d.command = "StopRecord" /\ d.ok =>
                device' = "stopped" /\ NoStart'
          BY <2>1, <2>5, <4>1 DEF DcaInv, StopHolds
        <4> QED
          BY <4>2, <4>3, <4>4 DEF StopHolds
      <3> QED
        BY <2>1, <2>4, <3>2, <3>3, FatalQuiet DEF DcaInv
    <2>7. CASE s # "converge"
      <3>1. s \in Quiet /\ requests = <<>> /\ Unread = {}
        BY <1>1, <2>1, <2>7, DcaTables DEF DcaInv, InFlight
      <3>2. requests' = <<r>> /\ r = [command |-> Command[step'], id |-> sent']
        BY <1>1, <2>1, <3>1 DEF r
      <3>3. InFlight'
        BY <1>1, <2>1, <2>5, <2>7, <3>1, <3>2, DcaTables DEF InFlight
      <3>4. StopHolds'
        <4>1. Len(requests) = 0 /\ DOMAIN requests' = {1} /\ requests'[1] = r
          BY <2>3, <3>1
        <4>2. confirmed' => device' = "stopped" /\ r.command # "StartRecord"
          BY <2>1, <2>2 DEF DcaInv, StopHolds
        <4> QED
          BY <2>5, <3>1, <4>1, <4>2 DEF StopHolds, NoStart
      <3> QED
        BY <2>1, <2>4, <3>3, <3>4, FatalQuiet DEF DcaInv
    <2> QED
      BY <2>6, <2>7
  <1> QED
    BY <1>2, <1>3 DEF Execute

LEMMA ExecuteReadsInv ==
  ASSUME DcaInv, NEW s \in Executes, ExecuteReads(s) PROVE DcaInv'
  <1> PICK d \in inbox : ExecuteReadsStatus(s, d) \/ ExecuteIgnores(s, d) \/ ExecuteReturns(s, d)
    BY DEF ExecuteReads
  <1>1. /\ step = s /\ s \in Calls /\ waiting
        /\ inbox' = inbox \ {d}
        /\ UNCHANGED <<sent, requests, device, statuses>>
    BY DcaTables DEF ExecuteReadsStatus, ExecuteIgnores, ExecuteReturns, clientVars
  <1>2. Unread' = Unread \ {d} /\ inbox' \subseteq inbox
    BY <1>1 DEF Unread
  <1>3. CASE ExecuteReadsStatus(s, d)
    <2>1. d \in Statuses
      BY <1>3 DEF ExecuteReadsStatus, DcaInv, DcaTypes, DcaAnswers, DcaCommands
    <2>2. Enqueue(d) /\ UNCHANGED <<confirmed, fresh>>
      BY <1>3 DEF ExecuteReadsStatus
    <2>3. Unread' = Unread
      BY <1>2, <2>1 DEF Unread, Statuses
    <2>4. StopHolds'
      BY <1>1, <1>2, <2>2, StopKept
    <2>5. step' \notin {"close", "closed"}
      BY <1>1, <2>2, DcaTables DEF Enqueue, Fails, Calls
    <2>6. FatalKept' /\ async' \in Seq(BOOLEAN) /\ fatalRead' \in BOOLEAN
      BY <2>1, <2>2, <2>5, EnqueueKeeps
    <2>7. CASE Fails
      BY <1>1, <1>2, <2>2, <2>4, <2>6, <2>7, FailsTyped, FailsInFlight DEF DcaInv
    <2>8. CASE UNCHANGED <<step, waiting, failed>>
      <3>1. DcaTypes'
        BY <1>1, <1>2, <2>2, <2>6, <2>8 DEF DcaInv, DcaTypes
      <3>2. InFlight'
        BY <1>1, <2>3, <2>8 DEF DcaInv, InFlight
      <3> QED
        BY <2>2, <2>4, <2>6, <3>1, <3>2 DEF DcaInv
    <2> QED
      BY <2>2, <2>7, <2>8 DEF Enqueue
  <1>4. CASE ExecuteIgnores(s, d)
    <2>1. UNCHANGED clientVars /\ d.command # Command[s] /\ d \in Unread
      BY <1>4 DEF ExecuteIgnores, Matches, Unread
    <2>2. DcaTypes'
      BY <1>1, <1>2, <2>1 DEF DcaInv, DcaTypes, clientVars
    <2>3. InFlight'
      BY <1>1, <1>2, <2>1 DEF DcaInv, InFlight, clientVars
    <2> QED
      BY <1>1, <1>2, <2>1, <2>2, <2>3, StopKept, FatalQuiet DEF DcaInv, clientVars
  <1>5. CASE ExecuteReturns(s, d)
    <2>1. /\ d.command = Command[s]
          /\ fresh' = (fresh /\ d.id = sent)
          /\ UNCHANGED <<async, fatalRead>>
      BY <1>5 DEF ExecuteReturns, Matches
    <2>2. d \in Unread /\ d \in DcaAnswers
      BY <1>1, <2>1, DcaTables DEF Unread, DcaCommands, DcaInv, DcaTypes, Statuses
    <2>3. fresh'
      BY <1>1, <2>1, <2>2, DcaTables DEF DcaInv, InFlight
    <2>4. CASE d.ok
      <3>1. Succeeds /\ confirmed' = (confirmed \/ Command[s] = "StopRecord")
        BY <1>5, <2>4 DEF ExecuteReturns
      <3>2. /\ step' \in Quiet \cup {"drain", "lastStatuses"}
            /\ waiting' = FALSE /\ failed' = failed
        BY <1>1, <3>1, DcaTables DEF Succeeds
      <3>3. DcaTypes'
        BY <1>1, <1>2, <2>1, <3>1, <3>2 DEF DcaInv, DcaTypes
      <3>4. InFlight'
        <4>1. CASE s = "converge"
          <5>1. step' = "lastStatuses"
            BY <1>1, <3>1, <4>1 DEF Succeeds, AfterOk
          <5> QED
            BY <5>1, DcaTables DEF InFlight
        <4>2. CASE s # "converge"
          <5>1. step \in Quiet
            BY <1>1, <4>2, DcaTables
          <5>2. requests = <<>> /\ Unread = {d}
            BY <1>1, <2>2, <5>1 DEF DcaInv, InFlight
          <5> QED
            BY <1>1, <1>2, <3>2, <5>2 DEF InFlight, Quiet, Calls
        <4> QED
          BY <4>1, <4>2
      <3>5. StopHolds'
        <4>1. Command[s] = "StopRecord" => device = "stopped" /\ NoStart
          BY <2>1, <2>2, <2>4 DEF DcaInv, StopHolds
        <4> QED
          BY <1>1, <1>2, <3>1, <4>1, StopKept
      <3>6. FatalKept'
        BY <2>1, <3>2, FatalQuiet DEF Quiet, Calls
      <3> QED
        BY <2>3, <3>3, <3>4, <3>5, <3>6 DEF DcaInv
    <2>5. CASE ~ d.ok
      <3>1. Fails /\ UNCHANGED confirmed
        BY <1>5, <2>5 DEF ExecuteReturns
      <3>2. DcaTypes'
        BY <1>1, <1>2, <2>1, <3>1, FailsTyped DEF DcaInv, DcaTypes
      <3>3. InFlight' /\ StopHolds'
        BY <1>1, <1>2, <3>1, FailsInFlight, StopKept
      <3>4. FatalKept'
        BY <1>1, <2>1, <3>1, DcaTables, FatalQuiet DEF Fails
      <3> QED
        BY <2>3, <3>2, <3>3, <3>4 DEF DcaInv
    <2> QED
      BY <2>4, <2>5
  <1> QED
    BY <1>3, <1>4, <1>5

-----------------------------------------------------------------------------
(* The DCA1000 client: the other calls, the device and the network.        *)

LEMMA TakeStatusesInv ==
  ASSUME DcaInv, NEW here, NEW good, NEW bad, TakeStatuses(here, good, bad),
         <<here, good, bad>> \in {<<"checkStatuses", "startConvergent", "lastStatuses">>,
                                  <<"checkStarted", "recording", "stopLast">>,
                                  <<"lastStatuses", "close", "close">>}
  PROVE  DcaInv'
  <1>1. /\ step = here /\ async' = <<>>
        /\ step' = IF Fatal THEN bad ELSE good
        /\ failed' = (failed \/ Fatal)
        /\ UNCHANGED <<waiting, sent, fatalRead, confirmed, fresh, requests, inbox, device,
                       statuses>>
    BY DEF TakeStatuses
  <1>2. /\ ~ waiting
        /\ step' \in {"startConvergent", "lastStatuses", "recording", "stopLast", "close"}
        /\ step' \in Quiet => step \in Quiet
    BY <1>1 DEF DcaInv, DcaTypes, Quiet, Calls
  <1>3. DcaTypes'
    <2>1. Fatal \in BOOLEAN
      BY DEF Fatal
    <2>2. failed' \in BOOLEAN
      BY <1>1, <2>1 DEF DcaInv, DcaTypes
    <2>3. step' \in Quiet \cup {"converge", "drain", "lastStatuses", "close", "closed"}
      BY <1>2 DEF Quiet, Calls
    <2> QED
      BY <1>1, <1>2, <2>2, <2>3 DEF DcaInv, DcaTypes
  <1>4. InFlight'
    <2>1. Unread' = Unread
      BY <1>1 DEF Unread
    <2> QED
      BY <1>1, <1>2, <2>1 DEF DcaInv, InFlight, Quiet, Calls
  <1>5. StopHolds'
    BY <1>1, StopKept
  <1>6. FatalKept'
    BY <1>1 DEF DcaInv, FatalKept, DcaTypes
  <1> QED
    BY <1>1, <1>3, <1>4, <1>5, <1>6 DEF DcaInv

LEMMA CallsInv ==
  ASSUME DcaInv, StartRecordConvergent \/ CaptureEnds \/ DrainEnds \/ Close PROVE DcaInv'
  <1>1. /\ UNCHANGED <<waiting, async, sent, fatalRead, confirmed, fresh, requests, inbox,
                       device, statuses>>
        /\ <<step, step'>> \in {<<"startConvergent", "lastStatuses">>,
                                <<"startConvergent", "start">>, <<"recording", "stopLast">>,
                                <<"drain", "lastStatuses">>, <<"close", "closed">>}
    BY DEF StartRecordConvergent, CaptureEnds, DrainEnds, Close
  <1>2. failed' \in BOOLEAN /\ (failed => failed')
    <2>1. failed \in BOOLEAN
      BY DEF DcaInv, DcaTypes
    <2>2. CASE StartRecordConvergent
      BY <2>1, <2>2 DEF StartRecordConvergent
    <2>3. CASE CaptureEnds
      BY <2>1, <2>3 DEF CaptureEnds
    <2>4. CASE DrainEnds
      BY <2>1, <2>4 DEF DrainEnds
    <2>5. CASE Close
      BY <2>1, <2>5 DEF Close
    <2> QED
      BY <2>2, <2>3, <2>4, <2>5
  <1>3. ~ waiting
    BY <1>1 DEF DcaInv, DcaTypes, Calls
  <1>4. DcaTypes'
    <2>1. step' \in Quiet \cup {"converge", "drain", "lastStatuses", "close", "closed"}
      BY <1>1 DEF Quiet, Calls
    <2> QED
      BY <1>1, <1>2, <1>3, <2>1 DEF DcaInv, DcaTypes
  <1>5. InFlight'
    <2>1. Unread' = Unread
      BY <1>1 DEF Unread
    <2>2. step' # "converge" /\ (step' \in Quiet => step \in Quiet)
      BY <1>1 DEF Quiet, Calls
    <2> QED
      BY <1>1, <1>3, <2>1, <2>2 DEF DcaInv, InFlight
  <1>6. StopHolds'
    BY <1>1, StopKept
  <1>7. FatalKept'
    BY <1>1, <1>2, FatalQuiet
  <1> QED
    BY <1>1, <1>4, <1>5, <1>6, <1>7 DEF DcaInv

LEMMA DrainReadsInv ==
  ASSUME DcaInv, NEW d \in inbox, DrainReads(d) PROVE DcaInv'
  <1>1. /\ step = "drain" /\ inbox' = inbox \ {d}
        /\ UNCHANGED <<sent, confirmed, fresh, requests, device, statuses>>
    BY DEF DrainReads
  <1>2. StopHolds'
    BY <1>1, StopKept
  <1>3. ~ waiting
    BY <1>1 DEF DcaInv, DcaTypes, Calls
  <1>4. /\ FatalKept' /\ async' \in Seq(BOOLEAN) /\ fatalRead' \in BOOLEAN
        /\ step' \in {"drain", "lastStatuses"} /\ waiting' = FALSE /\ failed' \in BOOLEAN
    <2>1. CASE d.command = "AsyncStatus"
      <3>1. d \in Statuses
        BY <2>1 DEF DcaInv, DcaTypes, DcaAnswers, DcaCommands
      <3>2. Enqueue(d)
        BY <2>1 DEF DrainReads
      <3>3. /\ step' \in {"drain", "lastStatuses"} /\ waiting' = FALSE
            /\ failed' \in BOOLEAN
        BY <1>1, <1>3, <3>2 DEF Enqueue, Fails, AfterFailure, DcaInv, DcaTypes
      <3> QED
        BY <3>1, <3>2, <3>3, EnqueueKeeps
    <2>2. CASE d.command # "AsyncStatus"
      <3>1. UNCHANGED <<step, waiting, failed, async, fatalRead>>
        BY <2>2 DEF DrainReads
      <3> QED
        BY <1>1, <1>3, <3>1, FatalQuiet DEF DcaInv, DcaTypes
    <2> QED
      BY <2>1, <2>2
  <1>5. DcaTypes'
    BY <1>1, <1>4 DEF DcaInv, DcaTypes
  <1>6. InFlight'
    BY <1>4 DEF InFlight, Quiet, Calls
  <1> QED
    BY <1>1, <1>2, <1>4, <1>5, <1>6 DEF DcaInv

\* The oldest request leaves the queue.
LEMMA TailOfRequests ==
  ASSUME DcaTypes, requests # <<>>, requests' = Tail(requests)
  PROVE  /\ requests' \in Seq(Requests) /\ Head(requests) \in Requests
         /\ Head(requests) = requests[1] /\ 1 \in DOMAIN requests
         /\ DOMAIN requests' = 1 .. (Len(requests) - 1) /\ Len(requests) \in Nat
         /\ \A i \in DOMAIN requests' : /\ requests'[i] = requests[i + 1]
                                        /\ i + 1 \in DOMAIN requests
  BY DEF DcaTypes

LEMMA NetworkInv ==
  ASSUME DcaInv, DeviceHandles \/ RequestLost PROVE DcaInv'
  <1> DEFINE r == Head(requests)
  <1>1. /\ requests # <<>> /\ requests' = Tail(requests)
        /\ UNCHANGED <<clientVars, statuses>>
    BY DEF DeviceHandles, RequestLost
  <1>2. /\ requests' \in Seq(Requests) /\ r \in Requests
        /\ r = requests[1] /\ 1 \in DOMAIN requests
        /\ DOMAIN requests' = 1 .. (Len(requests) - 1) /\ Len(requests) \in Nat
        /\ \A i \in DOMAIN requests' : /\ requests'[i] = requests[i + 1]
                                       /\ i + 1 \in DOMAIN requests
    BY <1>1, TailOfRequests DEF DcaInv
  <1>3. \/ inbox' = inbox /\ device' = device
        \/ \E ok \in BOOLEAN :
             /\ inbox' = inbox \cup {[command |-> r.command, id |-> r.id, ok |-> ok]}
             /\ device' \in {device, "stopped", "recording"}
             /\ ok /\ r.command = "StopRecord" => device' = "stopped"
             /\ r.command # "StartRecord" => device' \in {device, "stopped"}
    BY DEF DeviceHandles, RequestLost
  <1> HIDE DEF r
  <1>4. \/ Unread' = Unread /\ inbox' = inbox
        \/ \E a \in DcaAnswers : /\ a.command = r.command /\ a.id = r.id
                              /\ inbox' = inbox \cup {a} /\ Unread' = Unread \cup {a}
    <2>1. CASE inbox' = inbox
      BY <2>1 DEF Unread
    <2>2. ASSUME NEW ok \in BOOLEAN,
                 inbox' = inbox \cup {[command |-> r.command, id |-> r.id, ok |-> ok]}
          PROVE  \E a \in DcaAnswers : /\ a.command = r.command /\ a.id = r.id
                                    /\ inbox' = inbox \cup {a} /\ Unread' = Unread \cup {a}
      <3> DEFINE a == [command |-> r.command, id |-> r.id, ok |-> ok]
      <3>1. a \in DcaAnswers /\ a.command = r.command /\ a.id = r.id
        BY <1>2 DEF DcaAnswers, Requests
      <3>2. a.command # "AsyncStatus"
        BY <3>1 DEF DcaAnswers, DcaCommands
      <3>3. inbox' = inbox \cup {a}
        BY <2>2
      <3> HIDE DEF a
      <3>4. Unread' = Unread \cup {a}
        BY <3>2, <3>3 DEF Unread
      <3> QED
        BY <3>1, <3>3, <3>4
    <2> QED
      BY <1>3, <2>1, <2>2
  <1>5. DcaTypes'
    <2>1. inbox' \subseteq DcaAnswers \cup Statuses
      BY <1>4 DEF DcaInv, DcaTypes
    <2>2. device' \in {"stopped", "recording"}
      BY <1>3 DEF DcaInv, DcaTypes
    <2> QED
      BY <1>1, <1>2, <2>1, <2>2 DEF DcaInv, DcaTypes, clientVars
  <1>6. InFlight'
    <2>1. CASE step \in Quiet
      <3>1. /\ waiting /\ requests = <<[command |-> Command[step], id |-> sent]>>
            /\ Unread = {}
        BY <1>1, <2>1 DEF DcaInv, InFlight
      <3>2. r.command = Command[step] /\ r.id = sent /\ requests' = <<>>
        BY <1>1, <1>2, <3>1
      <3> QED
        BY <1>1, <1>4, <2>1, <3>1, <3>2, DcaTables DEF InFlight, clientVars
    <2>2. CASE step = "converge"
      BY <1>1, <1>2, <1>4, <2>2, DcaTables DEF DcaInv, InFlight, clientVars
    <2>3. CASE step \notin Quiet \cup {"converge"}
      BY <1>1, <2>3 DEF InFlight, clientVars
    <2> QED
      BY <2>1, <2>2, <2>3
  <1>7. StopHolds'
    <2>1. NoStart => NoStart' /\ r.command # "StartRecord"
      BY <1>2 DEF NoStart
    <2>2. r.command = "StopRecord" => NoStart'
      BY <1>2 DEF DcaInv, StopHolds, NoStart
    <2>3. \A i, j \in DOMAIN requests' :
            i < j /\ requests'[i].command = "StopRecord"
            => requests'[j].command # "StartRecord"
      BY <1>2 DEF DcaInv, StopHolds
    <2>4. r.command # "StartRecord" /\ device = "stopped" => device' = "stopped"
      BY <1>3
    <2>5. confirmed' => device' = "stopped" /\ NoStart'
      BY <1>1, <2>1, <2>4 DEF DcaInv, StopHolds, clientVars
    <2>6. ASSUME NEW d \in Unread', d.command = "StopRecord", d.ok
          PROVE  device' = "stopped" /\ NoStart'
      <3>1. CASE d \in Unread
        BY <2>1, <2>4, <2>6, <3>1 DEF DcaInv, StopHolds
      <3>2. CASE d \notin Unread
        <4>1. PICK ok \in BOOLEAN :
                /\ inbox' = inbox \cup {[command |-> r.command, id |-> r.id, ok |-> ok]}
                /\ ok /\ r.command = "StopRecord" => device' = "stopped"
          BY <1>3, <3>2 DEF Unread
        <4>2. d = [command |-> r.command, id |-> r.id, ok |-> ok]
          BY <3>2, <4>1 DEF Unread
        <4> QED
          BY <2>2, <2>6, <4>1, <4>2
      <3> QED
        BY <3>1, <3>2
    <2> QED
      BY <2>3, <2>5, <2>6 DEF StopHolds
  <1>8. FatalKept'
    BY <1>1, FatalQuiet DEF clientVars
  <1> QED
    BY <1>1, <1>5, <1>6, <1>7, <1>8 DEF DcaInv, clientVars

LEMMA DcaEnvironmentInv ==
  ASSUME DcaInv, DeviceReports \/ Cancel \/ UNCHANGED vars PROVE DcaInv'
  <1>1. UNCHANGED <<clientVars, requests, device>>
    BY DEF DeviceReports, Cancel, vars
  <1>2. /\ statuses' \in Nat /\ Unread' = Unread
        /\ inbox' \subseteq DcaAnswers \cup Statuses
    <2>1. CASE DeviceReports
      <3>1. PICK fatal \in BOOLEAN :
              inbox' = inbox \cup {[command |-> "AsyncStatus", id |-> statuses + 1,
                                    fatal |-> fatal]}
        BY <2>1 DEF DeviceReports
      <3>2. statuses \in Nat /\ statuses' = statuses + 1
        BY <2>1 DEF DeviceReports, DcaInv, DcaTypes
      <3>3. [command |-> "AsyncStatus", id |-> statuses + 1, fatal |-> fatal] \in Statuses
        BY <3>2 DEF Statuses
      <3> QED
        BY <3>1, <3>2, <3>3 DEF DcaInv, DcaTypes, Unread
    <2>2. CASE Cancel \/ UNCHANGED vars
      BY <2>2 DEF Cancel, vars, DcaInv, DcaTypes, Unread
    <2> QED
      BY <2>1, <2>2
  <1>3. DcaTypes'
    BY <1>1, <1>2 DEF DcaInv, DcaTypes, clientVars
  <1>4. InFlight'
    BY <1>1, <1>2 DEF DcaInv, InFlight, clientVars
  <1>5. StopHolds'
    BY <1>1, <1>2 DEF DcaInv, StopHolds, NoStart, clientVars
  <1>6. FatalKept'
    BY <1>1, FatalQuiet DEF clientVars
  <1> QED
    BY <1>1, <1>3, <1>4, <1>5, <1>6 DEF DcaInv, clientVars

-----------------------------------------------------------------------------
(* The DCA1000 client: the theorems.                                       *)

LEMMA DcaInitInv == Init => DcaInv
  <1> SUFFICES ASSUME Init PROVE DcaInv
    OBVIOUS
  <1>1. DcaTypes
    <2>1. <<>> \in Seq(Requests) /\ <<>> \in Seq(BOOLEAN)
      OBVIOUS
    <2> QED
      BY <2>1 DEF Init, DcaTypes, Quiet, Calls
  <1>2. InFlight /\ StopHolds /\ FatalKept
    BY DEF Init, InFlight, StopHolds, FatalKept, Unread
  <1> QED
    BY <1>1, <1>2 DEF Init, DcaInv

LEMMA DcaNextInv == DcaInv /\ [Next]_vars => DcaInv'
  <1> SUFFICES ASSUME DcaInv, [Next]_vars PROVE DcaInv'
    OBVIOUS
  <1>1. CASE \E s \in Executes : Execute(s)
    BY <1>1, ExecuteInv
  <1>2. CASE \E s \in Executes : ExecuteReads(s)
    BY <1>2, ExecuteReadsInv
  <1>3. CASE \/ TakeStatuses("checkStatuses", "startConvergent", "lastStatuses")
             \/ TakeStatuses("checkStarted", "recording", "stopLast")
             \/ TakeStatuses("lastStatuses", "close", "close")
    BY <1>3, TakeStatusesInv
  <1>4. CASE StartRecordConvergent \/ CaptureEnds \/ DrainEnds \/ Close
    BY <1>4, CallsInv
  <1>5. CASE \E d \in inbox : DrainReads(d)
    BY <1>5, DrainReadsInv
  <1>6. CASE DeviceHandles \/ RequestLost
    BY <1>6, NetworkInv
  <1>7. CASE DeviceReports \/ Cancel \/ UNCHANGED vars
    BY <1>7, DcaEnvironmentInv
  <1> QED
    BY <1>1, <1>2, <1>3, <1>4, <1>5, <1>6, <1>7 DEF Next, ClientStep, SocketReads, Environment

LEMMA DcaInvariant == Spec => []DcaInv
  BY DcaInitInv, DcaNextInv, PTL DEF Spec

\* A confirmed StopRecord (Execute, StartRecordConvergent) is a stopped device
\* with no StartRecord left in the network, whatever is lost or late.
THEOREM ConfirmedStop == Spec => []ConfirmedStopIsReal
  <1>1. DcaInv => ConfirmedStopIsReal
    BY DEF DcaInv, StopHolds, NoStart, ConfirmedStopIsReal
  <1> QED
    BY <1>1, DcaInvariant, PTL

\* Execute never takes the answer to an earlier request for its own, although
\* answers carry nothing but the command code.
THEOREM FreshAnswers == Spec => []AnswersAreFresh
  <1>1. DcaInv => AnswersAreFresh
    BY DEF DcaInv, AnswersAreFresh
  <1> QED
    BY <1>1, DcaInvariant, PTL

\* A fatal asynchronous status read from the socket fails the capture, also one
\* that overflows the queue (enqueueAsyncStatus, TakeAsyncStatuses).
THEOREM FatalReported == Spec => []FatalStatusIsReported
  <1>1. DcaInv => FatalStatusIsReported
    BY DEF DcaInv, FatalKept, FatalStatusIsReported
  <1> QED
    BY <1>1, DcaInvariant, PTL

-----------------------------------------------------------------------------
(* The radar client: the inductive invariant.                              *)

Operations == {"Verify", "Stop", "Apply", "Start", "Restart", "Send"}
StartOps == {"Start", "Restart"}

Requested == Commands \cup {"garbled"}
RequestType == [cmd : Requested, id : Nat]

Kinds == {"echo", "platform", "done", "error", "text"}
Values == Int \cup {"right", "wrong"}
LineType == [kind : Kinds, cmd : Requested \cup {""}, id : Nat, value : Values]

RadarTypes ==
  /\ todo \in Seq(Operations)
  /\ op \in Operations \cup {"none"}
  /\ phase \in {"idle", "exchange", "write", "read"}
  /\ cmd \in Commands
  /\ left \in Nat
  /\ written \in Nat
  /\ configs \in Nat
  /\ platform \in {"right", "wrong"}
  /\ platformVerified \in BOOLEAN
  /\ desynchronized \in BOOLEAN
  /\ echoSeen \in BOOLEAN
  /\ streaming \in BOOLEAN
  /\ input \in Seq(RequestType)
  /\ lines \in Seq(LineType)

\* What every rest of a script satisfies: a start is followed by one stop at
\* most, and no ApplyContext follows another or a raw command.
Shape(q) ==
  /\ \A i \in 1..Len(q) :
       q[i] \in StartOps => i = Len(q) \/ (i + 1 = Len(q) /\ q[i + 1] = "Stop")
  /\ \A i, j \in 1..Len(q) : i < j /\ q[i] \in {"Apply", "Send"} => q[j] # "Apply"

Scheduled ==
  /\ Shape(todo)
  /\ op \in StartOps => todo \in {<<>>, <<"Stop">>}
  /\ op \in {"Apply", "Send"} => \A i \in DOMAIN todo : todo[i] # "Apply"

\* The exchange that runs is the gate's until the gate is open, and then the
\* operation's own.
Fits ==
  phase # "idle" =>
    /\ \/ ~ platformVerified /\ op \notin {"Send", "none"} /\ cmd = "version"
       \/ platformVerified /\ op = "Send"
       \/ platformVerified /\ op \in {"Stop", "Apply"} \cup StartOps /\ cmd = CommandOf[op]
    /\ IF op = "Apply" THEN left \in 1..NConfig ELSE left = 0

Numbered ==
  /\ \A i \in DOMAIN input : input[i].id <= written
  /\ \A i \in DOMAIN lines : lines[i].id <= written

\* An exchange is due or has not been written yet.
Before == phase \in {"exchange", "write"} \/ (phase = "idle" /\ todo # <<>>)

\* What was written before command n can open no gate, or answer no stop.
NoPlatform(n) ==
  /\ \A i \in DOMAIN input : input[i].id < n => input[i].cmd # "version"
  /\ \A i \in DOMAIN lines : lines[i].id < n => lines[i].kind # "platform"

NoStop(n) ==
  /\ \A i \in DOMAIN input : input[i].id < n => input[i].cmd # "sensorStop"
  /\ \A i \in DOMAIN lines : lines[i].id < n => lines[i].cmd # "sensorStop"

\* Nothing is in flight, and nothing but the command being exchanged is.
Clean == input = <<>> /\ lines = <<>>

Mine ==
  /\ \A i \in DOMAIN input : input[i].id = written
  /\ \A i \in DOMAIN lines : lines[i].id = written

\* The line between the exchanges: before the gate it may hold what an earlier
\* process left, behind it nothing, and after a start that failed only what
\* cannot be taken for the answer to the stop that follows.
BetweenExchanges ==
  Before =>
    /\ ~ platformVerified =>
         /\ ~ desynchronized /\ written = 0
         /\ NoPlatform(written + 1)
         /\ phase = "idle" =>
              /\ op = "none" /\ Head(todo) # "Send"
              /\ Head(todo) \in StartOps => Tail(todo) = <<>>
         /\ phase # "idle" /\ op \in StartOps => todo = <<>>
    /\ platformVerified /\ ~ desynchronized => Clean
    /\ platformVerified /\ desynchronized =>
         /\ NoStop(written + 1)
         /\ phase = "idle" => op \in StartOps /\ todo = <<"Stop">>
         /\ phase # "idle" => op = "Stop" /\ todo = <<>>

\* The line during an exchange.
InExchange ==
  phase = "read" =>
    /\ written > 0
    /\ ~ platformVerified =>
         /\ written = 1
         /\ Mine \/ (field = "none" /\ NoPlatform(written))
         /\ op \in StartOps => todo = <<>>
    /\ platformVerified =>
         \/ Mine /\ (op = "Stop" \/ echoSeen)
         \/ op = "Stop" /\ todo = <<>> /\ ~ echoSeen /\ NoStop(written)

\* The request of the exchange is the last one, and the lines of its response
\* are the last ones: none is there before the device has taken the request.
Order ==
  phase = "read" =>
    /\ \A i \in DOMAIN input :
         input[i].id = written => i = Len(input) /\ input[i].cmd \in {cmd, "garbled"}
    /\ \A i, j \in DOMAIN lines : i <= j /\ lines[i].id = written => lines[j].id = written
    /\ \A i \in DOMAIN lines : lines[i].id = written =>
         /\ input = <<>>
         /\ lines[i].cmd \in {cmd, "garbled"}
         /\ IsTerminal(lines[i]) => i = Len(lines)

\* The device has done what the answer to the exchange says it has.
Done(line) ==
  /\ line.kind = "done" =>
       /\ cmd = "sensorStop" => ~ streaming
       /\ cmd \in Starts => started = written
       /\ op = "Apply" /\ cmd = "config" => configs + left = NConfig + 1
  /\ line.kind = "error" /\ line.value = -54 /\ cmd = "sensorStop" => ~ streaming

Effect ==
  phase = "read" => \A i \in DOMAIN lines : lines[i].id = written => Done(lines[i])

\* The device has obeyed every configuration command but the ones left.
OwnDone == \E i \in DOMAIN lines : lines[i].id = written /\ lines[i].kind = "done"

Counted ==
  /\ (\E i \in DOMAIN todo : todo[i] = "Apply") => configs = 0
  /\ op = "Apply" /\ phase # "idle" /\ ~ (phase = "read" /\ cmd = "config" /\ OwnDone) =>
       configs + left = NConfig

Confirmed ==
  phase = "idle" /\ outcome = "ok" =>
    /\ Clean
    /\ op = "Stop" => ~ streaming
    /\ op \in StartOps => started = written
    /\ op = "Apply" => configs = NConfig

RadarInv ==
  /\ RadarTypes /\ Scheduled /\ Fits /\ Numbered /\ BetweenExchanges /\ InExchange
  /\ Order /\ Effect /\ Counted /\ Confirmed /\ AnswersAreOwn

-----------------------------------------------------------------------------
(* The radar client: facts about its sequences and tables.                 *)

LEMMA ValueTypes ==
  /\ \A n \in Int : n \in Values
  /\ "right" \in Values /\ "wrong" \in Values
  BY DEF Values

LEMMA DroppedLines ==
  ASSUME NEW s \in Seq(LineType), NEW t \in Dropped(s)
  PROVE  /\ t \in Seq(LineType)
         /\ s = <<>> => t = <<>>
         /\ \A i \in DOMAIN t : t[i] = Fragment \/ \E j \in DOMAIN s : t[i] = s[j]
  <1>1. Fragment \in LineType
    <2>1. 0 \in Values /\ "" \in Requested \cup {""} /\ "text" \in Kinds /\ 0 \in Nat
      BY ValueTypes DEF Kinds
    <2> QED
      BY <2>1 DEF Fragment, LineType
  <1>2. CASE t = <<>>
    BY <1>2
  <1>3. CASE \E l \in 1..Len(s) : t = SubSeq(s, l, Len(s))
    <2>1. PICK l \in 1..Len(s) : t = SubSeq(s, l, Len(s))
      BY <1>3
    <2>2. t \in Seq(LineType) /\ Len(t) = Len(s) - l + 1
      BY <2>1
    <2>3. \A i \in 1..Len(t) : t[i] = s[l + i - 1] /\ l + i - 1 \in 1..Len(s)
      BY <2>1, <2>2
    <2> QED
      BY <2>1, <2>2, <2>3
  <1>4. CASE \E k \in DOMAIN s : t = <<Fragment>> \o SubSeq(s, k + 1, Len(s))
    <2>0. DOMAIN s = 1..Len(s)
      OBVIOUS
    <2>1. PICK k \in 1..Len(s) : t = <<Fragment>> \o SubSeq(s, k + 1, Len(s))
      BY <1>4, <2>0, Zenon
    <2> DEFINE r == SubSeq(s, k + 1, Len(s))
    <2>2. r \in Seq(LineType) /\ Len(r) = Len(s) - k
      OBVIOUS
    <2>3. \A i \in 1..Len(r) : r[i] = s[k + i] /\ k + i \in 1..Len(s)
      BY <2>2
    <2>4. <<Fragment>> \in Seq(LineType) /\ Len(<<Fragment>>) = 1
      BY <1>1
    <2> HIDE DEF r
    <2>5. t \in Seq(LineType) /\ Len(t) = 1 + Len(r)
      BY <2>1, <2>2, <2>4 DEF r
    <2>6. \A i \in 1..Len(t) : t[i] = IF i = 1 THEN Fragment ELSE r[i - 1]
      BY <2>1, <2>2, <2>4, <2>5 DEF r
    <2>7. \A i \in 1..Len(t) : i = 1 \/ i - 1 \in 1..Len(r)
      BY <2>2, <2>5
    <2> QED
      BY <2>1, <2>3, <2>5, <2>6, <2>7
  <1> QED
    BY <1>2, <1>3, <1>4 DEF Dropped, Suffixes

LEMMA EmptySeq ==
  ASSUME NEW S, NEW q \in Seq(S), Len(q) = 0
  PROVE  q = <<>>
  OBVIOUS

LEMMA SingletonSeq ==
  ASSUME NEW S, NEW q \in Seq(S), Len(q) = 1
  PROVE  q = <<q[1]>>
  OBVIOUS

LEMMA ShapeTail ==
  ASSUME NEW q \in Seq(Operations), q # <<>>, Shape(q)
  PROVE  /\ Head(q) \in Operations
         /\ Tail(q) \in Seq(Operations)
         /\ Shape(Tail(q))
         /\ Head(q) \in StartOps => Tail(q) \in {<<>>, <<"Stop">>}
         /\ Head(q) \in {"Apply", "Send"} => \A i \in DOMAIN Tail(q) : Tail(q)[i] # "Apply"
         /\ \A i \in DOMAIN Tail(q) : \E j \in DOMAIN q : Tail(q)[i] = q[j]
  <1> DEFINE t == Tail(q)
  <1>1. /\ t \in Seq(Operations) /\ Len(t) = Len(q) - 1 /\ Head(q) = q[1] /\ Len(q) \in Nat
        /\ 1 \in DOMAIN q /\ DOMAIN q = 1..Len(q) /\ DOMAIN t = 1..Len(t) /\ q[1] \in Operations
    OBVIOUS
  <1>2. \A i \in 1..Len(t) : t[i] = q[i + 1] /\ i + 1 \in 1..Len(q)
    BY <1>1
  <1> HIDE DEF t
  <1>3. Shape(t)
    <2>1. ASSUME NEW i \in 1..Len(t), t[i] \in StartOps
          PROVE  i = Len(t) \/ (i + 1 = Len(t) /\ t[i + 1] = "Stop")
      <3>1. i + 1 \in 1..Len(q) /\ q[i + 1] \in StartOps
        BY <1>2, <2>1
      <3>2. i + 1 = Len(q) \/ (i + 2 = Len(q) /\ q[i + 2] = "Stop")
        BY <1>1, <3>1 DEF Shape
      <3> QED
        BY <1>1, <1>2, <3>2
    <2>2. ASSUME NEW i \in 1..Len(t), NEW j \in 1..Len(t), i < j, t[i] \in {"Apply", "Send"}
          PROVE  t[j] # "Apply"
      <3>1. /\ i + 1 \in 1..Len(q) /\ j + 1 \in 1..Len(q) /\ i + 1 < j + 1
            /\ q[i + 1] = t[i] /\ q[j + 1] = t[j]
        BY <1>1, <1>2, <2>2
      <3> QED
        BY <2>2, <3>1 DEF Shape
    <2> QED
      BY <2>1, <2>2 DEF Shape
  <1>4. ASSUME q[1] \in StartOps PROVE t \in {<<>>, <<"Stop">>}
    <2>1. Len(q) = 1 \/ (Len(q) = 2 /\ q[2] = "Stop")
      BY <1>1, <1>4 DEF Shape
    <2>2. CASE Len(q) = 1
      BY <1>1, <2>2
    <2>3. CASE Len(q) = 2 /\ q[2] = "Stop"
      <3>1. Len(t) = 1 /\ t[1] = "Stop"
        BY <1>1, <1>2, <2>3
      <3> QED
        BY <1>1, <3>1, SingletonSeq
    <2> QED
      BY <2>1, <2>2, <2>3
  <1>5. ASSUME q[1] \in {"Apply", "Send"} PROVE \A i \in DOMAIN t : t[i] # "Apply"
    <2>1. ASSUME NEW i \in 1..Len(t) PROVE t[i] # "Apply"
      <3>1. i + 1 \in 1..Len(q) /\ 1 \in 1..Len(q) /\ 1 < i + 1 /\ q[i + 1] = t[i]
        BY <1>1, <1>2
      <3> QED
        BY <1>5, <3>1 DEF Shape
    <2> QED
      BY <1>1, <2>1
  <1> QED
    BY <1>1, <1>2, <1>3, <1>4, <1>5 DEF t

\* The scripts: the first operation is a start only where it is the only one.
LEMMA ScriptShape ==
  ASSUME NEW j \in DOMAIN Script
  PROVE  /\ Script[j] \in Seq(Operations)
         /\ Shape(Script[j])
         /\ Script[j] # <<>>
         /\ Head(Script[j]) # "Send"
         /\ Head(Script[j]) \in StartOps => Tail(Script[j]) = <<>>
  <1> USE DEF Operations, StartOps
  <1>1. CASE j = "repl"
    <2> DEFINE r == [i \in 1..MaxRepl |-> "Send"]
               q == <<"Verify">> \o r
    <2>1. r \in Seq(Operations) /\ Len(r) = MaxRepl
      BY RadarAssumption
    <2>2. \A i \in 1..Len(r) : r[i] = "Send"
      BY <2>1
    <2> HIDE DEF r
    <2>3. <<"Verify">> \in Seq(Operations)
      OBVIOUS
    <2>4. /\ q \in Seq(Operations) /\ Len(q) = 1 + Len(r)
          /\ \A i \in 1..Len(q) : q[i] = IF i = 1 THEN "Verify" ELSE r[i - 1]
      BY <2>1, <2>3
    <2> HIDE DEF q
    <2>5. \A i \in 1..Len(q) : q[i] \in {"Verify", "Send"}
      BY <2>1, <2>2, <2>4
    <2>6. Head(q) = "Verify" /\ q # <<>>
      BY <2>1, <2>4
    <2>7. Shape(q)
      BY <2>4, <2>5 DEF Shape
    <2>8. Script[j] = q
      BY <1>1 DEF Script, q, r
    <2> QED
      BY <2>4, <2>6, <2>7, <2>8
  <1>2. CASE j = "capture"
    BY <1>2 DEF Script, Shape
  <1>3. CASE j = "reuse"
    BY <1>3 DEF Script, Shape
  <1>4. CASE j = "apply"
    BY <1>4 DEF Script, Shape
  <1>5. CASE j = "start"
    BY <1>5 DEF Script, Shape
  <1>6. CASE j = "restart"
    BY <1>6 DEF Script, Shape
  <1>7. CASE j = "stop"
    BY <1>7 DEF Script, Shape
  <1>8. CASE j = "version"
    BY <1>8 DEF Script, Shape
  <1> QED
    BY <1>1, <1>2, <1>3, <1>4, <1>5, <1>6, <1>7, <1>8 DEF Script

LEMMA RadarTables ==
  /\ CommandOf["Stop"] = "sensorStop" /\ CommandOf["Apply"] = "config"
  /\ CommandOf["Start"] = "sensorStart" /\ CommandOf["Restart"] = "sensorStart 0"
  /\ \A o \in {"Stop", "Apply"} \cup StartOps : CommandOf[o] \in Commands
  /\ \A o \in StartOps : CommandOf[o] \in Starts
  /\ Operations = {"Verify", "Send", "Stop", "Apply"} \cup StartOps
  <1>1. /\ CommandOf["Stop"] = "sensorStop" /\ CommandOf["Apply"] = "config"
        /\ CommandOf["Start"] = "sensorStart" /\ CommandOf["Restart"] = "sensorStart 0"
    BY DEF CommandOf
  <1>2. {"sensorStop", "config", "sensorStart", "sensorStart 0"} \subseteq Commands
    BY DEF Commands, State
  <1> QED
    BY <1>1, <1>2 DEF StartOps, Starts, Operations

-----------------------------------------------------------------------------
(* The radar client: steps that read no line.                              *)

LEMMA InFlightTypes ==
  ASSUME RadarTypes
  PROVE  /\ \A i \in DOMAIN input : input[i] \in RequestType /\ input[i].id \in Nat
         /\ \A i \in DOMAIN lines : lines[i] \in LineType /\ lines[i].id \in Nat
  <1>1. \A r \in RequestType : r.id \in Nat
    BY DEF RequestType
  <1>2. \A l \in LineType : l.id \in Nat
    BY DEF LineType
  <1>3. /\ \A i \in DOMAIN input : input[i] \in RequestType
        /\ \A i \in DOMAIN lines : lines[i] \in LineType
    BY DEF RadarTypes
  <1> QED
    BY <1>1, <1>2, <1>3, Zenon

\* Lines are dropped, and the first one left may have been cut.
Remains ==
  /\ lines' \in Seq(LineType)
  /\ lines = <<>> => lines' = <<>>
  /\ \A i \in DOMAIN lines' : lines'[i] = Fragment \/ \E j \in DOMAIN lines : lines'[i] = lines[j]

LEMMA DroppedRemains ==
  ASSUME RadarTypes, lines' \in Dropped(lines)
  PROVE  Remains
  BY DroppedLines DEF RadarTypes, Remains

LEMMA UnchangedRemains ==
  ASSUME RadarTypes, lines' = lines
  PROVE  Remains
  BY DEF RadarTypes, Remains

LEMMA RemainsInFlight ==
  ASSUME RadarTypes, Numbered, Remains, UNCHANGED <<input, written>>
  PROVE  /\ Numbered'
         /\ NoStop(written + 1) => NoStop(written + 1)'
         /\ NoPlatform(written + 1) => NoPlatform(written + 1)'
         /\ Clean => Clean'
  <1>1. Fragment.id = 0 /\ Fragment.kind = "text" /\ Fragment.cmd = ""
    BY DEF Fragment
  <1>2. \A i \in DOMAIN lines' :
          \/ lines'[i].id = 0 /\ lines'[i].kind = "text" /\ lines'[i].cmd = ""
          \/ \E j \in DOMAIN lines : lines'[i] = lines[j]
    BY <1>1 DEF Remains
  <1>3. Numbered'
    <2>1. \A i \in DOMAIN lines' : lines'[i].id <= written
      <3> TAKE i \in DOMAIN lines'
      <3>0. 0 <= written
        BY DEF RadarTypes
      <3>1. CASE lines'[i].id = 0
        BY <3>0, <3>1, Zenon
      <3>2. CASE \E j \in DOMAIN lines : lines'[i] = lines[j]
        BY <3>2 DEF Numbered
      <3> QED
        BY <1>2, <3>1, <3>2
    <2> QED
      BY <2>1 DEF Numbered
  <1>4. ASSUME NoStop(written + 1) PROVE NoStop(written + 1)'
    BY <1>2, <1>4 DEF NoStop
  <1>5. ASSUME NoPlatform(written + 1) PROVE NoPlatform(written + 1)'
    BY <1>2, <1>5 DEF NoPlatform
  <1>6. ASSUME Clean PROVE Clean'
    BY <1>6 DEF Clean, Remains
  <1> QED
    BY <1>3, <1>4, <1>5, <1>6

\* An operation returns an error.  It has to show that what it leaves on the
\* line cannot disturb the operation that follows, if one does.
LEMMA FailedReturn ==
  ASSUME RadarInv, phase # "idle", Remains,
         NEW r \in {"failed", "unknown", "rejected"}, Return(op, r),
         UNCHANGED <<op, cmd, left, platformVerified, input, sensor, written>>,
         desynchronized' \in BOOLEAN, echoSeen' \in BOOLEAN,
         todo # <<>> /\ platformVerified /\ (op \in StartOps \/ (op = "Send" /\ r = "rejected")) =>
           /\ desynchronized' => r # "rejected" /\ NoStop(written + 1)'
           /\ ~ desynchronized' => Clean',
         AnswersAreOwn'
  PROVE  RadarInv'
  <1>0. RadarTypes /\ Scheduled /\ Fits /\ Numbered /\ Counted
    BY DEF RadarInv
  <1>1. phase' = "idle" /\ outcome' = r /\ todo' \in {todo, <<>>}
    BY DEF Return, Remaining
  <1>2. todo' # <<>> => todo' = todo /\ (op \in StartOps \/ (op = "Send" /\ r = "rejected"))
    BY DEF Return, Remaining, StartOps
  <1>3. RadarTypes'
    <2>1. todo' \in Seq(Operations) /\ phase' \in {"idle", "exchange", "write", "read"}
      <3>1. <<>> \in Seq(Operations)
        OBVIOUS
      <3> QED
        BY <1>0, <1>1, <3>1, Zenon DEF RadarTypes
    <2>2. lines' \in Seq(LineType)
      BY DEF Remains
    <2> QED
      BY <1>0, <2>1, <2>2, Zenon DEF RadarTypes, sensor
  <1>4. Scheduled'
    <2>1. Shape(<<>>)
      BY DEF Shape
    <2> QED
      BY <1>0, <1>1, <2>1 DEF Scheduled
  <1>5. Fits' /\ InExchange' /\ Order' /\ Effect' /\ Confirmed'
    BY <1>1 DEF Fits, InExchange, Order, Effect, Confirmed
  <1>6. Numbered'
    BY <1>0, RemainsInFlight
  <1>7. Counted'
    BY <1>0, <1>1 DEF Counted, sensor
  <1>8. BetweenExchanges'
    <2> SUFFICES ASSUME todo' # <<>> PROVE BetweenExchanges'
      BY <1>1 DEF BetweenExchanges, Before
    <2>1. todo # <<>> /\ (op \in StartOps \/ (op = "Send" /\ r = "rejected"))
      BY <1>2
    <2>2. platformVerified
      <3>1. ~ platformVerified => op # "Send"
        BY <1>0 DEF Fits
      <3>2. ~ platformVerified /\ op \in StartOps => todo = <<>>
        BY <1>0 DEF RadarInv, BetweenExchanges, InExchange, Before, RadarTypes
      <3> QED
        BY <2>1, <3>1, <3>2
    <2>3. /\ desynchronized' => r # "rejected" /\ NoStop(written + 1)'
          /\ ~ desynchronized' => Clean'
      BY <2>1, <2>2
    <2>4. desynchronized' => op' \in StartOps /\ todo' = <<"Stop">>
      BY <1>2, <2>1, <2>3, <1>0 DEF Scheduled
    <2> QED
      BY <1>1, <2>2, <2>3, <2>4 DEF BetweenExchanges
  <1> QED
    BY <1>3, <1>4, <1>5, <1>6, <1>7, <1>8 DEF RadarInv

LEMMA BeginRefusedInv ==
  ASSUME RadarInv, BeginRefused
  PROVE  RadarInv'
  <1>0. /\ RadarTypes /\ Scheduled /\ Numbered /\ Counted /\ BetweenExchanges /\ AnswersAreOwn
        /\ phase = "idle" /\ todo # <<>>
    BY DEF RadarInv, BeginRefused
  <1>1. /\ op' = Head(todo) /\ phase' = "idle" /\ outcome' = "failed"
        /\ todo' = IF op' \in StartOps THEN Tail(todo) ELSE <<>>
        /\ UNCHANGED <<cmd, left, platformVerified, desynchronized, echoSeen, input, lines,
                       written, streaming, started, configs, platform, taken>>
    BY DEF BeginRefused, parse, sensor, StartOps
  <1>2. /\ Head(todo) \in Operations
        /\ Tail(todo) \in Seq(Operations)
        /\ Shape(Tail(todo))
        /\ Head(todo) \in StartOps => Tail(todo) \in {<<>>, <<"Stop">>}
        /\ Head(todo) \in {"Apply", "Send"} => \A i \in DOMAIN Tail(todo) : Tail(todo)[i] # "Apply"
        /\ \A i \in DOMAIN Tail(todo) : \E j \in DOMAIN todo : Tail(todo)[i] = todo[j]
    BY <1>0, ShapeTail DEF RadarTypes, Scheduled
  <1>3. RadarTypes'
    BY <1>0, <1>1, <1>2 DEF RadarTypes
  <1>4. Scheduled'
    <2>1. Shape(<<>>)
      BY DEF Shape
    <2> QED
      BY <1>1, <1>2, <2>1 DEF Scheduled
  <1>5. Fits' /\ InExchange' /\ Order' /\ Effect' /\ Confirmed'
    BY <1>1 DEF Fits, InExchange, Order, Effect, Confirmed
  <1>6. Numbered' /\ AnswersAreOwn'
    BY <1>0, <1>1 DEF Numbered, AnswersAreOwn
  <1>7. Counted'
    BY <1>0, <1>1, <1>2 DEF Counted
  <1>8. BetweenExchanges'
    <2> SUFFICES ASSUME todo' # <<>> PROVE BetweenExchanges'
      BY <1>1 DEF BetweenExchanges, Before
    <2>1. Head(todo) \in StartOps /\ todo' = Tail(todo)
      BY <1>1
    <2>2. platformVerified /\ ~ desynchronized
      <3>1. Head(<<"Stop">>) \notin StartOps
        BY DEF StartOps
      <3> QED
        BY <1>0, <2>1, <3>1 DEF BetweenExchanges, Before
    <2>3. Clean'
      BY <1>0, <1>1, <2>2 DEF BetweenExchanges, Before, Clean
    <2> QED
      BY <1>1, <2>2, <2>3 DEF BetweenExchanges
  <1> QED
    BY <1>3, <1>4, <1>5, <1>6, <1>7, <1>8 DEF RadarInv

LEMMA BeginInv ==
  ASSUME RadarInv, Begin
  PROVE  RadarInv'
  <1>0. /\ RadarTypes /\ Scheduled /\ Numbered /\ Counted /\ BetweenExchanges /\ AnswersAreOwn
        /\ phase = "idle" /\ todo # <<>>
    BY DEF RadarInv, Begin
  <1>1. /\ op' = Head(todo) /\ phase' = "exchange" /\ todo' = Tail(todo)
        /\ left' = IF op' = "Apply" THEN NConfig ELSE 0
        /\ \/ op' = "Send" /\ cmd' \in Commands
           \/ op' # "Send" /\ ~ platformVerified /\ cmd' = "version"
           \/ op' \notin {"Send", "Verify"} /\ platformVerified /\ cmd' = CommandOf[op']
        /\ UNCHANGED <<platformVerified, desynchronized, echoSeen, input, lines,
                       written, streaming, started, configs, platform, taken>>
    BY DEF Begin, Exchange, parse, sensor
  <1>2. /\ Head(todo) \in Operations
        /\ Tail(todo) \in Seq(Operations)
        /\ Shape(Tail(todo))
        /\ Head(todo) \in StartOps => Tail(todo) \in {<<>>, <<"Stop">>}
        /\ Head(todo) \in {"Apply", "Send"} => \A i \in DOMAIN Tail(todo) : Tail(todo)[i] # "Apply"
        /\ \A i \in DOMAIN Tail(todo) : \E j \in DOMAIN todo : Tail(todo)[i] = todo[j]
        /\ 1 \in DOMAIN todo /\ Head(todo) = todo[1]
    BY <1>0, ShapeTail DEF RadarTypes, Scheduled
  <1>3. cmd' \in Commands
    BY <1>1, <1>2, RadarTables DEF Commands
  <1>4. left' \in Nat /\ (op' = "Apply" => left' = NConfig /\ left' \in 1..NConfig)
    BY <1>1, RadarAssumption
  <1>5. RadarTypes'
    BY <1>0, <1>1, <1>2, <1>3, <1>4 DEF RadarTypes
  <1>6. Scheduled'
    BY <1>1, <1>2 DEF Scheduled
  <1>7. op' = "Send" => platformVerified
    BY <1>0, <1>1 DEF BetweenExchanges, Before
  <1>8. Fits'
    <2>1. op' # "none" /\ (op' \notin {"Send", "Verify"} => op' \in {"Stop", "Apply"} \cup StartOps)
      BY <1>1, <1>2, RadarTables DEF Operations
    <2>2. IF op' = "Apply" THEN left' \in 1..NConfig ELSE left' = 0
      BY <1>1, <1>4
    <2>3. \/ ~ platformVerified' /\ op' \notin {"Send", "none"} /\ cmd' = "version"
          \/ platformVerified' /\ op' = "Send"
          \/ platformVerified' /\ op' \in {"Stop", "Apply"} \cup StartOps /\ cmd' = CommandOf[op']
      BY <1>1, <1>7, <2>1
    <2> QED
      BY <2>2, <2>3 DEF Fits
  <1>9. InExchange' /\ Order' /\ Effect' /\ Confirmed'
    BY <1>1 DEF InExchange, Order, Effect, Confirmed
  <1>10. Numbered' /\ AnswersAreOwn'
    BY <1>0, <1>1 DEF Numbered, AnswersAreOwn
  <1>11. Counted'
    BY <1>0, <1>1, <1>2, <1>4 DEF Counted, RadarTypes
  <1>12. BetweenExchanges'
    <2>1. CASE ~ platformVerified
      BY <1>0, <1>1, <2>1 DEF BetweenExchanges, Before, NoPlatform
    <2>2. CASE platformVerified /\ ~ desynchronized
      BY <1>0, <1>1, <2>2 DEF BetweenExchanges, Before, Clean
    <2>3. CASE platformVerified /\ desynchronized
      <3>1. todo = <<"Stop">> /\ NoStop(written + 1)
        BY <1>0, <2>3 DEF BetweenExchanges, Before
      <3>2. op' = "Stop" /\ todo' = <<>>
        BY <1>1, <3>1
      <3> QED
        BY <1>1, <2>3, <3>1, <3>2 DEF BetweenExchanges, NoStop
    <2> QED
      BY <2>1, <2>2, <2>3
  <1> QED
    BY <1>5, <1>6, <1>8, <1>9, <1>10, <1>11, <1>12 DEF RadarInv

\* What is in flight before an exchange is written: the rest of an operation
\* that needs it finds the line empty, or nothing that answers a stop.
LEMMA LeftBefore ==
  ASSUME RadarInv, phase \in {"exchange", "write"}, Remains,
         UNCHANGED <<input, written>>,
         todo # <<>>, platformVerified, op \in StartOps
  PROVE  ~ desynchronized /\ Clean'
  <1>1. ~ desynchronized /\ Clean
    BY DEF RadarInv, BetweenExchanges, Before, StartOps
  <1> QED
    BY <1>1, RemainsInFlight DEF RadarInv

LEMMA RefusedInv ==
  ASSUME RadarInv, Refused \/ WriteNothing
  PROVE  RadarInv'
  <1>0. RadarTypes /\ phase \in {"exchange", "write"} /\ desynchronized' = desynchronized
    BY DEF RadarInv, Refused, WriteNothing
  <1>1. /\ Return(op, "failed")
        /\ UNCHANGED <<op, cmd, left, platformVerified, input, sensor, written>>
        /\ UNCHANGED <<echoSeen, taken>>
    BY DEF Refused, WriteNothing, parse
  <1>2. Remains
    BY <1>0, DroppedRemains, UnchangedRemains DEF Refused, WriteNothing
  <1>3. todo # <<>> /\ platformVerified /\ op \in StartOps =>
          ~ desynchronized /\ Clean'
    BY <1>0, <1>1, <1>2, LeftBefore
  <1>4. AnswersAreOwn'
    BY <1>1 DEF RadarInv, AnswersAreOwn
  <1>5. desynchronized' \in BOOLEAN /\ echoSeen' \in BOOLEAN
    BY <1>0, <1>1, Zenon DEF RadarTypes
  <1> QED
    BY <1>0, <1>1, <1>2, <1>3, <1>4, <1>5, FailedReturn

LEMMA WritePartlyInv ==
  ASSUME RadarInv, WritePartly
  PROVE  RadarInv'
  <1>0. RadarTypes /\ phase = "write"
    BY DEF RadarInv, WritePartly
  <1>1. /\ Return(op, "unknown")
        /\ UNCHANGED <<op, cmd, left, platformVerified, input, sensor, written>>
        /\ UNCHANGED <<echoSeen, taken, lines>>
        /\ desynchronized' = TRUE
    BY DEF WritePartly, UnknownResult, parse
  <1>2. Remains
    BY <1>0, <1>1, UnchangedRemains
  <1>3. todo # <<>> /\ platformVerified /\ op \in StartOps => Clean'
    BY <1>0, <1>1, <1>2, LeftBefore
  <1>4. Clean' => NoStop(written + 1)'
    BY DEF Clean, NoStop
  <1>5. AnswersAreOwn'
    BY <1>1 DEF RadarInv, AnswersAreOwn
  <1>6. desynchronized' \in BOOLEAN /\ echoSeen' \in BOOLEAN
    BY <1>0, <1>1, Zenon DEF RadarTypes
  <1> QED
    BY <1>0, <1>1, <1>2, <1>3, <1>4, <1>5, <1>6, FailedReturn

\* A start that gives up leaves its own request or response on the line.
LEMMA ReadGivesUpInv ==
  ASSUME RadarInv, ReadGivesUp
  PROVE  RadarInv'
  <1>0. RadarTypes /\ Numbered /\ phase = "read"
    BY DEF RadarInv, ReadGivesUp, ReadEnds
  <1>1. /\ Return(op, "unknown")
        /\ UNCHANGED <<op, cmd, left, platformVerified, input, sensor, written>>
        /\ UNCHANGED <<echoSeen, taken>>
        /\ lines' \in Dropped(lines)
        /\ desynchronized' = TRUE
    BY DEF ReadGivesUp, UnknownResult, parse
  <1>2. Remains
    BY <1>0, <1>1, DroppedRemains
  <1>3. ASSUME todo # <<>>, platformVerified, op \in StartOps
        PROVE  NoStop(written + 1)'
    <2>1. Mine /\ cmd # "sensorStop"
      <3>1. op # "Stop" /\ op # "Send"
        BY <1>3 DEF StartOps
      <3>2. Mine
        BY <1>0, <1>3, <3>1 DEF RadarInv, InExchange
      <3>3. cmd = CommandOf[op]
        BY <1>0, <1>3, <3>1 DEF RadarInv, Fits
      <3> QED
        BY <1>3, <3>2, <3>3, RadarTables DEF Starts
    <2>2. \A i \in DOMAIN input : input[i].cmd # "sensorStop"
      BY <1>0, <2>1 DEF RadarInv, Order, Mine
    <2>3. \A i \in DOMAIN lines : lines[i].cmd # "sensorStop"
      BY <1>0, <2>1 DEF RadarInv, Order, Mine
    <2>4. NoStop(written + 1)
      BY <2>2, <2>3 DEF NoStop
    <2> QED
      BY <1>0, <1>1, <1>2, <2>4, RemainsInFlight
  <1>5. AnswersAreOwn'
    BY <1>1 DEF RadarInv, AnswersAreOwn
  <1>6. desynchronized' \in BOOLEAN /\ echoSeen' \in BOOLEAN
    BY <1>0, <1>1, Zenon DEF RadarTypes
  <1> QED
    BY <1>0, <1>1, <1>2, <1>3, <1>5, <1>6, FailedReturn

LEMMA PurgeInputInv ==
  ASSUME RadarInv, PurgeInput
  PROVE  RadarInv'
  <1>0. /\ RadarTypes /\ Scheduled /\ Fits /\ Numbered /\ Counted /\ BetweenExchanges
        /\ AnswersAreOwn /\ phase = "exchange"
    BY DEF RadarInv, PurgeInput
  <1>1. /\ phase' = "write" /\ lines' \in Dropped(lines)
        /\ UNCHANGED <<op, cmd, left, todo, platformVerified, desynchronized, echoSeen, input,
                       written, streaming, started, configs, platform, taken>>
    BY DEF PurgeInput, parse, sensor
  <1>2. Remains
    BY <1>0, <1>1, DroppedRemains
  <1>3. RadarTypes'
    <2>1. lines' \in Seq(LineType) /\ phase' \in {"idle", "exchange", "write", "read"}
      BY <1>1, <1>2 DEF Remains
    <2> QED
      BY <1>0, <1>1, <2>1, Zenon DEF RadarTypes
  <1>4. Scheduled' /\ Fits' /\ AnswersAreOwn' /\ Counted'
    BY <1>0, <1>1 DEF Scheduled, Fits, AnswersAreOwn, Counted
  <1>5. InExchange' /\ Order' /\ Effect' /\ Confirmed'
    BY <1>1 DEF InExchange, Order, Effect, Confirmed
  <1>6. /\ Numbered'
        /\ NoStop(written + 1) => NoStop(written + 1)'
        /\ NoPlatform(written + 1) => NoPlatform(written + 1)'
        /\ Clean => Clean'
    BY <1>0, <1>1, <1>2, RemainsInFlight
  <1>7. BetweenExchanges'
    BY <1>0, <1>1, <1>6 DEF BetweenExchanges, Before
  <1> QED
    BY <1>3, <1>4, <1>5, <1>6, <1>7 DEF RadarInv

LEMMA WriteWholeInv ==
  ASSUME RadarInv, WriteWhole
  PROVE  RadarInv'
  <1>0. /\ RadarTypes /\ Scheduled /\ Fits /\ Numbered /\ Counted /\ BetweenExchanges
        /\ AnswersAreOwn /\ phase = "write"
    BY DEF RadarInv, WriteWhole
  <1> DEFINE request == [cmd |-> IF partial THEN "garbled" ELSE cmd, id |-> written + 1]
  <1>1. /\ phase' = "read" /\ written' = written + 1 /\ input' = Append(input, request)
        /\ echoSeen' = ~ desynchronized /\ desynchronized' = TRUE /\ field' = "none"
        /\ UNCHANGED <<op, cmd, left, todo, platformVerified, lines, streaming, started, configs,
                       platform, taken>>
    BY DEF WriteWhole, RequireEcho, sensor
  <1>2. request \in RequestType /\ request.id = written + 1 /\ request.cmd \in {cmd, "garbled"}
    BY <1>0 DEF RadarTypes, RequestType, Requested
  <1> HIDE DEF request
  <1>3. /\ input \in Seq(RequestType) /\ lines \in Seq(LineType) /\ written \in Nat
        /\ \A i \in DOMAIN input : input[i].id \in Nat
        /\ \A i \in DOMAIN lines : lines[i].id \in Nat
    <2>1. input \in Seq(RequestType) /\ lines \in Seq(LineType) /\ written \in Nat
      BY <1>0 DEF RadarTypes
    <2> QED
      BY <1>0, <2>1, InFlightTypes
  <1>4. /\ input' \in Seq(RequestType) /\ Len(input') = Len(input) + 1
        /\ DOMAIN input' = 1..(Len(input) + 1) /\ DOMAIN input = 1..Len(input)
        /\ \A i \in 1..Len(input) : input'[i] = input[i]
        /\ input'[Len(input) + 1] = request
    BY <1>1, <1>2, <1>3
  <1>5. /\ \A i \in DOMAIN input : input[i].id < written'
        /\ \A i \in DOMAIN lines : lines[i].id < written'
    BY <1>0, <1>1, <1>3 DEF Numbered
  <1>6. RadarTypes'
    <2>1. written' \in Nat /\ phase' \in {"idle", "exchange", "write", "read"}
      BY <1>1, <1>3
    <2>2. echoSeen' \in BOOLEAN /\ desynchronized' \in BOOLEAN
      BY <1>1, Zenon
    <2> QED
      BY <1>0, <1>1, <1>4, <2>1, <2>2, Zenon DEF RadarTypes
  <1>7. Scheduled' /\ Fits'
    BY <1>0, <1>1 DEF Scheduled, Fits
  <1>8. AnswersAreOwn'
    BY <1>0, <1>1 DEF AnswersAreOwn
  <1>9. Confirmed' /\ BetweenExchanges'
    BY <1>1 DEF Confirmed, BetweenExchanges, Before
  <1>10. Numbered'
    BY <1>1, <1>2, <1>3, <1>4, <1>5 DEF Numbered
  <1>11. \A i \in DOMAIN lines' : lines'[i].id # written'
    BY <1>1, <1>3, <1>5
  <1>12. Order'
    <2>1. \A i \in DOMAIN input' :
            input'[i].id = written' => i = Len(input') /\ input'[i].cmd \in {cmd, "garbled"}
      BY <1>1, <1>2, <1>3, <1>4, <1>5
    <2> QED
      BY <1>1, <1>11, <2>1 DEF Order
  <1>13. Effect'
    BY <1>11 DEF Effect
  <1>14. Counted'
    <2>1. ~ OwnDone'
      BY <1>11 DEF OwnDone
    <2> QED
      BY <1>0, <1>1, <2>1 DEF Counted
  <1>15. InExchange'
    <2>1. CASE ~ platformVerified
      <3>1. written = 0 /\ NoPlatform(written + 1) /\ (op \in StartOps => todo = <<>>)
        BY <1>0, <2>1 DEF BetweenExchanges, Before
      <3>2. NoPlatform(written)'
        BY <1>1, <1>2, <1>3, <1>4, <3>1 DEF NoPlatform
      <3> QED
        BY <1>1, <2>1, <3>1, <3>2 DEF InExchange
    <2>2. CASE platformVerified /\ ~ desynchronized
      <3>1. input = <<>> /\ lines = <<>>
        BY <1>0, <2>2 DEF BetweenExchanges, Before, Clean
      <3>2. Mine'
        BY <1>1, <1>2, <1>4, <3>1 DEF Mine
      <3>3. written' > 0
        BY <1>1, <1>3
      <3> QED
        BY <1>1, <2>2, <3>2, <3>3 DEF InExchange
    <2>3. CASE platformVerified /\ desynchronized
      <3>1. op = "Stop" /\ todo = <<>> /\ NoStop(written + 1) /\ ~ echoSeen'
        BY <1>0, <1>1, <2>3 DEF BetweenExchanges, Before
      <3>2. NoStop(written)'
        BY <1>1, <1>2, <1>3, <1>4, <3>1 DEF NoStop
      <3>3. written' > 0
        BY <1>1, <1>3
      <3> QED
        BY <1>1, <2>3, <3>1, <3>2, <3>3 DEF InExchange
    <2> QED
      BY <2>1, <2>2, <2>3
  <1> QED
    BY <1>6, <1>7, <1>8, <1>9, <1>10, <1>12, <1>13, <1>14, <1>15 DEF RadarInv

\* Steps that touch nothing the invariant speaks of, and the end of the frames.
LEMMA RadarEnvironmentInv ==
  ASSUME RadarInv, CancelCommand \/ ClosePort \/ FramesEnd \/ UNCHANGED radarVars
  PROVE  RadarInv'
  <1>1. /\ UNCHANGED <<op, phase, outcome, cmd, left, todo, platformVerified, desynchronized,
                       echoSeen, field, input, lines, written, started, configs, platform, taken>>
        /\ streaming' \in {streaming, FALSE}
    BY DEF CancelCommand, ClosePort, FramesEnd, radarVars, call, parse, sensor
  <1>2. RadarTypes'
    <2>1. streaming' \in BOOLEAN
      BY <1>1, Zenon DEF RadarInv, RadarTypes
    <2> QED
      BY <1>1, <2>1, Zenon DEF RadarInv, RadarTypes
  <1>3. Scheduled' /\ Fits' /\ Numbered' /\ Counted' /\ AnswersAreOwn'
    BY <1>1 DEF RadarInv, Scheduled, Fits, Numbered, Counted, OwnDone, AnswersAreOwn
  <1>4. BetweenExchanges' /\ InExchange'
    BY <1>1 DEF RadarInv, BetweenExchanges, Before, InExchange, NoPlatform, NoStop, Clean, Mine
  <1>5. Order'
    BY <1>1 DEF RadarInv, Order
  <1>6. streaming' => streaming
    BY <1>1
  <1>7. Effect' /\ Confirmed'
    BY <1>1, <1>6 DEF RadarInv, Effect, Done, Confirmed, Clean
  <1> QED
    BY <1>2, <1>3, <1>4, <1>5, <1>7 DEF RadarInv

-----------------------------------------------------------------------------
(* The radar client: steps that read a line.                               *)

LEMMA HeadTail ==
  ASSUME RadarTypes, lines # <<>>
  PROVE  /\ Head(lines) = lines[1] /\ 1 \in DOMAIN lines /\ Head(lines) \in LineType
         /\ Tail(lines) \in Seq(LineType)
         /\ Len(Tail(lines)) = Len(lines) - 1 /\ Len(lines) \in Nat
         /\ DOMAIN lines = 1..Len(lines) /\ DOMAIN Tail(lines) = 1..Len(Tail(lines))
         /\ \A i \in DOMAIN Tail(lines) : Tail(lines)[i] = lines[i + 1] /\ i + 1 \in DOMAIN lines
  BY DEF RadarTypes

\* From the first line of the response on, nothing else is in flight.
LEMMA OwnHeadMine ==
  ASSUME RadarTypes, Order, phase = "read", lines # <<>>, Head(lines).id = written
  PROVE  Mine /\ input = <<>>
  <1>1. /\ lines[1].id = written /\ 1 \in DOMAIN lines
        /\ \A i \in DOMAIN lines : 1 <= i
    BY HeadTail
  <1>2. input = <<>>
    BY <1>1 DEF Order
  <1>3. \A i \in DOMAIN lines : lines[i].id = written
    BY <1>1 DEF Order
  <1> QED
    BY <1>2, <1>3 DEF Mine

\* Whatever is in front of the response is older.
LEMMA OwnOrOlder ==
  ASSUME RadarTypes, Numbered, lines # <<>>
  PROVE  Head(lines).id = written \/ Head(lines).id < written
  <1>1. 1 \in DOMAIN lines /\ Head(lines) = lines[1]
    BY HeadTail
  <1>2. lines[1].id <= written /\ lines[1].id \in Nat /\ written \in Nat
    BY <1>1, InFlightTypes DEF Numbered, RadarTypes
  <1> QED
    BY <1>1, <1>2

LEMMA ReadOnInv ==
  ASSUME RadarInv, ReadOn
  PROVE  RadarInv'
  <1>0. /\ RadarTypes /\ Scheduled /\ Fits /\ Numbered /\ Counted /\ InExchange /\ Order /\ Effect
        /\ AnswersAreOwn /\ phase = "read" /\ lines # <<>>
    BY DEF RadarInv, ReadOn, ReadingLine
  <1> DEFINE line == Head(lines)
  <1>1. /\ lines' = Tail(lines)
        /\ ~ (IsTerminal(line) /\ SeenAfter(line))
        /\ echoSeen' = SeenAfter(line) /\ field' = FieldAfter(line)
        /\ UNCHANGED <<op, phase, cmd, left, todo, outcome, platformVerified, desynchronized,
                       input, written, streaming, started, configs, platform, taken>>
    BY DEF ReadOn, call, sensor
  <1>2. /\ line = lines[1] /\ 1 \in DOMAIN lines
        /\ lines' \in Seq(LineType)
        /\ Len(lines') = Len(lines) - 1 /\ Len(lines) \in Nat
        /\ DOMAIN lines = 1..Len(lines) /\ DOMAIN lines' = 1..Len(lines')
        /\ \A i \in DOMAIN lines' : lines'[i] = lines[i + 1] /\ i + 1 \in DOMAIN lines
    BY <1>0, <1>1, HeadTail
  <1> HIDE DEF line
  <1>3. RadarTypes'
    <2>1. echoSeen' \in BOOLEAN
      BY <1>0, <1>1, Zenon DEF SeenAfter, ResponseLineEchoes, RadarTypes
    <2> QED
      BY <1>0, <1>1, <1>2, <2>1, Zenon DEF RadarTypes
  <1>4. Scheduled' /\ Fits' /\ AnswersAreOwn'
    BY <1>0, <1>1 DEF Scheduled, Fits, AnswersAreOwn
  <1>5. Confirmed' /\ BetweenExchanges'
    BY <1>0, <1>1 DEF Confirmed, BetweenExchanges, Before
  <1>6. Numbered'
    BY <1>0, <1>1, <1>2 DEF Numbered
  <1>7. Order'
    <2>1. ASSUME NEW i \in DOMAIN lines', NEW j \in DOMAIN lines', i <= j, lines'[i].id = written
          PROVE  lines'[j].id = written
      <3>1. i + 1 \in DOMAIN lines /\ j + 1 \in DOMAIN lines /\ i + 1 <= j + 1
        BY <1>2, <2>1
      <3> QED
        BY <1>0, <1>2, <2>1, <3>1 DEF Order
    <2>2. ASSUME NEW i \in DOMAIN lines', lines'[i].id = written
          PROVE  /\ input = <<>> /\ lines'[i].cmd \in {cmd, "garbled"}
                 /\ IsTerminal(lines'[i]) => i = Len(lines')
      <3>1. lines'[i] = lines[i + 1] /\ i + 1 \in DOMAIN lines
        BY <1>2
      <3>2. /\ input = <<>> /\ lines'[i].cmd \in {cmd, "garbled"}
            /\ IsTerminal(lines'[i]) => i + 1 = Len(lines)
        BY <1>0, <2>2, <3>1 DEF Order
      <3> QED
        BY <1>2, <3>2
    <2>3. \A i \in DOMAIN input' :
            input'[i].id = written' => i = Len(input') /\ input'[i].cmd \in {cmd', "garbled"}
      BY <1>0, <1>1 DEF Order
    <2> QED
      BY <1>1, <2>1, <2>2, <2>3 DEF Order
  <1>8. Effect'
    <2>1. ASSUME NEW i \in DOMAIN lines', lines'[i].id = written PROVE Done(lines[i])'
      <3>1. Done(lines[i + 1]) /\ lines'[i] = lines[i + 1]
        BY <1>0, <1>2, <2>1 DEF Effect
      <3> QED
        BY <1>1, <3>1 DEF Done
    <2> QED
      BY <1>1, <2>1 DEF Effect
  <1>9. Mine => Mine'
    BY <1>1, <1>2 DEF Mine
  <1>10. line.id = written => Mine
    BY <1>0, OwnHeadMine DEF line
  <1>11. line.id = written \/ line.id < written
    BY <1>0, OwnOrOlder DEF line
  <1>12. InExchange'
    <2>1. CASE ~ platformVerified
      <3>1. CASE Mine
        BY <1>0, <1>1, <1>9, <2>1, <3>1 DEF InExchange
      <3>2. CASE field = "none" /\ NoPlatform(written) /\ line.id < written
        <4>1. field' = "none"
          BY <1>1, <1>2, <3>2 DEF FieldAfter, NoPlatform
        <4>2. NoPlatform(written)'
          BY <1>1, <1>2, <3>2 DEF NoPlatform
        <4> QED
          BY <1>0, <1>1, <2>1, <4>1, <4>2 DEF InExchange
      <3> QED
        BY <1>0, <1>10, <1>11, <2>1, <3>1, <3>2 DEF InExchange
    <2>2. CASE platformVerified
      <3>1. CASE Mine /\ (op = "Stop" \/ echoSeen)
        <4>1. echoSeen => echoSeen'
          BY <1>1 DEF SeenAfter
        <4> QED
          BY <1>0, <1>1, <1>9, <2>2, <3>1, <4>1 DEF InExchange
      <3>2. CASE op = "Stop" /\ todo = <<>> /\ ~ echoSeen /\ NoStop(written) /\ line.id < written
        <4>1. cmd = "sensorStop"
          BY <1>0, <2>2, <3>2, RadarTables DEF Fits
        <4>2. ~ echoSeen'
          BY <1>1, <1>2, <3>2, <4>1 DEF SeenAfter, ResponseLineEchoes, NoStop
        <4>3. NoStop(written)'
          BY <1>1, <1>2, <3>2 DEF NoStop
        <4> QED
          BY <1>0, <1>1, <2>2, <3>2, <4>2, <4>3 DEF InExchange
      <3> QED
        BY <1>0, <1>10, <1>11, <2>2, <3>1, <3>2 DEF InExchange
    <2> QED
      BY <2>1, <2>2
  <1>13. Counted'
    <2>1. ASSUME op = "Apply", cmd = "config", ~ OwnDone' PROVE ~ OwnDone
      <3>1. platformVerified
        BY <1>0, <2>1 DEF Fits
      <3>2. echoSeen
        BY <1>0, <2>1, <3>1 DEF InExchange
      <3>3. ~ IsTerminal(line)
        BY <1>1, <3>2 DEF SeenAfter
      <3>4. \A i \in DOMAIN lines : i = 1 \/ (i - 1 \in DOMAIN lines' /\ lines'[i - 1] = lines[i])
        BY <1>2
      <3> SUFFICES ASSUME OwnDone PROVE OwnDone'
        BY <2>1
      <3>5. PICK i \in DOMAIN lines : lines[i].id = written /\ lines[i].kind = "done"
        BY DEF OwnDone
      <3>6. i # 1
        BY <1>2, <3>3, <3>5 DEF IsTerminal
      <3>7. i - 1 \in DOMAIN lines' /\ lines'[i - 1] = lines[i]
        BY <3>4, <3>6
      <3> QED
        BY <1>1, <3>5, <3>7 DEF OwnDone
    <2> QED
      BY <1>0, <1>1, <2>1 DEF Counted
  <1> QED
    BY <1>3, <1>4, <1>5, <1>6, <1>7, <1>8, <1>12, <1>13 DEF RadarInv

\* The terminal line that ends an exchange is the command's own, unless the
\* platform gate has read no platform and stays shut.  Nothing is left then.
LEMMA TerminalOwn ==
  ASSUME RadarInv, ReadingLine, IsTerminal(Head(lines)), SeenAfter(Head(lines)),
         platformVerified \/ field # "none", lines' \in Dropped(Tail(lines)),
         UNCHANGED <<input, written>>
  PROVE  /\ Head(lines).id = written /\ Clean'
         /\ Done(Head(lines)) /\ Head(lines).cmd \in {cmd, "garbled"}
  <1>0. /\ RadarTypes /\ Numbered /\ InExchange /\ Order /\ Effect
        /\ phase = "read" /\ lines # <<>>
    BY DEF RadarInv, ReadingLine
  <1> DEFINE line == Head(lines)
  <1>1. line = lines[1] /\ 1 \in DOMAIN lines /\ Tail(lines) \in Seq(LineType)
    BY <1>0, HeadTail
  <1>2. Mine
    <2>1. CASE ~ platformVerified
      BY <1>0, <2>1 DEF InExchange
    <2>2. CASE platformVerified
      <3>1. line.kind # "echo"
        BY DEF IsTerminal
      <3>2. echoSeen
        BY <3>1 DEF SeenAfter, ResponseLineEchoes
      <3> QED
        BY <1>0, <2>2, <3>2 DEF InExchange
    <2> QED
      BY <2>1, <2>2
  <1>3. line.id = written
    BY <1>1, <1>2 DEF Mine
  <1>4. input = <<>> /\ 1 = Len(lines) /\ line.cmd \in {cmd, "garbled"}
    BY <1>0, <1>1, <1>3 DEF Order
  <1>5. Tail(lines) = <<>>
    <2>1. Len(Tail(lines)) = 0
      BY <1>0, <1>4, HeadTail
    <2> QED
      BY <1>1, <2>1, EmptySeq
  <1>6. lines' = <<>>
    BY <1>1, <1>5, DroppedLines
  <1>7. Done(line)
    BY <1>0, <1>1, <1>3 DEF Effect
  <1> QED
    BY <1>3, <1>4, <1>6, <1>7 DEF Clean

\* The answer leaves the line empty, and the operation goes on or succeeds.
LEMMA SyncedStep ==
  ASSUME RadarInv, phase = "read", phase' \in {"idle", "exchange"}, Clean',
         platformVerified' = TRUE, desynchronized' = FALSE,
         cmd' \in Commands, left' \in Nat,
         UNCHANGED <<op, todo, echoSeen, sensor, written>>,
         Fits', Counted', Confirmed', AnswersAreOwn'
  PROVE  RadarInv'
  <1>0. RadarTypes /\ Scheduled
    BY DEF RadarInv
  <1>1. RadarTypes'
    <2>1. /\ input' \in Seq(RequestType) /\ lines' \in Seq(LineType)
          /\ phase' \in {"idle", "exchange", "write", "read"}
      BY DEF Clean
    <2>2. platformVerified' \in BOOLEAN /\ desynchronized' \in BOOLEAN
      BY Zenon
    <2> QED
      BY <1>0, <2>1, <2>2, Zenon DEF RadarTypes, sensor
  <1>2. Scheduled' /\ Numbered'
    BY <1>0 DEF Scheduled, Numbered, Clean
  <1>3. BetweenExchanges'
    BY DEF BetweenExchanges
  <1>4. InExchange' /\ Order' /\ Effect'
    BY DEF InExchange, Order, Effect
  <1> QED
    BY <1>1, <1>2, <1>3, <1>4 DEF RadarInv

LEMMA ReadTerminalInv ==
  ASSUME RadarInv, ReadTerminal
  PROVE  RadarInv'
  <1>0. /\ RadarTypes /\ Scheduled /\ Fits /\ Numbered /\ Counted /\ InExchange /\ Order
        /\ phase = "read" /\ lines # <<>> /\ ReadingLine
    BY DEF RadarInv, ReadTerminal, ReadingLine
  <1> DEFINE line == Head(lines)
  <1>1. /\ IsTerminal(line) /\ SeenAfter(line)
        /\ taken' = [cmd |-> cmd, asked |-> written, from |-> line.id, echoed |-> echoed]
        /\ \/ line.kind = "done" /\ AfterDone
           \/ line.kind = "error" /\ AfterError(line.value)
        /\ desynchronized' = FALSE
        /\ lines' \in Dropped(Tail(lines))
        /\ UNCHANGED <<op, echoSeen, field, input, sensor, written>>
    BY DEF ReadTerminal
  <1>2. Tail(lines) \in Seq(LineType) /\ \A i \in DOMAIN Tail(lines) :
          Tail(lines)[i] = lines[i + 1] /\ i + 1 \in DOMAIN lines
    BY <1>0, HeadTail
  <1>3. Remains
    <2>1. lines' \in Seq(LineType)
      BY <1>1, <1>2, DroppedLines
    <2>2. \A i \in DOMAIN lines' :
            lines'[i] = Fragment \/ \E j \in DOMAIN Tail(lines) : lines'[i] = Tail(lines)[j]
      BY <1>1, <1>2, DroppedLines
    <2> QED
      BY <1>0, <1>2, <2>1, <2>2 DEF Remains
  <1>4. platformVerified \/ field # "none" =>
          /\ line.id = written /\ Clean'
          /\ Done(line) /\ line.cmd \in {cmd, "garbled"}
    BY <1>0, <1>1, TerminalOwn
  <1>5. desynchronized' \in BOOLEAN /\ echoSeen' \in BOOLEAN
    BY <1>0, <1>1, Zenon DEF RadarTypes
  <1>6. Gate => ~ platformVerified
    <2>1. \A o \in {"Stop", "Apply"} \cup StartOps : CommandOf[o] # "version"
      BY RadarTables DEF StartOps
    <2> QED
      BY <1>0, <2>1 DEF Gate, Fits
  <1>7. ~ Gate => platformVerified
    BY <1>0 DEF Gate, Fits
  <1>8. AnswersAreOwn' \/ (platformVerified' = TRUE /\ ~ platformVerified /\ field = "none")
    <2>1. CASE platformVerified \/ field # "none"
      BY <1>1, <1>4, <2>1 DEF AnswersAreOwn
    <2>2. CASE ~ platformVerified /\ field = "none" /\ ~ platformVerified'
      BY <1>0, <1>1, <2>2 DEF AnswersAreOwn, Fits
    <2>3. platformVerified' \in {platformVerified, TRUE}
      BY <1>1 DEF AfterDone, AfterError
    <2> QED
      BY <2>1, <2>2, <2>3
  <1> HIDE DEF line
  <1>9. ASSUME NEW r \in {"failed", "rejected"}, Return(op, r),
               UNCHANGED <<cmd, left, platformVerified>>
        PROVE  RadarInv'
    <2>1. platformVerified => Clean' /\ ~ desynchronized'
      BY <1>1, <1>4
    <2>2. AnswersAreOwn'
      BY <1>8, <1>9
    <2> QED
      BY <1>0, <1>1, <1>3, <1>5, <1>9, <2>1, <2>2, FailedReturn
  <1>10. CASE line.kind = "done" /\ Gate /\ VerifyPlatformResponse /\ platformVerified' = TRUE
              /\ UNCHANGED left
              /\ IF op = "Verify" THEN Return(op, "ok") /\ UNCHANGED cmd
                                  ELSE Exchange(CommandOf[op]) /\ UNCHANGED todo
    <2>1. field # "none" /\ ~ platformVerified /\ cmd = "version"
      BY <1>6, <1>10 DEF VerifyPlatformResponse, Gate
    <2>2. Clean' /\ AnswersAreOwn'
      BY <1>4, <1>8, <2>1
    <2>3. todo' = todo /\ phase' \in {"idle", "exchange"}
      BY <1>10 DEF Return, Remaining, Exchange
    <2>4. op \in {"Verify", "Stop", "Apply"} \cup StartOps
      BY <1>0, <1>10, RadarTables DEF Gate, Fits, RadarTypes
    <2>5. phase' # "idle" => op # "Verify" /\ cmd' = CommandOf[op]
      BY <1>10 DEF Return, Exchange
    <2>6. cmd' \in Commands /\ left' \in Nat
      <3>1. CASE op = "Verify"
        BY <1>0, <1>10, <3>1 DEF RadarTypes
      <3>2. CASE op # "Verify"
        BY <1>0, <1>10, <2>4, <3>2, RadarTables DEF RadarTypes, Exchange
      <3> QED
        BY <3>1, <3>2
    <2>7. Fits'
      BY <1>0, <1>1, <1>10, <2>4, <2>5 DEF Fits
    <2>8. Counted'
      <3>1. ~ (phase = "read" /\ cmd = "config" /\ OwnDone)
        BY <2>1
      <3> QED
        BY <1>0, <1>1, <1>10, <2>3, <3>1 DEF Counted, sensor
    <2>9. Confirmed'
      <3>1. phase' = "idle" => op = "Verify"
        BY <1>10 DEF Exchange
      <3> QED
        BY <1>1, <2>2, <3>1 DEF Confirmed, StartOps
    <2> QED
      BY <1>0, <1>1, <1>10, <2>2, <2>3, <2>6, <2>7, <2>8, <2>9, SyncedStep
  <1>11. CASE line.kind = "done" /\ cmd = "config" /\ left > 1 /\ left' = left - 1
              /\ Exchange(cmd) /\ UNCHANGED <<todo, platformVerified>>
    <2>1. ~ Gate /\ platformVerified
      BY <1>7, <1>11 DEF Gate
    <2>2. Clean' /\ AnswersAreOwn' /\ Done(line)
      BY <1>4, <1>8, <2>1
    <2>3. op = "Apply"
      BY <1>0, <1>11 DEF Fits
    <2>4. phase' = "exchange" /\ cmd' = cmd
      BY <1>11 DEF Exchange
    <2>5. left' \in 1..NConfig /\ left' \in Nat
      <3>1. left \in 1..NConfig
        BY <1>0, <2>3 DEF Fits
      <3> QED
        BY <1>11, <3>1, RadarAssumption
    <2>6. Fits'
      BY <1>0, <1>1, <1>11, <2>1, <2>3, <2>4, <2>5 DEF Fits
    <2>7. Counted'
      <3>1. configs + left = NConfig + 1
        BY <1>11, <2>2, <2>3 DEF Done
      <3>2. configs' + left' = NConfig
        BY <1>0, <1>1, <1>11, <3>1, RadarAssumption DEF RadarTypes, sensor
      <3> QED
        BY <1>0, <1>1, <1>11, <2>3, <3>2 DEF Counted, Scheduled
    <2>8. Confirmed'
      BY <2>4 DEF Confirmed
    <2> QED
      BY <1>0, <1>1, <1>11, <2>1, <2>2, <2>4, <2>5, <2>6, <2>7, <2>8, SyncedStep DEF RadarTypes
  <1>12. CASE line.kind = "done" /\ ~ Gate /\ (cmd = "config" => left <= 1) /\ left' = 0
              /\ Return(op, "ok") /\ UNCHANGED <<cmd, platformVerified>>
    <2>1. platformVerified
      BY <1>7, <1>12
    <2>2. Clean' /\ AnswersAreOwn' /\ Done(line)
      BY <1>4, <1>8, <2>1
    <2>3. todo' = todo /\ phase' = "idle"
      BY <1>12 DEF Return, Remaining
    <2>4. Fits'
      BY <2>3 DEF Fits
    <2>5. Counted'
      BY <1>0, <1>1, <2>3 DEF Counted, sensor
    <2>6. Confirmed'
      <3>1. ASSUME op = "Stop" PROVE ~ streaming
        BY <1>0, <1>12, <2>1, <2>2, <3>1, RadarTables DEF Fits, Done, StartOps
      <3>2. ASSUME op \in StartOps PROVE started = written
        <4>1. cmd = CommandOf[op]
          BY <1>0, <2>1, <3>2 DEF Fits, StartOps
        <4>2. cmd \in Starts
          BY <3>2, <4>1, RadarTables
        <4> QED
          BY <1>12, <2>2, <4>2 DEF Done
      <3>3. ASSUME op = "Apply" PROVE configs = NConfig
        <4>1. cmd = "config" /\ left \in 1..NConfig
          BY <1>0, <2>1, <3>3, RadarTables DEF Fits, StartOps
        <4>2. configs + left = NConfig + 1 /\ left = 1
          BY <1>12, <2>2, <3>3, <4>1, RadarAssumption DEF Done
        <4> QED
          BY <1>0, <4>2, RadarAssumption DEF RadarTypes
      <3> QED
        BY <1>1, <2>2, <3>1, <3>2, <3>3 DEF Confirmed, sensor
    <2> QED
      BY <1>0, <1>1, <1>12, <2>1, <2>2, <2>3, <2>4, <2>5, <2>6, SyncedStep DEF RadarTypes
  <1>13. CASE line.kind = "error" /\ op = "Stop" /\ IsAlreadyStopped(line.value)
              /\ Return(op, "ok") /\ UNCHANGED <<cmd, left, platformVerified>>
    <2>1. cmd = "sensorStop" /\ line.value = -54 /\ platformVerified
      BY <1>7, <1>13 DEF IsAlreadyStopped, Gate
    <2>2. Clean' /\ AnswersAreOwn' /\ Done(line)
      BY <1>4, <1>8, <2>1
    <2>3. todo' = todo /\ phase' = "idle"
      BY <1>13 DEF Return, Remaining
    <2>4. Fits'
      BY <2>3 DEF Fits
    <2>5. Counted'
      BY <1>0, <1>1, <2>3 DEF Counted, sensor
    <2>6. Confirmed'
      BY <1>1, <1>13, <2>1, <2>2 DEF Confirmed, Done, sensor, StartOps
    <2> QED
      BY <1>0, <1>1, <1>13, <2>1, <2>2, <2>3, <2>4, <2>5, <2>6, SyncedStep DEF RadarTypes
  <1>14. CASE line.kind = "done" /\ AfterDone
    BY <1>14, <1>9, <1>10, <1>11, <1>12 DEF AfterDone
  <1>15. CASE line.kind = "error" /\ AfterError(line.value)
    BY <1>15, <1>9, <1>13 DEF AfterError
  <1> QED
    BY <1>1, <1>14, <1>15

-----------------------------------------------------------------------------
(* The radar client: steps of the device.                                  *)

LEMMA ConcatLines ==
  ASSUME NEW s \in Seq(LineType), NEW t \in Seq(LineType)
  PROVE  /\ s \o t \in Seq(LineType)
         /\ Len(s \o t) = Len(s) + Len(t)
         /\ \A i \in 1..Len(s) : (s \o t)[i] = s[i]
         /\ \A i \in 1..Len(t) : (s \o t)[Len(s) + i] = t[i]
  OBVIOUS

LEMMA OneLine ==
  ASSUME NEW l \in LineType
  PROVE  <<l>> \in Seq(LineType) /\ Len(<<l>>) = 1 /\ <<l>>[1] = l
  OBVIOUS

\* A response echoes the command, ends in its only terminal line and names a
\* platform only when it was asked for.
LEMMA ResponseLines ==
  ASSUME RadarTypes, NEW request \in RequestType, NEW code \in Int
  PROVE  LET resp == Response(request, code) IN
           /\ resp \in Seq(LineType)
           /\ \A i \in 1..Len(resp) :
                /\ resp[i].cmd = request.cmd /\ resp[i].id = request.id
                /\ resp[i].kind = "platform" => request.cmd = "version"
                /\ IsTerminal(resp[i]) => i = Len(resp)
                /\ resp[i].kind = "done" => code = 0
                /\ resp[i].kind = "error" => resp[i].value = code
           /\ code = 0 => \E i \in 1..Len(resp) : resp[i].kind = "done"
  <1> DEFINE last == Line(IF code = 0 THEN "done" ELSE "error", request, code)
             echo == Line("echo", request, 0)
             info == Line("platform", request, platform)
  <1>1. request.cmd \in Requested \cup {""} /\ request.id \in Nat
    BY DEF RequestType
  <1>2. code \in Values /\ 0 \in Values /\ platform \in Values
    BY ValueTypes DEF RadarTypes
  <1>3. /\ echo.cmd = request.cmd /\ echo.id = request.id /\ echo.kind = "echo"
        /\ echo \in LineType
    BY <1>1, <1>2 DEF Line, LineType, Kinds
  <1>4. /\ info.cmd = request.cmd /\ info.id = request.id /\ info.kind = "platform"
        /\ info \in LineType
    BY <1>1, <1>2 DEF Line, LineType, Kinds
  <1>5. /\ last.cmd = request.cmd /\ last.id = request.id /\ last.value = code
        /\ last.kind = IF code = 0 THEN "done" ELSE "error"
        /\ last \in LineType
    <2>1. (IF code = 0 THEN "done" ELSE "error") \in Kinds
      BY DEF Kinds
    <2> QED
      BY <1>1, <1>2, <2>1 DEF Line, LineType
  <1>6. CASE request.cmd = "version"
    <2> DEFINE r == <<echo>> \o <<info>>
               resp == r \o <<last>>
    <2>1. Response(request, code) = resp
      BY <1>6 DEF Response
    <2> HIDE DEF echo, info, last
    <2>2. /\ <<echo>> \in Seq(LineType) /\ <<info>> \in Seq(LineType) /\ <<last>> \in Seq(LineType)
      BY <1>3, <1>4, <1>5
    <2>3. r \in Seq(LineType) /\ Len(r) = 2 /\ r[1] = echo /\ r[2] = info
      BY <2>2
    <2> HIDE DEF r
    <2>4. /\ resp \in Seq(LineType) /\ Len(resp) = 3
          /\ resp[1] = r[1] /\ resp[2] = r[2] /\ resp[3] = last
      <3>1. Len(<<last>>) = 1 /\ <<last>>[1] = last
        BY <1>5, OneLine
      <3>2. /\ resp \in Seq(LineType) /\ Len(resp) = Len(r) + Len(<<last>>)
            /\ \A i \in 1..Len(r) : resp[i] = r[i]
            /\ \A i \in 1..Len(<<last>>) : resp[Len(r) + i] = <<last>>[i]
        BY <2>2, <2>3, ConcatLines
      <3> HIDE DEF resp
      <3> QED
        BY <2>3, <3>1, <3>2
    <2> HIDE DEF resp
    <2> QED
      BY <1>3, <1>4, <1>5, <1>6, <2>1, <2>3, <2>4 DEF IsTerminal
  <1>7. CASE request.cmd # "version"
    <2> DEFINE r == <<echo>> \o <<>>
               resp == r \o <<last>>
    <2>1. Response(request, code) = resp
      BY <1>7 DEF Response
    <2> HIDE DEF echo, info, last
    <2>2. <<echo>> \in Seq(LineType) /\ <<last>> \in Seq(LineType) /\ <<>> \in Seq(LineType)
      BY <1>3, <1>5
    <2>3. r \in Seq(LineType) /\ Len(r) = 1 /\ r[1] = echo
      BY <2>2
    <2> HIDE DEF r
    <2>4. /\ resp \in Seq(LineType) /\ Len(resp) = 2
          /\ resp[1] = r[1] /\ resp[2] = last
      <3>1. Len(<<last>>) = 1 /\ <<last>>[1] = last
        BY <1>5, OneLine
      <3>2. /\ resp \in Seq(LineType) /\ Len(resp) = Len(r) + Len(<<last>>)
            /\ \A i \in 1..Len(r) : resp[i] = r[i]
            /\ \A i \in 1..Len(<<last>>) : resp[Len(r) + i] = <<last>>[i]
        BY <2>2, <2>3, ConcatLines
      <3> HIDE DEF resp
      <3> QED
        BY <2>3, <3>1, <3>2
    <2> HIDE DEF resp
    <2> QED
      BY <1>3, <1>5, <1>7, <2>1, <2>3, <2>4 DEF IsTerminal
  <1> QED
    BY <1>6, <1>7

LEMMA AnswerCodes ==
  ASSUME NEW c \in Requested, NEW code \in Answers(c)
  PROVE  /\ code \in Int
         /\ c = "garbled" => code = -50
         /\ c = "sensorStop" /\ code = -54 => ~ streaming
  <1>1. CASE c = "version"
    BY <1>1 DEF Answers
  <1>2. CASE c = "garbled"
    BY <1>2 DEF Answers, Starts
  <1>3. CASE c = "sensorStop"
    BY <1>3 DEF Answers, Starts
  <1>4. CASE c \in Starts
    <2>1. Answers(c) = IF streaming THEN {-54} ELSE {0, -57}
      BY <1>4 DEF Answers, Starts
    <2>2. c # "garbled" /\ c # "sensorStop"
      BY <1>4 DEF Starts
    <2>3. code \in {-54, 0, -57}
      BY <2>1
    <2> QED
      BY <2>2, <2>3
  <1>5. CASE c = "config"
    BY <1>5 DEF Answers, Starts
  <1> QED
    BY <1>1, <1>2, <1>3, <1>4, <1>5 DEF Requested, Commands, State, Starts

\* The device carries out the oldest request.  Its lines are the last ones, and
\* they are the exchange's own exactly if the request is.
LEMMA DeviceExecutesInv ==
  ASSUME RadarInv, DeviceExecutes
  PROVE  RadarInv'
  <1>0. /\ RadarTypes /\ Scheduled /\ Fits /\ Numbered /\ Counted /\ BetweenExchanges /\ InExchange
        /\ Order /\ Effect /\ Confirmed /\ AnswersAreOwn /\ input # <<>>
    BY DEF RadarInv, DeviceExecutes
  <1> DEFINE request == Head(input)
  <1>1. PICK code \in Answers(request.cmd) :
          /\ lines' = lines \o Response(request, code)
          /\ streaming' = IF code # 0 THEN streaming
                          ELSE (streaming \/ request.cmd \in Starts) /\ request.cmd # "sensorStop"
          /\ started' = IF code = 0 /\ request.cmd \in Starts THEN request.id ELSE started
          /\ configs' = IF code = 0 /\ request.cmd = "config" /\ request.id > 0
                        THEN configs + 1 ELSE configs
    BY DEF DeviceExecutes
  <1>2. /\ input' = Tail(input)
        /\ UNCHANGED <<op, phase, outcome, cmd, left, todo, echoSeen, field, taken,
                       platformVerified, desynchronized, platform, written>>
    BY DEF DeviceExecutes, call, parse
  <1>3. /\ request = input[1] /\ 1 \in DOMAIN input
        /\ input \in Seq(RequestType) /\ request \in RequestType
        /\ input' \in Seq(RequestType)
        /\ Len(input') = Len(input) - 1 /\ Len(input) \in Nat
        /\ DOMAIN input = 1..Len(input) /\ DOMAIN input' = 1..Len(input')
        /\ \A i \in DOMAIN input' : input'[i] = input[i + 1] /\ i + 1 \in DOMAIN input
    BY <1>0, <1>2 DEF RadarTypes
  <1>4. /\ request.id \in Nat /\ request.id <= written /\ written \in Nat
        /\ request.cmd \in Requested
    BY <1>0, <1>3 DEF Numbered, RadarTypes, RequestType
  <1>5. /\ code \in Int
        /\ request.cmd = "garbled" => code = -50
        /\ request.cmd = "sensorStop" /\ code = -54 => ~ streaming
    BY <1>4, AnswerCodes
  <1> DEFINE resp == Response(request, code)
  <1>6. /\ resp \in Seq(LineType)
        /\ \A i \in 1..Len(resp) :
             /\ resp[i].cmd = request.cmd /\ resp[i].id = request.id
             /\ resp[i].kind = "platform" => request.cmd = "version"
             /\ IsTerminal(resp[i]) => i = Len(resp)
             /\ resp[i].kind = "done" => code = 0
             /\ resp[i].kind = "error" => resp[i].value = code
        /\ code = 0 => \E i \in 1..Len(resp) : resp[i].kind = "done"
    BY <1>0, <1>3, <1>5, ResponseLines
  <1> HIDE DEF request, resp
  <1>7. /\ lines \in Seq(LineType) /\ lines' \in Seq(LineType)
        /\ Len(lines) \in Nat /\ Len(resp) \in Nat
        /\ Len(lines') = Len(lines) + Len(resp)
        /\ DOMAIN lines = 1..Len(lines) /\ DOMAIN lines' = 1..Len(lines')
        /\ \A i \in 1..Len(lines) : lines'[i] = lines[i]
        /\ \A i \in 1..Len(resp) : lines'[Len(lines) + i] = resp[i]
    <2>1. lines \in Seq(LineType)
      BY <1>0 DEF RadarTypes
    <2>2. lines' = lines \o resp
      BY <1>1 DEF resp
    <2> QED
      BY <1>6, <2>1, <2>2, ConcatLines
  \* Every line is an old one or one of the response.
  <1>8. \A i \in DOMAIN lines' :
          \/ i \in DOMAIN lines /\ lines'[i] = lines[i]
          \/ /\ i > Len(lines) /\ i - Len(lines) \in 1..Len(resp)
             /\ lines'[i] = resp[i - Len(lines)]
    <2> TAKE i \in DOMAIN lines'
    <2>1. CASE i <= Len(lines)
      BY <1>7, <2>1
    <2>2. CASE i > Len(lines)
      <3>1. i - Len(lines) \in 1..Len(resp) /\ Len(lines) + (i - Len(lines)) = i
        BY <1>7, <2>2
      <3> QED
        BY <1>7, <2>2, <3>1
    <2> QED
      BY <1>7, <2>1, <2>2
  <1>9. RadarTypes'
    <2>1. configs' \in Nat
      BY <1>0, <1>1 DEF RadarTypes
    <2>2. streaming' \in BOOLEAN
      <3>1. streaming \in BOOLEAN
        BY <1>0 DEF RadarTypes
      <3> QED
        BY <1>1, <3>1
    <2> QED
      BY <1>0, <1>2, <1>3, <1>7, <2>1, <2>2, Zenon DEF RadarTypes
  <1>10. Scheduled' /\ Fits' /\ AnswersAreOwn'
    BY <1>0, <1>2 DEF Scheduled, Fits, AnswersAreOwn
  <1>11. Numbered'
    BY <1>0, <1>2, <1>3, <1>4, <1>6, <1>8 DEF Numbered
  <1>12. Confirmed'
    BY <1>0, <1>2 DEF Confirmed, Clean
  <1>13. BetweenExchanges'
    <2> SUFFICES ASSUME Before PROVE BetweenExchanges'
      BY <1>2 DEF BetweenExchanges, Before
    <2>1. CASE ~ platformVerified
      <3>1. NoPlatform(written + 1)
        BY <1>0, <2>1 DEF BetweenExchanges
      <3>2. request.cmd # "version"
        BY <1>3, <1>4, <3>1 DEF NoPlatform
      <3>3. NoPlatform(written + 1)'
        BY <1>2, <1>3, <1>6, <1>8, <3>1, <3>2 DEF NoPlatform
      <3> QED
        BY <1>0, <1>2, <2>1, <3>3 DEF BetweenExchanges, Before
    <2>2. CASE platformVerified /\ ~ desynchronized
      BY <1>0, <2>2 DEF BetweenExchanges, Clean
    <2>3. CASE platformVerified /\ desynchronized
      <3>1. NoStop(written + 1)
        BY <1>0, <2>3 DEF BetweenExchanges
      <3>2. request.cmd # "sensorStop"
        BY <1>3, <1>4, <3>1 DEF NoStop
      <3>3. NoStop(written + 1)'
        BY <1>2, <1>3, <1>6, <1>8, <3>1, <3>2 DEF NoStop
      <3> QED
        BY <1>0, <1>2, <2>3, <3>3 DEF BetweenExchanges, Before
    <2> QED
      BY <2>1, <2>2, <2>3
  \* The response to the exchange has not begun, as its request is not yet the
  \* device's or is the only one left.
  <1>14. ASSUME phase = "read"
         PROVE  /\ \A i \in DOMAIN lines : lines[i].id # written
                /\ request.id = written => input' = <<>> /\ request.cmd \in {cmd, "garbled"}
                /\ written > 0
    <2>1. \A i \in DOMAIN lines : lines[i].id # written
      BY <1>0, <1>14 DEF Order
    <2>2. ASSUME request.id = written PROVE input' = <<>> /\ request.cmd \in {cmd, "garbled"}
      <3>1. 1 = Len(input) /\ request.cmd \in {cmd, "garbled"}
        BY <1>0, <1>3, <1>14, <2>2 DEF Order
      <3>2. Len(input') = 0
        BY <1>3, <3>1
      <3> QED
        BY <1>3, <3>1, <3>2, EmptySeq
    <2> QED
      BY <1>0, <1>14, <2>1, <2>2 DEF InExchange
  <1>15. InExchange'
    <2> SUFFICES ASSUME phase = "read" PROVE InExchange'
      BY <1>2 DEF InExchange
    <2>1. CASE Mine
      <3>1. request.id = written
        BY <1>3, <2>1 DEF Mine
      <3>2. Mine'
        BY <1>2, <1>3, <1>6, <1>8, <2>1, <3>1 DEF Mine
      <3> QED
        BY <1>0, <1>2, <2>1, <3>2 DEF InExchange
    <2>2. CASE ~ platformVerified /\ field = "none" /\ NoPlatform(written)
      <3>1. request.id < written => request.cmd # "version"
        BY <1>3, <2>2 DEF NoPlatform
      <3>2. NoPlatform(written)'
        BY <1>2, <1>3, <1>6, <1>8, <2>2, <3>1 DEF NoPlatform
      <3> QED
        BY <1>0, <1>2, <2>2, <3>2 DEF InExchange
    <2>3. CASE platformVerified /\ op = "Stop" /\ todo = <<>> /\ ~ echoSeen /\ NoStop(written)
      <3>1. request.id < written => request.cmd # "sensorStop"
        BY <1>3, <2>3 DEF NoStop
      <3>2. NoStop(written)'
        BY <1>2, <1>3, <1>6, <1>8, <2>3, <3>1 DEF NoStop
      <3> QED
        BY <1>0, <1>2, <2>3, <3>2 DEF InExchange
    <2> QED
      BY <1>0, <2>1, <2>2, <2>3 DEF InExchange
  <1>16. Order'
    <2> SUFFICES ASSUME phase = "read" PROVE Order'
      BY <1>2 DEF Order
    <2>1. ASSUME NEW i \in DOMAIN input', input'[i].id = written
          PROVE  i = Len(input') /\ input'[i].cmd \in {cmd, "garbled"}
      <3>1. input'[i] = input[i + 1] /\ i + 1 \in DOMAIN input
        BY <1>3
      <3>2. i + 1 = Len(input) /\ input[i + 1].cmd \in {cmd, "garbled"}
        BY <1>0, <2>1, <3>1 DEF Order
      <3> QED
        BY <1>3, <3>1, <3>2
    <2>2. ASSUME NEW i \in DOMAIN lines', lines'[i].id = written
          PROVE  /\ request.id = written
                 /\ i > Len(lines) /\ i - Len(lines) \in 1..Len(resp)
                 /\ lines'[i] = resp[i - Len(lines)]
      BY <1>6, <1>8, <1>14, <2>2
    <2>3. ASSUME NEW i \in DOMAIN lines', NEW j \in DOMAIN lines', i <= j, lines'[i].id = written
          PROVE  lines'[j].id = written
      <3>1. request.id = written /\ i > Len(lines)
        BY <2>2, <2>3
      <3>2. j \notin DOMAIN lines
        BY <1>7, <2>3, <3>1
      <3> QED
        BY <1>6, <1>8, <3>1, <3>2
    <2>4. ASSUME NEW i \in DOMAIN lines', lines'[i].id = written
          PROVE  /\ input' = <<>> /\ lines'[i].cmd \in {cmd, "garbled"}
                 /\ IsTerminal(lines'[i]) => i = Len(lines')
      <3>1. /\ request.id = written /\ i - Len(lines) \in 1..Len(resp)
            /\ lines'[i] = resp[i - Len(lines)]
        BY <2>2, <2>4
      <3>2. IsTerminal(lines'[i]) => i - Len(lines) = Len(resp)
        BY <1>6, <3>1
      <3>3. input' = <<>> /\ lines'[i].cmd \in {cmd, "garbled"}
        BY <1>6, <1>14, <3>1
      <3> QED
        BY <1>7, <3>2, <3>3
    <2> QED
      BY <1>2, <2>1, <2>3, <2>4 DEF Order
  \* A request that the exchange owns is counted with its answer.
  <1>17. ASSUME phase = "read", op = "Apply", request.id = written,
                request.cmd = "config", cmd = "config"
         PROVE  configs + left = NConfig
    <2>1. ~ OwnDone
      BY <1>14, <1>17 DEF OwnDone
    <2> QED
      BY <1>0, <1>17, <2>1 DEF Counted
  <1>18. Effect'
    <2> SUFFICES ASSUME phase = "read", NEW i \in DOMAIN lines', lines'[i].id = written
                 PROVE  Done(lines[i])'
      BY <1>2 DEF Effect
    <2> DEFINE k == i - Len(lines)
    <2>1. k \in 1..Len(resp) /\ lines'[i] = resp[k] /\ request.id = written
      BY <1>6, <1>8, <1>14
    <2> HIDE DEF k
    <2>2. request.cmd \in {cmd, "garbled"} /\ written > 0
      BY <1>14, <2>1
    <2>3. ASSUME lines'[i].kind = "done"
          PROVE  /\ cmd = "sensorStop" => ~ streaming'
                 /\ cmd \in Starts => started' = written
                 /\ op = "Apply" /\ cmd = "config" => configs' + left = NConfig + 1
      <3>1. code = 0 /\ request.cmd = cmd
        BY <1>5, <1>6, <2>1, <2>2, <2>3
      <3>2. op = "Apply" /\ cmd = "config" => configs' + left = NConfig + 1
        <4> HAVE op = "Apply" /\ cmd = "config"
        <4>1. configs + left = NConfig /\ configs' = configs + 1
          BY <1>1, <1>17, <2>1, <2>2, <3>1
        <4> QED
          BY <1>0, <4>1, RadarAssumption DEF RadarTypes
      <3>3. cmd = "sensorStop" => ~ streaming'
        BY <1>1, <3>1
      <3>4. cmd \in Starts => started' = written
        BY <1>1, <2>1, <3>1
      <3> QED
        BY <3>2, <3>3, <3>4
    <2>4. ASSUME lines'[i].kind = "error", lines'[i].value = -54, cmd = "sensorStop"
          PROVE  ~ streaming'
      <3>1. code = -54
        BY <1>6, <2>1, <2>4
      <3>2. request.cmd = "sensorStop"
        BY <1>5, <2>2, <2>4, <3>1
      <3>3. ~ streaming /\ code # 0
        BY <1>5, <3>1, <3>2
      <3> QED
        BY <1>1, <3>3
    <2> QED
      BY <1>2, <2>3, <2>4 DEF Done
  <1>19. Counted'
    <2>1. CASE configs' = configs
      <3>1. phase = "read" => ~ OwnDone
        BY <1>14 DEF OwnDone
      <3> QED
        BY <1>0, <1>2, <2>1, <3>1 DEF Counted
    <2>2. CASE configs' # configs
      <3>1. code = 0 /\ request.cmd = "config" /\ request.id > 0
        BY <1>1, <2>2
      <3>2. CASE phase # "read"
        <4>1. CASE Before
          <5>1. platformVerified /\ desynchronized
            BY <1>0, <1>4, <3>1, <4>1 DEF BetweenExchanges, Clean
          <5>2. todo \in {<<>>, <<"Stop">>} /\ (phase # "idle" => op = "Stop")
            BY <1>0, <4>1, <5>1 DEF BetweenExchanges
          <5>3. \A i \in DOMAIN todo : todo[i] # "Apply"
            BY <5>2
          <5> QED
            BY <1>2, <5>2, <5>3 DEF Counted
        <4>2. CASE ~ Before
          <5>1. phase = "idle" /\ todo = <<>>
            BY <1>0, <3>2, <4>2 DEF Before, RadarTypes
          <5> QED
            BY <1>2, <5>1 DEF Counted
        <4> QED
          BY <4>1, <4>2
      <3>3. CASE phase = "read"
        <4>1. CASE ~ platformVerified
          <5>1. written = 1 /\ cmd = "version"
            BY <1>0, <3>3, <4>1 DEF InExchange, Fits
          <5>2. request.id = written
            BY <1>4, <3>1, <5>1
          <5> QED
            BY <1>14, <3>1, <3>3, <5>1, <5>2
        <4>2. CASE platformVerified /\ Mine
          <5>1. request.id = written
            BY <1>3, <4>2 DEF Mine
          <5>2. cmd = "config"
            BY <1>14, <3>1, <3>3, <5>1
          <5>3. op \in {"Send", "Apply"}
            <6>1. \A o \in {"Stop"} \cup StartOps : CommandOf[o] # "config"
              BY RadarTables DEF StartOps
            <6> QED
              BY <1>0, <3>3, <4>2, <5>2, <6>1 DEF Fits
          <5>4. \A i \in DOMAIN todo : todo[i] # "Apply"
            BY <1>0, <5>3 DEF Scheduled
          <5>5. OwnDone'
            <6>1. PICK i \in 1..Len(resp) : resp[i].kind = "done"
              BY <1>6, <3>1
            <6>2. Len(lines) + i \in DOMAIN lines' /\ lines'[Len(lines) + i] = resp[i]
              BY <1>7
            <6>3. resp[i].id = written'
              BY <1>2, <1>6, <5>1
            <6> QED
              BY <6>1, <6>2, <6>3 DEF OwnDone
          <5> QED
            BY <1>2, <3>3, <5>2, <5>4, <5>5 DEF Counted
        <4>3. CASE op = "Stop" /\ todo = <<>>
          BY <1>2, <4>3 DEF Counted
        <4> QED
          BY <1>0, <3>3, <4>1, <4>2, <4>3 DEF InExchange
      <3> QED
        BY <3>2, <3>3
    <2> QED
      BY <2>1, <2>2
  <1> QED
    BY <1>9, <1>10, <1>11, <1>12, <1>13, <1>15, <1>16, <1>18, <1>19 DEF RadarInv

-----------------------------------------------------------------------------
(* The radar client: the theorems.                                         *)

\* What an earlier process left opens no gate: it asked for no version.
LEMMA RadarInitInv ==
  ASSUME RadarInit, "version" \notin Leftovers
  PROVE  RadarInv
  <1>1. /\ todo \in Seq(Operations) /\ Shape(todo) /\ todo # <<>> /\ Head(todo) # "Send"
        /\ Head(todo) \in StartOps => Tail(todo) = <<>>
    BY ScriptShape DEF RadarInit
  <1>2. /\ op = "none" /\ phase = "idle" /\ outcome = "none" /\ cmd = "version" /\ left = 0
        /\ echoSeen = FALSE /\ platformVerified = FALSE /\ desynchronized = FALSE
        /\ lines = <<>> /\ platform \in {"right", "wrong"} /\ streaming \in BOOLEAN
        /\ written = 0 /\ configs = 0
        /\ taken = [cmd |-> "version", asked |-> 0, from |-> 0, echoed |-> TRUE]
    BY DEF RadarInit
  <1>3. PICK q \in BoundedSeq(Leftovers, MaxLeft) :
          input = [i \in DOMAIN q |-> [cmd |-> q[i], id |-> 0]]
    BY DEF RadarInit
  <1>4. PICK m \in 0..MaxLeft : q \in [1..m -> Leftovers]
    BY <1>3 DEF BoundedSeq, SeqOf
  <1>5. \A i \in 1..m : q[i] \in Commands /\ q[i] # "version"
    BY <1>4, RadarAssumption
  <1>6. /\ input = [i \in 1..m |-> [cmd |-> q[i], id |-> 0]] /\ m \in Nat
        /\ DOMAIN input = 1..m
    BY <1>3, <1>4, RadarAssumption
  <1>7. \A i \in 1..m : input[i] \in RequestType /\ input[i].id = 0 /\ input[i].cmd # "version"
    BY <1>5, <1>6 DEF RequestType, Requested
  <1>8. input \in Seq(RequestType)
    BY <1>6, <1>7
  <1>9. RadarTypes
    <2>1. /\ cmd \in Commands /\ lines \in Seq(LineType)
          /\ left \in Nat /\ written \in Nat /\ configs \in Nat
      BY <1>2 DEF Commands
    <2>2. echoSeen \in BOOLEAN /\ platformVerified \in BOOLEAN /\ desynchronized \in BOOLEAN
      BY <1>2, Zenon
    <2>3. phase \in {"idle", "exchange", "write", "read"} /\ op \in Operations \cup {"none"}
      BY <1>2
    <2> QED
      BY <1>1, <1>2, <1>8, <2>1, <2>2, <2>3, Zenon DEF RadarTypes
  <1>10. Scheduled
    BY <1>1, <1>2 DEF Scheduled, StartOps
  <1>11. Fits /\ InExchange /\ Order /\ Effect /\ Confirmed
    BY <1>2 DEF Fits, InExchange, Order, Effect, Confirmed
  <1>12. Numbered
    BY <1>2, <1>6, <1>7 DEF Numbered
  <1>13. BetweenExchanges
    <2>1. NoPlatform(written + 1)
      BY <1>2, <1>6, <1>7 DEF NoPlatform
    <2> QED
      BY <1>1, <1>2, <2>1 DEF BetweenExchanges
  <1>14. Counted /\ AnswersAreOwn
    BY <1>2 DEF Counted, AnswersAreOwn
  <1> QED
    BY <1>9, <1>10, <1>11, <1>12, <1>13, <1>14 DEF RadarInv

LEMMA RadarNextInv ==
  ASSUME RadarInv, [RadarNext]_radarVars
  PROVE  RadarInv'
  <1>1. CASE RadarStep
    BY <1>1, BeginRefusedInv, BeginInv, RefusedInv, PurgeInputInv, WritePartlyInv, WriteWholeInv,
       ReadOnInv, ReadTerminalInv, ReadGivesUpInv DEF RadarStep
  <1>2. CASE DeviceExecutes
    BY <1>2, DeviceExecutesInv
  <1>3. CASE CancelCommand \/ ClosePort \/ FramesEnd \/ UNCHANGED radarVars
    BY <1>3, RadarEnvironmentInv
  <1> QED
    BY <1>1, <1>2, <1>3 DEF RadarNext

LEMMA RadarInvariant ==
  ASSUME "version" \notin Leftovers
  PROVE  RadarSpec => []RadarInv
  <1>1. RadarInit => RadarInv
    BY RadarInitInv
  <1>2. RadarInv /\ [RadarNext]_radarVars => RadarInv'
    BY RadarNextInv
  <1> QED
    BY <1>1, <1>2, PTL DEF RadarSpec

\* A terminal line that the client takes as the answer to a state command, or
\* that opens the platform gate, answers that very command, however many
\* commands timed out before and whatever an earlier process has left
\* unanswered but a version command (sendCommandLocked, verifyPlatformLocked).
THEOREM OwnAnswers ==
  ASSUME "version" \notin Leftovers
  PROVE  RadarSpec => []AnswersAreOwn
  <1>1. RadarInv => AnswersAreOwn
    BY DEF RadarInv
  <1> QED
    BY <1>1, RadarInvariant, PTL

\* What an operation reports as done is done: the stop has stopped the frames
\* and no start is in front of the device, the start was obeyed, and so was
\* every configuration command (StopContext, start, ApplyContext).
THEOREM RealConfirmation ==
  ASSUME "version" \notin Leftovers
  PROVE  RadarSpec => []ConfirmationIsReal
  <1>1. RadarInv => ConfirmationIsReal
    BY DEF RadarInv, Confirmed, ConfirmationIsReal, Clean, StartOps
  <1> QED
    BY <1>1, RadarInvariant, PTL
=============================================================================
