------------------------------ MODULE Receiver ------------------------------
(***************************************************************************)
(* The one-shot DCA1000 raw-data receiver (internal/dca/receiver.go) and   *)
(* the UDP network in front of it.                                         *)
(*                                                                         *)
(* The FPGA cuts the ADC stream into packets 0, 1, 2, ... that carry their *)
(* byte offset; the network loses, delays, reorders and duplicates them:   *)
(* any packet in flight may arrive next, and a lost one never does.        *)
(* The receive loop runs in a goroutine of its own: one iteration is one   *)
(* action.  Deadlines (first packet, idle) may pass at any moment at which *)
(* the loop tests them.  The client calls Start, WaitForFirst or Wait      *)
(* (which open the first-packet window), cancels the context and Closes.   *)
(***************************************************************************)
EXTENDS Integers, FiniteSets, Sequences, SequencesExt

CONSTANTS
  NumPackets,     \* packets the FPGA may send
  FirstOffset,    \* byte offset of packet 0
  PacketBytes,    \* payload bytes per packet
  MaxOutputBytes, \* config.MaxOutputBytes of an open-ended capture
  FiniteBytes,    \* config.ExpectedOutputBytes of a finite capture
  MaxTracked,     \* maxTrackedOutputRanges
  MaxDuplicates,  \* bound: packets the network delivers a second time
  MaxMalformed,   \* bound: malformed datagrams from the device
  None

ASSUME ReceiverAssumption ==
  /\ NumPackets \in Nat
  /\ FirstOffset \in Nat
  /\ PacketBytes \in Nat \ {0}
  /\ MaxOutputBytes \in Nat \ {0}
  /\ FiniteBytes \in Nat \ {0}
  /\ MaxTracked \in Nat \ {0}
  /\ MaxDuplicates \in Nat
  /\ MaxMalformed \in Nat
  /\ None \notin Nat

VARIABLES
  expected,     \* config.ExpectedOutputBytes; 0 when open-ended
  rstate,       \* "bound", "receiving" or "done"
  socketClosed, \* Close has closed the UDP socket
  rcancelled,   \* the context given to Start is cancelled
  firstWait,    \* beginFirstPacketWindow was called
  stats,        \* CaptureStats, as far as later decisions read it
  runErr,       \* the receive loop's error, "nil" when it ended cleanly
  ranges,       \* sorted slice of covered ranges
  base,         \* baseOffset, None until the first packet
  spanReached,  \* expectedSpanReached
  file,         \* output: packet number written at each relative byte
  streamed,     \* the FPGA streams: its packets are on their way
  net,          \* packets in flight
  duplicated    \* packets delivered twice so far

recvVars == <<stats, runErr, ranges, base, spanReached, file>>
netVars == <<streamed, net, duplicated>>
rvars == <<expected, rstate, socketClosed, rcancelled, firstWait, recvVars,
           netVars>>

MaxOutput == IF expected > 0 THEN expected ELSE MaxOutputBytes
Packets == 0 .. (NumPackets - 1)
Offset(p) == FirstOffset + p * PacketBytes
RelativeBytes == 0 .. (MaxOutput - 1)

ZeroStats == [packets |-> 0, output |-> 0, missing |-> 0, discarded |-> 0,
              malformed |-> 0, overlapping |-> 0]

ReceiverInit ==
  /\ expected \in {0, FiniteBytes}
  /\ rstate = "bound"
  /\ socketClosed = FALSE
  /\ rcancelled = FALSE
  /\ firstWait = FALSE
  /\ stats = ZeroStats
  /\ runErr = "nil"
  /\ ranges = <<>>
  /\ base = None
  /\ spanReached = FALSE
  /\ file = [b \in RelativeBytes |-> None]
  /\ streamed = FALSE
  /\ net = {}
  /\ duplicated = 0

-----------------------------------------------------------------------------
(* The slice of covered ranges.                                            *)

ByteRange(start, end) == [start |-> start, end |-> end]

\* Leading ranges that end before the addition starts.
LeadingBefore(rs, a) ==
  CHOOSE i \in 0 .. Len(rs) :
    /\ \A x \in 1 .. i : rs[x].end < a.start
    /\ i = Len(rs) \/ rs[i + 1].end >= a.start

\* Mutant: adjacency is taken for a gap.
AddRange_noMerge(rs, a) ==
  LET i == LeadingBefore(rs, a)
  IN  SubSeq(rs, 1, i) \o <<a>> \o SubSeq(rs, i + 1, Len(rs))

\* addRange: the addition grows over every following range that it reaches.
AddRange(rs, a) ==
  LET i == LeadingBefore(rs, a)
      grown(j) == Max({a.end} \cup {rs[x].end : x \in (i + 1) .. j})
      j == CHOOSE k \in i .. Len(rs) :
             /\ \A x \in (i + 1) .. k : rs[x].start <= grown(x - 1)
             /\ k = Len(rs) \/ rs[k + 1].start > grown(k)
      merged == ByteRange(Min({a.start} \cup {rs[x].start : x \in (i + 1) .. j}),
                          grown(j))
  IN  SubSeq(rs, 1, i) \o <<merged>> \o SubSeq(rs, j + 1, Len(rs))

\* The ranges preflightRangeAddition looks at before it breaks off its scan.
Scanned(rs, a) ==
  {i \in 1 .. Len(rs) :
     /\ rs[i].end >= a.start
     /\ \A x \in 1 .. i : rs[x].end < a.start \/ rs[x].start <= a.end}

Overlaps(r, a) == r.end > a.start /\ r.start < a.end

\* preflightRangeAddition.
PreflightRange(rs, a) ==
  IF \E i \in Scanned(rs, a) : Overlaps(rs[i], a) THEN "overlap"
  ELSE IF Len(rs) + 1 - Cardinality(Scanned(rs, a)) > MaxTracked THEN "sparse"
  ELSE "ok"

Highest == stats.output

\* finalizeStats walks the slice: how far it is covered, and what was missing.
Swept(before, r) ==
  [until |-> IF r.end > before.until THEN r.end ELSE before.until,
   lost  |-> IF r.start > before.until
             THEN before.lost + (r.start - before.until) ELSE before.lost]

\* The walk after its first n ranges.
Sweep(rs) ==
  LET sweep[n \in 0 .. Len(rs)] ==
        IF n = 0 THEN [until |-> 0, lost |-> 0] ELSE Swept(sweep[n - 1], rs[n])
  IN  sweep

\* Bytes of [0, highest) that no range covers.
MissingIn(rs, highest) ==
  LET all == Sweep(rs)[Len(rs)]
  IN  IF highest > all.until THEN all.lost + (highest - all.until) ELSE all.lost

FinalizeStats(s) == [s EXCEPT !.missing = MissingIn(ranges, s.output)]

-----------------------------------------------------------------------------
(* The FPGA and the network.                                               *)

\* Packets arrive in any order, so sending them one by one adds nothing.
DcaSends ==
  /\ ~ streamed
  /\ streamed' = TRUE
  /\ net' = Packets
  /\ UNCHANGED <<expected, rstate, socketClosed, rcancelled, firstWait,
                 recvVars, duplicated>>

\* Taking packet p off the network may leave a duplicate behind.
Takes(p) ==
  /\ p \in net
  /\ \/ net' = net \ {p} /\ UNCHANGED duplicated
     \/ duplicated < MaxDuplicates /\ duplicated' = duplicated + 1 /\ UNCHANGED net
  /\ UNCHANGED streamed

-----------------------------------------------------------------------------
(* The receive loop.                                                       *)

Receiving == rstate = "receiving"
FirstSeen == stats.packets > 0

\* receive returns (s, err) and finish publishes both and closes done.
LoopEnds(s, err) ==
  /\ rstate' = "done"
  /\ stats' = s
  /\ runErr' = err

\* ctx.Err at the top of the loop or after an interrupted read.
LoopCancelled ==
  /\ Receiving
  /\ rcancelled
  /\ LoopEnds(FinalizeStats(stats), "cancelled")
  /\ UNCHANGED <<expected, socketClosed, rcancelled, firstWait, ranges, base,
                 spanReached, file, netVars>>

LoopClosed ==
  /\ Receiving
  /\ socketClosed
  /\ LoopEnds(FinalizeStats(stats), "closed")
  /\ UNCHANGED <<expected, socketClosed, rcancelled, firstWait, ranges, base,
                 spanReached, file, netVars>>

FirstPacketTimeout ==
  /\ Receiving
  /\ firstWait
  /\ ~ FirstSeen
  /\ LoopEnds(FinalizeStats(stats), "firstPacketTimeout")
  /\ UNCHANGED <<expected, socketClosed, rcancelled, firstWait, ranges, base,
                 spanReached, file, netVars>>

\* Mutant: a finite receiver settles in any quiet interval.
IdleArmed_early == FirstSeen

\* The idle deadline runs for an open-ended capture, or past the target byte.
IdleArmed == FirstSeen /\ (expected = 0 \/ spanReached)

LoopIdle ==
  /\ Receiving
  /\ IdleArmed
  /\ LoopEnds(FinalizeStats(stats), "nil")
  /\ UNCHANGED <<expected, socketClosed, rcancelled, firstWait, ranges, base,
                 spanReached, file, netVars>>

\* The socket reports an error that is neither a timeout nor a close; the
\* statistics are returned as they are.
ReadFails ==
  /\ Receiving
  /\ ~ socketClosed
  /\ LoopEnds(stats, "read")
  /\ UNCHANGED <<expected, socketClosed, rcancelled, firstWait, ranges, base,
                 spanReached, file, netVars>>

\* A datagram of the device that ParseDataPacket rejects.
MalformedArrives ==
  /\ Receiving
  /\ ~ socketClosed
  /\ stats.malformed < MaxMalformed
  /\ stats' = [stats EXCEPT !.malformed = @ + 1]
  /\ UNCHANGED <<expected, rstate, socketClosed, rcancelled, firstWait, runErr,
                 ranges, base, spanReached, file, netVars>>

BaseWith(p) == IF base = None THEN Offset(p) ELSE base

\* Mutant: payloads are appended instead of placed at their offset.
Relative_append(p) == stats.output

Relative(p) == Offset(p) - BaseWith(p)
Addition(p) == ByteRange(Relative(p), Relative(p) + PacketBytes)

\* A datagram can still be read while a cancellation is unobserved.
Reads(p) == Receiving /\ ~ socketClosed /\ Takes(p) /\ base' = BaseWith(p)

DiscardBeforeBase(p) ==
  /\ Reads(p)
  /\ Relative(p) < 0
  /\ stats' = [stats EXCEPT !.discarded = @ + 1]
  /\ UNCHANGED <<expected, rstate, socketClosed, rcancelled, firstWait, runErr,
                 ranges, spanReached, file>>

\* packetEnd exceeds config.MaxOutputBytes: returned without finalizeStats.
ExceedsOutput(p) ==
  /\ Reads(p)
  /\ Relative(p) >= 0
  /\ Addition(p).end > MaxOutput
  /\ LoopEnds(stats, "limit")
  /\ UNCHANGED <<expected, socketClosed, rcancelled, firstWait, ranges,
                 spanReached, file>>

InBounds(p) == Relative(p) >= 0 /\ Addition(p).end <= MaxOutput

RefusesRange(p) ==
  LET verdict == PreflightRange(ranges, Addition(p))
  IN  /\ Reads(p)
      /\ InBounds(p)
      /\ verdict # "ok"
      /\ LoopEnds(FinalizeStats([stats EXCEPT !.overlapping =
                                   IF verdict = "overlap" THEN @ + 1 ELSE @]),
                  verdict)
      /\ UNCHANGED <<expected, socketClosed, rcancelled, firstWait, ranges,
                     spanReached, file>>

FileAfter(p, count) ==
  [b \in DOMAIN file |->
     IF b \in Relative(p) .. (Relative(p) + count - 1) THEN p ELSE file[b]]

\* output.WriteAt fails or is short: returned without finalizeStats.
WriteFails(p, written) ==
  /\ Reads(p)
  /\ InBounds(p)
  /\ PreflightRange(ranges, Addition(p)) = "ok"
  /\ written < PacketBytes
  /\ file' = FileAfter(p, written)
  /\ LoopEnds(stats, "write")
  /\ UNCHANGED <<expected, socketClosed, rcancelled, firstWait, ranges,
                 spanReached>>

Accept(p) ==
  LET a == Addition(p)
      highest == IF a.end > Highest THEN a.end ELSE Highest
  IN  /\ Reads(p)
      /\ InBounds(p)
      /\ PreflightRange(ranges, a) = "ok"
      /\ file' = FileAfter(p, PacketBytes)
      /\ ranges' = AddRange(ranges, a)
      /\ stats' = [stats EXCEPT !.packets = @ + 1, !.output = highest]
      /\ spanReached' = (spanReached \/ (expected > 0 /\ highest = expected))
      /\ UNCHANGED <<expected, rstate, socketClosed, rcancelled, firstWait,
                     runErr>>

Arrives(p) ==
  \/ DiscardBeforeBase(p)
  \/ ExceedsOutput(p)
  \/ RefusesRange(p)
  \/ Accept(p)
  \/ \E written \in 0 .. (PacketBytes - 1) : WriteFails(p, written)

LoopStops == LoopCancelled \/ LoopClosed
LoopTimesOut == FirstPacketTimeout \/ LoopIdle

ReceiveLoop ==
  \/ LoopStops
  \/ LoopTimesOut
  \/ ReadFails
  \/ MalformedArrives
  \/ \E p \in Packets : Arrives(p)

-----------------------------------------------------------------------------
(* Calls of the client.                                                    *)

\* Start: claimRun succeeds once, on a receiver that is not closed.
Start ==
  /\ rstate = "bound"
  /\ ~ socketClosed
  /\ rstate' = "receiving"
  /\ UNCHANGED <<expected, socketClosed, rcancelled, firstWait, recvVars,
                 netVars>>

\* WaitForFirst and Wait open the first-packet window before they block.
BeginWait ==
  /\ firstWait' = TRUE
  /\ UNCHANGED <<expected, rstate, socketClosed, rcancelled, recvVars, netVars>>

\* The session cancels the receiver's context, then closes its socket.
CloseSocket == rcancelled' = TRUE /\ socketClosed' = TRUE

\* Mutant: Close does not join the receive goroutine.
CloseReturns_unjoined == socketClosed

\* Close returns once done is closed, or at once if the loop never started.
CloseReturns == socketClosed /\ rstate # "receiving"

-----------------------------------------------------------------------------
(* Properties of the receiver.                                             *)

CoveredBytes == UNION {ranges[i].start .. (ranges[i].end - 1) : i \in DOMAIN ranges}
WrittenBytes == {b \in DOMAIN file : file[b] # None}

\* The receive loop's bookkeeping is what the file holds: the slice of ranges
\* is sorted with a gap between any two of them, covers exactly the bytes
\* written (a failed last write aside), stays within its limit, and
\* OutputBytes is the end of the last range, in whatever order packets came.
CoverageExact ==
  /\ \A i \in DOMAIN ranges : ranges[i].start < ranges[i].end
  /\ \A i, j \in DOMAIN ranges : i < j => ranges[i].end < ranges[j].start
  /\ Len(ranges) <= MaxTracked
  /\ runErr # "write" => CoveredBytes = WrittenBytes
  /\ stats.output = IF ranges = <<>> THEN 0 ELSE ranges[Len(ranges)].end

\* A packet lands at its own offset from the first packet: byte b of the file
\* is only ever filled from the packet whose stream offset is base + b.
PlacementExact ==
  \A b \in WrittenBytes :
    base + b \in Offset(file[b]) .. (Offset(file[b]) + PacketBytes - 1)

\* A receive loop that ended cleanly, or by a stop, reports every byte it
\* lacks: no missing byte and nothing discarded means that [0, OutputBytes) is
\* in the file without a hole, and a clean end of a finite capture means that
\* the planned last byte was reached.
CleanEndIsAccounted ==
  rstate = "done" /\ runErr \in {"nil", "cancelled", "closed"} =>
    /\ stats.missing = Cardinality((0 .. (stats.output - 1)) \ WrittenBytes)
    /\ runErr = "nil" /\ expected > 0 => stats.output = expected
=============================================================================
