--------------------------- MODULE MirrorContract ---------------------------
(***************************************************************************)
(* What a capture may rely on of its live mirror, without spool, channel,  *)
(* slots, locks and threads: the contract of capturestream.Mirror.         *)
(*                                                                         *)
(* A file fills up in any order while its frames are copied, one at a time *)
(* and in frame order, to a consumer that may take long or refuse.  A byte *)
(* in the file stays.  A frame is offered only while the capture is live   *)
(* and whole in the file; the consumer may still take it after an abort,   *)
(* because it was offered before.  The capture ends once: sealed when file *)
(* and copy are the same frames, or aborted.  Mirror implements this       *)
(* module.                                                                 *)
(***************************************************************************)
EXTENDS Integers, Sequences

CONSTANTS
  FrameBytes, \* bytes of a frame
  FrameLimit, \* most frames of a capture
  None        \* a byte of the file that was never written

VARIABLES
  promised, \* frames the capture must have, or 0 when open-ended
  file,     \* the authoritative capture file
  copy,     \* what the consumer took, in order
  offered,  \* the next frame is with the consumer
  status    \* "live", "sealed" or "aborted"

cvars == <<promised, file, copy, offered, status>>

WholeInFile(k) == \A u \in 0 .. (FrameBytes - 1) : file[k * FrameBytes + u] # None
FrameInFile(k) ==
  [index |-> k, payload |-> [u \in 0 .. (FrameBytes - 1) |-> file[k * FrameBytes + u]]]

CInit ==
  /\ promised \in {0, FrameLimit}
  /\ file = [b \in 0 .. (FrameLimit * FrameBytes - 1) |-> None]
  /\ copy = <<>>
  /\ offered = FALSE
  /\ status = "live"

\* A write adds bytes, all of its own or, when it fails, some.
Writes ==
  /\ status = "live"
  /\ DOMAIN file' = DOMAIN file
  /\ \A b \in DOMAIN file : file[b] # None => file'[b] = file[b]
  /\ status' \in {"live", "aborted"}
  /\ UNCHANGED <<promised, copy, offered>>

Offers ==
  /\ status = "live"
  /\ ~ offered
  /\ Len(copy) < FrameLimit
  /\ WholeInFile(Len(copy))
  /\ offered' = TRUE
  /\ UNCHANGED <<promised, file, copy, status>>

Accepts ==
  /\ offered
  /\ copy' = Append(copy, FrameInFile(Len(copy)))
  /\ offered' = FALSE
  /\ UNCHANGED <<promised, file, status>>

Rejects ==
  /\ offered
  /\ offered' = FALSE
  /\ status' = "aborted"
  /\ UNCHANGED <<promised, file, copy>>

\* Nothing is left to copy and nothing is in the file beyond the copy.
Seals ==
  /\ status = "live"
  /\ ~ offered
  /\ Len(copy) > 0
  /\ promised # 0 => Len(copy) = promised
  /\ \A b \in DOMAIN file : file[b] # None <=> b < Len(copy) * FrameBytes
  /\ status' = "sealed"
  /\ UNCHANGED <<promised, file, copy, offered>>

Aborts ==
  /\ status = "live"
  /\ status' = "aborted"
  /\ UNCHANGED <<promised, file, copy, offered>>

CNext == Writes \/ Offers \/ Accepts \/ Rejects \/ Seals \/ Aborts

CSpec == CInit /\ [][CNext]_cvars
=============================================================================
