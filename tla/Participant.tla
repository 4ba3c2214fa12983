---------------------------- MODULE Participant ----------------------------
(***************************************************************************)
(* What the rest of a capture may rely on of its external sources: the     *)
(* contract of multisensorcapture.Coordinator (Arm, Start, Finish, Result) *)
(* without processes, pipes, commands and timeouts.                        *)
(*                                                                         *)
(* Every source has a drain that records items until it ends or is lost.   *)
(* A source is dropped when the coordinator gives it up or its drain is    *)
(* lost; a dropped source may still be draining.  The participant finishes *)
(* only when nothing drains any more, every source that was not dropped    *)
(* has drained to its end and every required source is one of them.        *)
(* MultiSensorCapture implements this module; MultiSensorStream builds on  *)
(* it.                                                                     *)
(***************************************************************************)
EXTENDS Integers

CONSTANTS
  Sources,    \* external sources of the plan
  Required,   \* those whose plan says required
  MaxRecorded \* plan.Limits.MaxItems

ASSUME ParticipantAssumption == Required \subseteq Sources /\ MaxRecorded \in Nat

VARIABLES
  phase,     \* Coordinator.phase
  drain,     \* per source: "none", "on", "over" (END and EOF seen) or "lost"
  dropped,   \* per source: given up
  recorded,  \* per source: items in its payload file
  cancelled  \* the capture context has ended

partVars == <<phase, drain, dropped, recorded, cancelled>>

NextPhase(of) ==
  CASE of = "starting" -> "ready" [] of = "ready" -> "armed"
    [] of = "armed" -> "started"

PartInit ==
  /\ phase = "starting"
  /\ drain = [s \in Sources |-> "none"]
  /\ dropped = [s \in Sources |-> FALSE]
  /\ recorded = [s \in Sources |-> 0]
  /\ cancelled = FALSE

Launches(s) ==
  /\ phase = "starting" /\ drain[s] = "none" /\ ~dropped[s]
  /\ drain' = [drain EXCEPT ![s] = "on"]
  /\ UNCHANGED <<phase, dropped, recorded, cancelled>>

Records(s) ==
  /\ drain[s] = "on" /\ recorded[s] < MaxRecorded
  /\ phase \notin {"starting", "ready"}
  /\ recorded' = [recorded EXCEPT ![s] = @ + 1]
  /\ UNCHANGED <<phase, drain, dropped, cancelled>>

DrainEnds(s) ==
  /\ drain[s] = "on"
  /\ drain' = [drain EXCEPT ![s] = "over"]
  /\ UNCHANGED <<phase, dropped, recorded, cancelled>>

\* The payload is worthless.  The loss of a required source ends the capture;
\* once the source has been given up it may or may not.
DrainLost(s) ==
  /\ drain[s] = "on"
  /\ drain' = [drain EXCEPT ![s] = "lost"]
  /\ dropped' = [dropped EXCEPT ![s] = TRUE]
  /\ recorded' = [recorded EXCEPT ![s] = 0]
  /\ \E ends \in IF dropped[s] THEN BOOLEAN ELSE {TRUE} :
       cancelled' = (cancelled \/ (s \in Required /\ ends))
  /\ UNCHANGED phase

Drops(s) ==
  /\ ~dropped[s] /\ phase # "finished"
  /\ dropped' = [dropped EXCEPT ![s] = TRUE]
  /\ UNCHANGED <<phase, drain, recorded, cancelled>>

\* Start, Arm or Start returned without error.
Advances ==
  /\ phase \in {"starting", "ready", "armed"}
  /\ phase' = NextPhase(phase)
  /\ UNCHANGED <<drain, dropped, recorded, cancelled>>

Finishes ==
  /\ phase = "started"
  /\ \A s \in Sources :
       /\ drain[s] # "on"
       /\ dropped[s] => s \notin Required
       /\ ~dropped[s] => drain[s] = "over"
  /\ phase' = "finished"
  /\ UNCHANGED <<drain, dropped, recorded, cancelled>>

Fails ==
  /\ phase \notin {"finished", "failed"}
  /\ phase' = "failed"
  /\ UNCHANGED <<drain, dropped, recorded, cancelled>>

Cancels ==
  /\ ~cancelled
  /\ cancelled' = TRUE
  /\ UNCHANGED <<phase, drain, dropped, recorded>>

PartNext ==
  \/ Advances \/ Finishes \/ Fails \/ Cancels
  \/ \E s \in Sources :
       Launches(s) \/ Records(s) \/ DrainEnds(s) \/ DrainLost(s) \/ Drops(s)

PartSpec == PartInit /\ [][PartNext]_partVars
=============================================================================
