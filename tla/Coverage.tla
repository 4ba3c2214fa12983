------------------------------ MODULE Coverage ------------------------------
(***************************************************************************)
(* Byte coverage of one mirrored frame (internal/capturestream/coverage.go).*)
(* The code keeps a sorted slice of half-open ranges; the order carries no *)
(* information, so coverage is a set of records [start, end) here.  Module *)
(* Receiver checks the slice form of the same algorithm.                   *)
(***************************************************************************)
EXTENDS Integers, FiniteSets

\* Ranges that overlap or are exactly adjacent to [start, end).
Touching(ranges, start, end) ==
  {r \in ranges : r.end >= start /\ r.start <= end}

Overlapping(ranges, start, end) ==
  {r \in ranges : r.end > start /\ r.start < end}

\* Number of ranges left once [start, end) is merged with what it touches.
ResultingCount(ranges, start, end) ==
  Cardinality(ranges) + 1 - Cardinality(Touching(ranges, start, end))

LeastOf(S) == CHOOSE x \in S : \A y \in S : x <= y
GreatestOf(S) == CHOOSE x \in S : \A y \in S : x >= y

\* addCoverageRange: one range replaces the addition and all it touches.
AddRange(ranges, start, end) ==
  LET near == Touching(ranges, start, end)
  IN  (ranges \ near) \cup
        {[start |-> LeastOf({start} \cup {r.start : r \in near}),
          end   |-> GreatestOf({end} \cup {r.end : r \in near})]}

\* The bytes a set of ranges covers.
CoveredBytes(ranges) == UNION {r.start .. (r.end - 1) : r \in ranges}
=============================================================================
