---------------------------- MODULE MirrorProofs ----------------------------
(***************************************************************************)
(* TLAPS proofs about module Mirror, for every frame size, frame limit,    *)
(* buffer size, range limit and number of callers.                         *)
(***************************************************************************)
EXTENDS Mirror, FiniteSetTheorems, SequenceTheorems, WellFoundedInduction, TLAPS

-----------------------------------------------------------------------------
(* Arithmetic of frames and offsets.                                       *)

\* Multiplication by the frame size is monotonic.
LEMMA FrameMonotonic ==
  ASSUME NEW a \in Nat, NEW b \in Nat, NEW w \in Nat, a <= b
  PROVE  a * w <= b * w
  OBVIOUS

\* A byte offset lies in the frame that integer division names.
LEMMA FrameOfOffset ==
  ASSUME NEW x \in Nat, NEW w \in Nat \ {0}
  PROVE  /\ x \div w \in Nat
         /\ (x \div w) * w <= x
         /\ x < (x \div w + 1) * w
  OBVIOUS

\* Frames below a limit hold exactly the bytes below limit * size.
LEMMA FrameBelowLimit ==
  ASSUME NEW x \in Nat, NEW w \in Nat \ {0}, NEW limit \in Nat, x < limit * w
  PROVE  x \div w < limit
  <1>1. /\ x \div w \in Nat
        /\ (x \div w) * w <= x
    BY FrameOfOffset
  <1>2. SUFFICES ASSUME limit <= x \div w PROVE FALSE
    BY <1>1
  <1>3. limit * w <= (x \div w) * w
    BY <1>1, <1>2, FrameMonotonic
  <1> QED
    BY <1>1, <1>3

\* A non-empty set of naturals has a least element.
LEMMA LeastExists ==
  ASSUME NEW S \in SUBSET Nat, S # {}
  PROVE  LeastOf(S) \in S /\ \A y \in S : LeastOf(S) <= y
  <1> DEFINE R == {ss \in Nat \X Nat : ss[1] < ss[2]}
  <1>0. IsWellFoundedOn(R, Nat)
    BY NatLessThanWellFounded, Zenon DEF OpToRel
  <1>1. \E x \in S : \A y \in S : ~ (<<y, x>> \in R)
    <2> HIDE DEF R
    <2> QED
      BY <1>0, WFMin
  <1>2. \E x \in S : \A y \in S : x <= y
    <2>1. PICK x \in S : \A y \in S : ~ (<<y, x>> \in R)
      BY <1>1
    <2>2. ASSUME NEW y \in S PROVE x <= y
      <3>1. x \in Nat /\ y \in Nat
        OBVIOUS
      <3>2. <<y, x>> \in R <=> y < x
        BY <3>1
      <3> QED
        BY <2>1, <3>1, <3>2
    <2> QED
      BY <2>2
  <1> QED
    BY <1>2 DEF LeastOf

\* A non-empty set of naturals with an upper bound has a greatest element.
LEMMA GreatestExists ==
  ASSUME NEW n \in Nat, NEW S \in SUBSET (0 .. n), S # {}
  PROVE  GreatestOf(S) \in S /\ \A y \in S : GreatestOf(S) >= y
  <1> DEFINE T == {n - x : x \in S}
  <1>1. T \in SUBSET Nat /\ T # {}
    <2>1. \A x \in S : x \in Nat /\ n - x \in Nat
      OBVIOUS
    <2>2. PICK x \in S : TRUE
      OBVIOUS
    <2>3. n - x \in T
      OBVIOUS
    <2> QED
      BY <2>1, <2>3
  <1>2. PICK t \in T : \A y \in T : t <= y
    BY <1>1, LeastExists
  <1>3. \E x \in S : \A y \in S : x >= y
    <2>1. PICK x \in S : t = n - x
      BY <1>2
    <2>2. \A y \in S : n - x <= n - y
      BY <1>2, <2>1
    <2> QED
      BY <2>2
  <1> QED
    BY <1>3 DEF GreatestOf

-----------------------------------------------------------------------------
(* The plan of a write.                                                    *)

\* A write inside the capture touches existing frames only, and its fragment
\* in each of them is a non-empty range within the frame.
LEMMA FragmentBounds ==
  ASSUME NEW offset \in Nat, NEW length \in Nat \ {0},
         offset + length <= ExpectedBytes
  PROVE  /\ FirstFrame(offset) \in Nat
         /\ FramesOf(offset, length) \subseteq Frames
         /\ \A i \in FramesOf(offset, length) :
              /\ FragmentStart(i, offset) \in 0 .. FrameBytes
              /\ FragmentEnd(i, offset, length) \in 0 .. FrameBytes
              /\ FragmentStart(i, offset) < FragmentEnd(i, offset, length)
              /\ i * FrameBytes \in Nat
              /\ (i + 1) * FrameBytes = i * FrameBytes + FrameBytes
              /\ (i + 1) * FrameBytes <= ExpectedBytes
  <1> DEFINE end == offset + length - 1
  <1>1. /\ FrameBytes \in Nat \ {0} /\ FrameLimit \in Nat \ {0}
        /\ ExpectedBytes = FrameLimit * FrameBytes
        /\ end \in Nat
    BY ConfigAssumption DEF ExpectedBytes
  <1>2. /\ offset \div FrameBytes \in Nat
        /\ offset < (offset \div FrameBytes + 1) * FrameBytes
    BY <1>1, FrameOfOffset
  <1>3. /\ end \div FrameBytes \in Nat
        /\ (end \div FrameBytes) * FrameBytes <= end
        /\ end \div FrameBytes < FrameLimit
    BY <1>1, FrameOfOffset, FrameBelowLimit
  <1>4. ASSUME NEW i \in FramesOf(offset, length)
        PROVE  /\ FragmentStart(i, offset) \in 0 .. FrameBytes
               /\ FragmentEnd(i, offset, length) \in 0 .. FrameBytes
               /\ FragmentStart(i, offset) < FragmentEnd(i, offset, length)
               /\ i * FrameBytes \in Nat
               /\ (i + 1) * FrameBytes = i * FrameBytes + FrameBytes
               /\ (i + 1) * FrameBytes <= ExpectedBytes
    <2>1. /\ i \in Nat /\ offset \div FrameBytes <= i
          /\ i <= end \div FrameBytes /\ i + 1 <= FrameLimit
      BY <1>1, <1>2, <1>3 DEF FramesOf, FirstFrame, LastFrame
    <2>2. (offset \div FrameBytes + 1) * FrameBytes <= (i + 1) * FrameBytes
      BY <1>1, <1>2, <2>1, FrameMonotonic
    <2>3. i * FrameBytes <= (end \div FrameBytes) * FrameBytes
      BY <1>1, <1>3, <2>1, FrameMonotonic
    <2>4. (i + 1) * FrameBytes <= FrameLimit * FrameBytes
      BY <1>1, <2>1, FrameMonotonic
    <2>5. i * FrameBytes \in Nat /\ (i + 1) * FrameBytes = i * FrameBytes + FrameBytes
      BY <1>1, <2>1
    <2> DEFINE base == i * FrameBytes
    <2>6. base \in Nat /\ base <= end /\ offset < base + FrameBytes
      BY <1>1, <1>2, <1>3, <2>1, <2>2, <2>3, <2>5
    <2>7. /\ FragmentStart(i, offset) = IF offset > base THEN offset - base ELSE 0
          /\ FragmentEnd(i, offset, length) =
               IF offset + length < base + FrameBytes
               THEN offset + length - base ELSE FrameBytes
      BY <2>5 DEF FragmentStart, FragmentEnd
    <2> HIDE DEF base
    <2>8. /\ FragmentStart(i, offset) \in 0 .. FrameBytes
          /\ FragmentEnd(i, offset, length) \in 0 .. FrameBytes
          /\ FragmentStart(i, offset) < FragmentEnd(i, offset, length)
      BY <1>1, <2>6, <2>7
    <2> QED
      BY <1>1, <2>4, <2>5, <2>8
  <1>5. FramesOf(offset, length) \subseteq Frames
    BY <1>1, <1>2, <1>3 DEF FramesOf, FirstFrame, LastFrame, Frames
  <1> QED
    BY <1>2, <1>4, <1>5 DEF FirstFrame

\* Merging a range into the coverage of a frame yields ranges of that frame.
LEMMA AddRangeType ==
  ASSUME NEW ranges \in SUBSET ByteRanges,
         NEW start \in 0 .. FrameBytes, NEW end \in 0 .. FrameBytes
  PROVE  AddRange(ranges, start, end) \in SUBSET ByteRanges
  <1> DEFINE near == Touching(ranges, start, end)
             starts == {start} \cup {r.start : r \in near}
             ends == {end} \cup {r.end : r \in near}
  <1>1. FrameBytes \in Nat
    BY ConfigAssumption
  <1>2. near \subseteq ByteRanges
    BY DEF Touching
  <1>3. /\ starts \in SUBSET (0 .. FrameBytes) /\ starts # {}
        /\ ends \in SUBSET (0 .. FrameBytes) /\ ends # {}
    BY <1>2 DEF ByteRanges
  <1>4. LeastOf(starts) \in 0 .. FrameBytes
    BY <1>1, <1>3, LeastExists
  <1>5. GreatestOf(ends) \in 0 .. FrameBytes
    BY <1>1, <1>3, GreatestExists
  <1>6. [start |-> LeastOf(starts), end |-> GreatestOf(ends)] \in ByteRanges
    BY <1>4, <1>5 DEF ByteRanges
  <1> QED
    BY <1>6 DEF AddRange

\* Applying a fragment keeps a spool well formed.
LEMMA ApplyFragmentType ==
  ASSUME TypeOK,
         NEW offset \in Nat, NEW length \in Nat \ {0}, NEW tag \in Tags,
         offset + length <= ExpectedBytes,
         NEW i \in FramesOf(offset, length)
  PROVE  ApplyFragment(i, offset, length, tag) \in Spools
  <1> DEFINE start == FragmentStart(i, offset)
             end == FragmentEnd(i, offset, length)
             base == i * FrameBytes
             payloadStart == base + start - offset
             spool == SpoolAt(i)
  <1>1. /\ FrameBytes \in Nat \ {0} /\ None \notin Bytes
        /\ ExpectedBytes \in Nat
    BY ConfigAssumption DEF ExpectedBytes
  <1>2. /\ start \in 0 .. FrameBytes /\ end \in 0 .. FrameBytes /\ start < end
        /\ base \in Nat /\ base + FrameBytes <= ExpectedBytes
    BY FragmentBounds
  <1>3. spool \in Spools
    <2>1. EmptySpool \in Spools
      BY <1>1 DEF EmptySpool, Spools, Payloads
    <2> QED
      BY <2>1 DEF TypeOK, SpoolAt
  <1>4. /\ spool.data \in Payloads
        /\ spool.ranges \in SUBSET ByteRanges
        /\ spool.covered \in Nat
    BY <1>3 DEF Spools
  <1> HIDE DEF start, end, base, spool
  <1>5. ASSUME NEW u \in FrameOffsets, u \in start .. (end - 1)
        PROVE  PayloadByte(offset, payloadStart + (u - start), tag) \in Bytes
    <2>1. u \in Nat /\ u < FrameBytes
      BY <1>1 DEF FrameOffsets
    <2>2. offset + (payloadStart + (u - start)) = base + u
      BY <1>1, <1>2, <2>1
    <2>3. base + u \in 0 .. (ExpectedBytes - 1)
      BY <1>1, <1>2, <2>1
    <2> QED
      BY <2>2, <2>3 DEF PayloadByte, Byte, Bytes
  <1>6. [u \in FrameOffsets |->
           IF u \in start .. (end - 1)
           THEN PayloadByte(offset, payloadStart + (u - start), tag)
           ELSE spool.data[u]] \in Payloads
    BY <1>4, <1>5 DEF Payloads
  <1>7. AddRange(spool.ranges, start, end) \in SUBSET ByteRanges
    BY <1>2, <1>4, AddRangeType
  <1>8. spool.covered + (end - start) \in Nat
    BY <1>1, <1>2, <1>4
  <1> QED
    BY <1>6, <1>7, <1>8 DEF ApplyFragment, Spools, start, end, base, spool

\* The spools after an accepted write, and the slots it adds.
LEMMA SpoolsAfterType ==
  ASSUME TypeOK,
         NEW offset \in Nat, NEW length \in Nat \ {0}, NEW tag \in Tags,
         offset + length <= ExpectedBytes
  PROVE  LET spools == SpoolsAfter(offset, length, tag)
         IN  /\ DOMAIN spools = DOMAIN slots \cup FramesOf(offset, length)
             /\ DOMAIN spools \subseteq Frames
             /\ \A i \in DOMAIN spools : spools[i] \in Spools
             /\ Cardinality(DOMAIN spools) =
                  Cardinality(DOMAIN slots) + Cardinality(MissingSlots(offset, length))
             /\ Cardinality(DOMAIN spools) \in Nat
             /\ Cardinality(MissingSlots(offset, length)) \in Nat
  <1> DEFINE spools == SpoolsAfter(offset, length, tag)
             missing == MissingSlots(offset, length)
  <1>1. DOMAIN spools = DOMAIN slots \cup FramesOf(offset, length)
    BY DEF SpoolsAfter
  <1>2. DOMAIN slots \subseteq Frames /\ FramesOf(offset, length) \subseteq Frames
    BY FragmentBounds DEF TypeOK
  <1>3. \A i \in DOMAIN spools : spools[i] \in Spools
    BY <1>1, ApplyFragmentType DEF SpoolsAfter, TypeOK
  <1>4. IsFiniteSet(Frames)
    BY ConfigAssumption, FS_Interval DEF Frames
  <1>5. IsFiniteSet(DOMAIN slots) /\ IsFiniteSet(missing)
    BY <1>2, <1>4, FS_Subset DEF MissingSlots
  <1>6. /\ DOMAIN spools = DOMAIN slots \cup missing
        /\ DOMAIN slots \cap missing = {}
    BY <1>1 DEF MissingSlots
  <1>7. /\ Cardinality(DOMAIN slots) \in Nat
        /\ Cardinality(missing) \in Nat
    BY <1>5, FS_CardinalityType
  <1>8. Cardinality(DOMAIN spools) = Cardinality(DOMAIN slots) + Cardinality(missing)
    <2>1. Cardinality(DOMAIN slots \cup missing) =
            Cardinality(DOMAIN slots) + Cardinality(missing)
              - Cardinality(DOMAIN slots \cap missing)
      BY <1>5, FS_Union
    <2>2. Cardinality(DOMAIN slots \cap missing) = 0
      BY <1>6, FS_EmptySet
    <2> QED
      BY <1>6, <1>7, <2>1, <2>2
  <1> QED
    BY <1>1, <1>2, <1>3, <1>7, <1>8

\* abortLocked drops the spools it is given and gives back their slots; on a
\* terminal mirror it changes nothing.  Either way the slots that are not in
\* the spool stay counted.
LEMMA AbortLockedAccounting ==
  ASSUME TypeOK, NEW spools, NEW alloc \in Nat,
         DOMAIN spools \subseteq Frames,
         \A i \in DOMAIN spools : spools[i] \in Spools,
         Cardinality(DOMAIN spools) \in Nat,
         Cardinality(DOMAIN spools) <= alloc,
         AbortLocked(spools, alloc)
  PROVE  /\ state' \in {"open", "sealing", "sealed", "aborted"}
         /\ queueClosed' \in BOOLEAN
         /\ DOMAIN slots' \subseteq Frames
         /\ \A i \in DOMAIN slots' : slots'[i] \in Spools
         /\ allocated' \in Nat
         /\ allocated' <= alloc
         /\ allocated' = Cardinality(DOMAIN slots')
                          + (alloc - Cardinality(DOMAIN spools))
  <1>1. CASE state \in {"sealed", "aborted"}
    BY <1>1 DEF AbortLocked, TypeOK
  <1>2. CASE state \notin {"sealed", "aborted"}
    <2>1. /\ state' = "aborted" /\ queueClosed' = TRUE
          /\ slots' = NoSlots
          /\ allocated' = alloc - Cardinality(DOMAIN spools)
      BY <1>2 DEF AbortLocked
    <2>2. DOMAIN slots' = {}
      BY <2>1 DEF NoSlots
    <2>3. Cardinality(DOMAIN slots') = 0
      BY <2>2, FS_EmptySet
    <2> QED
      BY <2>1, <2>2, <2>3
  <1> QED
    BY <1>1, <1>2

-----------------------------------------------------------------------------
(* The inductive invariant.  Types alone are not inductive: that allocated *)
(* stays a natural number when a slot is given back needs the accounting.  *)

Inv == TypeOK /\ SlotAccounting

\* Sets of frames are finite.
LEMMA FrameSetFinite ==
  ASSUME NEW S, S \subseteq Frames
  PROVE  IsFiniteSet(S) /\ Cardinality(S) \in Nat
  <1>1. IsFiniteSet(Frames)
    BY ConfigAssumption, FS_Interval DEF Frames
  <1>2. IsFiniteSet(S)
    BY <1>1, FS_Subset
  <1> QED
    BY <1>2, FS_CardinalityType

\* Facts about the sizes that every step below uses.
LEMMA SlotFacts ==
  ASSUME Inv
  PROVE  /\ Cardinality(DOMAIN slots) \in Nat
         /\ Len(queue) \in Nat
         /\ MaxSlots \in Nat \ {0}
         /\ Cardinality(DOMAIN slots) <= allocated
  <1>1. DOMAIN slots \subseteq Frames
    BY DEF Inv, TypeOK
  <1>2. Cardinality(DOMAIN slots) \in Nat
    BY <1>1, FrameSetFinite
  <1>3. Len(queue) \in Nat
    BY LenProperties DEF Inv, TypeOK
  <1>4. MaxSlots \in Nat \ {0}
    BY ConfigAssumption DEF MaxSlots
  <1> QED
    BY <1>2, <1>3, <1>4 DEF Inv, SlotAccounting, HeldByWorker

\* NewMirror builds a mirror with empty spool and queue: nothing is allocated.
LEMMA InitInv == Init => Inv
  <1> SUFFICES ASSUME Init PROVE Inv
    OBVIOUS
  <1> USE ConfigAssumption
  <1>1. DOMAIN slots = {} /\ Cardinality(DOMAIN slots) = 0
    BY FS_EmptySet DEF Init, NoSlots
  <1>2. NoFrame \in QueuedFrames
    BY DEF NoFrame, QueuedFrames, Frames, EmptySpool, Payloads
  <1>3. TypeOK
    <2>1. queue \in Seq(QueuedFrames) /\ sunk \in Seq(QueuedFrames)
      BY EmptySeq DEF Init
    <2>2. worker \in [pc : {"range", "check", "sink", "settle", "cancel", "exited"},
                      frame : QueuedFrames, discard : BOOLEAN]
      BY <1>2 DEF Init
    <2>3. output \in [0 .. (ExpectedBytes - 1) -> Bytes \cup {None}]
      BY DEF Init
    <2>4. \A i \in DOMAIN slots : slots[i] \in Spools
      BY <1>1
    <2>5. nextEmit \in 0 .. FrameLimit
      BY DEF Init
    <2> QED
      BY <1>1, <2>1, <2>2, <2>3, <2>4, <2>5 DEF Init, TypeOK
  <1>4. SlotAccounting
    BY <1>1 DEF Init, SlotAccounting, HeldByWorker, MaxSlots
  <1> QED
    BY <1>3, <1>4 DEF Inv

\* A failing or aborting step that leaves queue and worker alone.
LEMMA FailKeepsInv ==
  ASSUME Inv, AbortLocked(slots, allocated),
         UNCHANGED <<frameCount, nextEmit, delivered, sealedFrameCount, queue,
                     sinkCancelled, captureCancelled, worker, sunk>>,
         failure' \in Failures \cup {"nil"},
         writer' \in {"ready", "cancel", "stopped"},
         output' \in [0 .. (ExpectedBytes - 1) -> Bytes \cup {None}],
         caller' \in [Callers -> {"idle", "wait", "cancel", "cancelSink",
                                  "sealed", "failed"}]
  PROVE  Inv'
  <1>1. /\ allocated \in Nat
        /\ Cardinality(DOMAIN slots) \in Nat
        /\ Cardinality(DOMAIN slots) <= allocated
        /\ MaxSlots \in Nat
    BY SlotFacts DEF Inv, TypeOK
  <1>2. /\ state' \in {"open", "sealing", "sealed", "aborted"}
        /\ queueClosed' \in BOOLEAN
        /\ DOMAIN slots' \subseteq Frames
        /\ \A i \in DOMAIN slots' : slots'[i] \in Spools
        /\ allocated' \in Nat
        /\ allocated' <= allocated
        /\ allocated' = Cardinality(DOMAIN slots')
                         + (allocated - Cardinality(DOMAIN slots))
    BY <1>1, AbortLockedAccounting DEF Inv, TypeOK
  <1>3. TypeOK'
    BY <1>2 DEF Inv, TypeOK
  <1>4. SlotAccounting'
    <2>1. Len(queue) \in Nat /\ HeldByWorker \in Nat
      BY SlotFacts DEF HeldByWorker
    <2>2. HeldByWorker' = HeldByWorker /\ queue' = queue
      BY DEF HeldByWorker
    <2>3. Cardinality(DOMAIN slots') \in Nat
      BY <1>2, FrameSetFinite
    <2> QED
      BY <1>1, <1>2, <2>1, <2>2, <2>3 DEF Inv, SlotAccounting, MaxSlots
  <1> QED
    BY <1>3, <1>4 DEF Inv

-----------------------------------------------------------------------------
(* WriteAt preserves the invariant.                                        *)

\* The verdicts of planWriteLocked, and what a good one guarantees.
LEMMA PlanWriteVerdict ==
  ASSUME NEW offset \in Nat, NEW length \in Nat
  PROVE  /\ PlanWrite(offset, length) \in {"ok", "integrity", "backpressure"}
         /\ PlanWrite(offset, length) = "ok" =>
              /\ length # 0
              /\ offset + length <= ExpectedBytes
              /\ ~ (Cardinality(MissingSlots(offset, length)) > MaxSlots - allocated)
  <1>1. \A i : Preflight(i, offset, length) \in {"ok", "integrity", "backpressure"}
    BY DEF Preflight
  <1>2. /\ FrameBytes \in Nat /\ FrameLimit \in Nat /\ ExpectedBytes \in Nat
    BY ConfigAssumption DEF ExpectedBytes
  <1>3. length = 0 \/ offset + length > ExpectedBytes
          => PlanWrite(offset, length) = "integrity"
    BY DEF PlanWrite
  <1>4. ~ (length = 0 \/ offset + length > ExpectedBytes)
          => length # 0 /\ offset + length <= ExpectedBytes
    BY <1>2
  <1>5. Cardinality(MissingSlots(offset, length)) > MaxSlots - allocated
          => PlanWrite(offset, length) # "ok"
    BY DEF PlanWrite
  <1>6. PlanWrite(offset, length) \in {"ok", "integrity", "backpressure"}
    BY <1>1 DEF PlanWrite
  <1> QED
    BY <1>3, <1>4, <1>5, <1>6

\* The output keeps its type, whatever prefix of a payload is written to it.
LEMMA OutputAfterType ==
  ASSUME TypeOK, NEW offset \in Nat, NEW count \in Nat, NEW tag \in Tags
  PROVE  OutputAfter(offset, count, tag) \in
           [0 .. (ExpectedBytes - 1) -> Bytes \cup {None}]
  <1>1. ExpectedBytes \in Nat
    BY ConfigAssumption DEF ExpectedBytes
  <1>2. DOMAIN output = 0 .. (ExpectedBytes - 1)
    BY DEF TypeOK
  <1>3. ASSUME NEW b \in 0 .. (ExpectedBytes - 1)
        PROVE  PayloadByte(offset, b - offset, tag) \in Bytes
    <2>1. offset + (b - offset) = b
      BY <1>1
    <2> QED
      BY <2>1 DEF PayloadByte, Byte, Bytes
  <1> QED
    BY <1>2, <1>3 DEF OutputAfter, TypeOK

\* A WriteAt that is admitted allocates the slots it adds and moves the slots of
\* complete frames into the channel without changing their number.
LEMMA WriteAcceptedInv ==
  ASSUME Inv,
         NEW offset \in Nat, NEW length \in Nat, NEW tag \in Tags,
         WriteAccepted(offset, length, tag)
  PROVE  Inv'
  <1> DEFINE spools == SpoolsAfter(offset, length, tag)
             alloc == AllocatedAfter(offset, length)
             missing == Cardinality(MissingSlots(offset, length))
  <1>1. TypeOK /\ SlotAccounting
    BY DEF Inv
  <1>2. /\ length \in Nat \ {0}
        /\ offset + length <= ExpectedBytes
        /\ ~ (missing > MaxSlots - allocated)
    BY PlanWriteVerdict DEF WriteAccepted
  <1>3. /\ DOMAIN spools \subseteq Frames
        /\ \A i \in DOMAIN spools : spools[i] \in Spools
        /\ Cardinality(DOMAIN spools) = Cardinality(DOMAIN slots) + missing
        /\ Cardinality(DOMAIN spools) \in Nat
        /\ missing \in Nat
    BY <1>1, <1>2, SpoolsAfterType
  <1>4. /\ allocated \in Nat /\ nextEmit \in 0 .. FrameLimit
        /\ queue \in Seq(QueuedFrames)
        /\ Cardinality(DOMAIN slots) \in Nat /\ Len(queue) \in Nat
        /\ MaxSlots \in Nat
        /\ Cardinality(DOMAIN slots) <= allocated
        /\ FrameLimit \in Nat \ {0}
    BY <1>1, SlotFacts, ConfigAssumption DEF TypeOK
  <1>5. /\ alloc = allocated + missing
        /\ alloc \in Nat /\ alloc <= MaxSlots
    BY <1>2, <1>3, <1>4 DEF AllocatedAfter
  <1> DEFINE
    left(e) == [i \in DOMAIN spools \ (nextEmit .. (e - 1)) |-> spools[i]]
    emitted(e) == [k \in 1 .. (e - nextEmit) |->
                     [index   |-> nextEmit + k - 1,
                      payload |-> spools[nextEmit + k - 1].data]]
  <1>6. PICK e \in nextEmit .. FrameLimit :
          /\ EmitsTo(spools, e)
          /\ queue' = queue \o emitted(e)
          /\ nextEmit' = e
          /\ IF QueueFull(spools, e)
             THEN /\ FailLocked("backpressure", left(e), alloc)
                  /\ writer' = "cancel"
             ELSE /\ slots' = left(e)
                  /\ allocated' = alloc
                  /\ UNCHANGED <<state, failure, queueClosed, writer>>
    BY DEF WriteAccepted
  <1> HIDE DEF spools, alloc, missing
  <1>7. nextEmit .. (e - 1) \subseteq DOMAIN spools
    BY <1>6 DEF EmitsTo, Ready
  <1>8. /\ e - nextEmit \in Nat
        /\ Cardinality(nextEmit .. (e - 1)) = e - nextEmit
        /\ IsFiniteSet(DOMAIN spools)
    <2>1. nextEmit \in Int /\ e \in Int /\ nextEmit <= e
      BY <1>4, <1>6
    <2>2. Cardinality(nextEmit .. (e - 1)) =
            IF nextEmit > e - 1 THEN 0 ELSE (e - 1) - nextEmit + 1
      BY <2>1, FS_Interval
    <2>3. e - nextEmit \in Nat /\ Cardinality(nextEmit .. (e - 1)) = e - nextEmit
      BY <2>1, <2>2
    <2>4. IsFiniteSet(DOMAIN spools)
      BY <1>3, FrameSetFinite
    <2> QED
      BY <2>3, <2>4
  <1>9. /\ DOMAIN left(e) \subseteq Frames
        /\ \A i \in DOMAIN left(e) : left(e)[i] \in Spools
        /\ Cardinality(DOMAIN left(e)) = Cardinality(DOMAIN spools) - (e - nextEmit)
        /\ Cardinality(DOMAIN left(e)) \in Nat
    <2>1. DOMAIN left(e) = DOMAIN spools \ (nextEmit .. (e - 1))
      OBVIOUS
    <2>2. DOMAIN left(e) \subseteq Frames /\ \A i \in DOMAIN left(e) : left(e)[i] \in Spools
      BY <1>3, <2>1
    <2>3. DOMAIN spools \cap (nextEmit .. (e - 1)) = nextEmit .. (e - 1)
      BY <1>7
    <2>4. Cardinality(DOMAIN left(e)) = Cardinality(DOMAIN spools) - (e - nextEmit)
      <3>1. Cardinality(DOMAIN spools \ (nextEmit .. (e - 1))) =
              Cardinality(DOMAIN spools) - Cardinality(DOMAIN spools \cap (nextEmit .. (e - 1)))
        BY <1>8, FS_Difference
      <3> QED
        BY <1>8, <2>1, <2>3, <3>1
    <2>5. Cardinality(DOMAIN left(e)) \in Nat
      BY <2>2, FrameSetFinite
    <2> QED
      BY <2>2, <2>4, <2>5
  <1>10. /\ queue' \in Seq(QueuedFrames)
         /\ Len(queue') = Len(queue) + (e - nextEmit)
    <2>1. ASSUME NEW k \in 1 .. (e - nextEmit)
          PROVE  emitted(e)[k] \in QueuedFrames
      <3>1. /\ nextEmit + k - 1 \in Frames
            /\ nextEmit + k - 1 \in nextEmit .. (e - 1)
        BY <1>4, <1>6, <1>8 DEF Frames
      <3>2. spools[nextEmit + k - 1].data \in Payloads
        BY <1>3, <1>7, <3>1 DEF Spools
      <3> QED
        BY <3>1, <3>2 DEF QueuedFrames
    <2>2. emitted(e) \in [1 .. (e - nextEmit) -> QueuedFrames]
      BY <2>1
    <2> HIDE DEF emitted
    <2>3. emitted(e) \in Seq(QueuedFrames) /\ Len(emitted(e)) = e - nextEmit
      BY <1>8, <2>2
    <2> QED
      BY <1>4, <1>6, <2>3, ConcatProperties
  <1> HIDE DEF left, emitted
  <1>11. /\ state' \in {"open", "sealing", "sealed", "aborted"}
         /\ failure' \in Failures \cup {"nil"}
         /\ queueClosed' \in BOOLEAN
         /\ writer' \in {"ready", "cancel", "stopped"}
         /\ DOMAIN slots' \subseteq Frames
         /\ \A i \in DOMAIN slots' : slots'[i] \in Spools
         /\ allocated' \in Nat
         /\ allocated' <= alloc
         /\ allocated' = Cardinality(DOMAIN slots')
                          + (alloc - Cardinality(DOMAIN left(e)))
    <2>1. CASE QueueFull(spools, e)
      <3>1. Cardinality(DOMAIN left(e)) <= alloc
        <4> DEFINE n == e - nextEmit
        <4>1. n \in Nat /\ Cardinality(DOMAIN left(e)) = Cardinality(DOMAIN spools) - n
          BY <1>8, <1>9
        <4>2. /\ Cardinality(DOMAIN spools) = Cardinality(DOMAIN slots) + missing
              /\ Cardinality(DOMAIN slots) \in Nat /\ missing \in Nat
              /\ Cardinality(DOMAIN slots) <= allocated /\ allocated \in Nat
              /\ alloc = allocated + missing
          BY <1>3, <1>4, <1>5
        <4> HIDE DEF n
        <4> QED
          BY <4>1, <4>2
      <3>2. AbortLocked(left(e), alloc) /\ RecordFailure("backpressure") /\ writer' = "cancel"
        BY <1>6, <2>1 DEF FailLocked
      <3>3. failure' \in Failures \cup {"nil"}
        BY <1>1, <3>2 DEF RecordFailure, TypeOK, Failures
      <3> QED
        BY <1>1, <1>5, <1>9, <3>1, <3>2, <3>3, AbortLockedAccounting
    <2>2. CASE ~ QueueFull(spools, e)
      BY <1>1, <1>5, <1>6, <1>9, <2>2 DEF TypeOK
    <2> QED
      BY <2>1, <2>2
  <1>12. UNCHANGED <<frameCount, delivered, sealedFrameCount, sinkCancelled,
                     captureCancelled, worker, caller, sunk>>
    BY DEF WriteAccepted
  <1>13. output' \in [0 .. (ExpectedBytes - 1) -> Bytes \cup {None}]
    BY <1>1, <1>2, OutputAfterType DEF WriteAccepted
  <1>14. nextEmit' \in 0 .. FrameLimit
    BY <1>4, <1>6
  <1>15. TypeOK'
    BY <1>1, <1>10, <1>11, <1>12, <1>13, <1>14 DEF TypeOK
  <1>16. SlotAccounting'
    <2>1. HeldByWorker' = HeldByWorker /\ HeldByWorker \in Nat
      BY <1>12 DEF HeldByWorker
    <2>2. Cardinality(DOMAIN slots') \in Nat
      BY <1>11, FrameSetFinite
    <2>3. allocated = Cardinality(DOMAIN slots) + Len(queue) + HeldByWorker
      BY <1>1 DEF SlotAccounting
    <2>4. allocated' = Cardinality(DOMAIN slots') + Len(queue') + HeldByWorker'
      <3> DEFINE n == e - nextEmit
      <3>1. /\ n \in Nat
            /\ Cardinality(DOMAIN left(e)) = Cardinality(DOMAIN spools) - n
            /\ Len(queue') = Len(queue) + n
        BY <1>8, <1>9, <1>10
      <3> HIDE DEF n
      <3>2. alloc - Cardinality(DOMAIN left(e)) = Len(queue) + n + HeldByWorker
        <4>1. alloc = Cardinality(DOMAIN slots) + Len(queue) + HeldByWorker + missing
          BY <1>5, <2>3
        <4>2. Cardinality(DOMAIN left(e)) = Cardinality(DOMAIN slots) + missing - n
          BY <1>3, <1>4, <3>1
        <4>3. /\ Cardinality(DOMAIN slots) \in Nat /\ Len(queue) \in Nat
              /\ HeldByWorker \in Nat /\ missing \in Nat /\ n \in Nat
          BY <1>3, <1>4, <2>1, <3>1
        <4> QED
          BY <4>1, <4>2, <4>3
      <3> QED
        BY <1>4, <1>11, <2>1, <2>2, <3>1, <3>2
    <2>5. allocated' <= MaxSlots
      BY <1>4, <1>5, <1>11
    <2> QED
      BY <2>4, <2>5 DEF SlotAccounting, MaxSlots
  <1> QED
    BY <1>15, <1>16 DEF Inv

\* WriteAt preserves the invariant on every path: refused, failing plan, failing
\* output, accepted.
LEMMA WriteAtInv ==
  ASSUME Inv, WriteAt
  PROVE  Inv'
  <1>1. TypeOK
    BY DEF Inv
  <1>2. PICK offset \in 0 .. ExpectedBytes, length \in 0 .. MaxWrite :
          \/ WritePlanFails(offset, length)
          \/ \E tag \in PayloadTags(offset, length) :
               \/ WriteAccepted(offset, length, tag)
               \/ \E written \in 0 .. MaxWrite :
                    WriteOutputFails(offset, length, tag, written)
    BY DEF WriteAt
  <1>3. offset \in Nat /\ length \in Nat /\ MaxWrite \in Nat
    BY ConfigAssumption DEF ExpectedBytes
  <1>4. PayloadTags(offset, length) \subseteq Tags
    BY ConfigAssumption DEF PayloadTags
  <1>5. CASE WritePlanFails(offset, length)
    <2>1. PlanWrite(offset, length) \in Failures
      BY <1>3, <1>5, PlanWriteVerdict DEF WritePlanFails, Failures
    <2>2. failure' \in Failures \cup {"nil"}
      BY <1>1, <1>5, <2>1 DEF WritePlanFails, FailLocked, RecordFailure, TypeOK
    <2>3. AbortLocked(slots, allocated)
      BY <1>5 DEF WritePlanFails, FailLocked
    <2>4. /\ UNCHANGED <<frameCount, nextEmit, delivered, sealedFrameCount, queue,
                         sinkCancelled, captureCancelled, worker, sunk>>
          /\ UNCHANGED <<output, caller>> /\ writer' = "cancel"
      BY <1>5 DEF WritePlanFails
    <2> QED
      BY <1>1, <2>2, <2>3, <2>4, FailKeepsInv DEF TypeOK
  <1>6. ASSUME NEW tag \in PayloadTags(offset, length),
               WriteAccepted(offset, length, tag)
        PROVE  Inv'
    BY <1>3, <1>4, <1>6, WriteAcceptedInv
  <1>7. ASSUME NEW tag \in PayloadTags(offset, length), NEW written \in 0 .. MaxWrite,
               WriteOutputFails(offset, length, tag, written)
        PROVE  Inv'
    <2>1. failure' \in Failures \cup {"nil"}
      BY <1>1, <1>7 DEF WriteOutputFails, FailLocked, RecordFailure, TypeOK, Failures
    <2>2. AbortLocked(slots, allocated)
      BY <1>7 DEF WriteOutputFails, FailLocked
    <2>3. /\ UNCHANGED <<frameCount, nextEmit, delivered, sealedFrameCount, queue,
                         sinkCancelled, captureCancelled, worker, sunk>>
          /\ caller' = caller /\ writer' = "cancel"
          /\ output' = OutputAfter(offset, written, tag)
      BY <1>7 DEF WriteOutputFails
    <2>4. output' \in [0 .. (ExpectedBytes - 1) -> Bytes \cup {None}]
      BY <1>1, <1>3, <1>4, <2>3, OutputAfterType
    <2> QED
      BY <1>1, <2>1, <2>2, <2>3, <2>4, FailKeepsInv DEF TypeOK
  <1> QED
    BY <1>2, <1>5, <1>6, <1>7

-----------------------------------------------------------------------------
(* The worker and the callers preserve the invariant.                      *)

\* runSink gives back one slot for each frame it takes from the channel.
LEMMA WorkerInv ==
  ASSUME Inv, WorkerStep \/ SinkReturns
  PROVE  Inv'
  <1>1. TypeOK /\ SlotAccounting
    BY DEF Inv
  <1>2. /\ Cardinality(DOMAIN slots) \in Nat
        /\ Len(queue) \in Nat
        /\ MaxSlots \in Nat \ {0}
        /\ Cardinality(DOMAIN slots) <= allocated
        /\ allocated \in Nat
    BY SlotFacts DEF Inv, TypeOK
  <1>3. CASE WorkerReceive
    <2>1. /\ Head(queue) \in QueuedFrames
          /\ Tail(queue) \in Seq(QueuedFrames)
          /\ Len(Tail(queue)) = Len(queue) - 1
      BY <1>1, <1>3, HeadTailProperties DEF TypeOK, WorkerReceive
    <2>2. TypeOK'
      BY ZenonT(40), <1>1, <1>3, <2>1 DEF TypeOK, WorkerReceive, writeVars
    <2>3. HeldByWorker = 0 /\ HeldByWorker' = 1
      BY <1>1, <1>3 DEF TypeOK, WorkerReceive, HeldByWorker
    <2>4. SlotAccounting'
      BY <1>1, <1>2, <1>3, <2>1, <2>3 DEF SlotAccounting, WorkerReceive, MaxSlots
    <2> QED
      BY <2>2, <2>4 DEF Inv
  <1>4. CASE WorkerCheck
    <2>1. TypeOK'
      BY <1>1, <1>4 DEF TypeOK, WorkerCheck, writeVars
    <2>2. HeldByWorker' = HeldByWorker
      BY <1>1, <1>4 DEF TypeOK, WorkerCheck, HeldByWorker
    <2>3. SlotAccounting'
      BY <1>1, <1>4, <2>2 DEF SlotAccounting, WorkerCheck, MaxSlots
    <2> QED
      BY <2>1, <2>3 DEF Inv
  <1>5. CASE WorkerDiscards
    <2>1. HeldByWorker = 1 /\ HeldByWorker' = 0
      BY <1>1, <1>5 DEF TypeOK, WorkerDiscards, HeldByWorker
    <2>2. allocated - 1 \in Nat
      BY <1>1, <1>2, <2>1 DEF SlotAccounting
    <2>3. TypeOK'
      BY <1>1, <1>5, <2>2 DEF TypeOK, WorkerDiscards, writeVars
    <2>4. SlotAccounting'
      BY <1>1, <1>2, <1>5, <2>1 DEF SlotAccounting, WorkerDiscards, MaxSlots
    <2> QED
      BY <2>3, <2>4 DEF Inv
  <1>6. CASE WorkerCancels
    <2>1. TypeOK'
      BY <1>1, <1>6 DEF TypeOK, WorkerCancels, writeVars
    <2>2. HeldByWorker' = HeldByWorker
      BY <1>1, <1>6 DEF TypeOK, WorkerCancels, HeldByWorker
    <2>3. SlotAccounting'
      BY <1>1, <1>6, <2>2 DEF SlotAccounting, WorkerCancels, MaxSlots
    <2> QED
      BY <2>1, <2>3 DEF Inv
  <1>7. CASE WorkerExits
    <2>1. TypeOK'
      BY <1>1, <1>7 DEF TypeOK, WorkerExits, writeVars
    <2>2. HeldByWorker' = HeldByWorker
      BY <1>1, <1>7 DEF TypeOK, WorkerExits, HeldByWorker
    <2>3. SlotAccounting'
      BY <1>1, <1>7, <2>2 DEF SlotAccounting, WorkerExits, MaxSlots
    <2> QED
      BY <2>1, <2>3 DEF Inv
  <1>8. CASE SinkAccepts
    <2>1. HeldByWorker = 1 /\ HeldByWorker' = 0
      BY <1>1, <1>8 DEF TypeOK, SinkAccepts, HeldByWorker
    <2>2. allocated - 1 \in Nat
      BY <1>1, <1>2, <2>1 DEF SlotAccounting
    <2>3. sunk' \in Seq(QueuedFrames)
      BY <1>1, <1>8 DEF TypeOK, SinkAccepts
    <2>4. TypeOK'
      <3>1. worker' \in [pc : {"range", "check", "sink", "settle", "cancel", "exited"},
                         frame : QueuedFrames, discard : BOOLEAN]
        BY <1>1, <1>8 DEF TypeOK, SinkAccepts
      <3>2. delivered' \in Nat /\ allocated' \in Nat
        BY <1>1, <1>8, <2>2 DEF TypeOK, SinkAccepts
      <3>3. UNCHANGED <<frameCount, state, failure, slots, sealedFrameCount, queue,
                        queueClosed, sinkCancelled, captureCancelled, caller,
                        nextEmit, output, writer>>
        BY <1>8 DEF SinkAccepts, writeVars
      <3> QED
        BY <1>1, <2>3, <3>1, <3>2, <3>3 DEF TypeOK
    <2>5. SlotAccounting'
      BY <1>1, <1>2, <1>8, <2>1 DEF SlotAccounting, SinkAccepts, MaxSlots
    <2> QED
      BY <2>4, <2>5 DEF Inv
  <1>9. CASE SinkFails
    <2>1. HeldByWorker = 1 /\ HeldByWorker' = 0
      BY <1>1, <1>9 DEF TypeOK, SinkFails, HeldByWorker
    <2>2. /\ allocated - 1 \in Nat
          /\ Cardinality(DOMAIN slots) <= allocated - 1
      BY <1>1, <1>2, <2>1 DEF SlotAccounting
    <2>3. /\ state' \in {"open", "sealing", "sealed", "aborted"}
          /\ queueClosed' \in BOOLEAN
          /\ failure' \in Failures \cup {"nil"}
          /\ DOMAIN slots' \subseteq Frames
          /\ \A i \in DOMAIN slots' : slots'[i] \in Spools
          /\ allocated' \in Nat
          /\ allocated' <= allocated - 1
          /\ allocated' = Cardinality(DOMAIN slots')
                           + (allocated - 1 - Cardinality(DOMAIN slots))
      <3>1. CASE state # "aborted"
        <4>1. AbortLocked(slots, allocated - 1) /\ RecordFailure("sink")
          BY <1>9, <3>1 DEF SinkFails, FailLocked
        <4>2. failure' \in Failures \cup {"nil"}
          BY <1>1, <4>1 DEF RecordFailure, TypeOK, Failures
        <4>3. DOMAIN slots \subseteq Frames /\ \A i \in DOMAIN slots : slots[i] \in Spools
          BY <1>1 DEF TypeOK
        <4> QED
          BY <1>1, <1>2, <2>2, <4>1, <4>2, <4>3, AbortLockedAccounting
      <3>2. CASE state = "aborted"
        BY <1>1, <1>2, <1>9, <2>2, <3>2 DEF SinkFails, TypeOK
      <3> QED
        BY <3>1, <3>2
    <2>4. TypeOK'
      <3>1. worker' \in [pc : {"range", "check", "sink", "settle", "cancel", "exited"},
                         frame : QueuedFrames, discard : BOOLEAN]
        BY <1>1, <1>9 DEF TypeOK, SinkFails
      <3>2. UNCHANGED <<frameCount, delivered, sealedFrameCount, queue, sinkCancelled,
                        captureCancelled, caller, sunk, nextEmit, output, writer>>
        BY <1>9 DEF SinkFails, writeVars
      <3> QED
        BY <1>1, <2>3, <3>1, <3>2 DEF TypeOK
    <2>5. Cardinality(DOMAIN slots') \in Nat
      BY <2>3, FrameSetFinite
    <2>6. queue' = queue
      BY <1>9 DEF SinkFails
    <2>7. SlotAccounting'
      BY <1>1, <1>2, <2>1, <2>3, <2>5, <2>6 DEF SlotAccounting, MaxSlots
    <2> QED
      BY <2>4, <2>7 DEF Inv
  <1> QED
    BY <1>3, <1>4, <1>5, <1>6, <1>7, <1>8, <1>9 DEF WorkerStep, SinkReturns

\* Seal and Abort preserve the invariant: only an abort touches the slots, and it
\* gives back those in the spool.
LEMMA CallerInv ==
  ASSUME Inv, NEW c \in Callers,
         SealOpen(c) \/ SealAgain(c) \/ SealWaits(c) \/ Abort(c) \/ CallerCancels(c)
  PROVE  Inv'
  <1> DEFINE Results == {"idle", "wait", "cancel", "cancelSink", "sealed", "failed"}
  <1>1. TypeOK /\ SlotAccounting
    BY DEF Inv
  <1>2. ASSUME NEW r \in Results, Returns(c, r)
        PROVE  caller' \in [Callers -> Results]
    BY <1>1, <1>2 DEF Returns, TypeOK
  \* Steps that leave the spool, the queue and the worker as they are.
  <1>3. ASSUME UNCHANGED <<frameCount, slots, allocated, nextEmit, delivered, queue,
                           worker, output, writer, sunk>>,
               state' \in {"open", "sealing", "sealed", "aborted"},
               failure' \in Failures \cup {"nil"},
               sealedFrameCount' \in Nat,
               queueClosed' \in BOOLEAN,
               sinkCancelled' \in BOOLEAN,
               captureCancelled' \in BOOLEAN,
               caller' \in [Callers -> Results]
        PROVE  Inv'
    <2>1. TypeOK'
      BY <1>1, <1>3 DEF TypeOK
    <2>2. SlotAccounting'
      BY <1>1, <1>3 DEF SlotAccounting, HeldByWorker, MaxSlots
    <2> QED
      BY <2>1, <2>2 DEF Inv
  \* Steps that fail the mirror.
  <1>4. ASSUME NEW err \in Failures, FailLocked(err, slots, allocated),
               UNCHANGED <<frameCount, nextEmit, delivered, sealedFrameCount, queue,
                           sinkCancelled, captureCancelled, worker, sunk, output,
                           writer>>,
               caller' \in [Callers -> Results]
        PROVE  Inv'
    <2>1. failure' \in Failures \cup {"nil"}
      BY <1>1, <1>4 DEF FailLocked, RecordFailure, TypeOK
    <2>2. AbortLocked(slots, allocated)
      BY <1>4 DEF FailLocked
    <2> QED
      BY <1>1, <1>4, <2>1, <2>2, FailKeepsInv DEF TypeOK
  <1> HIDE DEF Results
  <1>5. /\ "idle" \in Results /\ "wait" \in Results /\ "cancel" \in Results
        /\ "cancelSink" \in Results /\ "sealed" \in Results /\ "failed" \in Results
    BY DEF Results
  <1>6. "integrity" \in Failures /\ "deadline" \in Failures
    BY DEF Failures
  <1>7. CASE SealOpen(c)
    <2>1. CASE SealReady
      <3>1. SealTarget \in Nat
        BY <1>1, ConfigAssumption DEF SealTarget, TypeOK
      <3>2. caller' \in [Callers -> Results]
        BY <1>2, <1>5, <1>7, <2>1 DEF SealOpen
      <3> QED
        BY <1>1, <1>3, <1>7, <2>1, <3>1, <3>2 DEF SealOpen, TypeOK, writeVars
    <2>2. CASE ~ SealReady
      <3>1. caller' \in [Callers -> Results]
        BY <1>2, <1>5, <1>7, <2>2 DEF SealOpen
      <3> QED
        BY <1>4, <1>6, <1>7, <2>2, <3>1 DEF SealOpen, writeVars
    <2> QED
      BY <2>1, <2>2
  <1>8. CASE SealAgain(c)
    <2>1. caller' \in [Callers -> Results]
      BY <1>1, <1>2, <1>5, <1>8 DEF SealAgain, TypeOK
    <2> QED
      BY <1>1, <1>3, <1>8, <2>1 DEF SealAgain, TypeOK, writeVars
  <1>9. CASE SealDone(c)
    <2>1. caller' \in [Callers -> Results]
      BY <1>2, <1>5, <1>9 DEF SealDone
    <2>2. CASE FailLocked("integrity", slots, allocated)
      BY <1>4, <1>6, <1>9, <2>1, <2>2 DEF SealDone, writeVars
    <2>3. CASE ~ FailLocked("integrity", slots, allocated)
      <3>1. /\ state' \in {"open", "sealing", "sealed", "aborted"}
            /\ UNCHANGED <<failure, slots, allocated, queueClosed>>
        BY <1>1, <1>9, <2>3 DEF SealDone, TypeOK
      <3> QED
        BY <1>1, <1>3, <1>9, <2>1, <3>1 DEF SealDone, TypeOK, writeVars
    <2> QED
      BY <2>2, <2>3
  <1>10. CASE SealDeadline(c)
    <2>1. caller' \in [Callers -> Results]
      BY <1>2, <1>5, <1>10 DEF SealDeadline
    <2>2. CASE state \in {"sealed", "aborted"}
      BY <1>1, <1>3, <1>10, <2>1, <2>2 DEF SealDeadline, TypeOK, writeVars
    <2>3. CASE state \notin {"sealed", "aborted"}
      BY <1>4, <1>6, <1>10, <2>1, <2>3 DEF SealDeadline, writeVars
    <2> QED
      BY <2>2, <2>3
  <1>11. CASE Abort(c)
    <2>1. caller' \in [Callers -> Results]
      BY <1>2, <1>5, <1>11 DEF Abort
    <2> QED
      BY <1>1, <1>11, <2>1, FailKeepsInv DEF Abort, TypeOK, writeVars, Results
  <1>12. CASE CallerCancels(c)
    <2>1. caller' \in [Callers -> Results]
      BY <1>2, <1>5, <1>12 DEF CallerCancels
    <2>2. captureCancelled' \in BOOLEAN /\ sinkCancelled' \in BOOLEAN
      BY <1>1, <1>12 DEF CallerCancels, TypeOK
    <2> QED
      BY <1>1, <1>3, <1>12, <2>1, <2>2 DEF CallerCancels, TypeOK, writeVars
  <1> QED
    BY <1>7, <1>8, <1>9, <1>10, <1>11, <1>12 DEF SealWaits

\* The invariant is inductive: every step of every thread preserves it.
LEMMA NextInv == Inv /\ [Next]_vars => Inv'
  <1> SUFFICES ASSUME Inv, [Next]_vars PROVE Inv'
    OBVIOUS
  <1>1. CASE WriteRefused
    BY <1>1 DEF Inv, TypeOK, SlotAccounting, HeldByWorker, MaxSlots, WriteRefused
  <1>2. CASE WriteAt
    BY <1>2, WriteAtInv
  <1>3. CASE WriterCancels
    BY <1>3 DEF Inv, TypeOK, SlotAccounting, HeldByWorker, MaxSlots, WriterCancels
  <1>4. CASE WorkerStep \/ SinkReturns
    BY <1>4, WorkerInv
  <1>5. ASSUME NEW c \in Callers,
               SealOpen(c) \/ SealAgain(c) \/ SealWaits(c) \/ Abort(c) \/ CallerCancels(c)
        PROVE  Inv'
    BY <1>5, CallerInv
  <1>6. CASE UNCHANGED vars
    BY <1>6 DEF Inv, TypeOK, SlotAccounting, HeldByWorker, MaxSlots, vars
  <1> QED
    BY <1>1, <1>2, <1>3, <1>4, <1>5, <1>6 DEF Next

-----------------------------------------------------------------------------
(* Theorems.                                                               *)

\* The invariant holds in every reachable state.
LEMMA Invariance == Spec => []Inv
  BY InitInv, NextInv, PTL DEF Spec

\* The fields of Mirror keep their types in every execution, in particular
\* mirror.allocated never becomes negative.
THEOREM TypeCorrect == Spec => []TypeOK
  <1>1. Inv => TypeOK
    BY DEF Inv
  <1> QED
    BY <1>1, Invariance, PTL

\* Every frame buffer is counted exactly once and the configured buffer is
\* never exceeded: no path through WriteAt, Seal, Abort and runSink leaks a
\* slot or gives one back twice.
THEOREM SlotsAccounted == Spec => []SlotAccounting
  <1>1. Inv => SlotAccounting
    BY DEF Inv
  <1> QED
    BY <1>1, Invariance, PTL

\* What enqueueCompleteLocked would need to find for its "queue is full" branch:
\* a planned write after which the channel is full and the next frame complete.
QueueOverflows ==
  \E offset, length \in Nat, tag \in Tags, e \in nextEmit .. FrameLimit :
    /\ PlanWrite(offset, length) = "ok"
    /\ EmitsTo(SpoolsAfter(offset, length, tag), e)
    /\ QueueFull(SpoolsAfter(offset, length, tag), e)

\* The count behind the next theorem: with c spools of which m are missing, l
\* frames in the channel and h with the worker, the n frames ready after the
\* first one cannot fill a channel of size x.
LEMMA RoomInChannel ==
  ASSUME NEW a \in Nat, NEW c \in Nat, NEW h \in Nat, NEW l \in Nat,
         NEW m \in Nat, NEW n \in Nat, NEW x \in Nat,
         a = c + l + h, m <= x - a, n + 1 <= c + m
  PROVE  l + n # x
  OBVIOUS

\* The "encoder queue is full" branch of enqueueCompleteLocked is dead code: a
\* write that planWriteLocked admits always finds room in the channel, because
\* the channel has one place per slot and every slot is accounted for.
THEOREM QueueNeverOverflows == Spec => []~ QueueOverflows
  <1>1. ASSUME Inv PROVE ~ QueueOverflows
    <2>1. SUFFICES ASSUME NEW offset \in Nat, NEW length \in Nat, NEW tag \in Tags,
                          NEW e \in nextEmit .. FrameLimit,
                          PlanWrite(offset, length) = "ok",
                          EmitsTo(SpoolsAfter(offset, length, tag), e),
                          QueueFull(SpoolsAfter(offset, length, tag), e)
                   PROVE  FALSE
      BY DEF QueueOverflows
    <2> DEFINE spools == SpoolsAfter(offset, length, tag)
               missing == Cardinality(MissingSlots(offset, length))
    <2>2. TypeOK /\ SlotAccounting
      BY <1>1 DEF Inv
    <2>3. /\ length \in Nat \ {0}
          /\ offset + length <= ExpectedBytes
          /\ ~ (missing > MaxSlots - allocated)
      BY <2>1, PlanWriteVerdict
    <2>4. /\ DOMAIN spools \subseteq Frames
          /\ Cardinality(DOMAIN spools) = Cardinality(DOMAIN slots) + missing
          /\ missing \in Nat
      BY <2>2, <2>3, SpoolsAfterType
    <2>5. /\ allocated \in Nat /\ nextEmit \in Nat /\ e \in Nat /\ nextEmit <= e
          /\ Cardinality(DOMAIN slots) \in Nat /\ Len(queue) \in Nat
          /\ MaxSlots \in Nat /\ HeldByWorker \in Nat
      BY <1>1, <2>2, SlotFacts, ConfigAssumption DEF TypeOK, HeldByWorker
    <2> HIDE DEF spools, missing
    <2>6. nextEmit .. e \subseteq DOMAIN spools
      BY <2>1, <2>5 DEF EmitsTo, QueueFull, Ready, spools
    <2>7. Cardinality(nextEmit .. e) = e - nextEmit + 1
      BY <2>5, FS_Interval
    <2>8. Cardinality(nextEmit .. e) <= Cardinality(DOMAIN spools)
      BY <2>4, <2>6, FrameSetFinite, FS_Subset
    <2>9. Len(queue) + (e - nextEmit) = MaxSlots
      BY <2>1, <2>5 DEF EmitsTo, QueueFull, spools
    <2>10. allocated = Cardinality(DOMAIN slots) + Len(queue) + HeldByWorker
      BY <2>2 DEF SlotAccounting
    <2>11. missing <= MaxSlots - allocated
      BY <2>3, <2>4, <2>5
    <2>12. e - nextEmit + 1 <= Cardinality(DOMAIN slots) + missing
      BY <2>4, <2>7, <2>8
    <2>13. e - nextEmit \in Nat
      BY <2>5
    <2> QED
      BY <2>4, <2>5, <2>9, <2>10, <2>11, <2>12, <2>13, RoomInChannel
  <1> QED
    BY <1>1, Invariance, PTL

-----------------------------------------------------------------------------
(* What the sink gets.  That a frame in the channel equals the file needs  *)
(* that spool and file agree byte by byte, and that nothing overwrites the *)
(* file: which in turn is what planWriteLocked finds in the spools.        *)

\* A frame is complete and equal to what an output holds at its place.
Faithful(f, out) ==
  \A u \in FrameOffsets :
    /\ f.payload[u] # None
    /\ f.payload[u] = out[f.index * FrameBytes + u]

\* A spool holds exactly the bytes of frame i that an output holds.
Mirrors(spool, i, out) ==
  /\ \A r \in spool.ranges : r.start < r.end
  /\ \A u \in FrameOffsets :
       /\ spool.data[u] = out[i * FrameBytes + u]
       /\ u \in CoveredBytes(spool.ranges) <=> out[i * FrameBytes + u] # None

\* An output holds every byte of a frame.
Filled(i, out) == \A u \in FrameOffsets : out[i * FrameBytes + u] # None

\* The file holds every byte of the frames that left the spool, and of the
\* frames after them what the spool holds.
Reflected ==
  /\ \A i \in DOMAIN slots : i >= nextEmit
  /\ \A i \in Frames : i < nextEmit => Filled(i, output)
  /\ state # "aborted" =>
       \A i \in Frames : i >= nextEmit => Mirrors(SpoolAt(i), i, output)

\* A frame on its way to the sink, or there, is faithful.
InTransit ==
  /\ \A k \in 1 .. Len(queue) : Faithful(queue[k], output)
  /\ HeldByWorker = 1 => Faithful(worker.frame, output)
  /\ \A k \in 1 .. Len(sunk) : Faithful(sunk[k], output)

\* The sink, the worker's hands and the channel hold the frames in order, until
\* the worker discards one; it never delivers again after that.
InOrder ==
  /\ \A k \in 1 .. Len(sunk) : sunk[k].index = k - 1
  /\ worker.pc \in {"check", "sink"} => ~ worker.discard
  /\ worker.pc \in {"settle", "cancel"} => worker.discard
  /\ ~ worker.discard =>
       /\ HeldByWorker = 1 => worker.frame.index = Len(sunk)
       /\ \A k \in 1 .. Len(queue) :
            queue[k].index = Len(sunk) + HeldByWorker + (k - 1)
       /\ nextEmit = Len(sunk) + HeldByWorker + Len(queue)

\* What the state of the mirror says about the deliveries and the callers.
Concluded ==
  /\ state # "aborted" => delivered = Len(sunk)
  /\ state \in {"sealing", "sealed"} =>
       /\ sealedFrameCount = nextEmit /\ nextEmit > 0
       /\ frameCount # 0 => nextEmit = frameCount
       /\ DOMAIN slots = {}
  /\ state = "sealed" => worker.pc = "exited" /\ delivered = sealedFrameCount
  /\ \A c \in Callers : caller[c] = "sealed" => state = "sealed"

\* Whoever cancels the capture has aborted the mirror before.
CancelsAborted ==
  /\ captureCancelled => state = "aborted"
  /\ writer = "cancel" => state = "aborted"
  /\ worker.pc = "cancel" => state = "aborted"
  /\ \A c \in Callers : caller[c] = "cancel" => state = "aborted"

ContentInv == Inv /\ Reflected /\ InTransit /\ InOrder /\ Concluded /\ CancelsAborted

\* addCoverageRange adds exactly the bytes of the range to those covered before,
\* and leaves no empty range.
LEMMA AddRangeCovers ==
  ASSUME NEW ranges \in SUBSET ByteRanges,
         NEW start \in 0 .. FrameBytes, NEW end \in 0 .. FrameBytes, start < end,
         \A r \in ranges : r.start < r.end
  PROVE  /\ \A r \in AddRange(ranges, start, end) : r.start < r.end
         /\ \A u \in Nat : u \in CoveredBytes(AddRange(ranges, start, end))
                             <=> u \in CoveredBytes(ranges) \/ (start <= u /\ u < end)
  <1> DEFINE near == Touching(ranges, start, end)
             starts == {start} \cup {r.start : r \in near}
             ends == {end} \cup {r.end : r \in near}
             lo == LeastOf(starts)
             hi == GreatestOf(ends)
             m == [start |-> lo, end |-> hi]
  <1>1. FrameBytes \in Nat
    BY ConfigAssumption
  <1>2. near \subseteq ByteRanges
    BY DEF Touching
  <1>3. /\ starts \in SUBSET (0 .. FrameBytes) /\ starts # {}
        /\ ends \in SUBSET (0 .. FrameBytes) /\ ends # {}
    BY <1>2 DEF ByteRanges
  <1>4. lo \in starts /\ (\A y \in starts : lo <= y) /\ lo \in Nat
    <2> HIDE DEF starts
    <2>1. starts \in SUBSET Nat
      BY <1>1, <1>3
    <2> QED
      BY <1>3, <2>1, LeastExists
  <1>5. hi \in ends /\ (\A y \in ends : hi >= y) /\ hi \in Nat
    <2> HIDE DEF ends
    <2>1. hi \in ends /\ \A y \in ends : hi >= y
      BY <1>1, <1>3, GreatestExists
    <2> HIDE DEF hi
    <2>2. hi \in 0 .. FrameBytes
      BY <1>3, <2>1
    <2>3. hi \in Nat
      BY <1>1, <2>2
    <2> QED
      BY <2>1, <2>3
  <1>6. start \in Nat /\ end \in Nat
    BY <1>1
  <1>7. \A r \in ranges : r.start \in Nat /\ r.end \in Nat
    BY <1>1 DEF ByteRanges
  <1>8. AddRange(ranges, start, end) = (ranges \ near) \cup {m}
    BY DEF AddRange
  <1>9. lo <= start /\ end <= hi
    BY <1>4, <1>5
  <1>10. \A r \in near : r \in ranges /\ r.end >= start /\ r.start <= end
                         /\ lo <= r.start /\ r.end <= hi
    <2> SUFFICES ASSUME NEW r \in near
                 PROVE  r \in ranges /\ r.end >= start /\ r.start <= end
                        /\ lo <= r.start /\ r.end <= hi
      OBVIOUS
    <2>1. r \in ranges /\ r.end >= start /\ r.start <= end
      BY DEF Touching
    <2>2. r.start \in starts /\ r.end \in ends
      OBVIOUS
    <2>3. lo <= r.start /\ hi >= r.end
      BY <1>4, <1>5, <2>2
    <2> QED
      BY <1>5, <1>7, <2>1, <2>3
  <1>11. lo = start \/ \E r \in near : lo = r.start
    BY <1>4
  <1>12. hi = end \/ \E r \in near : hi = r.end
    BY <1>5
  <1>13. m.start = lo /\ m.end = hi
    OBVIOUS
  <1> HIDE DEF near, lo, hi, m, starts, ends
  <1>14. \A u \in Nat : \A rs : u \in CoveredBytes(rs) <=> \E r \in rs : u \in r.start .. (r.end - 1)
    BY DEF CoveredBytes
  <1>15. ASSUME NEW r \in AddRange(ranges, start, end)
         PROVE  r.start < r.end
    <2>1. CASE r \in ranges
      BY <2>1
    <2>2. CASE r = m
      BY <1>4, <1>5, <1>6, <1>9, <1>13, <2>2
    <2> QED
      BY <1>8, <2>1, <2>2
  <1>16. ASSUME NEW u \in Nat, lo <= u, u < hi
         PROVE  (start <= u /\ u < end) \/ \E r \in near : r.start <= u /\ u < r.end
    <2>1. CASE u < start
      <3>1. PICK r \in near : lo = r.start
        BY <1>4, <1>6, <1>11, <1>16, <2>1
      <3>2. r.end >= start /\ r.end \in Nat
        BY <1>7, <1>10
      <3> QED
        BY <1>6, <1>16, <2>1, <3>1, <3>2
    <2>2. CASE u >= end
      <3>1. PICK r \in near : hi = r.end
        BY <1>5, <1>6, <1>12, <1>16, <2>2
      <3>2. r.start <= end /\ r.start \in Nat
        BY <1>7, <1>10
      <3> QED
        BY <1>6, <1>16, <2>2, <3>1, <3>2
    <2> QED
      BY <1>6, <2>1, <2>2
  <1>17. ASSUME NEW u \in Nat, u \in CoveredBytes(AddRange(ranges, start, end))
         PROVE  u \in CoveredBytes(ranges) \/ (start <= u /\ u < end)
    <2>1. PICK r \in AddRange(ranges, start, end) : u \in r.start .. (r.end - 1)
      BY <1>14, <1>17
    <2>2. CASE r \in ranges
      BY <1>14, <2>1, <2>2
    <2>3. CASE r = m
      <3>1. lo <= u /\ u < hi
        BY <1>4, <1>5, <1>13, <2>1, <2>3
      <3>2. ASSUME NEW s \in near, s.start <= u, u < s.end PROVE u \in CoveredBytes(ranges)
        <4>1. s \in ranges /\ s.start \in Nat /\ s.end \in Nat
          BY <1>7, <1>10
        <4>2. u \in s.start .. (s.end - 1)
          BY <3>2, <4>1
        <4> QED
          BY <1>14, <4>1, <4>2
      <3> QED
        BY <1>16, <3>1, <3>2
    <2> QED
      BY <1>8, <2>1, <2>2, <2>3
  <1>18. ASSUME NEW u \in Nat, lo <= u, u < hi
         PROVE  u \in CoveredBytes(AddRange(ranges, start, end))
    <2>1. u \in m.start .. (m.end - 1)
      BY <1>4, <1>5, <1>13, <1>18
    <2>2. m \in AddRange(ranges, start, end)
      BY <1>8
    <2> QED
      BY <1>14, <2>1, <2>2
  <1>19. ASSUME NEW u \in Nat, u \in CoveredBytes(ranges)
         PROVE  u \in CoveredBytes(AddRange(ranges, start, end))
    <2>1. PICK r \in ranges : u \in r.start .. (r.end - 1)
      BY <1>14, <1>19
    <2>2. CASE r \in near
      <3>1. lo <= r.start /\ r.end <= hi /\ r.start \in Nat /\ r.end \in Nat
        BY <1>7, <1>10, <2>2
      <3>2. lo <= u /\ u < hi
        BY <1>4, <1>5, <2>1, <3>1
      <3> QED
        BY <1>18, <3>2
    <2>3. CASE r \notin near
      <3>1. r \in AddRange(ranges, start, end)
        BY <1>8, <2>3
      <3> QED
        BY <1>14, <2>1, <3>1
    <2> QED
      BY <2>2, <2>3
  <1>20. ASSUME NEW u \in Nat, start <= u, u < end
         PROVE  u \in CoveredBytes(AddRange(ranges, start, end))
    <2>1. lo <= u /\ u < hi
      BY <1>4, <1>5, <1>6, <1>9, <1>20
    <2> QED
      BY <1>18, <2>1
  <1> QED
    BY <1>15, <1>17, <1>19, <1>20

\* Every byte of the capture lies in one of its frames.
LEMMA ByteInFrame ==
  ASSUME NEW b \in 0 .. (ExpectedBytes - 1)
  PROVE  \E i \in Frames, u \in FrameOffsets : b = i * FrameBytes + u
  <1> DEFINE i == b \div FrameBytes
             base == i * FrameBytes
  <1>1. /\ FrameBytes \in Nat \ {0} /\ FrameLimit \in Nat \ {0}
        /\ ExpectedBytes = FrameLimit * FrameBytes /\ ExpectedBytes \in Nat
    BY ConfigAssumption DEF ExpectedBytes
  <1>2. b \in Nat /\ b < FrameLimit * FrameBytes
    BY <1>1
  <1>3. i \in Nat /\ base <= b /\ b < (i + 1) * FrameBytes
    BY <1>1, <1>2, FrameOfOffset
  <1>4. i < FrameLimit
    BY <1>1, <1>2, FrameBelowLimit
  <1> HIDE DEF i
  <1>5. (i + 1) * FrameBytes = base + FrameBytes /\ base \in Nat
    BY <1>1, <1>3
  <1>6. i \in Frames
    BY <1>1, <1>3, <1>4 DEF Frames
  <1> HIDE DEF base
  <1>7. b - base \in FrameOffsets /\ b = base + (b - base)
    BY <1>1, <1>2, <1>3, <1>5 DEF FrameOffsets
  <1> QED
    BY <1>6, <1>7 DEF base

\* Every byte of a frame is a byte of the capture.
LEMMA FrameInCapture ==
  ASSUME NEW i \in Frames
  PROVE  /\ i \in Nat /\ i * FrameBytes \in Nat
         /\ (i + 1) * FrameBytes = i * FrameBytes + FrameBytes
         /\ i * FrameBytes + FrameBytes <= ExpectedBytes
         /\ \A u \in FrameOffsets : i * FrameBytes + u \in 0 .. (ExpectedBytes - 1)
  <1> DEFINE base == i * FrameBytes
  <1>1. /\ FrameBytes \in Nat \ {0} /\ FrameLimit \in Nat \ {0}
        /\ ExpectedBytes = FrameLimit * FrameBytes /\ ExpectedBytes \in Nat
    BY ConfigAssumption DEF ExpectedBytes
  <1>2. i \in Nat /\ i + 1 <= FrameLimit
    BY <1>1 DEF Frames
  <1>3. (i + 1) * FrameBytes <= FrameLimit * FrameBytes
    BY <1>1, <1>2, FrameMonotonic
  <1>4. base \in Nat /\ (i + 1) * FrameBytes = base + FrameBytes
    BY <1>1, <1>2
  <1>5. base + FrameBytes <= ExpectedBytes
    BY <1>1, <1>3, <1>4
  <1> HIDE DEF base
  <1>6. \A u \in FrameOffsets : base + u \in 0 .. (ExpectedBytes - 1)
    BY <1>1, <1>4, <1>5 DEF FrameOffsets
  <1> QED
    BY <1>2, <1>4, <1>5, <1>6 DEF base

\* The fragments of a write are exactly its bytes, frame by frame.
LEMMA FragmentExact ==
  ASSUME NEW offset \in Nat, NEW length \in Nat \ {0},
         offset + length <= ExpectedBytes,
         NEW i \in Frames, NEW u \in FrameOffsets
  PROVE  /\ i \in FramesOf(offset, length) =>
              (i * FrameBytes + u \in offset .. (offset + length - 1)
                <=> FragmentStart(i, offset) <= u /\ u < FragmentEnd(i, offset, length))
         /\ i \notin FramesOf(offset, length) =>
              i * FrameBytes + u \notin offset .. (offset + length - 1)
  <1> DEFINE base == i * FrameBytes
             first == offset \div FrameBytes
             end == offset + length - 1
             last == end \div FrameBytes
  <1>1. FrameBytes \in Nat \ {0} /\ end \in Nat /\ end = offset + length - 1
    BY ConfigAssumption
  <1>2. i \in Nat /\ base \in Nat /\ (i + 1) * FrameBytes = base + FrameBytes
    BY FrameInCapture
  <1>3. u \in Nat /\ u < FrameBytes
    BY <1>1 DEF FrameOffsets
  <1>4. first \in Nat /\ first * FrameBytes <= offset /\ first * FrameBytes \in Nat
    <2>1. first \in Nat /\ first * FrameBytes <= offset
      BY <1>1, FrameOfOffset
    <2> HIDE DEF first
    <2> QED
      BY <1>1, <2>1
  <1>5. last \in Nat /\ end < (last + 1) * FrameBytes /\ (last + 1) * FrameBytes \in Nat
    <2> HIDE DEF end
    <2>1. last \in Nat /\ end < (last + 1) * FrameBytes
      BY <1>1, FrameOfOffset
    <2> HIDE DEF last
    <2> QED
      BY <1>1, <2>1
  <1>6. FramesOf(offset, length) = first .. last
    BY DEF FramesOf, FirstFrame, LastFrame
  <1>7. /\ FragmentStart(i, offset) = IF offset > base THEN offset - base ELSE 0
        /\ FragmentEnd(i, offset, length) =
             IF offset + length < base + FrameBytes
             THEN offset + length - base ELSE FrameBytes
    BY <1>2 DEF FragmentStart, FragmentEnd
  <1>8. offset .. (offset + length - 1) = offset .. end
    OBVIOUS
  <1>9. ASSUME i < first PROVE base + FrameBytes <= offset
    <2> HIDE DEF first
    <2>1. (i + 1) * FrameBytes <= first * FrameBytes
      BY <1>1, <1>2, <1>4, <1>9, FrameMonotonic
    <2> QED
      BY <1>1, <1>2, <1>4, <2>1
  <1>10. ASSUME i > last PROVE base > end
    <2> HIDE DEF last, end
    <2>1. (last + 1) * FrameBytes <= i * FrameBytes
      BY <1>1, <1>2, <1>5, <1>10, FrameMonotonic
    <2> QED
      BY <1>1, <1>2, <1>5, <2>1
  <1> HIDE DEF base, first, end, last
  <1>11. base + u \in offset .. end <=> FragmentStart(i, offset) <= u /\ u < FragmentEnd(i, offset, length)
    BY <1>1, <1>2, <1>3, <1>7
  <1>12. i \notin first .. last => base + u \notin offset .. end
    BY <1>1, <1>2, <1>3, <1>4, <1>5, <1>9, <1>10
  <1> QED
    BY <1>6, <1>8, <1>11, <1>12 DEF base

\* A plan that succeeds has found every frame of the write behind nextEmit and
\* no byte of it covered.
LEMMA PlanFindsRoom ==
  ASSUME NEW offset \in Nat, NEW length \in Nat, PlanWrite(offset, length) = "ok"
  PROVE  /\ ~ (FirstFrame(offset) < nextEmit)
         /\ \A i \in FramesOf(offset, length) :
              Overlapping(SpoolAt(i).ranges, FragmentStart(i, offset),
                          FragmentEnd(i, offset, length)) = {}
  <1> DEFINE bad == {i \in FramesOf(offset, length) : Preflight(i, offset, length) # "ok"}
  <1>1. ~ (FirstFrame(offset) < nextEmit)
    BY DEF PlanWrite
  <1>2. IF bad = {} THEN TRUE ELSE Preflight(LeastOf(bad), offset, length) = "ok"
    BY DEF PlanWrite
  <1>3. /\ length \in Nat \ {0} /\ offset + length <= ExpectedBytes
    BY PlanWriteVerdict
  <1>4. bad \subseteq Nat
    <2>1. FramesOf(offset, length) \subseteq Frames
      BY <1>3, FragmentBounds
    <2>2. Frames \subseteq Nat
      BY FrameInCapture
    <2> QED
      BY <2>1, <2>2
  <1>5. bad = {}
    <2> SUFFICES ASSUME bad # {} PROVE FALSE
      OBVIOUS
    <2>1. LeastOf(bad) \in bad
      <3> HIDE DEF bad
      <3> QED
        BY <1>4, LeastExists
    <2>2. Preflight(LeastOf(bad), offset, length) # "ok"
      BY <2>1
    <2> QED
      BY <1>2, <2>2
  <1>6. \A i \in FramesOf(offset, length) : Preflight(i, offset, length) = "ok"
    BY <1>5
  <1>7. ASSUME NEW i \in FramesOf(offset, length)
        PROVE  Overlapping(SpoolAt(i).ranges, FragmentStart(i, offset),
                           FragmentEnd(i, offset, length)) = {}
    BY <1>6 DEF Preflight
  <1> QED
    BY <1>1, <1>7

\* The spool of a frame, existing or new.
LEMMA SpoolAtType ==
  ASSUME TypeOK, NEW i
  PROVE  /\ SpoolAt(i) \in Spools
         /\ SpoolAt(i).data \in Payloads
         /\ SpoolAt(i).ranges \in SUBSET ByteRanges
  <1>1. EmptySpool \in Spools
    BY ConfigAssumption DEF EmptySpool, Spools, Payloads
  <1>2. SpoolAt(i) \in Spools
    BY <1>1 DEF TypeOK, SpoolAt
  <1> QED
    BY <1>2 DEF Spools

\* Every byte that an admitted WriteAt writes is new to the file.
LEMMA WriteFindsNone ==
  ASSUME Inv, Reflected, state # "aborted",
         NEW offset \in Nat, NEW length \in Nat, PlanWrite(offset, length) = "ok",
         NEW b \in offset .. (offset + length - 1)
  PROVE  b \in 0 .. (ExpectedBytes - 1) /\ output[b] = None
  <1>1. length \in Nat \ {0} /\ offset + length <= ExpectedBytes /\ ExpectedBytes \in Nat
    BY PlanWriteVerdict, ConfigAssumption DEF ExpectedBytes
  <1>2. b \in 0 .. (ExpectedBytes - 1)
    BY <1>1
  <1>3. PICK i \in Frames, u \in FrameOffsets : b = i * FrameBytes + u
    BY <1>2, ByteInFrame
  <1> DEFINE start == FragmentStart(i, offset)
             end == FragmentEnd(i, offset, length)
             ranges == SpoolAt(i).ranges
  <1>4. i \in FramesOf(offset, length) /\ start <= u /\ u < end
    BY <1>1, <1>3, FragmentExact
  <1>5. start \in Nat /\ end \in Nat /\ u \in Nat /\ i \in Nat
    BY <1>1, <1>4, FragmentBounds, FrameInCapture, ConfigAssumption DEF FrameOffsets
  <1>6. i >= nextEmit
    <2>1. FirstFrame(offset) \in Nat /\ nextEmit \in Nat
      BY <1>1, FragmentBounds, ConfigAssumption DEF Inv, TypeOK
    <2>2. ~ (FirstFrame(offset) < nextEmit)
      BY PlanFindsRoom
    <2>3. FirstFrame(offset) <= i
      BY <1>4 DEF FramesOf
    <2> QED
      BY <1>5, <2>1, <2>2, <2>3
  <1>7. Mirrors(SpoolAt(i), i, output)
    BY <1>6 DEF Reflected
  <1>8. Overlapping(ranges, start, end) = {}
    BY <1>4, PlanFindsRoom
  <1>9. u \notin CoveredBytes(ranges)
    <2> SUFFICES ASSUME u \in CoveredBytes(ranges) PROVE FALSE
      OBVIOUS
    <2>1. PICK r \in ranges : u \in r.start .. (r.end - 1)
      BY DEF CoveredBytes
    <2>2. r.start \in Nat /\ r.end \in Nat
      BY SpoolAtType, ConfigAssumption DEF Inv, ByteRanges
    <2> HIDE DEF ranges, start, end
    <2>3. r.end > start /\ r.start < end
      BY <1>4, <1>5, <2>1, <2>2
    <2>4. r \in Overlapping(ranges, start, end)
      BY <2>3 DEF Overlapping
    <2> QED
      BY <1>8, <2>4
  <1>10. output[i * FrameBytes + u] = None
    BY <1>7, <1>9 DEF Mirrors
  <1> QED
    BY <1>2, <1>3, <1>10

\* What an admitted WriteAt leaves in the file, whole or cut short, contains all
\* that was there.
LEMMA OutputKept ==
  ASSUME Inv, Reflected, state # "aborted",
         NEW offset \in Nat, NEW length \in Nat, PlanWrite(offset, length) = "ok",
         NEW count \in Nat, count <= length, NEW tag,
         NEW b \in 0 .. (ExpectedBytes - 1), output[b] # None
  PROVE  OutputAfter(offset, count, tag)[b] = output[b]
  <1>1. DOMAIN output = 0 .. (ExpectedBytes - 1)
    BY DEF Inv, TypeOK
  <1>2. b \notin offset .. (offset + length - 1)
    BY WriteFindsNone
  <1>3. b \in Int
    BY ConfigAssumption DEF ExpectedBytes
  <1>4. b \notin offset .. (offset + count - 1)
    BY <1>2, <1>3
  <1> QED
    BY <1>1, <1>4 DEF OutputAfter

\* A frame that is faithful stays so as long as bytes in the file stay.
LEMMA FaithfulStays ==
  ASSUME NEW f \in QueuedFrames, NEW old, NEW out,
         \A b \in 0 .. (ExpectedBytes - 1) : old[b] # None => out[b] = old[b],
         Faithful(f, old)
  PROVE  Faithful(f, out)
  <1>1. f.index \in Frames
    BY DEF QueuedFrames
  <1>2. \A u \in FrameOffsets : f.index * FrameBytes + u \in 0 .. (ExpectedBytes - 1)
    BY <1>1, FrameInCapture
  <1>3. ASSUME NEW u \in FrameOffsets
        PROVE  f.payload[u] # None /\ f.payload[u] = out[f.index * FrameBytes + u]
    <2>1. f.payload[u] # None /\ f.payload[u] = old[f.index * FrameBytes + u]
      BY DEF Faithful
    <2>2. out[f.index * FrameBytes + u] = old[f.index * FrameBytes + u]
      BY <1>2, <2>1
    <2> QED
      BY <2>1, <2>2
  <1> QED
    BY <1>3 DEF Faithful

\* The same for a frame whose bytes are all there.
LEMMA FilledStays ==
  ASSUME NEW i \in Frames, NEW old, NEW out,
         \A b \in 0 .. (ExpectedBytes - 1) : old[b] # None => out[b] = old[b],
         Filled(i, old)
  PROVE  Filled(i, out)
  <1>1. \A u \in FrameOffsets : i * FrameBytes + u \in 0 .. (ExpectedBytes - 1)
    BY FrameInCapture
  <1>2. ASSUME NEW u \in FrameOffsets
        PROVE  out[i * FrameBytes + u] # None
    <2>1. old[i * FrameBytes + u] # None
      BY DEF Filled
    <2> QED
      BY <1>1, <2>1
  <1> QED
    BY <1>2 DEF Filled

\* After an accepted write the spools still hold what the file holds.
LEMMA SpoolMirrors ==
  ASSUME Inv, Reflected, state # "aborted",
         NEW offset \in Nat, NEW length \in Nat, PlanWrite(offset, length) = "ok",
         NEW tag \in Tags, NEW i \in Frames, i >= nextEmit,
         NEW out, out = OutputAfter(offset, length, tag)
  PROVE  /\ i \in FramesOf(offset, length) =>
              Mirrors(ApplyFragment(i, offset, length, tag), i, out)
         /\ i \notin FramesOf(offset, length) => Mirrors(SpoolAt(i), i, out)
  <1> DEFINE start == FragmentStart(i, offset)
             end == FragmentEnd(i, offset, length)
             base == i * FrameBytes
             spool == SpoolAt(i)
             new == ApplyFragment(i, offset, length, tag)
             Within(u) == start <= u /\ u < end
  <1>1. length \in Nat \ {0} /\ offset + length <= ExpectedBytes /\ ExpectedBytes \in Nat
    BY PlanWriteVerdict, ConfigAssumption DEF ExpectedBytes
  <1>2. /\ FrameBytes \in Nat \ {0} /\ i \in Nat /\ base \in Nat
        /\ \A u \in FrameOffsets : u \in Nat /\ base + u \in 0 .. (ExpectedBytes - 1)
    BY FrameInCapture, ConfigAssumption DEF FrameOffsets
  <1>3. DOMAIN output = 0 .. (ExpectedBytes - 1)
    BY DEF Inv, TypeOK
  <1>4. Mirrors(spool, i, output)
    BY DEF Reflected
  <1>5. spool.data \in Payloads /\ spool.ranges \in SUBSET ByteRanges
    BY SpoolAtType DEF Inv
  <1>6. \A b \in 0 .. (ExpectedBytes - 1) :
          out[b] = IF b \in offset .. (offset + length - 1)
                   THEN Byte(tag, offset + (b - offset)) ELSE output[b]
    BY <1>3 DEF OutputAfter, PayloadByte
  <1>7. CASE i \notin FramesOf(offset, length)
    <2>1. \A u \in FrameOffsets : base + u \notin offset .. (offset + length - 1)
      BY <1>1, <1>7, FragmentExact
    <2>2. \A u \in FrameOffsets : out[base + u] = output[base + u]
      BY <1>2, <1>6, <2>1
    <2>3. Mirrors(spool, i, out)
      BY <1>4, <2>2 DEF Mirrors
    <2> QED
      BY <1>7, <2>3
  <1>8. CASE i \in FramesOf(offset, length)
    <2>1. start \in 0 .. FrameBytes /\ end \in 0 .. FrameBytes /\ start < end
      BY <1>1, <1>8, FragmentBounds
    <2>2. start \in Nat /\ end \in Nat
      BY <1>2, <2>1
    <2>3. \A u \in FrameOffsets : base + u \in offset .. (offset + length - 1) <=> Within(u)
      BY <1>1, <1>8, FragmentExact
    <2>4. \A r \in spool.ranges : r.start < r.end
      BY <1>4 DEF Mirrors
    <2> DEFINE ranges == AddRange(spool.ranges, start, end)
    <2>5. new.ranges = ranges
      BY DEF ApplyFragment
    <2>6. /\ \A r \in ranges : r.start < r.end
          /\ \A u \in Nat : u \in CoveredBytes(ranges)
                              <=> u \in CoveredBytes(spool.ranges) \/ Within(u)
      <3> HIDE DEF spool, start, end
      <3> QED
        BY <1>5, <2>1, <2>4, AddRangeCovers
    <2>7. \A u \in FrameOffsets :
            new.data[u] = IF u \in start .. (end - 1)
                          THEN Byte(tag, offset + (base + start - offset + (u - start)))
                          ELSE spool.data[u]
      BY DEF ApplyFragment, PayloadByte
    <2> HIDE DEF start, end, base, new, spool, ranges
    <2>8. ASSUME NEW u \in FrameOffsets
          PROVE  /\ new.data[u] = out[base + u]
                 /\ u \in CoveredBytes(ranges) <=> out[base + u] # None
      <3>1. u \in Nat /\ base + u \in 0 .. (ExpectedBytes - 1) /\ base + u \in Nat
        BY <1>2
      <3>2. u \in start .. (end - 1) <=> Within(u)
        BY <2>2, <3>1
      <3>3. /\ offset + (base + start - offset + (u - start)) = base + u
            /\ offset + ((base + u) - offset) = base + u
        BY <1>2, <2>2, <3>1
      <3>4. CASE Within(u)
        <4>1. base + u \in offset .. (offset + length - 1)
          BY <2>3, <3>4
        <4>2. out[base + u] = Byte(tag, base + u)
          BY <1>6, <3>1, <3>3, <4>1
        <4>3. new.data[u] = Byte(tag, base + u)
          BY <2>7, <3>2, <3>3, <3>4
        <4>4. Byte(tag, base + u) # None
          BY <3>1, ConfigAssumption DEF Byte, Bytes
        <4>5. u \in CoveredBytes(ranges)
          BY <2>6, <3>1, <3>4
        <4> QED
          BY <4>2, <4>3, <4>4, <4>5
      <3>5. CASE ~ Within(u)
        <4>1. out[base + u] = output[base + u]
          BY <1>6, <2>3, <3>1, <3>5
        <4>2. new.data[u] = spool.data[u]
          BY <2>7, <3>2, <3>5
        <4>3. /\ spool.data[u] = output[base + u]
              /\ u \in CoveredBytes(spool.ranges) <=> output[base + u] # None
          BY <1>4 DEF Mirrors, base
        <4>4. u \in CoveredBytes(ranges) <=> u \in CoveredBytes(spool.ranges)
          BY <2>6, <3>1, <3>5
        <4> QED
          BY <4>1, <4>2, <4>3, <4>4
      <3> QED
        BY <3>4, <3>5
    <2>9. Mirrors(new, i, out)
      BY <2>5, <2>6, <2>8 DEF Mirrors, base
    <2> QED
      BY <1>8, <2>9 DEF new
  <1> QED
    BY <1>7, <1>8

\* A complete spool fills its frame: the one range it holds is the whole frame.
LEMMA CompleteFills ==
  ASSUME NEW spool, NEW i, NEW out, Complete(spool), Mirrors(spool, i, out)
  PROVE  /\ Filled(i, out)
         /\ \A u \in FrameOffsets :
              spool.data[u] # None /\ spool.data[u] = out[i * FrameBytes + u]
  <1>1. spool.ranges = {[start |-> 0, end |-> FrameBytes]}
    BY DEF Complete
  <1>2. \A u \in FrameOffsets : u \in CoveredBytes(spool.ranges)
    BY <1>1 DEF CoveredBytes, FrameOffsets
  <1>3. \A u \in FrameOffsets :
          /\ out[i * FrameBytes + u] # None
          /\ spool.data[u] = out[i * FrameBytes + u]
    BY <1>2 DEF Mirrors
  <1> QED
    BY <1>3 DEF Filled

\* What abortLocked does to the mirror: nothing in a terminal state, else it ends
\* it and drops the spools.
LEMMA AbortLockedEffect ==
  ASSUME NEW spools, NEW alloc, AbortLocked(spools, alloc)
  PROVE  /\ state \in {"sealed", "aborted"} => state' = state /\ slots' = spools
         /\ state \notin {"sealed", "aborted"} => state' = "aborted" /\ DOMAIN slots' = {}
  <1>1. state \in {"sealed", "aborted"} => state' = state /\ slots' = spools
    BY DEF AbortLocked
  <1>2. state \notin {"sealed", "aborted"} => state' = "aborted" /\ slots' = NoSlots
    BY DEF AbortLocked
  <1>3. DOMAIN NoSlots = {}
    BY DEF NoSlots
  <1> QED
    BY <1>1, <1>2, <1>3

\* What is in the file is still there after the step.
FileKept == \A b \in 0 .. (ExpectedBytes - 1) : output[b] # None => output'[b] = output[b]

\* Steps that emit nothing keep the spools in agreement with the file.
LEMMA ReflectedStays ==
  ASSUME Reflected, FileKept, nextEmit' = nextEmit, DOMAIN slots' \subseteq DOMAIN slots,
         state' # "aborted" => state # "aborted" /\ slots' = slots /\ output' = output
  PROVE  Reflected'
  <1>1. \A i \in DOMAIN slots' : i >= nextEmit'
    BY DEF Reflected
  <1>2. ASSUME NEW i \in Frames, i < nextEmit' PROVE Filled(i, output')
    <2>1. Filled(i, output)
      BY <1>2 DEF Reflected
    <2> QED
      BY <2>1, FilledStays DEF FileKept
  <1>3. ASSUME state' # "aborted", NEW i \in Frames, i >= nextEmit'
        PROVE  Mirrors(SpoolAt(i)', i, output')
    <2>1. Mirrors(SpoolAt(i), i, output)
      BY <1>3 DEF Reflected
    <2>2. SpoolAt(i)' = SpoolAt(i) /\ output' = output
      BY <1>3 DEF SpoolAt
    <2> QED
      BY <2>1, <2>2
  <1> QED
    BY <1>1, <1>2, <1>3 DEF Reflected

\* Steps that move no frame keep every frame on its way faithful.
LEMMA InTransitStays ==
  ASSUME TypeOK, InTransit, FileKept, queue' = queue, sunk' = sunk,
         HeldByWorker' = 1 => HeldByWorker = 1 /\ worker'.frame = worker.frame
  PROVE  InTransit'
  <1>1. /\ \A k \in 1 .. Len(queue) : queue[k] \in QueuedFrames
        /\ \A k \in 1 .. Len(sunk) : sunk[k] \in QueuedFrames
        /\ worker.frame \in QueuedFrames
    BY ElementOfSeq DEF TypeOK
  <1>2. ASSUME NEW k \in 1 .. Len(queue') PROVE Faithful(queue'[k], output')
    BY <1>1, FaithfulStays DEF InTransit, FileKept
  <1>3. ASSUME NEW k \in 1 .. Len(sunk') PROVE Faithful(sunk'[k], output')
    BY <1>1, FaithfulStays DEF InTransit, FileKept
  <1>4. ASSUME HeldByWorker' = 1 PROVE Faithful(worker'.frame, output')
    <2>1. Faithful(worker.frame, output) /\ worker'.frame = worker.frame
      BY <1>4 DEF InTransit
    <2> QED
      BY <1>1, <2>1, FaithfulStays DEF FileKept
  <1> QED
    BY <1>2, <1>3, <1>4 DEF InTransit

\* The part of the invariant that is not counted in Inv.
Content == Reflected /\ InTransit /\ InOrder /\ Concluded /\ CancelsAborted

\* A step that fails or aborts the mirror keeps what has been delivered.
LEMMA FailContent ==
  ASSUME ContentInv, NEW alloc, AbortLocked(slots, alloc), state # "sealed", FileKept,
         UNCHANGED <<nextEmit, queue, worker, sunk>>,
         \A c \in Callers : caller'[c] = "sealed" => caller[c] = "sealed"
  PROVE  Content'
  <1>0. TypeOK /\ Reflected /\ InTransit /\ InOrder /\ Concluded
    BY DEF ContentInv, Inv
  <1>1. state' = "aborted" /\ DOMAIN slots' \subseteq DOMAIN slots
    BY <1>0, AbortLockedEffect DEF TypeOK
  <1>2. Reflected'
    BY <1>0, <1>1, ReflectedStays
  <1>3. HeldByWorker' = HeldByWorker
    BY DEF HeldByWorker
  <1>4. InTransit'
    BY <1>0, <1>3, InTransitStays
  <1>5. InOrder'
    BY <1>0, <1>3 DEF InOrder
  <1>6. Concluded'
    BY <1>0, <1>1 DEF Concluded
  <1>7. CancelsAborted'
    BY <1>1 DEF CancelsAborted
  <1> QED
    BY <1>2, <1>4, <1>5, <1>6, <1>7 DEF Content

\* An accepted write: what it completes enters the channel faithful and in order,
\* what is left in the spool still mirrors the file.
LEMMA WriteAcceptedContent ==
  ASSUME ContentInv,
         NEW offset \in Nat, NEW length \in Nat, NEW tag \in Tags,
         WriteAccepted(offset, length, tag)
  PROVE  Content' /\ FileKept
  <1> DEFINE spools == SpoolsAfter(offset, length, tag)
             alloc == AllocatedAfter(offset, length)
             out == OutputAfter(offset, length, tag)
  <1>1. /\ Inv /\ TypeOK /\ Reflected /\ InTransit /\ InOrder /\ Concluded /\ CancelsAborted
    BY DEF ContentInv, Inv
  <1>2. /\ state = "open" /\ PlanWrite(offset, length) = "ok" /\ output' = out
        /\ UNCHANGED <<frameCount, delivered, sealedFrameCount, captureCancelled, worker,
                       caller, sunk>>
    BY DEF WriteAccepted, Writable
  <1>3. length \in Nat \ {0} /\ offset + length <= ExpectedBytes
    BY <1>2, PlanWriteVerdict
  <1>4. /\ DOMAIN spools = DOMAIN slots \cup FramesOf(offset, length)
        /\ DOMAIN spools \subseteq Frames
        /\ \A i \in DOMAIN spools : spools[i] \in Spools
    BY <1>1, <1>3, SpoolsAfterType
  <1>5. FileKept
    BY <1>1, <1>2, OutputKept DEF FileKept
  <1>6. /\ nextEmit \in Nat /\ nextEmit <= FrameLimit /\ FrameLimit \in Nat
        /\ queue \in Seq(QueuedFrames) /\ Len(queue) \in Nat /\ Len(sunk) \in Nat
        /\ \A i \in Frames : i \in Nat
    BY <1>1, LenProperties, FrameInCapture, ConfigAssumption DEF TypeOK
  <1>7. \A i \in DOMAIN spools : i >= nextEmit
    <2>1. ASSUME NEW i \in FramesOf(offset, length) PROVE i >= nextEmit
      <3>1. FirstFrame(offset) \in Nat /\ ~ (FirstFrame(offset) < nextEmit)
        BY <1>2, <1>3, FragmentBounds, PlanFindsRoom
      <3>2. FirstFrame(offset) <= i /\ i \in Nat
        BY <1>4, <1>6 DEF FramesOf
      <3> QED
        BY <1>6, <3>1, <3>2
    <2> QED
      BY <1>1, <1>4, <2>1 DEF Reflected
  <1>8. ASSUME NEW i \in Frames, i >= nextEmit
        PROVE  Mirrors(IF i \in DOMAIN spools THEN spools[i] ELSE EmptySpool, i, out)
    <2>0. /\ i \in FramesOf(offset, length) => Mirrors(ApplyFragment(i, offset, length, tag), i, out)
          /\ i \notin FramesOf(offset, length) => Mirrors(SpoolAt(i), i, out)
      BY <1>1, <1>2, <1>8, SpoolMirrors
    <2>1. CASE i \in FramesOf(offset, length)
      <3>1. i \in DOMAIN spools /\ spools[i] = ApplyFragment(i, offset, length, tag)
        BY <1>4, <2>1 DEF SpoolsAfter
      <3> QED
        BY <2>0, <2>1, <3>1
    <2>2. CASE i \notin FramesOf(offset, length) /\ i \in DOMAIN slots
      <3>1. i \in DOMAIN spools /\ spools[i] = slots[i]
        BY <1>4, <2>2 DEF SpoolsAfter
      <3> QED
        BY <2>0, <2>2, <3>1 DEF SpoolAt
    <2>3. CASE i \notin FramesOf(offset, length) /\ i \notin DOMAIN slots
      <3>1. i \notin DOMAIN spools
        BY <1>4, <2>3
      <3> QED
        BY <2>0, <2>3, <3>1 DEF SpoolAt
    <2> QED
      BY <2>1, <2>2, <2>3
  <1> DEFINE
    left(e) == [i \in DOMAIN spools \ (nextEmit .. (e - 1)) |-> spools[i]]
    emitted(e) == [k \in 1 .. (e - nextEmit) |->
                     [index   |-> nextEmit + k - 1,
                      payload |-> spools[nextEmit + k - 1].data]]
  <1>9. PICK e \in nextEmit .. FrameLimit :
          /\ EmitsTo(spools, e)
          /\ queue' = queue \o emitted(e)
          /\ nextEmit' = e
          /\ IF QueueFull(spools, e)
             THEN /\ FailLocked("backpressure", left(e), alloc)
                  /\ writer' = "cancel"
             ELSE /\ slots' = left(e)
                  /\ allocated' = alloc
                  /\ UNCHANGED <<state, failure, queueClosed, writer>>
    BY DEF WriteAccepted
  <1> HIDE DEF spools, alloc, out
  <1>10. /\ \A i \in nextEmit .. (e - 1) : i \in DOMAIN spools /\ Complete(spools[i])
         /\ e \in Nat /\ nextEmit <= e
    BY <1>6, <1>9 DEF EmitsTo, Ready
  <1>11. DOMAIN left(e) = DOMAIN spools \ (nextEmit .. (e - 1))
    OBVIOUS
  <1>12. \/ state' = "aborted" /\ DOMAIN slots' = {}
         \/ state' = "open" /\ slots' = left(e) /\ writer' = writer
    <2>1. CASE QueueFull(spools, e)
      BY <1>2, <1>9, <2>1, AbortLockedEffect DEF FailLocked
    <2>2. CASE ~ QueueFull(spools, e)
      BY <1>2, <1>9, <2>2
    <2> QED
      BY <2>1, <2>2
  <1>13. ASSUME NEW i \in nextEmit .. (e - 1)
         PROVE  /\ Filled(i, out)
                /\ \A u \in FrameOffsets : spools[i].data[u] # None
                                           /\ spools[i].data[u] = out[i * FrameBytes + u]
    <2>1. i \in Frames /\ i >= nextEmit /\ i \in DOMAIN spools /\ Complete(spools[i])
      BY <1>4, <1>6, <1>10
    <2>2. Mirrors(spools[i], i, out)
      BY <1>8, <2>1
    <2> QED
      BY <2>1, <2>2, CompleteFills
  <1>14. Reflected'
    <2>1. ASSUME NEW i \in DOMAIN slots' PROVE i >= nextEmit'
      <3>1. i \in DOMAIN spools /\ i \notin nextEmit .. (e - 1)
        BY <1>11, <1>12, <2>1
      <3>2. i \in Nat /\ i >= nextEmit
        BY <1>4, <1>6, <1>7, <3>1
      <3> QED
        BY <1>6, <1>9, <1>10, <3>1, <3>2
    <2>2. ASSUME NEW i \in Frames, i < nextEmit' PROVE Filled(i, output')
      <3>1. i \in Nat
        BY <1>6
      <3>2. CASE i < nextEmit
        <4>1. Filled(i, output)
          BY <1>1, <3>2 DEF Reflected
        <4> QED
          BY <1>5, <4>1, FilledStays DEF FileKept
      <3>3. CASE i >= nextEmit
        <4>1. i \in nextEmit .. (e - 1)
          BY <1>6, <1>9, <1>10, <2>2, <3>1, <3>3
        <4> QED
          BY <1>2, <1>13, <4>1
      <3> QED
        BY <1>6, <3>1, <3>2, <3>3
    <2>3. ASSUME state' # "aborted", NEW i \in Frames, i >= nextEmit'
          PROVE  Mirrors(SpoolAt(i)', i, output')
      <3>1. slots' = left(e)
        BY <1>12, <2>3
      <3>2. i \in Nat /\ i >= nextEmit /\ i \notin nextEmit .. (e - 1)
        BY <1>6, <1>9, <1>10, <2>3
      <3>3. i \in DOMAIN slots' <=> i \in DOMAIN spools
        BY <1>11, <3>1, <3>2
      <3>4. i \in DOMAIN spools => slots'[i] = spools[i]
        BY <3>1, <3>2
      <3>5. SpoolAt(i)' = IF i \in DOMAIN spools THEN spools[i] ELSE EmptySpool
        BY <3>3, <3>4 DEF SpoolAt
      <3> QED
        BY <1>2, <1>8, <3>2, <3>5
    <2> QED
      BY <2>1, <2>2, <2>3 DEF Reflected
  <1> DEFINE n == e - nextEmit
  <1>15. n \in Nat
    BY <1>6, <1>10
  <1>16. \A k \in 1 .. n : nextEmit + k - 1 \in nextEmit .. (e - 1)
    BY <1>6, <1>10
  <1>17. /\ emitted(e) \in Seq(QueuedFrames) /\ Len(emitted(e)) = n
         /\ \A k \in 1 .. n : /\ emitted(e)[k].index = nextEmit + k - 1
                              /\ emitted(e)[k].payload = spools[nextEmit + k - 1].data
    <2>1. ASSUME NEW k \in 1 .. n
          PROVE  emitted(e)[k] \in QueuedFrames
      <3>1. nextEmit + k - 1 \in DOMAIN spools /\ nextEmit + k - 1 \in Frames
        BY <1>4, <1>10, <1>16
      <3>2. spools[nextEmit + k - 1].data \in Payloads
        BY <1>4, <3>1 DEF Spools
      <3> QED
        BY <3>1, <3>2 DEF QueuedFrames
    <2>2. emitted(e) \in [1 .. n -> QueuedFrames]
      BY <2>1
    <2>3. \A k \in 1 .. n : /\ emitted(e)[k].index = nextEmit + k - 1
                            /\ emitted(e)[k].payload = spools[nextEmit + k - 1].data
      OBVIOUS
    <2> HIDE DEF emitted, n
    <2>4. emitted(e) \in Seq(QueuedFrames) /\ Len(emitted(e)) = n
      BY <1>15, <2>2
    <2> QED
      BY <2>3, <2>4
  <1> HIDE DEF emitted, left, n
  <1>18. /\ Len(queue') = Len(queue) + n
         /\ \A k \in 1 .. Len(queue') :
              queue'[k] = IF k <= Len(queue) THEN queue[k] ELSE emitted(e)[k - Len(queue)]
    <2> DEFINE s == emitted(e)
    <2>1. queue \in Seq(QueuedFrames) /\ s \in Seq(QueuedFrames) /\ Len(s) = n /\ queue' = queue \o s
      BY <1>6, <1>9, <1>17
    <2> HIDE DEF s
    <2>2. /\ Len(queue \o s) = Len(queue) + Len(s)
          /\ \A k \in 1 .. (Len(queue) + Len(s)) :
               (queue \o s)[k] = IF k <= Len(queue) THEN queue[k] ELSE s[k - Len(queue)]
      BY <2>1, ConcatProperties
    <2>3. Len(queue') = Len(queue) + n
      BY <2>1, <2>2
    <2>4. \A k \in 1 .. Len(queue') :
            queue'[k] = IF k <= Len(queue) THEN queue[k] ELSE s[k - Len(queue)]
      BY <2>1, <2>2
    <2> QED
      BY <2>3, <2>4 DEF s
  <1>19. \A k \in 1 .. n : Faithful(emitted(e)[k], out)
    <2> SUFFICES ASSUME NEW k \in 1 .. n PROVE Faithful(emitted(e)[k], out)
      OBVIOUS
    <2> DEFINE i == nextEmit + k - 1
    <2>1. i \in nextEmit .. (e - 1)
      BY <1>16
    <2>2. emitted(e)[k].index = i /\ emitted(e)[k].payload = spools[i].data
      BY <1>17
    <2> HIDE DEF i
    <2> QED
      BY <1>13, <2>1, <2>2 DEF Faithful
  <1>20. HeldByWorker' = HeldByWorker /\ HeldByWorker \in Nat
    BY <1>2 DEF HeldByWorker
  <1>21. InTransit'
    <2>1. /\ \A k \in 1 .. Len(queue) : queue[k] \in QueuedFrames
          /\ \A k \in 1 .. Len(sunk) : sunk[k] \in QueuedFrames
          /\ worker.frame \in QueuedFrames
      BY <1>1, ElementOfSeq DEF TypeOK
    <2>2. ASSUME NEW k \in 1 .. Len(queue') PROVE Faithful(queue'[k], output')
      <3>1. CASE k <= Len(queue)
        <4>1. k \in 1 .. Len(queue) /\ queue'[k] = queue[k]
          BY <1>6, <1>18, <3>1
        <4>2. Faithful(queue[k], output)
          BY <1>1, <4>1 DEF InTransit
        <4> QED
          BY <1>5, <2>1, <4>1, <4>2, FaithfulStays DEF FileKept
      <3>2. CASE ~ (k <= Len(queue))
        <4>1. k - Len(queue) \in 1 .. n /\ queue'[k] = emitted(e)[k - Len(queue)]
          BY <1>6, <1>15, <1>18, <3>2
        <4> QED
          BY <1>2, <1>19, <4>1
      <3> QED
        BY <3>1, <3>2
    <2>3. ASSUME NEW k \in 1 .. Len(sunk') PROVE Faithful(sunk'[k], output')
      BY <1>1, <1>2, <1>5, <2>1, FaithfulStays DEF InTransit, FileKept
    <2>4. ASSUME HeldByWorker' = 1 PROVE Faithful(worker'.frame, output')
      <3>1. Faithful(worker.frame, output)
        BY <1>1, <1>20, <2>4 DEF InTransit
      <3>2. Faithful(worker.frame, output')
        BY <1>5, <2>1, <3>1, FaithfulStays DEF FileKept
      <3> QED
        BY <1>2, <3>2
    <2> QED
      BY <2>2, <2>3, <2>4 DEF InTransit
  <1>22. InOrder'
    <2>1. ASSUME ~ worker.discard
          PROVE  /\ \A k \in 1 .. Len(queue') :
                      queue'[k].index = Len(sunk) + HeldByWorker + (k - 1)
                 /\ e = Len(sunk) + HeldByWorker + Len(queue')
      <3> DEFINE h == HeldByWorker
                 s == Len(sunk)
                 q == Len(queue)
      <3>1. nextEmit = s + h + q
        BY <1>1, <2>1 DEF InOrder
      <3>2. s \in Nat /\ h \in Nat /\ q \in Nat
        BY <1>6, <1>20
      <3>3. \A k \in 1 .. q : queue[k].index = s + h + (k - 1)
        BY <1>1, <2>1 DEF InOrder
      <3>4. e = nextEmit + n
        BY <1>6, <1>10 DEF n
      <3> HIDE DEF h, s, q
      <3>5. e = s + h + (q + n)
        BY <1>15, <3>1, <3>2, <3>4
      <3>6. ASSUME NEW k \in 1 .. (q + n)
            PROVE  queue'[k].index = s + h + (k - 1)
        <4>1. CASE k <= q
          <5>1. k \in 1 .. q /\ queue'[k] = queue[k]
            BY <1>15, <1>18, <3>2, <4>1 DEF q
          <5> QED
            BY <3>3, <5>1
        <4>2. CASE ~ (k <= q)
          <5>1. k - q \in 1 .. n /\ queue'[k] = emitted(e)[k - q]
            BY <1>15, <1>18, <3>2, <4>2 DEF q
          <5>2. emitted(e)[k - q].index = nextEmit + (k - q) - 1
            BY <1>17, <5>1
          <5> QED
            BY SMTT(30), <1>6, <3>1, <3>2, <5>1, <5>2
        <4> QED
          BY <4>1, <4>2
      <3> QED
        BY <1>18, <3>5, <3>6 DEF h, s, q
    <2> QED
      BY <1>1, <1>2, <1>9, <1>20, <2>1 DEF InOrder
  <1>23. Concluded'
    BY <1>1, <1>2, <1>12 DEF Concluded
  <1>24. CancelsAborted'
    BY <1>1, <1>2, <1>12 DEF CancelsAborted
  <1> QED
    BY <1>5, <1>14, <1>21, <1>22, <1>23, <1>24 DEF Content

\* WriteAt keeps the content on every path.
LEMMA WriteAtContent ==
  ASSUME ContentInv, WriteAt
  PROVE  Content' /\ FileKept
  <1>1. Inv /\ TypeOK /\ Reflected
    BY DEF ContentInv, Inv
  <1>2. PICK offset \in 0 .. ExpectedBytes, length \in 0 .. MaxWrite :
          \/ WritePlanFails(offset, length)
          \/ \E tag \in PayloadTags(offset, length) :
               \/ WriteAccepted(offset, length, tag)
               \/ \E written \in 0 .. MaxWrite :
                    WriteOutputFails(offset, length, tag, written)
    BY DEF WriteAt
  <1>3. offset \in Nat /\ length \in Nat /\ MaxWrite \in Nat
    BY ConfigAssumption DEF ExpectedBytes
  <1>4. PayloadTags(offset, length) \subseteq Tags
    BY ConfigAssumption DEF PayloadTags
  <1>5. CASE WritePlanFails(offset, length)
    <2>1. /\ AbortLocked(slots, allocated) /\ state = "open"
          /\ UNCHANGED <<nextEmit, queue, worker, sunk, caller, output>>
      BY <1>5 DEF WritePlanFails, FailLocked, Writable
    <2>2. FileKept
      BY <2>1 DEF FileKept
    <2> QED
      BY <2>1, <2>2, FailContent
  <1>6. ASSUME NEW tag \in PayloadTags(offset, length),
               WriteAccepted(offset, length, tag)
        PROVE  Content' /\ FileKept
    BY <1>3, <1>4, <1>6, WriteAcceptedContent
  <1>7. ASSUME NEW tag \in PayloadTags(offset, length), NEW written \in 0 .. MaxWrite,
               WriteOutputFails(offset, length, tag, written)
        PROVE  Content' /\ FileKept
    <2>1. /\ AbortLocked(slots, allocated) /\ state = "open"
          /\ PlanWrite(offset, length) = "ok" /\ written < length
          /\ UNCHANGED <<nextEmit, queue, worker, sunk, caller>>
          /\ output' = OutputAfter(offset, written, tag)
      BY <1>7 DEF WriteOutputFails, FailLocked, Writable
    <2>2. written \in Nat /\ written <= length
      BY <1>3, <2>1
    <2>3. FileKept
      BY <1>1, <1>3, <2>1, <2>2, OutputKept DEF FileKept
    <2> QED
      BY <2>1, <2>3, FailContent
  <1> QED
    BY <1>2, <1>5, <1>6, <1>7

\* runSink takes the frames in order and, once it has discarded one, delivers
\* no other.
LEMMA WorkerContent ==
  ASSUME ContentInv, WorkerStep \/ SinkReturns
  PROVE  Content'
  <1>1. /\ TypeOK /\ Reflected /\ InTransit /\ InOrder /\ Concluded /\ CancelsAborted
    BY DEF ContentInv, Inv
  <1>2. /\ queue \in Seq(QueuedFrames) /\ sunk \in Seq(QueuedFrames)
        /\ Len(queue) \in Nat /\ Len(sunk) \in Nat /\ nextEmit \in Nat
        /\ worker.frame \in QueuedFrames /\ worker.discard \in BOOLEAN
        /\ worker \in [pc : {"range", "check", "sink", "settle", "cancel", "exited"},
                       frame : QueuedFrames, discard : BOOLEAN]
    BY <1>1, LenProperties, ConfigAssumption DEF TypeOK
  <1>3. UNCHANGED <<nextEmit, output, writer, frameCount, sealedFrameCount, caller>>
    BY DEF WorkerStep, SinkReturns, WorkerReceive, WorkerCheck, WorkerDiscards, WorkerCancels,
           WorkerExits, SinkAccepts, SinkFails, writeVars
  <1>4. FileKept
    BY <1>3 DEF FileKept
  <1>5. worker.pc # "exited" /\ state # "sealed"
    <2>1. worker.pc # "exited"
      BY DEF WorkerStep, SinkReturns, WorkerReceive, WorkerCheck, WorkerDiscards, WorkerCancels,
             WorkerExits, SinkAccepts, SinkFails
    <2> QED
      BY <1>1, <2>1 DEF Concluded
  \* All steps but a failing sink leave state and slots alone.
  <1>6. ASSUME state' = state, slots' = slots PROVE Reflected'
    BY <1>1, <1>3, <1>4, <1>6, ReflectedStays
  <1>7. ASSUME state' = state, slots' = slots, delivered' = delivered, sunk' = sunk
        PROVE  Concluded'
    BY <1>1, <1>3, <1>5, <1>7 DEF Concluded
  <1>8. CASE WorkerReceive
    <2>1. /\ worker.pc = "range" /\ queue # <<>> /\ queue' = Tail(queue)
          /\ worker'.frame = Head(queue) /\ worker'.discard = worker.discard
          /\ worker'.pc = IF worker.discard THEN "settle" ELSE "check"
          /\ UNCHANGED <<state, slots, delivered, sunk, captureCancelled>>
      BY <1>2, <1>8 DEF WorkerReceive
    <2>2. /\ HeldByWorker = 0 /\ HeldByWorker' = 1
      BY <1>2, <2>1 DEF HeldByWorker
    <2>3. Len(queue) >= 1 /\ Head(queue) = queue[1] /\ Len(queue') = Len(queue) - 1
          /\ \A k \in 1 .. Len(queue') : queue'[k] = queue[k + 1] /\ k + 1 \in 1 .. Len(queue)
      <3>1. Len(queue) >= 1
        BY <1>2, <2>1, EmptySeq
      <3>2. Len(queue') = Len(queue) - 1 /\ Head(queue) = queue[1]
        BY <1>2, <2>1, HeadTailProperties
      <3>3. \A k \in 1 .. (Len(queue) - 1) : Tail(queue)[k] = queue[k + 1]
        BY <1>2, <2>1, HeadTailProperties
      <3> QED
        BY <1>2, <2>1, <3>1, <3>2, <3>3
    <2>4. InTransit'
      <3>1. \A k \in 1 .. Len(queue) : Faithful(queue[k], output)
        BY <1>1 DEF InTransit
      <3>2. \A k \in 1 .. Len(queue') : Faithful(queue'[k], output')
        BY <1>3, <2>3, <3>1
      <3>3. Faithful(worker'.frame, output')
        BY <1>2, <1>3, <2>1, <2>3, <3>1
      <3> QED
        BY <1>1, <1>3, <2>1, <3>2, <3>3 DEF InTransit
    <2>5. InOrder'
      <3>1. ASSUME ~ worker.discard
            PROVE  /\ worker'.frame.index = Len(sunk)
                   /\ \A k \in 1 .. Len(queue') : queue'[k].index = Len(sunk) + 1 + (k - 1)
                   /\ nextEmit = Len(sunk) + 1 + Len(queue')
        <4>1. \A k \in 1 .. Len(queue) : queue[k].index = Len(sunk) + 0 + (k - 1)
          BY <1>1, <2>2, <3>1 DEF InOrder
        <4>2. nextEmit = Len(sunk) + 0 + Len(queue)
          BY <1>1, <2>2, <3>1 DEF InOrder
        <4>3. worker'.frame.index = Len(sunk)
          BY <1>2, <2>1, <2>3, <4>1
        <4>4. ASSUME NEW k \in 1 .. Len(queue')
              PROVE  queue'[k].index = Len(sunk) + 1 + (k - 1)
          <5>1. queue[k + 1].index = Len(sunk) + 0 + ((k + 1) - 1)
            BY <2>3, <4>1
          <5>2. k \in Int
            OBVIOUS
          <5>3. Len(sunk) + 0 + ((k + 1) - 1) = Len(sunk) + 1 + (k - 1)
            BY <1>2, <5>2
          <5> QED
            BY <2>3, <5>1, <5>3
        <4>5. nextEmit = Len(sunk) + 1 + Len(queue')
          BY <1>2, <2>3, <4>2
        <4> QED
          BY <4>3, <4>4, <4>5
      <3> QED
        BY <1>1, <1>2, <1>3, <2>1, <2>2, <3>1 DEF InOrder
    <2>6. CancelsAborted'
      BY <1>1, <1>3, <2>1 DEF CancelsAborted
    <2> QED
      BY <1>6, <1>7, <2>1, <2>4, <2>5, <2>6 DEF Content
  <1>9. CASE WorkerCheck
    <2>1. /\ worker.pc = "check" /\ worker'.frame = worker.frame
          /\ worker'.discard \in BOOLEAN
          /\ worker'.pc = IF worker'.discard THEN "settle" ELSE "sink"
          /\ UNCHANGED <<state, slots, delivered, sunk, queue, captureCancelled>>
      BY <1>2, <1>9 DEF WorkerCheck
    <2>2. HeldByWorker = 1 /\ HeldByWorker' = 1 /\ ~ worker.discard
      BY <1>1, <1>2, <2>1 DEF HeldByWorker, InOrder
    <2>3. InTransit'
      BY <1>1, <1>4, <2>1, <2>2, InTransitStays
    <2>4. InOrder'
      BY <1>1, <1>2, <1>3, <2>1, <2>2 DEF InOrder
    <2>5. CancelsAborted'
      BY <1>1, <1>3, <2>1 DEF CancelsAborted
    <2> QED
      BY <1>6, <1>7, <2>1, <2>3, <2>4, <2>5 DEF Content
  <1>10. CASE WorkerDiscards \/ WorkerCancels
    <2>1. /\ worker.pc \in {"settle", "cancel"} /\ worker'.discard = worker.discard
          /\ worker'.pc = "range"
          /\ UNCHANGED <<state, slots, delivered, sunk, queue>>
          /\ worker.pc = "settle" => captureCancelled' = captureCancelled
      BY <1>2, <1>10 DEF WorkerDiscards, WorkerCancels
    <2>2. worker.discard /\ HeldByWorker' = 0
      BY <1>1, <1>2, <2>1 DEF HeldByWorker, InOrder
    <2>3. InTransit'
      BY <1>1, <1>4, <2>1, <2>2, InTransitStays
    <2>4. InOrder'
      BY <1>1, <1>2, <1>3, <2>1, <2>2 DEF InOrder
    <2>5. CancelsAborted'
      BY <1>1, <1>3, <2>1 DEF CancelsAborted
    <2> QED
      BY <1>6, <1>7, <2>1, <2>3, <2>4, <2>5 DEF Content
  <1>11. CASE WorkerExits
    <2>1. /\ worker.pc = "range" /\ worker'.discard = worker.discard
          /\ worker'.pc = "exited" /\ worker'.frame = worker.frame
          /\ UNCHANGED <<state, slots, delivered, sunk, queue, captureCancelled>>
      BY <1>2, <1>11 DEF WorkerExits
    <2>2. HeldByWorker = 0 /\ HeldByWorker' = 0
      BY <1>2, <2>1 DEF HeldByWorker
    <2>3. InTransit'
      BY <1>1, <1>4, <2>1, <2>2, InTransitStays
    <2>4. InOrder'
      BY <1>1, <1>2, <1>3, <2>1, <2>2 DEF InOrder
    <2>5. CancelsAborted'
      BY <1>1, <1>3, <2>1 DEF CancelsAborted
    <2> QED
      BY <1>6, <1>7, <2>1, <2>3, <2>4, <2>5 DEF Content
  <1>12. CASE SinkAccepts
    <2>1. /\ worker.pc = "sink" /\ worker'.discard = worker.discard
          /\ worker'.pc = "range" /\ sunk' = Append(sunk, worker.frame)
          /\ delivered' = IF state # "aborted" THEN delivered + 1 ELSE delivered
          /\ UNCHANGED <<state, slots, queue, captureCancelled>>
      BY <1>2, <1>12 DEF SinkAccepts
    <2>2. HeldByWorker = 1 /\ HeldByWorker' = 0 /\ ~ worker.discard
      BY <1>1, <1>2, <2>1 DEF HeldByWorker, InOrder
    <2>3. /\ Len(sunk') = Len(sunk) + 1
          /\ \A k \in 1 .. Len(sunk) : sunk'[k] = sunk[k]
          /\ sunk'[Len(sunk) + 1] = worker.frame
      BY <1>2, <2>1, AppendProperties
    <2>4. \A k \in 1 .. Len(sunk') : k \in 1 .. Len(sunk) \/ k = Len(sunk) + 1
      BY <1>2, <2>3
    <2>5. InTransit'
      <3>1. Faithful(worker.frame, output)
        BY <1>1, <2>2 DEF InTransit
      <3>2. \A k \in 1 .. Len(sunk) : Faithful(sunk[k], output)
        BY <1>1 DEF InTransit
      <3>3. \A k \in 1 .. Len(sunk') : Faithful(sunk'[k], output')
        BY <1>3, <2>3, <2>4, <3>1, <3>2
      <3>4. \A k \in 1 .. Len(queue') : Faithful(queue'[k], output')
        BY <1>1, <1>3, <2>1 DEF InTransit
      <3> QED
        BY <2>2, <3>3, <3>4 DEF InTransit
    <2>6. InOrder'
      <3>1. /\ worker.frame.index = Len(sunk)
            /\ \A k \in 1 .. Len(queue) : queue[k].index = Len(sunk) + 1 + (k - 1)
            /\ nextEmit = Len(sunk) + 1 + Len(queue)
        BY <1>1, <2>2 DEF InOrder
      <3>2. ASSUME NEW k \in 1 .. Len(sunk') PROVE sunk'[k].index = k - 1
        <4>1. CASE k \in 1 .. Len(sunk)
          BY <1>1, <2>3, <4>1 DEF InOrder
        <4>2. CASE k = Len(sunk) + 1
          BY <1>2, <2>3, <3>1, <4>2
        <4> QED
          BY <2>4, <4>1, <4>2
      <3>3. \A k \in 1 .. Len(queue') : queue'[k].index = Len(sunk') + 0 + (k - 1)
        <4> SUFFICES ASSUME NEW k \in 1 .. Len(queue)
                     PROVE  queue[k].index = Len(sunk') + 0 + (k - 1)
          BY <2>1
        <4>1. Len(sunk) + 1 + (k - 1) = Len(sunk') + 0 + (k - 1)
          BY <1>2, <2>3
        <4> QED
          BY <3>1, <4>1
      <3>4. nextEmit' = Len(sunk') + 0 + Len(queue')
        BY <1>2, <1>3, <2>1, <2>3, <3>1
      <3> QED
        BY <2>1, <2>2, <3>2, <3>3, <3>4 DEF InOrder
    <2>7. Concluded'
      BY <1>1, <1>2, <1>3, <1>5, <2>1, <2>3 DEF Concluded
    <2>8. CancelsAborted'
      BY <1>1, <1>3, <2>1 DEF CancelsAborted
    <2> QED
      BY <1>6, <2>1, <2>5, <2>6, <2>7, <2>8 DEF Content
  <1>13. CASE SinkFails
    <2>1. /\ worker.pc = "sink" /\ worker'.discard = TRUE
          /\ worker'.pc \in {"range", "cancel"}
          /\ UNCHANGED <<delivered, sunk, queue, captureCancelled>>
      BY <1>2, <1>13 DEF SinkFails
    <2>2. HeldByWorker' = 0
      BY <2>1 DEF HeldByWorker
    <2>3. state' = "aborted" /\ DOMAIN slots' \subseteq DOMAIN slots
      <3>1. CASE state # "aborted"
        <4>1. AbortLocked(slots, allocated - 1)
          BY <1>13, <3>1 DEF SinkFails, FailLocked
        <4> QED
          BY <1>5, <3>1, <4>1, AbortLockedEffect
      <3>2. CASE state = "aborted"
        BY <1>13, <3>2 DEF SinkFails
      <3> QED
        BY <3>1, <3>2
    <2>4. Reflected'
      BY <1>1, <1>3, <1>4, <2>3, ReflectedStays
    <2>5. InTransit'
      BY <1>1, <1>4, <2>1, <2>2, InTransitStays
    <2>6. InOrder'
      BY <1>1, <2>1 DEF InOrder
    <2>7. Concluded'
      BY <1>1, <1>3, <1>5, <2>3 DEF Concluded
    <2>8. CancelsAborted'
      BY <2>3 DEF CancelsAborted
    <2> QED
      BY <2>4, <2>5, <2>6, <2>7, <2>8 DEF Content
  <1> QED
    BY <1>8, <1>9, <1>10, <1>11, <1>12, <1>13 DEF WorkerStep, SinkReturns

\* Seal and Abort move no frame; Seal succeeds only when every emitted frame has
\* been delivered, and whoever fails it has aborted the mirror.
LEMMA CallerContent ==
  ASSUME ContentInv, NEW c \in Callers,
         SealOpen(c) \/ SealAgain(c) \/ SealWaits(c) \/ Abort(c) \/ CallerCancels(c)
  PROVE  Content'
  <1>1. /\ TypeOK /\ Reflected /\ InTransit /\ InOrder /\ Concluded /\ CancelsAborted
    BY DEF ContentInv, Inv
  <1>2. UNCHANGED <<frameCount, nextEmit, delivered, queue, worker, output, writer, sunk>>
    BY DEF SealOpen, SealAgain, SealWaits, SealDone, SealDeadline, Abort, CallerCancels, writeVars
  <1>3. FileKept
    BY <1>2 DEF FileKept
  <1>4. caller \in [Callers -> {"idle", "wait", "cancel", "cancelSink", "sealed", "failed"}]
    BY <1>1 DEF TypeOK
  <1>5. ASSUME NEW r, Returns(c, r)
        PROVE  \A d \in Callers : caller'[d] = IF d = c THEN r ELSE caller[d]
    BY <1>4, <1>5 DEF Returns
  \* Steps that leave the spools alone.
  <1>6. ASSUME slots' = slots, state' # "aborted" => state # "aborted", Concluded', CancelsAborted'
        PROVE  Content'
    <2>1. Reflected'
      BY <1>1, <1>2, <1>3, <1>6, ReflectedStays
    <2>2. HeldByWorker' = HeldByWorker
      BY <1>2 DEF HeldByWorker
    <2>3. InTransit'
      BY <1>1, <1>2, <1>3, <2>2, InTransitStays
    <2>4. InOrder'
      BY <1>1, <1>2, <2>2 DEF InOrder
    <2> QED
      BY <1>6, <2>1, <2>3, <2>4 DEF Content
  \* Steps that change no more than what a caller has got.
  <1>7. ASSUME UNCHANGED <<slots, state, sealedFrameCount, captureCancelled>>,
               NEW r, Returns(c, r), r = "sealed" => state = "sealed", r # "cancel"
        PROVE  Content'
    <2>1. \A d \in Callers : caller'[d] = IF d = c THEN r ELSE caller[d]
      BY <1>5, <1>7
    <2>2. Concluded'
      BY <1>1, <1>2, <1>7, <2>1 DEF Concluded
    <2>3. CancelsAborted'
      BY <1>1, <1>2, <1>7, <2>1 DEF CancelsAborted
    <2> QED
      BY <1>6, <1>7, <2>2, <2>3
  \* Steps that fail or abort the mirror.
  <1>8. ASSUME AbortLocked(slots, allocated), state # "sealed", Returns(c, "cancel")
        PROVE  Content'
    <2>1. \A d \in Callers : caller'[d] = "sealed" => caller[d] = "sealed"
      BY <1>5, <1>8
    <2> QED
      BY <1>2, <1>3, <1>8, <2>1, FailContent
  <1>9. CASE SealOpen(c)
    <2>1. CASE SealReady
      <3>1. /\ state = "open" /\ state' = "sealing" /\ sealedFrameCount' = SealTarget
            /\ Returns(c, "wait") /\ UNCHANGED <<slots, captureCancelled>>
            /\ nextEmit = SealTarget /\ SealTarget # 0 /\ DOMAIN slots = {}
        BY <1>9, <2>1 DEF SealOpen, SealReady
      <3>2. \A d \in Callers : caller'[d] = IF d = c THEN "wait" ELSE caller[d]
        BY <1>5, <3>1
      <3>3. nextEmit > 0 /\ (frameCount # 0 => nextEmit = frameCount)
        <4>1. nextEmit \in Nat
          BY <1>1, ConfigAssumption DEF TypeOK
        <4> QED
          BY <3>1, <4>1 DEF SealTarget
      <3>4. Concluded'
        BY <1>1, <1>2, <3>1, <3>2, <3>3 DEF Concluded
      <3>5. CancelsAborted'
        BY <1>1, <1>2, <3>1, <3>2 DEF CancelsAborted
      <3> QED
        BY <1>6, <3>1, <3>4, <3>5
    <2>2. CASE ~ SealReady
      BY <1>8, <1>9, <2>2 DEF SealOpen, FailLocked
    <2> QED
      BY <2>1, <2>2
  <1>10. CASE SealAgain(c)
    <2>1. /\ UNCHANGED <<slots, state, sealedFrameCount, captureCancelled>>
          /\ state \in {"sealed", "aborted", "sealing"}
      BY <1>1, <1>10 DEF SealAgain, TypeOK
    <2>2. \E r \in {"sealed", "failed", "wait"} : Returns(c, r) /\ (r = "sealed" => state = "sealed")
      BY <1>10, <2>1 DEF SealAgain
    <2> QED
      BY <1>7, <2>1, <2>2
  <1>11. CASE SealDone(c)
    <2>0. UNCHANGED <<sealedFrameCount, captureCancelled>> /\ worker.pc = "exited"
      BY <1>11 DEF SealDone
    <2>1. CASE state # "sealing"
      <3>1. UNCHANGED <<slots, state>>
        BY <1>11, <2>1 DEF SealDone
      <3>2. Returns(c, IF state = "sealed" THEN "sealed" ELSE "failed")
        BY <1>11, <2>1 DEF SealDone
      <3> QED
        BY <1>7, <2>0, <3>1, <3>2
    <2>2. CASE state = "sealing" /\ failure # "nil"
      <3>1. state' = "aborted" /\ Returns(c, "cancelSink") /\ slots' = slots
        BY <1>11, <2>2 DEF SealDone
      <3>2. \A d \in Callers : caller'[d] = IF d = c THEN "cancelSink" ELSE caller[d]
        BY <1>5, <3>1
      <3>3. Concluded'
        BY <1>1, <2>2, <3>1, <3>2 DEF Concluded
      <3>4. CancelsAborted'
        BY <3>1 DEF CancelsAborted
      <3> QED
        BY <1>6, <3>1, <3>3, <3>4
    <2>3. CASE state = "sealing" /\ failure = "nil" /\ (delivered # sealedFrameCount \/ allocated # 0)
      BY <1>8, <1>11, <2>3 DEF SealDone, FailLocked
    <2>4. CASE state = "sealing" /\ failure = "nil" /\ ~ (delivered # sealedFrameCount \/ allocated # 0)
      <3>1. state' = "sealed" /\ Returns(c, "cancelSink") /\ slots' = slots
        BY <1>11, <2>4 DEF SealDone
      <3>2. \A d \in Callers : caller'[d] = IF d = c THEN "cancelSink" ELSE caller[d]
        BY <1>5, <3>1
      <3>3. Concluded'
        BY <1>1, <1>2, <2>0, <2>4, <3>1, <3>2 DEF Concluded
      <3>4. CancelsAborted'
        BY <1>1, <1>2, <2>0, <2>4, <3>1, <3>2 DEF CancelsAborted
      <3> QED
        BY <1>6, <2>4, <3>1, <3>3, <3>4
    <2> QED
      BY <2>1, <2>2, <2>3, <2>4
  <1>12. CASE SealDeadline(c)
    <2>0. UNCHANGED <<sealedFrameCount, captureCancelled>>
      BY <1>12 DEF SealDeadline
    <2>1. CASE state \in {"sealed", "aborted"}
      <3>1. UNCHANGED <<slots, state>>
        BY <1>12, <2>1 DEF SealDeadline
      <3>2. Returns(c, IF state = "sealed" THEN "sealed" ELSE "failed")
        BY <1>12, <2>1 DEF SealDeadline
      <3> QED
        BY <1>7, <2>0, <3>1, <3>2
    <2>2. CASE state \notin {"sealed", "aborted"}
      BY <1>8, <1>12, <2>2 DEF SealDeadline, FailLocked
    <2> QED
      BY <2>1, <2>2
  <1>13. CASE Abort(c)
    BY <1>8, <1>13 DEF Abort
  <1>14. CASE CallerCancels(c)
    <2>1. /\ UNCHANGED <<slots, state, sealedFrameCount>>
          /\ captureCancelled' = (captureCancelled \/ caller[c] = "cancel")
      BY <1>14 DEF CallerCancels
    <2>2. Returns(c, IF state = "sealed" THEN "sealed" ELSE "failed")
      BY <1>14 DEF CallerCancels
    <2>3. \A d \in Callers :
            caller'[d] = IF d = c THEN IF state = "sealed" THEN "sealed" ELSE "failed" ELSE caller[d]
      BY <1>5, <2>2
    <2>4. Concluded'
      BY <1>1, <1>2, <2>1, <2>3 DEF Concluded
    <2>5. CancelsAborted'
      BY <1>1, <1>2, <2>1, <2>3 DEF CancelsAborted
    <2> QED
      BY <1>6, <2>1, <2>4, <2>5
  <1> QED
    BY <1>9, <1>10, <1>11, <1>12, <1>13, <1>14 DEF SealWaits

\* A mirror starts with nothing in the file, the spool, the channel or the sink.
LEMMA InitContent == Init => ContentInv
  <1> SUFFICES ASSUME Init PROVE ContentInv
    OBVIOUS
  <1>1. Inv
    BY InitInv
  <1>2. Reflected
    <2>1. DOMAIN slots = {} /\ nextEmit = 0
      BY DEF Init, NoSlots
    <2>2. ASSUME NEW i \in Frames PROVE Mirrors(SpoolAt(i), i, output) /\ ~ (i < nextEmit)
      <3>1. SpoolAt(i) = EmptySpool
        BY <2>1 DEF SpoolAt
      <3>2. CoveredBytes({}) = {}
        BY DEF CoveredBytes
      <3>3. \A u \in FrameOffsets : output[i * FrameBytes + u] = None
        BY FrameInCapture DEF Init
      <3>4. Mirrors(EmptySpool, i, output)
        BY <3>2, <3>3 DEF Mirrors, EmptySpool
      <3>5. ~ (i < nextEmit)
        BY <2>1, FrameInCapture
      <3> QED
        BY <3>1, <3>4, <3>5
    <2> QED
      BY <2>1, <2>2 DEF Reflected
  <1>3. queue = <<>> /\ sunk = <<>> /\ Len(queue) = 0 /\ Len(sunk) = 0 /\ HeldByWorker = 0
    BY EmptySeq DEF Init, HeldByWorker
  <1>4. \A k \in 1 .. 0 : FALSE
    OBVIOUS
  <1>5. InTransit
    BY <1>3, <1>4 DEF InTransit
  <1>6. InOrder
    BY <1>3, <1>4 DEF InOrder, Init
  <1>7. Concluded
    BY <1>3 DEF Concluded, Init
  <1>8. CancelsAborted
    BY DEF CancelsAborted, Init
  <1> QED
    BY <1>1, <1>2, <1>5, <1>6, <1>7, <1>8 DEF ContentInv

\* Every step of every thread keeps spool, channel, sink and file in agreement,
\* and no byte of the file is written twice.
LEMMA NextContent ==
  ASSUME ContentInv, [Next]_vars
  PROVE  ContentInv' /\ FileKept
  <1>1. Inv'
    BY NextInv DEF ContentInv
  <1>2. /\ TypeOK /\ Reflected /\ InTransit /\ InOrder /\ Concluded /\ CancelsAborted
    BY DEF ContentInv, Inv
  <1>3. Content' /\ Inv' => ContentInv'
    BY DEF Content, ContentInv
  \* Steps that leave everything but the writer and the two cancellations alone.
  <1>4. ASSUME UNCHANGED <<frameCount, state, slots, nextEmit, delivered, sealedFrameCount,
                           queue, worker, caller, output, sunk>>,
               CancelsAborted'
        PROVE  Content' /\ FileKept
    <2>1. FileKept
      BY <1>4 DEF FileKept
    <2>2. Reflected'
      BY <1>2, <1>4, <2>1, ReflectedStays
    <2>3. HeldByWorker' = HeldByWorker
      BY <1>4 DEF HeldByWorker
    <2>4. InTransit'
      BY <1>2, <1>4, <2>1, <2>3, InTransitStays
    <2>5. InOrder'
      BY <1>2, <1>4, <2>3 DEF InOrder
    <2>6. Concluded'
      BY <1>2, <1>4 DEF Concluded
    <2> QED
      BY <1>4, <2>1, <2>2, <2>4, <2>5, <2>6 DEF Content
  <1>5. CASE WriteRefused
    <2>1. CancelsAborted'
      BY <1>2, <1>5 DEF CancelsAborted, WriteRefused
    <2> QED
      BY <1>1, <1>3, <1>4, <1>5, <2>1 DEF WriteRefused
  <1>6. CASE WriteAt
    BY <1>1, <1>3, <1>6, WriteAtContent
  <1>7. CASE WriterCancels
    <2>1. CancelsAborted'
      BY <1>2, <1>7 DEF CancelsAborted, WriterCancels
    <2> QED
      BY <1>1, <1>3, <1>4, <1>7, <2>1 DEF WriterCancels
  <1>8. CASE WorkerStep \/ SinkReturns
    <2>1. output' = output
      BY <1>8 DEF WorkerStep, SinkReturns, WorkerReceive, WorkerCheck, WorkerDiscards,
                  WorkerCancels, WorkerExits, SinkAccepts, SinkFails, writeVars
    <2> QED
      BY <1>1, <1>3, <1>8, <2>1, WorkerContent DEF FileKept
  <1>9. ASSUME NEW c \in Callers,
               SealOpen(c) \/ SealAgain(c) \/ SealWaits(c) \/ Abort(c) \/ CallerCancels(c)
        PROVE  ContentInv' /\ FileKept
    <2>1. output' = output
      BY <1>9 DEF SealOpen, SealAgain, SealWaits, SealDone, SealDeadline, Abort,
                  CallerCancels, writeVars
    <2> QED
      BY <1>1, <1>3, <1>9, <2>1, CallerContent DEF FileKept
  <1>10. CASE UNCHANGED vars
    <2>1. CancelsAborted'
      BY <1>2, <1>10 DEF CancelsAborted, vars
    <2> QED
      BY <1>1, <1>3, <1>4, <1>10, <2>1 DEF vars
  <1> QED
    BY <1>5, <1>6, <1>7, <1>8, <1>9, <1>10 DEF Next

\* The content of the mirror is as the invariant says in every reachable state.
LEMMA ContentInvariance == Spec => []ContentInv
  BY InitContent, NextContent, PTL DEF Spec

\* The sink gets frames 0, 1, 2, ... complete and byte for byte what the file
\* holds, whatever the order of packets, deliveries, failures and aborts.
THEOREM DeliveryExact == Spec => []DeliveryMatchesOutput
  <1>1. ASSUME ContentInv PROVE DeliveryMatchesOutput
    <2> SUFFICES ASSUME NEW k \in 1 .. Len(sunk)
                 PROVE  /\ sunk[k].index = k - 1
                        /\ \A u \in FrameOffsets :
                             /\ sunk[k].payload[u] # None
                             /\ sunk[k].payload[u] = output[(k - 1) * FrameBytes + u]
      BY DEF DeliveryMatchesOutput
    <2>1. sunk[k].index = k - 1
      BY <1>1 DEF ContentInv, InOrder
    <2>2. Faithful(sunk[k], output)
      BY <1>1 DEF ContentInv, InTransit
    <2> QED
      BY <2>1, <2>2 DEF Faithful
  <1> QED
    BY <1>1, ContentInvariance, PTL

\* When Seal returns nil the sink has every frame of the capture, the file holds
\* those frames and nothing else, and nobody was told to cancel the capture.
THEOREM SealExact == Spec => []SealedIsExact
  <1>1. ASSUME ContentInv PROVE SealedIsExact
    <2>1. TypeOK /\ Reflected /\ Concluded /\ CancelsAborted
      BY <1>1 DEF ContentInv, Inv
    <2>2. ASSUME state = "sealed"
          PROVE  /\ Len(sunk) = sealedFrameCount
                 /\ sealedFrameCount = delivered
                 /\ sealedFrameCount > 0
                 /\ frameCount # 0 => sealedFrameCount = frameCount
                 /\ ~ captureCancelled
      BY <2>1, <2>2 DEF Concluded, CancelsAborted
    <2>3. ASSUME state = "sealed", NEW b \in DOMAIN output
          PROVE  output[b] # None <=> b < sealedFrameCount * FrameBytes
      <3>1. b \in 0 .. (ExpectedBytes - 1)
        BY <2>1 DEF TypeOK
      <3>2. PICK i \in Frames, u \in FrameOffsets : b = i * FrameBytes + u
        BY <3>1, ByteInFrame
      <3> DEFINE base == i * FrameBytes
                 limit == nextEmit * FrameBytes
      <3>3. /\ FrameBytes \in Nat \ {0} /\ nextEmit \in Nat /\ limit \in Nat
            /\ u \in Nat /\ u < FrameBytes
        BY <2>1, ConfigAssumption DEF TypeOK, FrameOffsets
      <3>4. i \in Nat /\ base \in Nat /\ (i + 1) * FrameBytes = base + FrameBytes
        BY FrameInCapture
      <3>5. sealedFrameCount = nextEmit /\ DOMAIN slots = {}
        BY <2>1, <2>3 DEF Concluded
      <3>6. CASE i < nextEmit
        <4>1. output[b] # None
          BY <2>1, <3>2, <3>6 DEF Reflected, Filled
        <4>2. base + FrameBytes <= limit
          BY <3>3, <3>4, <3>6, FrameMonotonic
        <4> HIDE DEF base, limit
        <4>3. base + u < limit
          BY <3>3, <3>4, <4>2
        <4> QED
          BY <3>2, <3>5, <4>1, <4>3 DEF base, limit
      <3>7. CASE i >= nextEmit
        <4>1. Mirrors(EmptySpool, i, output)
          BY <2>1, <2>3, <3>5, <3>7 DEF Reflected, SpoolAt
        <4>2. u \notin CoveredBytes(EmptySpool.ranges)
          BY DEF CoveredBytes, EmptySpool
        <4>3. output[b] = None
          BY <3>2, <4>1, <4>2 DEF Mirrors
        <4>4. limit <= base
          BY <3>3, <3>4, <3>7, FrameMonotonic
        <4> HIDE DEF base, limit
        <4>5. ~ (base + u < limit)
          BY <3>3, <3>4, <4>4
        <4> QED
          BY <3>2, <3>5, <4>3, <4>5 DEF base, limit
      <3> QED
        BY <3>3, <3>4, <3>6, <3>7
    <2>4. \A c \in Callers : caller[c] = "sealed" => state = "sealed"
      BY <2>1 DEF Concluded
    <2> QED
      BY <2>2, <2>3, <2>4 DEF SealedIsExact
  <1> QED
    BY <1>1, ContentInvariance, PTL

\* No step of the mirror changes a byte that is already in the file.
THEOREM NeverRewritten == Spec => OutputNeverRewritten
  <1>1. ASSUME ContentInv, [Next]_vars
        PROVE  [\A b \in DOMAIN output : output[b] # None => output'[b] = output[b]]_output
    <2>1. FileKept
      BY <1>1, NextContent
    <2>2. DOMAIN output = 0 .. (ExpectedBytes - 1)
      BY <1>1 DEF ContentInv, Inv, TypeOK
    <2> QED
      BY <2>1, <2>2 DEF FileKept
  <1> QED
    BY <1>1, ContentInvariance, PTL DEF Spec, OutputNeverRewritten

-----------------------------------------------------------------------------
(* The contract.  Every critical section is one step of MirrorContract or  *)
(* none at all.                                                            *)

\* The frame in the worker's hands before the sink answers is the next one, it
\* is whole in the file and it is what the file holds.
LEMMA HeldFrame ==
  ASSUME ContentInv, worker.pc \in {"check", "sink"}
  PROVE  /\ Len(sunk) \in Frames
         /\ Contract!WholeInFile(Len(sunk))
         /\ worker.frame = Contract!FrameInFile(Len(sunk))
  <1>1. TypeOK /\ InTransit /\ InOrder
    BY DEF ContentInv, Inv
  <1>2. HeldByWorker = 1 /\ ~ worker.discard
    BY <1>1 DEF HeldByWorker, InOrder
  <1>3. worker.frame \in QueuedFrames
    BY <1>1 DEF TypeOK
  <1>4. worker.frame.index = Len(sunk) /\ Faithful(worker.frame, output)
    BY <1>1, <1>2 DEF InOrder, InTransit
  <1> DEFINE k == Len(sunk)
             held == [u \in FrameOffsets |-> output[k * FrameBytes + u]]
  <1>5. k \in Frames
    BY <1>3, <1>4 DEF QueuedFrames
  <1>6. \A u \in FrameOffsets :
          output[k * FrameBytes + u] # None /\ worker.frame.payload[u] = held[u]
    BY <1>4 DEF Faithful
  <1>7. worker.frame.payload = held
    BY <1>3, <1>6 DEF QueuedFrames, Payloads
  <1>8. worker.frame = [index |-> k, payload |-> held]
    BY <1>3, <1>4, <1>7 DEF QueuedFrames
  <1> QED
    BY <1>5, <1>6, <1>8 DEF Contract!WholeInFile, Contract!FrameInFile, FrameOffsets

\* A live mirror is open or sealing, and a mirror whose worker has a frame in
\* hand is not sealed.
LEMMA StatusFacts ==
  ASSUME ContentInv
  PROVE  /\ state \in {"open", "sealing"} <=> Status = "live"
         /\ state = "sealed" <=> Status = "sealed"
         /\ state = "aborted" <=> Status = "aborted"
         /\ worker.pc # "exited" => state # "sealed"
  <1>1. state \in {"open", "sealing", "sealed", "aborted"} /\ Concluded
    BY DEF ContentInv, Inv, TypeOK
  <1> QED
    BY <1>1 DEF Status, Concluded

\* What the contract calls an abort.
LEMMA AbortIsContract ==
  ASSUME ContentInv, NEW spools, NEW alloc, AbortLocked(spools, alloc),
         UNCHANGED <<frameCount, output, worker, sunk>>
  PROVE  Contract!Aborts \/ UNCHANGED Contract!cvars
  <1>1. Offered' = Offered
    BY DEF Offered
  <1>2. CASE state \in {"sealed", "aborted"}
    <2>1. Status' = Status
      BY <1>2, AbortLockedEffect DEF Status
    <2> QED
      BY <1>1, <2>1 DEF Contract!cvars
  <1>3. CASE state \notin {"sealed", "aborted"}
    <2>1. state' = "aborted"
      BY <1>3, AbortLockedEffect
    <2>2. Status = "live" /\ Status' = "aborted"
      BY <1>3, <2>1, StatusFacts DEF Status, ContentInv, Inv, TypeOK
    <2> QED
      BY <1>1, <2>2 DEF Contract!Aborts
  <1> QED
    BY <1>2, <1>3

\* WriteAt adds to the file, or aborts, or both.
LEMMA WriteIsContract ==
  ASSUME ContentInv, ContentInv', FileKept, WriteAt
  PROVE  Contract!Writes
  <1>1. state = "open" /\ state' \in {"open", "aborted"}
    <2>1. state = "open"
      BY DEF WriteAt, WritePlanFails, WriteAccepted, WriteOutputFails, Writable
    <2>2. ASSUME NEW offset, NEW length, WritePlanFails(offset, length)
          PROVE  state' = "aborted"
      <3>1. AbortLocked(slots, allocated)
        BY <2>2 DEF WritePlanFails, FailLocked
      <3> QED
        BY <2>1, <3>1, AbortLockedEffect
    <2>3. ASSUME NEW offset, NEW length, NEW tag, NEW written,
                 WriteOutputFails(offset, length, tag, written)
          PROVE  state' = "aborted"
      <3>1. AbortLocked(slots, allocated)
        BY <2>3 DEF WriteOutputFails, FailLocked
      <3> QED
        BY <2>1, <3>1, AbortLockedEffect
    <2>4. ASSUME NEW offset, NEW length, NEW tag, WriteAccepted(offset, length, tag)
          PROVE  state' \in {"open", "aborted"}
      <3>1. CASE state' = state
        BY <2>1, <3>1
      <3>2. CASE state' # state
        <4>1. PICK spools, alloc : AbortLocked(spools, alloc)
          BY <2>4, <3>2, Zenon DEF WriteAccepted, FailLocked
        <4> QED
          BY <2>1, <4>1, AbortLockedEffect
      <3> QED
        BY <3>1, <3>2
    <2> QED
      BY <2>1, <2>2, <2>3, <2>4, Zenon DEF WriteAt
  <1>2. UNCHANGED <<frameCount, worker, sunk>>
    BY DEF WriteAt, WritePlanFails, WriteAccepted, WriteOutputFails
  <1>3. DOMAIN output = 0 .. (ExpectedBytes - 1) /\ DOMAIN output' = 0 .. (ExpectedBytes - 1)
    BY DEF ContentInv, Inv, TypeOK
  <1>4. Status = "live" /\ Status' \in {"live", "aborted"} /\ Offered' = Offered
    BY <1>1, <1>2 DEF Status, Offered
  <1> QED
    BY <1>2, <1>3, <1>4 DEF Contract!Writes, FileKept

\* The worker offers the next frame, and the sink answers for it.
LEMMA WorkerIsContract ==
  ASSUME ContentInv, WorkerStep \/ SinkReturns
  PROVE  Contract!CNext \/ UNCHANGED Contract!cvars
  <1>0. frameCount' = frameCount /\ output' = output
    BY DEF WorkerStep, SinkReturns, WorkerReceive, WorkerCheck, WorkerDiscards,
           WorkerCancels, WorkerExits, SinkAccepts, SinkFails, writeVars
  <1>1. worker \in [pc : {"range", "check", "sink", "settle", "cancel", "exited"},
                    frame : QueuedFrames, discard : BOOLEAN]
    BY DEF ContentInv, Inv, TypeOK
  <1>2. CASE WorkerReceive \/ WorkerDiscards \/ WorkerCancels \/ WorkerExits
    <2>1. state' = state /\ sunk' = sunk
      BY <1>2 DEF WorkerReceive, WorkerDiscards, WorkerCancels, WorkerExits
    <2>2. ~ Offered /\ ~ Offered'
      BY <1>1, <1>2 DEF Offered, WorkerReceive, WorkerDiscards, WorkerCancels, WorkerExits
    <2>3. Offered' = Offered /\ Status' = Status
      BY <2>1, <2>2 DEF Status, Offered
    <2> QED
      BY <1>0, <2>1, <2>3 DEF Contract!cvars
  <1>3. CASE WorkerCheck
    <2>1. state' = state /\ sunk' = sunk /\ worker.pc = "check" /\ Status' = Status
      BY <1>3 DEF WorkerCheck, Status
    <2>2. CASE worker'.pc = "sink"
      <3>1. state # "aborted"
        BY <1>1, <1>3, <2>2 DEF WorkerCheck
      <3>2. Status = "live"
        BY <2>1, <3>1, StatusFacts DEF ContentInv, Inv, TypeOK
      <3>3. Len(sunk) \in Frames /\ Contract!WholeInFile(Len(sunk))
        BY <2>1, HeldFrame
      <3>4. Len(sunk) < FrameLimit
        BY <3>3, ConfigAssumption DEF Frames
      <3>5. Offered = FALSE /\ Offered' = TRUE
        BY <2>1, <2>2 DEF Offered
      <3>6. Contract!Offers
        BY <1>0, <2>1, <3>2, <3>3, <3>4, <3>5 DEF Contract!Offers
      <3> QED
        BY <3>6 DEF Contract!CNext
    <2>3. CASE worker'.pc # "sink"
      <3>1. Offered' = Offered
        BY <2>1, <2>3 DEF Offered
      <3> QED
        BY <1>0, <2>1, <3>1 DEF Contract!cvars
    <2> QED
      BY <2>2, <2>3
  <1>4. CASE SinkAccepts
    <2>1. /\ worker.pc = "sink" /\ worker'.pc = "range" /\ state' = state
          /\ sunk' = Append(sunk, worker.frame)
      BY <1>1, <1>4 DEF SinkAccepts
    <2>2. worker.frame = Contract!FrameInFile(Len(sunk))
      BY <2>1, HeldFrame
    <2>3. Offered = TRUE /\ Offered' = FALSE /\ Status' = Status
      BY <2>1 DEF Offered, Status
    <2>4. Contract!Accepts
      BY <1>0, <2>1, <2>2, <2>3 DEF Contract!Accepts
    <2> QED
      BY <2>4 DEF Contract!CNext
  <1>5. CASE SinkFails
    <2>1. worker.pc = "sink" /\ worker'.pc # "sink" /\ sunk' = sunk
      BY <1>1, <1>5 DEF SinkFails
    <2>2. state # "sealed"
      BY <2>1, StatusFacts
    <2>3. state' = "aborted"
      <3>1. CASE state = "aborted"
        BY <1>5, <3>1 DEF SinkFails
      <3>2. CASE state # "aborted"
        <4>1. AbortLocked(slots, allocated - 1)
          BY <1>5, <3>2 DEF SinkFails, FailLocked
        <4> QED
          BY <2>2, <3>2, <4>1, AbortLockedEffect
      <3> QED
        BY <3>1, <3>2
    <2>4. Offered = TRUE /\ Offered' = FALSE /\ Status' = "aborted"
      BY <2>1, <2>3 DEF Offered, Status
    <2>5. Contract!Rejects
      BY <1>0, <2>1, <2>4 DEF Contract!Rejects
    <2> QED
      BY <2>5 DEF Contract!CNext
  <1> QED
    BY <1>2, <1>3, <1>4, <1>5 DEF WorkerStep, SinkReturns

\* Seal and Abort seal, abort or leave the stream as it is.
LEMMA CallerIsContract ==
  ASSUME ContentInv, SealedIsExact', NEW c \in Callers,
         SealOpen(c) \/ SealAgain(c) \/ SealWaits(c) \/ Abort(c) \/ CallerCancels(c)
  PROVE  Contract!CNext \/ UNCHANGED Contract!cvars
  <1>0. UNCHANGED <<frameCount, output, worker, sunk>>
    BY DEF SealOpen, SealAgain, SealWaits, SealDone, SealDeadline, Abort,
           CallerCancels, writeVars
  <1>1. Offered' = Offered
    BY <1>0 DEF Offered
  <1>2. ASSUME Status' = Status PROVE UNCHANGED Contract!cvars
    BY <1>0, <1>1, <1>2 DEF Contract!cvars
  <1>3. ASSUME AbortLocked(slots, allocated)
        PROVE  Contract!CNext \/ UNCHANGED Contract!cvars
    BY <1>0, <1>3, AbortIsContract DEF Contract!CNext
  <1>4. CASE SealOpen(c)
    <2>1. CASE SealReady
      <3>1. Status' = Status
        BY <1>4, <2>1 DEF SealOpen, Status
      <3> QED
        BY <1>2, <3>1
    <2>2. CASE ~ SealReady
      BY <1>3, <1>4, <2>2 DEF SealOpen, FailLocked
    <2> QED
      BY <2>1, <2>2
  <1>5. CASE SealAgain(c) \/ CallerCancels(c)
    <2>1. Status' = Status
      BY <1>5 DEF SealAgain, CallerCancels, Status
    <2> QED
      BY <1>2, <2>1
  <1>6. CASE Abort(c)
    BY <1>3, <1>6 DEF Abort
  <1>7. CASE SealDeadline(c)
    <2>1. CASE state \in {"sealed", "aborted"}
      <3>1. Status' = Status
        BY <1>7, <2>1 DEF SealDeadline, Status
      <3> QED
        BY <1>2, <3>1
    <2>2. CASE state \notin {"sealed", "aborted"}
      BY <1>3, <1>7, <2>2 DEF SealDeadline, FailLocked
    <2> QED
      BY <2>1, <2>2
  <1>8. CASE SealDone(c)
    <2>1. CASE state # "sealing"
      <3>1. Status' = Status
        BY <1>8, <2>1 DEF SealDone, Status
      <3> QED
        BY <1>2, <3>1
    <2>2. CASE state = "sealing" /\ failure # "nil"
      <3>1. Status = "live" /\ Status' = "aborted"
        BY <1>8, <2>2 DEF SealDone, Status
      <3>2. Contract!Aborts
        BY <1>0, <1>1, <3>1 DEF Contract!Aborts
      <3> QED
        BY <3>2 DEF Contract!CNext
    <2>3. CASE /\ state = "sealing" /\ failure = "nil"
               /\ delivered # sealedFrameCount \/ allocated # 0
      BY <1>3, <1>8, <2>3 DEF SealDone, FailLocked
    <2>4. CASE /\ state = "sealing" /\ failure = "nil"
               /\ delivered = sealedFrameCount /\ allocated = 0
      <3>1. state' = "sealed" /\ worker.pc = "exited"
        BY <1>8, <2>4 DEF SealDone
      <3>2. Status = "live" /\ Status' = "sealed" /\ ~ Offered
        BY <2>4, <3>1 DEF Status, Offered
      <3>3. /\ Len(sunk) > 0
            /\ frameCount # 0 => Len(sunk) = frameCount
            /\ \A b \in DOMAIN output : output[b] # None <=> b < Len(sunk) * FrameBytes
        BY <1>0, <3>1 DEF SealedIsExact
      <3>4. Contract!Seals
        BY <1>0, <1>1, <3>2, <3>3 DEF Contract!Seals
      <3> QED
        BY <3>4 DEF Contract!CNext
    <2> QED
      BY <2>1, <2>2, <2>3, <2>4
  <1> QED
    BY <1>4, <1>5, <1>6, <1>7, <1>8 DEF SealWaits

\* Every step of the mirror is a step of the contract or a stutter.
LEMMA StepIsContract ==
  ContentInv /\ ContentInv' /\ SealedIsExact' /\ [Next]_vars
    => [Contract!CNext]_(Contract!cvars)
  <1> SUFFICES ASSUME ContentInv, ContentInv', SealedIsExact', [Next]_vars
               PROVE  Contract!CNext \/ UNCHANGED Contract!cvars
    OBVIOUS
  <1>1. CASE WriteAt
    <2>1. FileKept
      BY NextContent
    <2> QED
      BY <1>1, <2>1, WriteIsContract DEF Contract!CNext
  <1>2. CASE WorkerStep \/ SinkReturns
    BY <1>2, WorkerIsContract
  <1>3. ASSUME NEW c \in Callers,
               SealOpen(c) \/ SealAgain(c) \/ SealWaits(c) \/ Abort(c) \/ CallerCancels(c)
        PROVE  Contract!CNext \/ UNCHANGED Contract!cvars
    BY <1>3, CallerIsContract
  <1>4. CASE WriteRefused \/ WriterCancels \/ UNCHANGED vars
    <2>1. UNCHANGED <<frameCount, state, worker, output, sunk>>
      BY <1>4 DEF WriteRefused, WriterCancels, vars
    <2>2. Status' = Status /\ Offered' = Offered
      BY <2>1 DEF Status, Offered
    <2> QED
      BY <2>1, <2>2 DEF Contract!cvars
  <1> QED
    BY <1>1, <1>2, <1>3, <1>4 DEF Next

\* A new mirror is live, with nothing in the file and nothing copied.
LEMMA InitIsContract == Init => Contract!CInit
  <1> SUFFICES ASSUME Init PROVE Contract!CInit
    OBVIOUS
  <1>1. Status = "live" /\ Offered = FALSE
    BY DEF Init, Status, Offered
  <1> QED
    BY <1>1 DEF Init, Contract!CInit, ExpectedBytes

\* The mirror keeps its contract: in every interleaving of receiver, worker and
\* callers the sink's copy is a growing prefix of the frames in the file, nothing
\* is offered or written after the end, and only an exact copy is sealed.
THEOREM MirrorImplementsContract == Spec => ImplementsContract
  BY ContentInvariance, SealExact, InitIsContract, StepIsContract, PTL
     DEF Spec, ImplementsContract, Contract!CSpec
=============================================================================
