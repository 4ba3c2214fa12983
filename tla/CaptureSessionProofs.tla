------------------------ MODULE CaptureSessionProofs ------------------------
(***************************************************************************)
(* TLAPS proofs about module CaptureSession and the receiver it extends:   *)
(* for any number of packets of any size, any first offset, any limits and *)
(* any frame size.                                                         *)
(***************************************************************************)
EXTENDS CaptureSession, WellFoundedInduction, FiniteSetTheorems, SequenceTheorems, TLAPS

-----------------------------------------------------------------------------
(* Induction, by the least member of a set of naturals.                    *)

LEMMA Least ==
  ASSUME NEW T \in SUBSET Nat, T # {}
  PROVE  \E x \in T : \A y \in T : x <= y
  <1> DEFINE R == OpToRel(<, Nat)
  <1>1. \A x \in Nat, y \in Nat : y < x => <<y, x>> \in R
    BY DEF OpToRel
  <1>2. IsWellFoundedOn(R, Nat)
    BY NatLessThanWellFounded
  <1> HIDE DEF R
  <1>3. PICK x \in T : \A y \in T : ~ (<<y, x>> \in R)
    BY <1>2, WFMin
  <1>4. ASSUME NEW y \in T PROVE x <= y
    <2>1. x \in Nat /\ y \in Nat
      OBVIOUS
    <2>2. ~ (<<y, x>> \in R)
      BY <1>3
    <2>3. ~ (y < x)
      BY <1>1, <2>1, <2>2
    <2> QED
      BY <2>1, <2>3
  <1> QED
    BY <1>4

LEMMA SetInduction ==
  ASSUME NEW S \in SUBSET Nat, 0 \in S, \A n \in S : n + 1 \in S
  PROVE  S = Nat
  <1> SUFFICES ASSUME S # Nat PROVE FALSE
    OBVIOUS
  <1>1. PICK x \in Nat \ S : \A y \in Nat \ S : x <= y
    BY Least
  <1>2. x # 0 /\ x - 1 \in Nat
    BY <1>1
  <1>3. x - 1 \in S
    <2>1. ~ (x <= x - 1)
      BY <1>1, <1>2
    <2> QED
      BY <1>1, <1>2, <2>1
  <1>4. (x - 1) + 1 = x
    BY <1>1
  <1> QED
    BY <1>1, <1>3, <1>4

LEMMA GreatestIs ==
  ASSUME NEW S \in SUBSET Int, NEW m \in S, \A y \in S : m >= y
  PROVE  Max(S) = m
  <1>1. \A x \in S : (\A y \in S : x >= y) => x = m
    OBVIOUS
  <1> QED
    BY <1>1 DEF Max

LEMMA SmallestIs ==
  ASSUME NEW S \in SUBSET Int, NEW m \in S, \A y \in S : m <= y
  PROVE  Min(S) = m
  <1>1. \A x \in S : (\A y \in S : x <= y) => x = m
    OBVIOUS
  <1> QED
    BY <1>1 DEF Min

-----------------------------------------------------------------------------
(* The slice of covered ranges.                                            *)

Ranges == [start : Nat, end : Nat]

\* Sorted, nonempty, with a gap between any two.
Gapped(rs) ==
  /\ rs \in Seq(Ranges)
  /\ \A i \in 1 .. Len(rs) : rs[i].start < rs[i].end
  /\ \A i, j \in 1 .. Len(rs) : i < j => rs[i].end < rs[j].start

Covers(rs) == UNION {rs[i].start .. (rs[i].end - 1) : i \in DOMAIN rs}
EndOf(rs) == IF rs = <<>> THEN 0 ELSE rs[Len(rs)].end

LEMMA GappedFacts ==
  ASSUME NEW rs, Gapped(rs)
  PROVE  /\ Len(rs) \in Nat /\ DOMAIN rs = 1 .. Len(rs)
         /\ \A i \in 1 .. Len(rs) : rs[i] \in Ranges /\ rs[i].start \in Nat /\ rs[i].end \in Nat
                                    /\ rs[i].start < rs[i].end
         /\ \A i, j \in 1 .. Len(rs) : i < j => rs[i].end < rs[j].start
         /\ \A i, j \in 1 .. Len(rs) : i <= j => rs[i].end <= rs[j].end /\ rs[i].start <= rs[j].start
         /\ rs = <<>> <=> Len(rs) = 0
  <1>1. rs \in Seq(Ranges)
    BY DEF Gapped
  <1>2. Len(rs) \in Nat /\ DOMAIN rs = 1 .. Len(rs) /\ (rs = <<>> <=> Len(rs) = 0)
    BY <1>1, LenProperties, EmptySeq
  <1>3. \A i \in 1 .. Len(rs) : rs[i] \in Ranges
    BY <1>1, ElementOfSeq
  <1>4. \A i \in 1 .. Len(rs) : rs[i].start \in Nat /\ rs[i].end \in Nat
    BY <1>3 DEF Ranges
  <1>5. /\ \A i \in 1 .. Len(rs) : rs[i].start < rs[i].end
        /\ \A i, j \in 1 .. Len(rs) : i < j => rs[i].end < rs[j].start
    BY DEF Gapped
  <1>6. ASSUME NEW i \in 1 .. Len(rs), NEW j \in 1 .. Len(rs), i <= j
        PROVE  rs[i].end <= rs[j].end /\ rs[i].start <= rs[j].start
    <2>1. i \in Int /\ j \in Int
      BY <1>2
    <2>2. CASE i = j
      BY <1>4, <2>2
    <2>3. CASE i < j
      <3>1. /\ rs[i].start \in Nat /\ rs[i].end \in Nat /\ rs[j].start \in Nat /\ rs[j].end \in Nat
        BY <1>4
      <3>2. rs[i].start < rs[i].end /\ rs[i].end < rs[j].start /\ rs[j].start < rs[j].end
        BY <1>5, <2>3
      <3> QED
        BY <3>1, <3>2
    <2> QED
      BY <1>6, <2>1, <2>2, <2>3
  <1> QED
    BY <1>2, <1>3, <1>4, <1>5, <1>6

\* Where the addition goes: all before it end before it, the next does not.
Follows(rs, a, i) ==
  /\ i \in 0 .. Len(rs)
  /\ \A x \in 1 .. i : rs[x].end < a.start
  /\ i = Len(rs) \/ rs[i + 1].end >= a.start

LEMMA Leading ==
  ASSUME NEW rs, Gapped(rs), NEW a \in Ranges
  PROVE  Follows(rs, a, LeadingBefore(rs, a))
  <1> DEFINE T == {n \in 0 .. Len(rs) : n = Len(rs) \/ rs[n + 1].end >= a.start}
  <1>1. Len(rs) \in Nat /\ \A x \in 1 .. Len(rs) : rs[x].end \in Nat
    BY GappedFacts
  <1>2. T \in SUBSET Nat /\ Len(rs) \in T
    BY <1>1
  <1>3. PICK n \in T : \A y \in T : n <= y
    <2> HIDE DEF T
    <2> QED
      BY <1>2, Least
  <1>4. ASSUME NEW x \in 1 .. n PROVE rs[x].end < a.start
    <2>1. x - 1 \in 0 .. Len(rs) /\ ~ (n <= x - 1) /\ (x - 1) + 1 = x /\ x \in 1 .. Len(rs)
      BY <1>1
    <2>2. x - 1 \notin T
      BY <1>3, <2>1
    <2>3. ~ (rs[x].end >= a.start)
      BY <2>1, <2>2
    <2> QED
      BY <1>1, <2>1, <2>3 DEF Ranges
  <1>5. \E i \in 0 .. Len(rs) :
          /\ \A x \in 1 .. i : rs[x].end < a.start
          /\ i = Len(rs) \/ rs[i + 1].end >= a.start
    BY <1>4
  <1> QED
    BY <1>5 DEF LeadingBefore, Follows

\* The end of an addition that has grown over the ranges i + 1 .. k.
GrownEnd(rs, a, i, k) == IF k = i \/ rs[k].end <= a.end THEN a.end ELSE rs[k].end
GrownStart(rs, a, i, k) == IF k = i \/ a.start <= rs[i + 1].start THEN a.start ELSE rs[i + 1].start

Ends(rs, a, i, k) == {a.end} \cup {rs[x].end : x \in (i + 1) .. k}
Starts(rs, a, i, k) == {a.start} \cup {rs[x].start : x \in (i + 1) .. k}

LEMMA Grown ==
  ASSUME NEW rs, Gapped(rs), NEW a \in Ranges, NEW i \in 0 .. Len(rs), NEW k \in i .. Len(rs)
  PROVE  /\ Max(Ends(rs, a, i, k)) = GrownEnd(rs, a, i, k)
         /\ Min(Starts(rs, a, i, k)) = GrownStart(rs, a, i, k)
         /\ GrownEnd(rs, a, i, k) \in Nat /\ GrownStart(rs, a, i, k) \in Nat
  <1> DEFINE ends == Ends(rs, a, i, k)
             starts == Starts(rs, a, i, k)
             e == GrownEnd(rs, a, i, k)
             s == GrownStart(rs, a, i, k)
  <1>1. /\ Len(rs) \in Nat /\ a.start \in Nat /\ a.end \in Nat
        /\ \A x \in 1 .. Len(rs) : rs[x].end \in Nat /\ rs[x].start \in Nat
        /\ \A x, y \in 1 .. Len(rs) : x <= y => rs[x].end <= rs[y].end /\ rs[x].start <= rs[y].start
    BY GappedFacts DEF Ranges
  <1>2. /\ i \in Nat /\ k \in Nat /\ (i + 1) .. k \subseteq 1 .. Len(rs)
        /\ k # i => k \in (i + 1) .. k /\ i + 1 \in (i + 1) .. k /\ k \in 1 .. Len(rs)
                    /\ i + 1 \in 1 .. Len(rs)
    BY <1>1
  <1>3. ends \in SUBSET Int /\ starts \in SUBSET Int
    BY <1>1, <1>2 DEF Ends, Starts
  <1>4. e \in ends /\ s \in starts /\ e \in Nat /\ s \in Nat
    BY <1>1, <1>2 DEF GrownEnd, GrownStart, Ends, Starts
  <1>5. ASSUME NEW x \in (i + 1) .. k
        PROVE  e >= rs[x].end /\ s <= rs[x].start
    <2>1. x \in 1 .. Len(rs) /\ k # i /\ x <= k /\ i + 1 <= x
      BY <1>2
    <2>2. rs[x].end <= rs[k].end /\ rs[i + 1].start <= rs[x].start
      BY <1>1, <1>2, <2>1
    <2> QED
      BY SMTT(30), <1>1, <1>2, <2>1, <2>2 DEF GrownEnd, GrownStart
  <1>6. e >= a.end /\ s <= a.start
    BY <1>1, <1>2 DEF GrownEnd, GrownStart
  <1>7. (\A y \in ends : e >= y) /\ (\A y \in starts : s <= y)
    BY <1>5, <1>6 DEF Ends, Starts
  <1> HIDE DEF ends, starts, e, s
  <1>8. Max(ends) = e
    BY <1>3, <1>4, <1>7, GreatestIs
  <1>9. Min(starts) = s
    BY <1>3, <1>4, <1>7, SmallestIs
  <1> QED
    BY <1>4, <1>8, <1>9 DEF ends, starts, e, s

\* The last range that the addition reaches.
Reaches(rs, a, i, j) ==
  /\ j \in i .. Len(rs)
  /\ \A x \in (i + 1) .. j : rs[x].start <= a.end
  /\ j = Len(rs) \/ (rs[j + 1].start > a.end /\ rs[j + 1].start > GrownEnd(rs, a, i, j))

Spliced(rs, i, j, m) == SubSeq(rs, 1, i) \o <<m>> \o SubSeq(rs, j + 1, Len(rs))

LEMMA AddRangeIs ==
  ASSUME NEW rs, Gapped(rs), NEW a \in Ranges
  PROVE  LET i == LeadingBefore(rs, a)
         IN  \E j : /\ Reaches(rs, a, i, j)
                    /\ AddRange(rs, a) =
                         Spliced(rs, i, j, [start |-> GrownStart(rs, a, i, j),
                                            end |-> GrownEnd(rs, a, i, j)])
  <1> DEFINE i == LeadingBefore(rs, a)
             grown(k) == Max(Ends(rs, a, i, k))
             least(k) == Min(Starts(rs, a, i, k))
             Stop(k) == /\ \A x \in (i + 1) .. k : rs[x].start <= grown(x - 1)
                        /\ k = Len(rs) \/ rs[k + 1].start > grown(k)
             j == CHOOSE k \in i .. Len(rs) : Stop(k)
             T == {k \in i .. Len(rs) : k = Len(rs) \/ rs[k + 1].start > grown(k)}
  <1>1. AddRange(rs, a) = Spliced(rs, i, j, [start |-> least(j), end |-> grown(j)])
    BY DEF AddRange, Spliced, ByteRange, Ends, Starts
  <1>2. i \in 0 .. Len(rs)
    BY Leading DEF Follows
  <1>3. /\ Len(rs) \in Nat /\ a.start \in Nat /\ a.end \in Nat
        /\ \A x \in 1 .. Len(rs) : rs[x].end \in Nat /\ rs[x].start \in Nat
        /\ \A x, y \in 1 .. Len(rs) : x < y => rs[x].end < rs[y].start
    BY GappedFacts DEF Ranges
  <1> HIDE DEF i
  <1>4. ASSUME NEW k \in i .. Len(rs)
        PROVE  /\ grown(k) = GrownEnd(rs, a, i, k) /\ grown(k) \in Nat
               /\ least(k) = GrownStart(rs, a, i, k)
    BY <1>2, Grown
  <1> HIDE DEF grown, least
  <1>5. \E k \in i .. Len(rs) : Stop(k)
    <2>1. T \in SUBSET Nat /\ Len(rs) \in T
      BY <1>2, <1>3
    <2>2. PICK n \in T : \A y \in T : n <= y
      <3> HIDE DEF T
      <3> QED
        BY <2>1, Least
    <2>3. ASSUME NEW x \in (i + 1) .. n PROVE rs[x].start <= grown(x - 1)
      <3>1. /\ x - 1 \in i .. Len(rs) /\ ~ (n <= x - 1) /\ (x - 1) + 1 = x /\ x \in 1 .. Len(rs)
        BY <1>2, <1>3
      <3>2. x - 1 \notin T
        BY <2>2, <3>1
      <3>3. ~ (rs[x].start > grown(x - 1))
        BY <3>1, <3>2
      <3>4. grown(x - 1) \in Nat /\ rs[x].start \in Nat
        BY <1>3, <1>4, <3>1
      <3> QED
        BY <3>3, <3>4
    <2> QED
      BY <2>3
  <1>6. j \in i .. Len(rs) /\ Stop(j)
    <2> HIDE DEF Stop
    <2> QED
      BY <1>5
  <1> HIDE DEF j
  <1>7. \A x \in (i + 1) .. j : rs[x].start <= a.end
    <2> SUFFICES ASSUME NEW x \in (i + 1) .. j PROVE rs[x].start <= a.end
      OBVIOUS
    <2>1. x - 1 \in i .. Len(rs) /\ x \in 1 .. Len(rs) /\ x \in Int
      BY <1>2, <1>3, <1>6
    <2>2. rs[x].start <= GrownEnd(rs, a, i, x - 1)
      BY <1>4, <1>6, <2>1
    <2>3. CASE x - 1 = i \/ rs[x - 1].end <= a.end
      BY <2>2, <2>3 DEF GrownEnd
    <2>4. CASE x - 1 # i /\ ~ (rs[x - 1].end <= a.end)
      <3>1. x - 1 \in 1 .. Len(rs) /\ x - 1 < x
        BY <1>2, <1>3, <2>1, <2>4
      <3>2. rs[x - 1].end < rs[x].start
        BY <1>3, <2>1, <3>1
      <3> QED
        BY <1>3, <2>1, <2>2, <2>4, <3>1, <3>2 DEF GrownEnd
    <2> QED
      BY <2>3, <2>4
  <1>8. j = Len(rs) \/ (rs[j + 1].start > a.end /\ rs[j + 1].start > GrownEnd(rs, a, i, j))
    <2>1. CASE j # Len(rs)
      <3>1. j + 1 \in 1 .. Len(rs)
        BY <1>2, <1>3, <1>6, <2>1
      <3>2. rs[j + 1].start > GrownEnd(rs, a, i, j) /\ GrownEnd(rs, a, i, j) \in Nat
        BY <1>4, <1>6, <2>1
      <3>3. GrownEnd(rs, a, i, j) >= a.end
        <4>1. j # i => j \in 1 .. Len(rs)
          BY <1>2, <1>3, <1>6
        <4> QED
          BY <1>3, <4>1 DEF GrownEnd
      <3> QED
        BY <1>3, <3>1, <3>2, <3>3
    <2> QED
      BY <2>1
  <1> QED
    BY <1>1, <1>4, <1>6, <1>7, <1>8 DEF Reaches, i

IsSplice(new, rs, i, j, m) ==
  /\ new \in Seq(Ranges) /\ Len(new) = i + 1 + (Len(rs) - j)
  /\ \A x \in 1 .. Len(new) :
       new[x] = IF x <= i THEN rs[x] ELSE IF x = i + 1 THEN m ELSE rs[x - (i + 1) + j]

LEMMA SplicedFacts ==
  ASSUME NEW rs \in Seq(Ranges), NEW i \in Nat, NEW j \in Nat, i <= j, j <= Len(rs),
         NEW m \in Ranges
  PROVE  IsSplice(Spliced(rs, i, j, m), rs, i, j, m)
  <1> DEFINE p == SubSeq(rs, 1, i)
             q == SubSeq(rs, j + 1, Len(rs))
             s == <<m>>
  <1>1. Len(rs) \in Nat /\ i \in Nat /\ j \in Nat /\ i <= j /\ j <= Len(rs) /\ DOMAIN rs = 1 .. Len(rs)
    BY LenProperties
  <1>2. \A x \in 1 .. Len(rs) : rs[x] \in Ranges
    BY <1>1, ElementOfSeq
  <1>3. p \in Seq(Ranges) /\ Len(p) = i /\ \A x \in 1 .. i : p[x] = rs[x]
    <2>1. \A x \in 1 .. i : rs[x] \in Ranges
      BY <1>1, <1>2
    <2> QED
      BY <1>1, <2>1, SubSeqProperties
  <1>4. q \in Seq(Ranges) /\ Len(q) = Len(rs) - j /\ \A x \in 1 .. (Len(rs) - j) : q[x] = rs[x + j]
    <2>1. \A x \in (j + 1) .. Len(rs) : rs[x] \in Ranges
      BY <1>1, <1>2
    <2>2. /\ q \in Seq(Ranges)
          /\ Len(q) = IF j + 1 <= Len(rs) THEN Len(rs) - (j + 1) + 1 ELSE 0
          /\ \A x \in 1 .. Len(q) : q[x] = rs[(j + 1) + x - 1]
      <3>1. j + 1 \in Int /\ Len(rs) \in Int
        BY <1>1
      <3> QED
        BY <2>1, <3>1, SubSeqProperties
    <2> HIDE DEF q
    <2>3. Len(q) = Len(rs) - j
      <3>1. Len(q) = IF j + 1 <= Len(rs) THEN Len(rs) - (j + 1) + 1 ELSE 0
        BY <2>2
      <3> DEFINE n == Len(rs)
                 l == Len(q)
      <3>2. l = IF j + 1 <= n THEN n - (j + 1) + 1 ELSE 0
        BY <3>1
      <3>3. n \in Nat /\ j \in Nat /\ j <= n
        BY <1>1
      <3> HIDE DEF n, l
      <3>4. l = n - j
        BY <3>2, <3>3
      <3> QED
        BY <3>4 DEF n, l
    <2>4. ASSUME NEW x \in 1 .. (Len(rs) - j) PROVE q[x] = rs[x + j]
      <3>1. (j + 1) + x - 1 = x + j /\ x \in 1 .. Len(q)
        BY <1>1, <2>3
      <3> QED
        BY <2>2, <3>1
    <2> QED
      BY <2>2, <2>3, <2>4
  <1>5. s \in Seq(Ranges) /\ Len(s) = 1 /\ s[1] = m
    OBVIOUS
  <1> HIDE DEF p, q, s
  <1>6. /\ p \o s \in Seq(Ranges) /\ Len(p \o s) = i + 1
        /\ \A x \in 1 .. (i + 1) : (p \o s)[x] = IF x <= i THEN p[x] ELSE s[x - i]
    <2>1. /\ p \o s \in Seq(Ranges) /\ Len(p \o s) = Len(p) + Len(s)
          /\ \A x \in 1 .. Len(p) + Len(s) :
               (p \o s)[x] = IF x <= Len(p) THEN p[x] ELSE s[x - Len(p)]
      BY ZenonT(40), <1>3, <1>5, ConcatProperties
    <2> QED
      BY <1>3, <1>5, <2>1
  <1> DEFINE ps == p \o s
  <1> HIDE DEF ps
  <1>7. ps \in Seq(Ranges) /\ Len(ps) = i + 1
    BY <1>6 DEF ps
  <1>8. /\ ps \o q \in Seq(Ranges) /\ Len(ps \o q) = i + 1 + (Len(rs) - j)
        /\ \A x \in 1 .. (i + 1 + (Len(rs) - j)) :
             (ps \o q)[x] = IF x <= i + 1 THEN ps[x] ELSE q[x - (i + 1)]
    <2>1. /\ ps \o q \in Seq(Ranges) /\ Len(ps \o q) = Len(ps) + Len(q)
          /\ \A x \in 1 .. Len(ps) + Len(q) :
               (ps \o q)[x] = IF x <= Len(ps) THEN ps[x] ELSE q[x - Len(ps)]
      BY <1>4, <1>7, ConcatProperties
    <2> QED
      BY <1>4, <1>7, <2>1
  <1>9. Spliced(rs, i, j, m) = ps \o q
    BY DEF Spliced, p, q, s, ps
  <1>10. ASSUME NEW x \in 1 .. (i + 1 + (Len(rs) - j))
         PROVE  (ps \o q)[x] = IF x <= i THEN rs[x] ELSE IF x = i + 1 THEN m ELSE rs[x - (i + 1) + j]
    <2>1. x \in Int /\ x >= 1 /\ (ps \o q)[x] = IF x <= i + 1 THEN ps[x] ELSE q[x - (i + 1)]
      BY <1>1, <1>8
    <2>2. CASE x <= i
      <3>1. x \in 1 .. i /\ x \in 1 .. (i + 1) /\ x <= i + 1
        BY <1>1, <2>1, <2>2
      <3> QED
        BY <1>3, <1>6, <2>1, <2>2, <3>1 DEF ps
    <2>3. CASE x = i + 1
      <3>1. x \in 1 .. (i + 1) /\ x <= i + 1 /\ ~ (x <= i) /\ x - i = 1
        BY <1>1, <2>1, <2>3
      <3> QED
        BY <1>5, <1>6, <2>1, <2>3, <3>1 DEF ps
    <2>4. CASE x > i + 1
      <3>1. x - (i + 1) \in 1 .. (Len(rs) - j) /\ ~ (x <= i + 1) /\ ~ (x <= i) /\ x # i + 1
        BY <1>1, <2>1, <2>4
      <3> QED
        BY <1>4, <2>1, <3>1
    <2> QED
      BY <1>1, <2>1, <2>2, <2>3, <2>4
  <1> QED
    BY <1>8, <1>9, <1>10 DEF IsSplice

\* The addition has grown over the ranges i + 1 .. j, which it replaces.
LEMMA Merged ==
  ASSUME NEW rs, Gapped(rs), NEW a \in Ranges, a.start < a.end,
         NEW i \in Nat, NEW j \in Nat, i <= j, j <= Len(rs),
         Follows(rs, a, i), Reaches(rs, a, i, j),
         NEW m \in Ranges, m.start = GrownStart(rs, a, i, j), m.end = GrownEnd(rs, a, i, j),
         NEW new, new = Spliced(rs, i, j, m)
  PROVE  /\ Gapped(new) /\ new # <<>>
         /\ Covers(new) = Covers(rs) \cup (a.start .. (a.end - 1))
         /\ EndOf(new) = IF a.end > EndOf(rs) THEN a.end ELSE EndOf(rs)
         /\ PreflightRange(rs, a) = "ok" => Len(new) <= MaxTracked
  <1>3. /\ Len(rs) \in Nat /\ DOMAIN rs = 1 .. Len(rs) /\ rs \in Seq(Ranges)
        /\ a.start \in Nat /\ a.end \in Nat /\ m.start \in Nat /\ m.end \in Nat
        /\ \A x \in 1 .. Len(rs) : rs[x] \in Ranges /\ rs[x].end \in Nat /\ rs[x].start \in Nat
                                   /\ rs[x].start < rs[x].end
    <2>1. rs \in Seq(Ranges)
      BY DEF Gapped
    <2>2. Len(rs) \in Nat /\ DOMAIN rs = 1 .. Len(rs)
      BY GappedFacts
    <2>4. a.start \in Nat /\ a.end \in Nat /\ m.start \in Nat /\ m.end \in Nat
      BY DEF Ranges
    <2>5. \A x \in 1 .. Len(rs) : rs[x] \in Ranges /\ rs[x].end \in Nat /\ rs[x].start \in Nat
                                 /\ rs[x].start < rs[x].end
      BY GappedFacts
    <2> QED
      BY <2>1, <2>2, <2>4, <2>5
  <1>4. /\ \A x, y \in 1 .. Len(rs) : x < y => rs[x].end < rs[y].start
        /\ \A x, y \in 1 .. Len(rs) : x <= y => rs[x].end <= rs[y].end /\ rs[x].start <= rs[y].start
        /\ rs = <<>> <=> Len(rs) = 0
    BY GappedFacts
  <1>5. /\ \A x \in 1 .. i : rs[x].end < a.start
        /\ i = Len(rs) \/ rs[i + 1].end >= a.start
        /\ \A x \in (i + 1) .. j : rs[x].start <= a.end
        /\ j = Len(rs) \/ (rs[j + 1].start > a.end /\ rs[j + 1].start > m.end)
    BY DEF Follows, Reaches
  <1>7. /\ m.start = IF j = i \/ a.start <= rs[i + 1].start THEN a.start ELSE rs[i + 1].start
        /\ m.end = IF j = i \/ rs[j].end <= a.end THEN a.end ELSE rs[j].end
    BY DEF GrownStart, GrownEnd
  <1>8. /\ new \in Seq(Ranges) /\ Len(new) = i + 1 + (Len(rs) - j)
        /\ \A x \in 1 .. Len(new) :
             new[x] = IF x <= i THEN rs[x] ELSE IF x = i + 1 THEN m ELSE rs[x - (i + 1) + j]
    <2>1. rs \in Seq(Ranges)
      BY <1>3
    <2>2. IsSplice(new, rs, i, j, m)
      BY <2>1, SplicedFacts
    <2> QED
      BY <2>2 DEF IsSplice
  <1>9. j # i => i + 1 \in 1 .. Len(rs) /\ j \in 1 .. Len(rs) /\ i + 1 <= j /\ j \in (i + 1) .. j
    <2> SUFFICES ASSUME j # i PROVE i + 1 \in 1 .. Len(rs) /\ j \in 1 .. Len(rs) /\ i + 1 <= j /\ j \in (i + 1) .. j
      OBVIOUS
    <2> QED
      BY <1>3
  <1>10. m.start <= a.start /\ a.end <= m.end /\ m.start < m.end
    BY <1>3, <1>7, <1>9
  \* Where the ranges of the result come from.
  <1>11. ASSUME NEW x \in 1 .. Len(new)
         PROVE  \/ x <= i /\ x \in 1 .. Len(rs) /\ new[x] = rs[x]
                \/ x = i + 1 /\ new[x] = m
                \/ x > i + 1 /\ x - (i + 1) + j \in (j + 1) .. Len(rs) /\ new[x] = rs[x - (i + 1) + j]
    BY <1>3, <1>8
  <1>12. /\ \A x \in 1 .. i : x \in 1 .. Len(new) /\ new[x] = rs[x]
         /\ i + 1 \in 1 .. Len(new) /\ new[i + 1] = m
         /\ \A y \in (j + 1) .. Len(rs) : y - j + (i + 1) \in 1 .. Len(new) /\ new[y - j + (i + 1)] = rs[y]
    <2>1. ASSUME NEW y \in (j + 1) .. Len(rs)
          PROVE  y - j + (i + 1) \in 1 .. Len(new) /\ new[y - j + (i + 1)] = rs[y]
      <3> DEFINE x == y - j + (i + 1)
      <3>1. x \in 1 .. Len(new) /\ ~ (x <= i) /\ x # i + 1 /\ x - (i + 1) + j = y
        BY <1>3, <1>8
      <3> HIDE DEF x
      <3>2. new[x] = rs[x - (i + 1) + j]
        BY <1>8, <3>1
      <3> QED
        BY <3>1, <3>2 DEF x
    <2>2. ASSUME NEW x \in 1 .. i
          PROVE  x \in 1 .. Len(new) /\ new[x] = rs[x]
      <3>1. x \in 1 .. Len(new) /\ x <= i
        BY <1>3, <1>8
      <3> QED
        BY <1>8, <3>1
    <2>3. i + 1 \in 1 .. Len(new) /\ ~ (i + 1 <= i)
      BY <1>3, <1>8
    <2> QED
      BY <1>8, <2>1, <2>2, <2>3
  <1>13. \A x \in 1 .. Len(rs) : x > i => rs[x].end >= a.start
    <2> SUFFICES ASSUME NEW x \in 1 .. Len(rs), x > i PROVE rs[x].end >= a.start
      OBVIOUS
    <2>1. i + 1 \in 1 .. Len(rs) /\ i # Len(rs) /\ i + 1 <= x
      <3>1. x \in Int /\ x <= Len(rs) /\ i \in Nat /\ Len(rs) \in Nat
        BY <1>3
      <3> QED
        BY <3>1
    <2>2. rs[i + 1].end <= rs[x].end /\ rs[i + 1].end >= a.start
      BY <1>4, <1>5, <2>1
    <2>3. rs[i + 1].end \in Nat /\ rs[x].end \in Nat /\ a.start \in Nat
      BY <1>3, <2>1
    <2> QED
      BY <2>2, <2>3
  <1>14. Gapped(new) /\ new # <<>>
    <2>0. Len(new) \in Nat /\ Len(new) >= 1 /\ new \in Seq(Ranges)
      BY <1>3, <1>8
    <2>1. ASSUME NEW x \in 1 .. Len(new) PROVE new[x].start < new[x].end
      <3>1. CASE x <= i /\ x \in 1 .. Len(rs) /\ new[x] = rs[x]
        BY <1>3, <3>1
      <3>2. CASE x = i + 1 /\ new[x] = m
        BY <1>10, <3>2
      <3>3. CASE x - (i + 1) + j \in (j + 1) .. Len(rs) /\ new[x] = rs[x - (i + 1) + j]
        <4>1. x - (i + 1) + j \in 1 .. Len(rs)
          BY <1>3, <3>3
        <4> QED
          BY <1>3, <3>3, <4>1
      <3> QED
        BY <1>11, <3>1, <3>2, <3>3
    <2>2. ASSUME NEW x \in 1 .. Len(new), NEW y \in 1 .. Len(new), x < y
          PROVE  new[x].end < new[y].start
      <3>0. x \in Int /\ y \in Int
        BY <2>0
      <3>1. CASE y <= i
        <4>1. x <= i /\ y <= i /\ ~ (x > i + 1) /\ ~ (y > i + 1) /\ x # i + 1 /\ y # i + 1
          BY <2>2, <3>0, <3>1
        <4>2. x \in 1 .. Len(rs) /\ new[x] = rs[x] /\ y \in 1 .. Len(rs) /\ new[y] = rs[y]
          BY <1>11, <4>1
        <4> QED
          BY <1>4, <2>2, <4>2
      <3>2. CASE y = i + 1
        <4>1. x <= i /\ ~ (x > i + 1) /\ x # i + 1 /\ x \in 1 .. i
          BY <2>2, <3>0, <3>2
        <4>2. x \in 1 .. Len(rs) /\ new[x] = rs[x] /\ new[y] = m
          BY <1>11, <1>12, <3>2, <4>1
        <4>3. rs[x].end < a.start
          BY <1>5, <4>1
        <4>4. j # i => rs[x].end < rs[i + 1].start
          <5> SUFFICES ASSUME j # i PROVE rs[x].end < rs[i + 1].start
            OBVIOUS
          <5>1. x < i + 1 /\ i + 1 \in 1 .. Len(rs)
            BY <1>9, <2>2, <3>2
          <5> QED
            BY <1>4, <4>2, <5>1
        <4>5. rs[x].end < m.start
          BY <1>7, <4>3, <4>4
        <4> QED
          BY <4>2, <4>5
      <3>3. CASE y > i + 1
        <4> DEFINE v == y - (i + 1) + j
        <4>1. v \in (j + 1) .. Len(rs) /\ new[y] = rs[v]
          <5>1. ~ (y <= i) /\ y # i + 1
            BY <3>0, <3>3
          <5>2. x \in Int /\ y > i + 1 => v \in (j + 1) .. Len(rs) /\ new[y] = rs[v]
            BY <1>11, <5>1
          <5> QED
            BY <3>0, <3>3, <5>2
        <4>2. v \in 1 .. Len(rs) /\ v \in Int /\ v > j /\ j # Len(rs) /\ v <= Len(rs)
          <5>1. Len(rs) \in Nat
            BY <1>3
          <5> HIDE DEF v
          <5> QED
            BY <4>1, <5>1
        <4>3. CASE x <= i
          <5>1. ~ (x > i + 1) /\ x # i + 1 /\ x < v
            BY <3>0, <4>2, <4>3
          <5>2. x \in 1 .. Len(rs) /\ new[x] = rs[x]
            BY <1>11, <4>3, <5>1
          <5> HIDE DEF v
          <5> QED
            BY <1>4, <4>1, <4>2, <5>1, <5>2
        <4>4. CASE x = i + 1
          <5>1. new[x] = m
            BY <1>12, <4>4
          <5> HIDE DEF v
          <5>2. j + 1 \in 1 .. Len(rs) /\ j + 1 <= v
            <6>1. Len(rs) \in Nat /\ v \in Int /\ v > j /\ v <= Len(rs)
              BY <1>3, <4>2
            <6> QED
              BY <6>1
          <5>3. rs[j + 1].start <= rs[v].start /\ rs[j + 1].start > m.end
            BY <1>4, <1>5, <4>2, <5>2
          <5>4. rs[j + 1].start \in Nat /\ rs[v].start \in Nat /\ m.end \in Nat
            BY <1>3, <4>2, <5>2
          <5> QED
            BY SMTT(30), <4>1, <5>1, <5>3, <5>4
        <4>5. CASE x > i + 1
          <5> DEFINE u == x - (i + 1) + j
          <5>1. ~ (x <= i) /\ x # i + 1
            BY <3>0, <4>5
          <5>2. u \in (j + 1) .. Len(rs) /\ new[x] = rs[u]
            BY <1>11, <5>1
          <5>3. u \in 1 .. Len(rs) /\ u < v
            BY <1>3, <2>2, <3>0, <5>2
          <5> HIDE DEF u, v
          <5> QED
            BY <1>4, <4>1, <4>2, <5>2, <5>3
        <4> QED
          BY <3>0, <4>3, <4>4, <4>5
      <3> QED
        BY <3>0, <3>1, <3>2, <3>3
    <2>3. Gapped(new)
      BY <2>0, <2>1, <2>2 DEF Gapped
    <2>4. new # <<>>
      BY <2>0, EmptySeq
    <2> QED
      BY <2>3, <2>4
  <1>15. Covers(new) = Covers(rs) \cup (a.start .. (a.end - 1))
    <2>0. DOMAIN new = 1 .. Len(new)
      BY <1>8, LenProperties
    <2>1. ASSUME NEW b \in Covers(new)
          PROVE  b \in Covers(rs) \cup (a.start .. (a.end - 1))
      <3>1. PICK x \in 1 .. Len(new) : b \in new[x].start .. (new[x].end - 1)
        BY <2>0 DEF Covers
      <3>2. ASSUME NEW y \in 1 .. Len(rs), b \in rs[y].start .. (rs[y].end - 1)
            PROVE  b \in Covers(rs)
        BY <1>3, <3>2 DEF Covers
      <3>3. CASE x <= i /\ x \in 1 .. Len(rs) /\ new[x] = rs[x]
        BY <3>1, <3>2, <3>3
      <3>4. CASE x = i + 1 /\ new[x] = m
        <4>1. b \in Int /\ m.start <= b /\ b < m.end
          BY <1>3, <3>1, <3>4
        <4>2. CASE b < a.start
          <5>1. j # i /\ m.start = rs[i + 1].start
            BY <1>3, <1>7, <4>1, <4>2
          <5>2. i + 1 \in 1 .. Len(rs) /\ i + 1 > i
            BY <1>9, <5>1
          <5>3. rs[i + 1].end >= a.start /\ rs[i + 1].end \in Nat /\ rs[i + 1].start \in Nat
            BY <1>3, <1>13, <5>2
          <5>4. b \in rs[i + 1].start .. (rs[i + 1].end - 1)
            BY <1>3, <4>1, <4>2, <5>1, <5>3
          <5> QED
            BY <3>2, <5>2, <5>4
        <4>3. CASE b >= a.end
          <5>1. j # i /\ m.end = rs[j].end
            BY <1>3, <1>7, <4>1, <4>3
          <5>2. j \in 1 .. Len(rs) /\ j \in (i + 1) .. j
            BY <1>9, <5>1
          <5>3. rs[j].start <= a.end /\ rs[j].end \in Nat /\ rs[j].start \in Nat
            BY <1>3, <1>5, <5>2
          <5>4. b \in rs[j].start .. (rs[j].end - 1)
            BY SMTT(30), <1>3, <4>1, <4>3, <5>1, <5>3
          <5> QED
            BY <3>2, <5>2, <5>4
        <4>4. CASE ~ (b < a.start) /\ ~ (b >= a.end)
          <5>1. b \in a.start .. (a.end - 1)
            BY <1>3, <4>1, <4>4
          <5> QED
            BY <5>1
        <4> QED
          BY <4>2, <4>3, <4>4
      <3>5. CASE x - (i + 1) + j \in (j + 1) .. Len(rs) /\ new[x] = rs[x - (i + 1) + j]
        <4>1. x - (i + 1) + j \in 1 .. Len(rs)
          BY <1>3, <3>5
        <4> QED
          BY <3>1, <3>2, <3>5, <4>1
      <3> QED
        BY <1>11, <3>3, <3>4, <3>5
    <2>2. ASSUME NEW x \in 1 .. Len(new), NEW b \in new[x].start .. (new[x].end - 1)
          PROVE  b \in Covers(new)
      BY <2>0 DEF Covers
    <2>3. ASSUME NEW b \in m.start .. (m.end - 1)
          PROVE  b \in Covers(new)
      <3>1. i + 1 \in 1 .. Len(new) /\ new[i + 1] = m
        BY <1>12
      <3> QED
        BY <2>2, <3>1
    <2>4. ASSUME NEW b \in a.start .. (a.end - 1)
          PROVE  b \in Covers(new)
      <3>1. b \in m.start .. (m.end - 1)
        BY <1>3, <1>10
      <3> QED
        BY <2>3, <3>1
    <2>5. ASSUME NEW b \in Covers(rs)
          PROVE  b \in Covers(new)
      <3>1. PICK y \in 1 .. Len(rs) : b \in rs[y].start .. (rs[y].end - 1)
        BY <1>3 DEF Covers
      <3>2. CASE y <= i
        <4>1. y \in 1 .. i
          BY <1>3, <3>2
        <4>2. y \in 1 .. Len(new) /\ new[y] = rs[y]
          BY <1>12, <4>1
        <4> QED
          BY <2>2, <3>1, <4>2
      <3>3. CASE y > j
        <4>1. y \in (j + 1) .. Len(rs)
          BY <1>3, <3>3
        <4> DEFINE x == y - j + (i + 1)
        <4>2. x \in 1 .. Len(new) /\ new[x] = rs[y]
          BY <1>12, <4>1
        <4> HIDE DEF x
        <4> QED
          BY <2>2, <3>1, <4>2
      <3>4. CASE y > i /\ y <= j
        <4>1. j # i /\ i + 1 <= y /\ y <= j
          BY <1>3, <3>4
        <4>2. rs[i + 1].start <= rs[y].start /\ rs[y].end <= rs[j].end
          BY <1>4, <1>9, <4>1
        <4>3. /\ rs[i + 1].start \in Nat /\ rs[y].start \in Nat /\ rs[y].end \in Nat
              /\ rs[j].end \in Nat
          BY <1>3, <1>9, <4>1
        <4>4. m.start <= rs[y].start /\ rs[y].end <= m.end
          BY SMTT(30), <1>3, <1>7, <4>1, <4>2, <4>3
        <4>5. b \in m.start .. (m.end - 1)
          BY SMTT(30), <1>3, <3>1, <4>3, <4>4
        <4> QED
          BY <2>3, <4>5
      <3> QED
        BY <1>3, <3>2, <3>3, <3>4
    <2> QED
      BY <2>1, <2>4, <2>5
  <1>16. EndOf(new) = IF a.end > EndOf(rs) THEN a.end ELSE EndOf(rs)
    <2>0. EndOf(new) = new[Len(new)].end /\ Len(new) \in 1 .. Len(new)
      BY <1>3, <1>8, <1>14 DEF EndOf
    <2>1. CASE j = Len(rs)
      <3>1. Len(new) = i + 1
        BY <1>3, <1>8, <2>1
      <3>2. EndOf(new) = m.end
        BY <1>12, <2>0, <3>1
      <3>3. CASE Len(rs) = 0
        BY <1>3, <1>4, <1>7, <2>1, <3>2, <3>3 DEF EndOf
      <3>4. CASE Len(rs) # 0
        <4>1. EndOf(rs) = rs[j].end /\ j \in 1 .. Len(rs)
          BY <1>3, <1>4, <2>1, <3>4 DEF EndOf
        <4>2. CASE j = i
          <5>1. rs[j].end < a.start /\ m.end = a.end
            BY <1>5, <1>7, <4>1, <4>2
          <5>2. rs[j].end \in Nat
            BY <1>3, <4>1
          <5> QED
            BY <1>3, <3>2, <4>1, <5>1, <5>2
        <4>3. CASE j # i
          <5>1. m.end = IF rs[j].end <= a.end THEN a.end ELSE rs[j].end
            BY <1>7, <4>3
          <5>2. rs[j].end \in Nat
            BY <1>3, <4>1
          <5> QED
            BY <1>3, <3>2, <4>1, <5>1, <5>2
        <4> QED
          BY <4>2, <4>3
      <3> QED
        BY <3>3, <3>4
    <2>2. CASE j # Len(rs)
      <3>1. /\ Len(rs) \in (j + 1) .. Len(rs) /\ Len(rs) \in 1 .. Len(rs) /\ j + 1 \in 1 .. Len(rs)
            /\ Len(rs) # 0 /\ Len(new) = Len(rs) - j + (i + 1)
        <4>1. Len(rs) \in Nat /\ Len(new) = i + 1 + (Len(rs) - j)
          BY <1>3, <1>8
        <4> QED
          BY <2>2, <4>1
      <3>2. new[Len(new)] = rs[Len(rs)]
        BY <1>12, <3>1
      <3>3. EndOf(rs) = rs[Len(rs)].end
        BY <1>4, <3>1 DEF EndOf
      <3>4. rs[j + 1].start > a.end /\ rs[j + 1].start < rs[j + 1].end /\ rs[j + 1].end <= rs[Len(rs)].end
        <4>1. j + 1 <= Len(rs)
          BY <1>3, <3>1
        <4> QED
          BY <1>3, <1>4, <1>5, <2>2, <3>1, <4>1
      <3>5. rs[j + 1].start \in Nat /\ rs[j + 1].end \in Nat /\ rs[Len(rs)].end \in Nat
        BY <1>3, <3>1
      <3>6. ~ (a.end > rs[Len(rs)].end)
        BY SMTT(30), <1>3, <3>4, <3>5
      <3> QED
        BY <2>0, <3>2, <3>3, <3>6
    <2> QED
      BY <2>1, <2>2
  <1>17. PreflightRange(rs, a) = "ok" => Len(new) <= MaxTracked
    <2> SUFFICES ASSUME PreflightRange(rs, a) = "ok" PROVE Len(new) <= MaxTracked
      OBVIOUS
    <2>1. ASSUME NEW x \in Scanned(rs, a) PROVE x \in (i + 1) .. j
      <3>1. /\ x \in 1 .. Len(rs) /\ rs[x].end >= a.start
            /\ \A y \in 1 .. x : rs[y].end < a.start \/ rs[y].start <= a.end
        BY DEF Scanned
      <3>2. ~ (x <= i)
        <4> SUFFICES ASSUME x <= i PROVE FALSE
          OBVIOUS
        <4>1. x \in 1 .. i
          BY <1>3, <3>1
        <4>2. rs[x].end < a.start /\ rs[x].end \in Nat
          BY <1>3, <1>5, <3>1, <4>1
        <4> QED
          BY <1>3, <3>1, <4>2
      <3>3. ~ (x > j)
        <4> SUFFICES ASSUME x > j PROVE FALSE
          OBVIOUS
        <4>1. j # Len(rs) /\ j + 1 \in 1 .. x /\ j + 1 \in 1 .. Len(rs) /\ j + 1 > i
          <5>1. Len(rs) \in Nat /\ x \in Int /\ x <= Len(rs)
            BY <1>3, <3>1
          <5> QED
            BY <5>1
        <4>2. rs[j + 1].start > a.end /\ rs[j + 1].end >= a.start
          BY <1>5, <1>13, <4>1
        <4>3. rs[j + 1].start \in Nat /\ rs[j + 1].end \in Nat
          BY <1>3, <4>1
        <4>4. rs[j + 1].end < a.start \/ rs[j + 1].start <= a.end
          BY <3>1, <4>1
        <4>5. a.start \in Nat /\ a.end \in Nat
          BY <1>3
        <4> QED
          BY <4>2, <4>3, <4>4, <4>5
      <3> QED
        BY <1>3, <3>1, <3>2, <3>3
    <2>2. Cardinality(Scanned(rs, a)) \in Nat /\ Cardinality(Scanned(rs, a)) <= j - i
      <3>1. IsFiniteSet((i + 1) .. j) /\ Cardinality((i + 1) .. j) = j - i
        <4>1. i + 1 \in Int /\ j \in Int
          OBVIOUS
        <4>2. IsFiniteSet((i + 1) .. j) /\ Cardinality((i + 1) .. j) = IF i + 1 > j THEN 0 ELSE j - (i + 1) + 1
          BY <4>1, FS_Interval
        <4> QED
          BY <4>2
      <3>2. Scanned(rs, a) \subseteq (i + 1) .. j
        BY <2>1
      <3>3. Cardinality(Scanned(rs, a)) <= Cardinality((i + 1) .. j) /\ IsFiniteSet(Scanned(rs, a))
        BY <3>1, <3>2, FS_Subset
      <3>4. Cardinality(Scanned(rs, a)) \in Nat
        BY <3>3, FS_CardinalityType
      <3> QED
        BY <3>1, <3>3, <3>4
    <2>3. ~ (Len(rs) + 1 - Cardinality(Scanned(rs, a)) > MaxTracked)
      BY DEF PreflightRange
    <2>4. MaxTracked \in Nat
      BY ReceiverAssumption
    <2> DEFINE n == Len(rs)
               c == Cardinality(Scanned(rs, a))
               l == Len(new)
    <2>5. n \in Nat /\ c \in Nat /\ c <= j - i /\ ~ (n + 1 - c > MaxTracked) /\ l = i + 1 + (n - j)
      BY <1>3, <1>8, <2>2, <2>3
    <2> HIDE DEF n, c, l
    <2>6. l <= MaxTracked
      BY <2>4, <2>5
    <2> QED
      BY <2>6 DEF l
  <1> QED
    BY <1>14, <1>15, <1>16, <1>17

\* addRange keeps the slice sorted with gaps, covers exactly the addition besides
\* what was covered, and stays within the count that was foreseen.
LEMMA Added ==
  ASSUME NEW rs, Gapped(rs), NEW a \in Ranges, a.start < a.end
  PROVE  LET new == AddRange(rs, a)
         IN  /\ Gapped(new) /\ new # <<>>
             /\ Covers(new) = Covers(rs) \cup (a.start .. (a.end - 1))
             /\ EndOf(new) = IF a.end > EndOf(rs) THEN a.end ELSE EndOf(rs)
             /\ PreflightRange(rs, a) = "ok" => Len(new) <= MaxTracked
  <1> DEFINE i == LeadingBefore(rs, a)
  <1>1. Follows(rs, a, i)
    BY Leading
  <1>2. PICK j : /\ Reaches(rs, a, i, j)
                 /\ AddRange(rs, a) =
                      Spliced(rs, i, j, [start |-> GrownStart(rs, a, i, j),
                                         end |-> GrownEnd(rs, a, i, j)])
    BY AddRangeIs
  <1> HIDE DEF i
  <1> DEFINE m == [start |-> GrownStart(rs, a, i, j), end |-> GrownEnd(rs, a, i, j)]
  <1>3. i \in 0 .. Len(rs) /\ j \in i .. Len(rs) /\ Len(rs) \in Nat
    BY <1>1, <1>2, GappedFacts DEF Reaches, Follows
  <1>4. i \in Nat /\ j \in Nat /\ i <= j /\ j <= Len(rs)
    BY <1>3
  <1>5. m \in Ranges /\ m.start = GrownStart(rs, a, i, j) /\ m.end = GrownEnd(rs, a, i, j)
    BY <1>3, Grown DEF Ranges
  <1>7. AddRange(rs, a) = Spliced(rs, i, j, m)
    BY <1>2
  <1> HIDE DEF m
  <1> QED
    BY <1>1, <1>2, <1>4, <1>5, <1>7, Merged

-----------------------------------------------------------------------------
(* What finalizeStats counts.                                              *)

\* The recursive function of Sweep exists, so it is what its equation says.
LEMMA SweepUnfolds ==
  ASSUME NEW rs, Len(rs) \in Nat
  PROVE  /\ Sweep(rs)[0] = [until |-> 0, lost |-> 0]
         /\ \A n \in 1 .. Len(rs) : Sweep(rs)[n] = Swept(Sweep(rs)[n - 1], rs[n])
  <1> DEFINE Z == [until |-> 0, lost |-> 0]
             Is(f, m) == f = [n \in 0 .. m |-> IF n = 0 THEN Z ELSE Swept(f[n - 1], rs[n])]
             S == {m \in Nat : \E f : Is(f, m)}
  <1>1. 0 \in S
    <2>1. Is([n \in 0 .. 0 |-> Z], 0)
      OBVIOUS
    <2> QED
      BY <2>1
  <1>2. ASSUME NEW m \in S PROVE m + 1 \in S
    <2>1. PICK f : Is(f, m)
      OBVIOUS
    <2> DEFINE g == [n \in 0 .. (m + 1) |-> IF n = m + 1 THEN Swept(f[m], rs[m + 1]) ELSE f[n]]
    <2>2. m \in Nat
      OBVIOUS
    <2>3. \A n \in 0 .. m : f[n] = IF n = 0 THEN Z ELSE Swept(f[n - 1], rs[n])
      BY <2>1
    <2>4. \A n \in 0 .. (m + 1) : g[n] = IF n = 0 THEN Z ELSE Swept(g[n - 1], rs[n])
      <3>1. ASSUME NEW n \in 0 .. m PROVE g[n] = IF n = 0 THEN Z ELSE Swept(g[n - 1], rs[n])
        <4>1. g[n] = f[n]
          BY <2>2
        <4>2. n # 0 => g[n - 1] = f[n - 1]
          BY <2>2
        <4> HIDE DEF g, Z
        <4> QED
          BY <2>3, <4>1, <4>2
      <3>2. g[m + 1] = Swept(g[m], rs[m + 1])
        BY <2>2
      <3> HIDE DEF g, Z
      <3>3. m + 1 # 0 /\ (m + 1) - 1 = m
        BY <2>2
      <3>4. ASSUME NEW n \in 0 .. (m + 1) PROVE n \in 0 .. m \/ n = m + 1
        BY <2>2
      <3> QED
        BY <3>1, <3>2, <3>3, <3>4
    <2>5. Is(g, m + 1)
      <3> HIDE DEF Z
      <3>1. g = [n \in 0 .. (m + 1) |-> g[n]]
        OBVIOUS
      <3> HIDE DEF g
      <3> QED
        BY <2>4, <3>1
    <2>6. m + 1 \in Nat
      BY <2>2
    <2> HIDE DEF g, Is
    <2> QED
      BY <2>5, <2>6
  <1> HIDE DEF Is
  <1>3. S = Nat
    <2> HIDE DEF S
    <2>1. S \in SUBSET Nat
      BY DEF S
    <2> QED
      BY <1>1, <1>2, <2>1, SetInduction
  <1>4. \E f : Is(f, Len(rs))
    BY <1>3
  <1>5. Is(Sweep(rs), Len(rs))
    BY <1>4 DEF Is, Sweep
  <1>6. \A n \in 0 .. Len(rs) : Sweep(rs)[n] = IF n = 0 THEN Z ELSE Swept(Sweep(rs)[n - 1], rs[n])
    <2> DEFINE h == Sweep(rs)
    <2>1. h = [n \in 0 .. Len(rs) |-> IF n = 0 THEN Z ELSE Swept(h[n - 1], rs[n])]
      BY <1>5 DEF Is
    <2> HIDE DEF h, Z
    <2>2. \A n \in 0 .. Len(rs) : h[n] = IF n = 0 THEN Z ELSE Swept(h[n - 1], rs[n])
      BY <2>1
    <2> QED
      BY <2>2 DEF h
  <1>7. 0 \in 0 .. Len(rs) /\ \A n \in 1 .. Len(rs) : n \in 0 .. Len(rs) /\ n # 0
    OBVIOUS
  <1> HIDE DEF Z
  <1>8. Sweep(rs)[0] = Z /\ \A n \in 1 .. Len(rs) : Sweep(rs)[n] = Swept(Sweep(rs)[n - 1], rs[n])
    BY <1>6, <1>7
  <1> QED
    BY <1>8 DEF Z

\* The end of the first n ranges, and the bytes below it that none covers.
Until(rs, n) == IF n = 0 THEN 0 ELSE rs[n].end
Holes(rs, n) == (0 .. (Until(rs, n) - 1)) \ Covers(rs)

\* One range further: what is added to the holes is the gap before it.
LEMMA HolesGrow ==
  ASSUME NEW rs, Gapped(rs), NEW n \in Nat, n + 1 <= Len(rs), IsFiniteSet(Holes(rs, n))
  PROVE  /\ Until(rs, n) \in Nat /\ Until(rs, n) <= rs[n + 1].start
         /\ rs[n + 1].start < rs[n + 1].end
         /\ IsFiniteSet(Holes(rs, n + 1))
         /\ Cardinality(Holes(rs, n + 1)) =
              Cardinality(Holes(rs, n)) + (rs[n + 1].start - Until(rs, n))
  <1> DEFINE u == Until(rs, n)
             s == rs[n + 1].start
             e == rs[n + 1].end
             gap == u .. (s - 1)
  <1>1. /\ Len(rs) \in Nat /\ DOMAIN rs = 1 .. Len(rs)
        /\ \A x \in 1 .. Len(rs) : rs[x].end \in Nat /\ rs[x].start \in Nat /\ rs[x].start < rs[x].end
        /\ \A x, y \in 1 .. Len(rs) : x < y => rs[x].end < rs[y].start
        /\ \A x, y \in 1 .. Len(rs) : x <= y => rs[x].end <= rs[y].end /\ rs[x].start <= rs[y].start
    BY GappedFacts
  <1>2. n + 1 \in 1 .. Len(rs) /\ n + 1 # 0 /\ (n # 0 => n \in 1 .. Len(rs) /\ n < n + 1)
    <2>1. Len(rs) \in Nat
      BY <1>1
    <2> QED
      BY <2>1
  <1>3. s \in Nat /\ e \in Nat /\ s < e
    BY <1>1, <1>2
  <1>4. u \in Nat /\ u <= s
    <2>1. CASE n = 0
      BY <1>3, <2>1 DEF Until
    <2>2. CASE n # 0
      <3>1. rs[n].end \in Nat /\ rs[n].end < rs[n + 1].start
        BY <1>1, <1>2, <2>2
      <3> QED
        BY <1>3, <2>2, <3>1 DEF Until
    <2> QED
      BY <2>1, <2>2
  <1>5. Until(rs, n + 1) = e
    BY <1>2 DEF Until
  <1>6. ASSUME NEW b \in gap PROVE b \notin Covers(rs)
    <2> SUFFICES ASSUME NEW x \in 1 .. Len(rs), b \in rs[x].start .. (rs[x].end - 1) PROVE FALSE
      BY <1>1 DEF Covers
    <2>1. x \in Int /\ b \in Int /\ rs[x].start <= b /\ b < rs[x].end
      BY <1>1
    <2>2. CASE x <= n
      <3>1. n \in 1 .. Len(rs) /\ n # 0
        BY <1>2, <2>1, <2>2
      <3>2. rs[x].end <= rs[n].end /\ rs[x].end \in Nat /\ rs[n].end \in Nat
        BY <1>1, <2>2, <3>1
      <3>3. u = rs[n].end
        BY <3>1 DEF Until
      <3> HIDE DEF u
      <3> QED
        BY <1>3, <1>4, <2>1, <3>2, <3>3
    <2>3. CASE x > n
      <3>1. n + 1 <= x
        BY <2>1, <2>3
      <3>2. rs[n + 1].start <= rs[x].start /\ rs[x].start \in Nat
        BY <1>1, <1>2, <3>1
      <3> HIDE DEF u
      <3> QED
        BY <1>3, <1>4, <2>1, <3>2
    <2> QED
      BY <2>1, <2>2, <2>3
  <1>7. ASSUME NEW b \in s .. (e - 1) PROVE b \in Covers(rs)
    BY <1>1, <1>2 DEF Covers
  <1> HIDE DEF u, s, e
  <1>8. Holes(rs, n) = (0 .. (u - 1)) \ Covers(rs) /\ Holes(rs, n + 1) = (0 .. (e - 1)) \ Covers(rs)
    BY <1>5 DEF Holes, u
  <1>9. Holes(rs, n + 1) = Holes(rs, n) \cup gap
    <2>1. ASSUME NEW b \in Holes(rs, n + 1) PROVE b \in Holes(rs, n) \cup gap
      <3>1. b \in 0 .. (e - 1) /\ b \notin Covers(rs)
        BY <1>8
      <3>2. b \notin s .. (e - 1)
        BY <1>7, <3>1
      <3>3. b \in 0 .. (u - 1) \/ b \in gap
        BY <1>3, <1>4, <3>1, <3>2
      <3> QED
        BY <1>8, <3>1, <3>3
    <2>2. ASSUME NEW b \in Holes(rs, n) PROVE b \in Holes(rs, n + 1)
      <3>1. b \in 0 .. (u - 1) /\ b \notin Covers(rs)
        BY <1>8
      <3>2. b \in 0 .. (e - 1)
        BY <1>3, <1>4, <3>1
      <3> QED
        BY <1>8, <3>1, <3>2
    <2>3. ASSUME NEW b \in gap PROVE b \in Holes(rs, n + 1)
      <3>1. b \in 0 .. (e - 1)
        BY <1>3, <1>4
      <3> QED
        BY <1>6, <1>8, <3>1
    <2> QED
      BY <2>1, <2>2, <2>3
  <1>10. Holes(rs, n) \cap gap = {}
    <2> SUFFICES ASSUME NEW b \in Holes(rs, n), b \in gap PROVE FALSE
      OBVIOUS
    <2>1. b \in 0 .. (u - 1)
      BY <1>8
    <2> QED
      BY <1>3, <1>4, <2>1
  <1>11. IsFiniteSet(gap) /\ Cardinality(gap) = s - u
    <2>1. u \in Int /\ s - 1 \in Int
      BY <1>3, <1>4
    <2>2. IsFiniteSet(u .. (s - 1)) /\ Cardinality(u .. (s - 1)) = IF u > s - 1 THEN 0 ELSE (s - 1) - u + 1
      BY <2>1, FS_Interval
    <2> QED
      BY <1>3, <1>4, <2>2
  <1> HIDE DEF gap
  <1>12. Cardinality({}) = 0 /\ Cardinality(Holes(rs, n)) \in Nat
    BY FS_EmptySet, FS_CardinalityType
  <1>13. /\ IsFiniteSet(Holes(rs, n) \cup gap)
         /\ Cardinality(Holes(rs, n) \cup gap) =
              Cardinality(Holes(rs, n)) + Cardinality(gap) - Cardinality(Holes(rs, n) \cap gap)
    BY <1>11, FS_Union
  <1>14. Cardinality(Holes(rs, n + 1)) = Cardinality(Holes(rs, n)) + (s - u)
    <2> DEFINE c == Cardinality(Holes(rs, n))
               d == Cardinality(Holes(rs, n + 1))
    <2>1. d = c + (s - u) - 0
      BY <1>9, <1>10, <1>11, <1>12, <1>13
    <2>2. c \in Nat
      BY <1>12
    <2> HIDE DEF c, d
    <2>3. d = c + (s - u)
      BY <1>3, <1>4, <2>1, <2>2
    <2> QED
      BY <2>3 DEF c, d
  <1> QED
    BY <1>3, <1>4, <1>9, <1>13, <1>14 DEF u, s, e

\* finalizeStats counts the bytes below the highest one that no range covers.
LEMMA MissingExact ==
  ASSUME NEW rs, Gapped(rs)
  PROVE  MissingIn(rs, EndOf(rs)) = Cardinality((0 .. (EndOf(rs) - 1)) \ Covers(rs))
  <1> DEFINE At0(n) == /\ IsFiniteSet(Holes(rs, n))
                       /\ Sweep(rs)[n] = [until |-> Until(rs, n), lost |-> Cardinality(Holes(rs, n))]
             S == {n \in Nat : n <= Len(rs) => At0(n)}
  <1>1. Len(rs) \in Nat /\ (rs = <<>> <=> Len(rs) = 0)
    BY GappedFacts
  <1>2. 0 \in S
    <2>1. Holes(rs, 0) = {}
      BY DEF Holes, Until
    <2>2. IsFiniteSet(Holes(rs, 0)) /\ Cardinality(Holes(rs, 0)) = 0
      BY <2>1, FS_EmptySet
    <2>3. Sweep(rs)[0] = [until |-> 0, lost |-> 0] /\ Until(rs, 0) = 0
      BY <1>1, SweepUnfolds DEF Until
    <2> QED
      BY <2>2, <2>3
  <1>3. ASSUME NEW n \in S PROVE n + 1 \in S
    <2>0. n \in Nat /\ n + 1 \in Nat
      OBVIOUS
    <2> SUFFICES ASSUME n + 1 <= Len(rs) PROVE At0(n + 1)
      BY <2>0
    <2>1. n <= Len(rs) /\ n + 1 \in 1 .. Len(rs) /\ (n + 1) - 1 = n /\ n + 1 # 0
      BY <1>1, <2>0
    <2>2. IsFiniteSet(Holes(rs, n)) /\ Sweep(rs)[n] = [until |-> Until(rs, n), lost |-> Cardinality(Holes(rs, n))]
      BY <2>1
    <2>3. Sweep(rs)[n + 1] = Swept(Sweep(rs)[n], rs[n + 1])
      <3>1. Sweep(rs)[n + 1] = Swept(Sweep(rs)[(n + 1) - 1], rs[n + 1])
        BY <1>1, <2>1, SweepUnfolds
      <3> QED
        BY <2>1, <3>1
    <2>4. /\ Until(rs, n) \in Nat /\ Until(rs, n) <= rs[n + 1].start
          /\ rs[n + 1].start < rs[n + 1].end
          /\ IsFiniteSet(Holes(rs, n + 1))
          /\ Cardinality(Holes(rs, n + 1)) =
               Cardinality(Holes(rs, n)) + (rs[n + 1].start - Until(rs, n))
      BY <2>0, <2>2, HolesGrow
    <2>5. Cardinality(Holes(rs, n)) \in Nat
      BY <2>2, FS_CardinalityType
    <2>6. rs[n + 1].start \in Nat /\ rs[n + 1].end \in Nat /\ Until(rs, n + 1) = rs[n + 1].end
      BY <2>1, GappedFacts DEF Until
    <2> DEFINE c == Cardinality(Holes(rs, n))
               u == Until(rs, n)
               s == rs[n + 1].start
               e == rs[n + 1].end
    <2>7. Swept(Sweep(rs)[n], rs[n + 1]) =
            [until |-> IF e > u THEN e ELSE u, lost |-> IF s > u THEN c + (s - u) ELSE c]
      BY <2>2 DEF Swept
    <2>8. u \in Nat /\ s \in Nat /\ e \in Nat /\ c \in Nat /\ u <= s /\ s < e
      BY <2>4, <2>5, <2>6
    <2> HIDE DEF c, u, s, e
    <2>9. (IF e > u THEN e ELSE u) = e /\ (IF s > u THEN c + (s - u) ELSE c) = c + (s - u)
      BY <2>8
    <2>10. Sweep(rs)[n + 1] = [until |-> e, lost |-> c + (s - u)]
      BY <2>3, <2>7, <2>9
    <2>11. e = Until(rs, n + 1) /\ c + (s - u) = Cardinality(Holes(rs, n + 1))
      BY <2>4, <2>6 DEF c, u, s, e
    <2> QED
      BY <2>4, <2>10, <2>11
  <1> HIDE DEF At0
  <1>4. S = Nat
    <2>1. S \in SUBSET Nat
      OBVIOUS
    <2> HIDE DEF S
    <2> QED
      BY <1>2, <1>3, <2>1, SetInduction
  <1>5. At0(Len(rs))
    BY <1>1, <1>4
  <1>6. Until(rs, Len(rs)) = EndOf(rs) /\ EndOf(rs) \in Nat
    <2>1. CASE Len(rs) = 0
      BY <1>1, <2>1 DEF Until, EndOf
    <2>2. CASE Len(rs) # 0
      <3>1. Len(rs) \in 1 .. Len(rs)
        BY <1>1, <2>2
      <3>2. rs[Len(rs)].end \in Nat
        BY <3>1, GappedFacts
      <3> QED
        BY <1>1, <2>2, <3>2 DEF Until, EndOf
    <2> QED
      BY <2>1, <2>2
  <1>7. Sweep(rs)[Len(rs)] = [until |-> EndOf(rs), lost |-> Cardinality(Holes(rs, Len(rs)))]
    BY <1>5, <1>6 DEF At0
  <1>8. MissingIn(rs, EndOf(rs)) = Cardinality(Holes(rs, Len(rs)))
    BY <1>6, <1>7 DEF MissingIn
  <1> QED
    BY <1>6, <1>8 DEF Holes

-----------------------------------------------------------------------------
(* The receiver's inductive invariant.                                     *)

Statistics == [packets : Nat, output : Nat, missing : Nat, discarded : Nat,
               malformed : Nat, overlapping : Nat]

ReceiverType ==
  /\ expected \in {0, FiniteBytes}
  /\ rstate \in {"bound", "receiving", "done"}
  /\ stats \in Statistics
  /\ base \in Nat \cup {None}
  /\ file \in [RelativeBytes -> Packets \cup {None}]
  /\ net \in SUBSET Packets

\* The slice of ranges is what the file holds.
Bookkept ==
  /\ Gapped(ranges) /\ Len(ranges) <= MaxTracked
  /\ stats.output = EndOf(ranges) /\ stats.output <= MaxOutput
  /\ runErr # "write" => Covers(ranges) = WrittenBytes

\* Nothing is written before the base is known.
Placed ==
  /\ base = None => WrittenBytes = {}
  /\ PlacementExact

\* How the loop ended, and what it then reports.
Settled ==
  /\ rstate # "done" => runErr = "nil"
  /\ spanReached => expected > 0 /\ stats.output = expected
  /\ rstate = "done" /\ runErr \notin Unfinalized =>
       stats.missing = Cardinality((0 .. (stats.output - 1)) \ WrittenBytes)
  /\ rstate = "done" /\ runErr = "nil" => expected = 0 \/ spanReached

ReceiverInv == ReceiverType /\ Bookkept /\ Placed /\ Settled

LEMMA CoversBelowEnd ==
  ASSUME NEW rs, Gapped(rs)
  PROVE  EndOf(rs) \in Nat /\ Covers(rs) \subseteq 0 .. (EndOf(rs) - 1)
  <1>1. /\ Len(rs) \in Nat /\ DOMAIN rs = 1 .. Len(rs) /\ (rs = <<>> <=> Len(rs) = 0)
        /\ \A x \in 1 .. Len(rs) : rs[x].end \in Nat /\ rs[x].start \in Nat
        /\ \A x, y \in 1 .. Len(rs) : x <= y => rs[x].end <= rs[y].end
    BY GappedFacts
  <1>2. Len(rs) # 0 => Len(rs) \in 1 .. Len(rs)
    BY <1>1
  <1>3. EndOf(rs) \in Nat
    BY <1>1, <1>2 DEF EndOf
  <1>4. ASSUME NEW b \in Covers(rs) PROVE b \in 0 .. (EndOf(rs) - 1)
    <2>1. PICK x \in 1 .. Len(rs) : b \in rs[x].start .. (rs[x].end - 1)
      BY <1>1 DEF Covers
    <2>2. Len(rs) # 0 /\ x <= Len(rs)
      BY <1>1
    <2>3. EndOf(rs) = rs[Len(rs)].end
      BY <1>1, <2>2 DEF EndOf
    <2>4. rs[x].end <= rs[Len(rs)].end /\ rs[x].start \in Nat /\ rs[x].end \in Nat
      BY <1>1, <1>2, <2>2
    <2> QED
      BY <1>3, <2>1, <2>3, <2>4
  <1> QED
    BY <1>3, <1>4

LEMMA ReceiverConstants ==
  /\ NumPackets \in Nat /\ FirstOffset \in Nat /\ PacketBytes \in Nat /\ PacketBytes > 0
  /\ MaxOutputBytes \in Nat /\ FiniteBytes \in Nat /\ FiniteBytes > 0 /\ MaxTracked \in Nat
  /\ MaxTracked > 0 /\ MaxOutputBytes > 0
  /\ None \notin Nat /\ Packets \subseteq Nat /\ None \notin Packets
  <1>1. /\ NumPackets \in Nat /\ FirstOffset \in Nat /\ PacketBytes \in Nat /\ PacketBytes > 0
        /\ MaxOutputBytes \in Nat /\ FiniteBytes \in Nat /\ FiniteBytes > 0 /\ MaxTracked \in Nat
        /\ MaxTracked > 0 /\ MaxOutputBytes > 0 /\ None \notin Nat
    BY ReceiverAssumption
  <1>2. Packets \subseteq Nat
    BY <1>1 DEF Packets
  <1> QED
    BY <1>1, <1>2

LEMMA OffsetType ==
  ASSUME NEW p \in Packets
  PROVE  Offset(p) \in Nat
  <1>1. p \in Nat
    BY ReceiverConstants
  <1>2. p * PacketBytes \in Nat
    BY <1>1, ReceiverConstants
  <1> QED
    BY <1>2, ReceiverConstants DEF Offset

\* finalizeStats on the loop's own statistics.
LEMMA Finalized ==
  ASSUME Gapped(ranges), NEW s \in Statistics, s.output = EndOf(ranges)
  PROVE  /\ FinalizeStats(s) \in Statistics
         /\ FinalizeStats(s).output = s.output
         /\ FinalizeStats(s).missing = Cardinality((0 .. (s.output - 1)) \ Covers(ranges))
  <1> DEFINE k == MissingIn(ranges, s.output)
  <1>1. k = Cardinality((0 .. (s.output - 1)) \ Covers(ranges))
    BY MissingExact
  <1>2. s.output \in Nat
    BY DEF Statistics
  <1>3. IsFiniteSet(0 .. (s.output - 1))
    <2>1. 0 \in Int /\ s.output - 1 \in Int
      BY <1>2
    <2> QED
      BY <2>1, FS_Interval
  <1>4. IsFiniteSet((0 .. (s.output - 1)) \ Covers(ranges))
    BY <1>3, FS_Difference
  <1>5. k \in Nat
    BY <1>1, <1>4, FS_CardinalityType
  <1>6. FinalizeStats(s) = [s EXCEPT !.missing = k]
    BY DEF FinalizeStats
  <1> HIDE DEF k
  <1> QED
    BY <1>1, <1>5, <1>6 DEF Statistics

LEMMA WrittenSame ==
  ASSUME file' = file
  PROVE  WrittenBytes' = WrittenBytes
  BY DEF WrittenBytes

LEMMA MaxOutputSame ==
  ASSUME expected' = expected
  PROVE  MaxOutput' = MaxOutput /\ RelativeBytes' = RelativeBytes
  BY DEF MaxOutput, RelativeBytes

\* A base that is chosen while nothing is written.
BaseKept == base' = base \/ (base = None /\ base' \in Nat)

\* Steps that write nothing: the loop goes on, or ends with its statistics.
LEMMA NothingWritten ==
  ASSUME ReceiverInv, UNCHANGED <<expected, ranges, spanReached, file>>,
         BaseKept, net' \in SUBSET Packets,
         rstate' \in {"bound", "receiving", "done"},
         stats' \in Statistics, stats'.output = stats.output,
         \/ runErr' = runErr /\ (rstate' = rstate \/ (rstate = "bound" /\ rstate' = "receiving"))
            /\ (rstate = "done" => stats' = stats)
         \/ /\ rstate = "receiving" /\ rstate' = "done"
            /\ runErr' # "write"
            /\ runErr' = "nil" => expected = 0 \/ spanReached
            /\ runErr' \in Unfinalized \/ stats'.missing =
                 Cardinality((0 .. (stats.output - 1)) \ Covers(ranges))
  PROVE  ReceiverInv'
  <1>1. ReceiverType /\ Bookkept /\ Placed /\ Settled
    BY DEF ReceiverInv
  <1>2. WrittenBytes' = WrittenBytes /\ MaxOutput' = MaxOutput /\ RelativeBytes' = RelativeBytes
    BY WrittenSame, MaxOutputSame
  <1>3. ReceiverType'
    <2>1. base' \in Nat \cup {None}
      BY <1>1 DEF ReceiverType, BaseKept
    <2>2. file' \in [RelativeBytes -> Packets \cup {None}]
      BY <1>1 DEF ReceiverType
    <2>3. (file \in [RelativeBytes -> Packets \cup {None}])'
      BY <1>2, <2>2 DEF Packets
    <2>4. Packets' = Packets
      BY DEF Packets
    <2> QED
      BY <1>1, <2>1, <2>3, <2>4 DEF ReceiverType, Statistics
  <1>4. Bookkept'
    <2>1. Gapped(ranges)' /\ (EndOf(ranges))' = EndOf(ranges) /\ (Covers(ranges))' = Covers(ranges)
      BY <1>1 DEF Bookkept, Gapped, EndOf, Covers
    <2>2. runErr' # "write" => runErr # "write"
      BY <1>1 DEF Settled
    <2> QED
      BY <1>1, <1>2, <2>1, <2>2 DEF Bookkept
  <1>5. Placed'
    <2>1. CASE base' = base
      BY <1>1, <1>2, <2>1 DEF Placed, PlacementExact, Offset
    <2>2. CASE base = None /\ base' \in Nat
      <3>1. WrittenBytes' = {}
        BY <1>1, <1>2, <2>2 DEF Placed
      <3> QED
        BY <3>1 DEF Placed, PlacementExact
    <2> QED
      BY <2>1, <2>2 DEF BaseKept
  <1>6. Settled'
    <2>1. (rstate # "done" => runErr = "nil")'
      BY <1>1 DEF Settled
    <2>2. (spanReached => expected > 0 /\ stats.output = expected)'
      BY <1>1 DEF Settled
    <2>3. (rstate = "done" /\ runErr \notin Unfinalized =>
             stats.missing = Cardinality((0 .. (stats.output - 1)) \ WrittenBytes))'
      <3> SUFFICES ASSUME rstate' = "done", runErr' \notin Unfinalized
                   PROVE  stats'.missing = Cardinality((0 .. (stats.output - 1)) \ WrittenBytes)
        BY <1>2 DEF Unfinalized
      <3>1. CASE rstate = "done"
        BY <1>1, <3>1 DEF Settled
      <3>2. CASE rstate # "done"
        <4>1. Covers(ranges) = WrittenBytes
          BY <1>1, <3>2 DEF Settled, Bookkept
        <4> QED
          BY <3>2, <4>1
      <3> QED
        BY <3>1, <3>2
    <2>4. (rstate = "done" /\ runErr = "nil" => expected = 0 \/ spanReached)'
      BY <1>1 DEF Settled
    <2> QED
      BY <2>1, <2>2, <2>3, <2>4 DEF Settled
  <1> QED
    BY <1>3, <1>4, <1>5, <1>6 DEF ReceiverInv

\* What reading packet p means: its base, and where it would be placed.
LEMMA ReadsFacts ==
  ASSUME ReceiverInv, NEW p \in Packets, Reads(p)
  PROVE  /\ rstate = "receiving" /\ runErr = "nil"
         /\ BaseKept /\ base' \in Nat /\ base' = BaseWith(p)
         /\ net' \in SUBSET Packets
         /\ Relative(p) \in Int /\ base' + Relative(p) = Offset(p) /\ Offset(p) \in Nat
         /\ Addition(p).start = Relative(p) /\ Addition(p).end = Relative(p) + PacketBytes
         /\ base = None => WrittenBytes = {}
  <1>1. ReceiverType /\ Placed /\ Settled
    BY DEF ReceiverInv
  <1>2. rstate = "receiving" /\ base' = BaseWith(p) /\ Takes(p)
    BY DEF Reads, Receiving
  <1>3. runErr = "nil"
    BY <1>1, <1>2 DEF Settled
  <1>4. net' \in SUBSET Packets
    <2>1. net' = net \ {p} \/ net' = net
      BY <1>2 DEF Takes
    <2> QED
      BY <1>1, <2>1 DEF ReceiverType
  <1>5. Offset(p) \in Nat
    BY OffsetType
  <1>6. base' \in Nat /\ BaseKept
    BY <1>1, <1>2, <1>5 DEF BaseWith, ReceiverType, BaseKept
  <1>7. Relative(p) = Offset(p) - base'
    BY <1>2 DEF Relative
  <1>8. Relative(p) \in Int /\ base' + Relative(p) = Offset(p)
    BY <1>5, <1>6, <1>7
  <1>9. Addition(p).start = Relative(p) /\ Addition(p).end = Relative(p) + PacketBytes
    BY DEF Addition, ByteRange
  <1>10. base = None => WrittenBytes = {}
    BY <1>1 DEF Placed
  <1> QED
    BY <1>2, <1>3, <1>4, <1>5, <1>6, <1>8, <1>9, <1>10

LEMMA AdditionType ==
  ASSUME ReceiverInv, NEW p \in Packets, Reads(p), InBounds(p)
  PROVE  /\ Relative(p) \in Nat /\ Addition(p) \in Ranges /\ Addition(p).start < Addition(p).end
         /\ Addition(p).start = Relative(p) /\ Addition(p).end = Relative(p) + PacketBytes
         /\ Relative(p) + PacketBytes <= MaxOutput
  <1>1. Relative(p) \in Int /\ Relative(p) >= 0 /\ Addition(p).end <= MaxOutput
    BY ReadsFacts DEF InBounds
  <1>2. Addition(p) = [start |-> Relative(p), end |-> Relative(p) + PacketBytes]
    BY DEF Addition, ByteRange
  <1>3. Relative(p) \in Nat /\ Relative(p) + PacketBytes \in Nat /\ Relative(p) < Relative(p) + PacketBytes
    BY <1>1, ReceiverConstants
  <1>4. Addition(p) \in Ranges
    BY <1>2, <1>3 DEF Ranges
  <1> QED
    BY <1>1, <1>2, <1>3, <1>4

\* A write of count bytes of packet p, whole or cut short.
LEMMA WriteFacts ==
  ASSUME ReceiverInv, NEW p \in Packets, Reads(p), InBounds(p), NEW count \in 0 .. PacketBytes,
         file' = FileAfter(p, count), expected' = expected
  PROVE  /\ (file \in [RelativeBytes -> Packets \cup {None}])'
         /\ Placed'
         /\ WrittenBytes' = WrittenBytes \cup (Relative(p) .. (Relative(p) + count - 1))
  <1> DEFINE piece == Relative(p) .. (Relative(p) + count - 1)
  <1>1. ReceiverType /\ Placed
    BY DEF ReceiverInv
  <1>2. /\ base' \in Nat /\ BaseKept /\ base' + Relative(p) = Offset(p) /\ Offset(p) \in Nat
        /\ base = None => WrittenBytes = {}
    BY ReadsFacts
  <1>3. Relative(p) \in Nat /\ Relative(p) + PacketBytes <= MaxOutput
    BY AdditionType
  <1>4. count \in Nat /\ count <= PacketBytes /\ MaxOutput \in Nat /\ PacketBytes \in Nat
    BY <1>1, ReceiverConstants DEF ReceiverType, MaxOutput
  <1>5. file \in [RelativeBytes -> Packets \cup {None}] /\ DOMAIN file = RelativeBytes
    BY <1>1 DEF ReceiverType
  <1>6. file' = [b \in RelativeBytes |-> IF b \in piece THEN p ELSE file[b]]
    BY <1>5 DEF FileAfter
  <1>7. piece \subseteq RelativeBytes
    BY <1>3, <1>4 DEF RelativeBytes
  <1>8. p # None
    BY ReceiverConstants
  <1> HIDE DEF piece
  <1>9. file' \in [RelativeBytes -> Packets \cup {None}] /\ DOMAIN file' = RelativeBytes
        /\ \A b \in RelativeBytes : file'[b] = IF b \in piece THEN p ELSE file[b]
    BY <1>5, <1>6
  <1>10. (file \in [RelativeBytes -> Packets \cup {None}])'
    <2>1. RelativeBytes' = RelativeBytes /\ Packets' = Packets
      BY MaxOutputSame DEF Packets
    <2> QED
      BY <1>9, <2>1
  <1>11. WrittenBytes' = WrittenBytes \cup piece
    BY <1>5, <1>7, <1>8, <1>9 DEF WrittenBytes
  <1>12. ASSUME NEW b \in WrittenBytes'
         PROVE  base' + b \in Offset(file'[b]) .. (Offset(file'[b]) + PacketBytes - 1)
    <2>1. b \in RelativeBytes
      BY <1>5, <1>7, <1>11 DEF WrittenBytes
    <2>2. CASE b \in piece
      <3>1. file'[b] = p
        BY <1>9, <2>1, <2>2
      <3>2. b \in Relative(p) .. (Relative(p) + count - 1)
        BY <2>2 DEF piece
      <3>3. base' + b \in Offset(p) .. (Offset(p) + PacketBytes - 1)
        BY <1>2, <1>3, <1>4, <3>2
      <3> QED
        BY <3>1, <3>3
    <2>3. CASE b \notin piece
      <3>1. file'[b] = file[b] /\ b \in WrittenBytes
        BY <1>9, <1>11, <2>1, <2>3
      <3>2. base' = base
        BY <1>2, <3>1 DEF BaseKept
      <3>3. base + b \in Offset(file[b]) .. (Offset(file[b]) + PacketBytes - 1)
        BY <1>1, <3>1 DEF Placed, PlacementExact
      <3> QED
        BY <3>1, <3>2, <3>3
    <2> QED
      BY <2>2, <2>3
  <1>13. Placed'
    <2>1. (base = None => WrittenBytes = {})'
      BY <1>2, ReceiverConstants
    <2>2. PlacementExact'
      BY <1>12 DEF PlacementExact, Offset
    <2> QED
      BY <2>1, <2>2 DEF Placed
  <1> QED
    BY <1>10, <1>11, <1>13 DEF piece

LEMMA AcceptKeeps ==
  ASSUME ReceiverInv, NEW p \in Packets, Accept(p)
  PROVE  ReceiverInv'
  <1> DEFINE a == Addition(p)
             highest == IF a.end > stats.output THEN a.end ELSE stats.output
  <1>1. /\ Reads(p) /\ InBounds(p) /\ PreflightRange(ranges, a) = "ok"
        /\ file' = FileAfter(p, PacketBytes) /\ ranges' = AddRange(ranges, a)
        /\ stats' = [stats EXCEPT !.packets = @ + 1, !.output = highest]
        /\ spanReached' = (spanReached \/ (expected > 0 /\ highest = expected))
        /\ expected' = expected /\ rstate' = rstate /\ runErr' = runErr
    BY DEF Accept, Highest
  <1>2. ReceiverType /\ Bookkept /\ Settled
    BY DEF ReceiverInv
  <1>3. /\ rstate = "receiving" /\ runErr = "nil" /\ base' \in Nat /\ net' \in SUBSET Packets
    BY <1>1, ReadsFacts
  <1>4. /\ Relative(p) \in Nat /\ a \in Ranges /\ a.start < a.end /\ a.start = Relative(p)
        /\ a.end = Relative(p) + PacketBytes /\ a.end <= MaxOutput
    BY <1>1, AdditionType
  <1>5. PacketBytes \in 0 .. PacketBytes /\ MaxOutput \in Nat
    BY <1>2, ReceiverConstants DEF ReceiverType, MaxOutput
  <1>6. /\ (file \in [RelativeBytes -> Packets \cup {None}])' /\ Placed'
        /\ WrittenBytes' = WrittenBytes \cup (Relative(p) .. (Relative(p) + PacketBytes - 1))
    BY <1>1, <1>5, WriteFacts
  <1>7. /\ Gapped(ranges) /\ stats.output = EndOf(ranges) /\ Covers(ranges) = WrittenBytes
        /\ stats.output <= MaxOutput /\ stats.output \in Nat /\ stats.packets \in Nat
    BY <1>2, <1>3 DEF Bookkept, ReceiverType, Statistics
  <1> HIDE DEF a
  <1>8. /\ Gapped(AddRange(ranges, a))
        /\ Covers(AddRange(ranges, a)) = Covers(ranges) \cup (a.start .. (a.end - 1))
        /\ EndOf(AddRange(ranges, a)) = IF a.end > EndOf(ranges) THEN a.end ELSE EndOf(ranges)
        /\ Len(AddRange(ranges, a)) <= MaxTracked
    BY <1>1, <1>4, <1>7, Added
  <1>9. highest \in Nat /\ highest <= MaxOutput
    BY <1>4, <1>5, <1>7 DEF Ranges
  <1>10. highest = EndOf(ranges')
    BY <1>1, <1>7, <1>8
  <1> HIDE DEF highest
  <1>11. stats' \in Statistics /\ stats'.output = highest
    <2>1. stats \in Statistics /\ stats.packets + 1 \in Nat
      BY <1>2, <1>7 DEF ReceiverType
    <2>2. stats' = [stats EXCEPT !.packets = @ + 1, !.output = highest]
      BY <1>1
    <2> QED
      BY <1>9, <2>1, <2>2 DEF Statistics
  <1>12. MaxOutput' = MaxOutput
    BY <1>1, MaxOutputSame
  <1>13. ReceiverType'
    <2>1. Packets' = Packets
      BY DEF Packets
    <2>2. expected' \in {0, FiniteBytes} /\ rstate' \in {"bound", "receiving", "done"}
      BY <1>1, <1>2 DEF ReceiverType
    <2>3. base' \in Nat \cup {None} /\ stats' \in Statistics /\ net' \in SUBSET Packets
      BY <1>3, <1>11
    <2> QED
      BY <1>6, <2>1, <2>2, <2>3 DEF ReceiverType, Statistics
  <1>14. Bookkept'
    <2>1. Gapped(ranges)' /\ Len(ranges') <= MaxTracked
      BY <1>1, <1>8 DEF Gapped
    <2>2. (stats.output = EndOf(ranges))' /\ (stats.output <= MaxOutput)'
      <3>1. EndOf(ranges)' = EndOf(ranges')
        BY DEF EndOf
      <3> QED
        BY <1>9, <1>10, <1>11, <1>12, <3>1
    <2>3. (Covers(ranges) = WrittenBytes)'
      <3>1. Covers(ranges)' = Covers(ranges')
        BY DEF Covers
      <3>2. (a.start .. (a.end - 1)) = (Relative(p) .. (Relative(p) + PacketBytes - 1))
        <4>1. /\ a.start = Relative(p) /\ a.end = Relative(p) + PacketBytes
              /\ Relative(p) \in Nat /\ PacketBytes \in Nat
          BY <1>4, ReceiverConstants
        <4>2. a.end - 1 = Relative(p) + PacketBytes - 1
          BY <4>1
        <4> QED
          BY <4>1, <4>2
      <3>3. Covers(ranges') = Covers(ranges) \cup (a.start .. (a.end - 1))
        BY <1>1, <1>8
      <3> QED
        BY <1>6, <1>7, <3>1, <3>2, <3>3
    <2> QED
      BY <2>1, <2>2, <2>3 DEF Bookkept
  <1>15. Settled'
    <2>1. rstate' # "done" /\ runErr' = "nil"
      BY <1>1, <1>3
    <2>2. (spanReached => expected > 0 /\ stats.output = expected)'
      <3> SUFFICES ASSUME spanReached' PROVE expected > 0 /\ highest = expected
        BY <1>1, <1>11
      <3>1. CASE spanReached
        <4>1. expected > 0 /\ stats.output = expected
          BY <1>2, <3>1 DEF Settled
        <4>2. MaxOutput = expected
          BY <4>1 DEF MaxOutput
        <4>3. highest >= stats.output
          BY <1>4, <1>7 DEF highest, Ranges
        <4> QED
          BY <1>7, <1>9, <4>1, <4>2, <4>3
      <3>2. CASE ~ spanReached
        BY <1>1, <3>2
      <3> QED
        BY <3>1, <3>2
    <2> QED
      BY <2>1, <2>2 DEF Settled
  <1> QED
    BY <1>6, <1>13, <1>14, <1>15 DEF ReceiverInv

LEMMA WriteFailsKeeps ==
  ASSUME ReceiverInv, NEW p \in Packets, NEW written \in 0 .. (PacketBytes - 1),
         WriteFails(p, written)
  PROVE  ReceiverInv'
  <1>1. /\ Reads(p) /\ InBounds(p) /\ file' = FileAfter(p, written)
        /\ rstate' = "done" /\ stats' = stats /\ runErr' = "write"
        /\ expected' = expected /\ ranges' = ranges /\ spanReached' = spanReached
    BY DEF WriteFails, LoopEnds
  <1>2. ReceiverType /\ Bookkept /\ Settled
    BY DEF ReceiverInv
  <1>3. base' \in Nat /\ net' \in SUBSET Packets
    BY <1>1, ReadsFacts
  <1>4. written \in 0 .. PacketBytes
    BY ReceiverConstants
  <1>5. (file \in [RelativeBytes -> Packets \cup {None}])' /\ Placed'
    BY <1>1, <1>4, WriteFacts
  <1>6. MaxOutput' = MaxOutput
    BY <1>1, MaxOutputSame
  <1>7. ReceiverType'
    <2>1. Packets' = Packets
      BY DEF Packets
    <2> QED
      BY <1>1, <1>2, <1>3, <1>5, <2>1 DEF ReceiverType, Statistics
  <1>8. Bookkept'
    <2>1. Gapped(ranges)' /\ (EndOf(ranges))' = EndOf(ranges)
      BY <1>1, <1>2 DEF Bookkept, Gapped, EndOf
    <2> QED
      BY <1>1, <1>2, <1>6, <2>1 DEF Bookkept
  <1>9. Settled'
    BY <1>1, <1>2 DEF Settled, Unfinalized
  <1> QED
    BY <1>5, <1>7, <1>8, <1>9 DEF ReceiverInv

\* The loop ends with finalized statistics.
LEMMA FinalizedEnd ==
  ASSUME ReceiverInv, rstate = "receiving", NEW s \in Statistics, s.output = stats.output, NEW err,
         LoopEnds(FinalizeStats(s), err), err # "write", err = "nil" => expected = 0 \/ spanReached,
         UNCHANGED <<expected, ranges, spanReached, file>>, BaseKept, net' \in SUBSET Packets
  PROVE  ReceiverInv'
  <1>1. Gapped(ranges) /\ stats.output = EndOf(ranges)
    BY DEF ReceiverInv, Bookkept
  <1>2. rstate' = "done" /\ stats' = FinalizeStats(s) /\ runErr' = err
    BY DEF LoopEnds
  <1>3. /\ stats' \in Statistics /\ stats'.output = stats.output
        /\ stats'.missing = Cardinality((0 .. (stats.output - 1)) \ Covers(ranges))
    BY <1>1, <1>2, Finalized
  <1> QED
    BY <1>2, <1>3, NothingWritten

LEMMA ReceiveLoopKeeps ==
  ASSUME ReceiverInv, ReceiveLoop
  PROVE  ReceiverInv'
  <1>1. ReceiverType /\ stats \in Statistics /\ net \in SUBSET Packets
    BY DEF ReceiverInv, ReceiverType
  <1>2. CASE LoopCancelled
    <2>1. /\ rstate = "receiving" /\ LoopEnds(FinalizeStats(stats), "cancelled")
          /\ UNCHANGED <<expected, ranges, spanReached, file>> /\ base' = base /\ net' = net
      BY <1>2 DEF LoopCancelled, Receiving, netVars
    <2> QED
      BY <1>1, <2>1, FinalizedEnd DEF BaseKept
  <1>3. CASE LoopClosed
    <2>1. /\ rstate = "receiving" /\ LoopEnds(FinalizeStats(stats), "closed")
          /\ UNCHANGED <<expected, ranges, spanReached, file>> /\ base' = base /\ net' = net
      BY <1>3 DEF LoopClosed, Receiving, netVars
    <2> QED
      BY <1>1, <2>1, FinalizedEnd DEF BaseKept
  <1>4. CASE FirstPacketTimeout
    <2>1. /\ rstate = "receiving" /\ LoopEnds(FinalizeStats(stats), "firstPacketTimeout")
          /\ UNCHANGED <<expected, ranges, spanReached, file>> /\ base' = base /\ net' = net
      BY <1>4 DEF FirstPacketTimeout, Receiving, netVars
    <2> QED
      BY <1>1, <2>1, FinalizedEnd DEF BaseKept
  <1>5. CASE LoopIdle
    <2>1. /\ rstate = "receiving" /\ LoopEnds(FinalizeStats(stats), "nil")
          /\ UNCHANGED <<expected, ranges, spanReached, file>> /\ base' = base /\ net' = net
          /\ expected = 0 \/ spanReached
      BY <1>5 DEF LoopIdle, IdleArmed, Receiving, netVars
    <2> QED
      BY <1>1, <2>1, FinalizedEnd DEF BaseKept
  <1>6. CASE ReadFails
    <2>1. /\ rstate = "receiving" /\ rstate' = "done" /\ stats' = stats /\ runErr' = "read"
          /\ UNCHANGED <<expected, ranges, spanReached, file>> /\ base' = base /\ net' = net
      BY <1>6 DEF ReadFails, LoopEnds, Receiving, netVars
    <2> QED
      BY <1>1, <2>1, NothingWritten DEF BaseKept, Unfinalized
  <1>7. CASE MalformedArrives
    <2>1. /\ rstate = "receiving" /\ rstate' = rstate /\ runErr' = runErr
          /\ stats' = [stats EXCEPT !.malformed = @ + 1]
          /\ UNCHANGED <<expected, ranges, spanReached, file>> /\ base' = base /\ net' = net
      BY <1>7 DEF MalformedArrives, Receiving, netVars
    <2>2. stats' \in Statistics /\ stats'.output = stats.output
      BY <1>1, <2>1 DEF Statistics
    <2> QED
      BY <1>1, <2>1, <2>2, NothingWritten DEF BaseKept
  <1>8. ASSUME NEW p \in Packets, DiscardBeforeBase(p) PROVE ReceiverInv'
    <2>1. /\ Reads(p) /\ rstate' = rstate /\ runErr' = runErr
          /\ stats' = [stats EXCEPT !.discarded = @ + 1]
          /\ UNCHANGED <<expected, ranges, spanReached, file>>
      BY <1>8 DEF DiscardBeforeBase
    <2>2. stats' \in Statistics /\ stats'.output = stats.output
      BY <1>1, <2>1 DEF Statistics
    <2>3. rstate = "receiving" /\ BaseKept /\ net' \in SUBSET Packets
      BY <2>1, ReadsFacts
    <2> QED
      BY <2>1, <2>2, <2>3, NothingWritten
  <1>9. ASSUME NEW p \in Packets, ExceedsOutput(p) PROVE ReceiverInv'
    <2>1. /\ Reads(p) /\ rstate' = "done" /\ stats' = stats /\ runErr' = "limit"
          /\ UNCHANGED <<expected, ranges, spanReached, file>>
      BY <1>9 DEF ExceedsOutput, LoopEnds
    <2>2. rstate = "receiving" /\ BaseKept /\ net' \in SUBSET Packets
      BY <2>1, ReadsFacts
    <2> QED
      BY <1>1, <2>1, <2>2, NothingWritten DEF Unfinalized
  <1>10. ASSUME NEW p \in Packets, RefusesRange(p) PROVE ReceiverInv'
    <2> DEFINE verdict == PreflightRange(ranges, Addition(p))
               s == [stats EXCEPT !.overlapping = IF verdict = "overlap" THEN @ + 1 ELSE @]
    <2>1. /\ Reads(p) /\ LoopEnds(FinalizeStats(s), verdict) /\ verdict # "ok"
          /\ UNCHANGED <<expected, ranges, spanReached, file>>
      BY <1>10 DEF RefusesRange
    <2>2. rstate = "receiving" /\ BaseKept /\ net' \in SUBSET Packets
      BY <2>1, ReadsFacts
    <2>3. verdict \in {"overlap", "sparse", "ok"}
      BY DEF PreflightRange
    <2> HIDE DEF verdict
    <2>4. s \in Statistics /\ s.output = stats.output
      BY <1>1 DEF Statistics
    <2> HIDE DEF s
    <2>5. verdict # "write" /\ verdict # "nil"
      BY <2>1, <2>3
    <2> QED
      BY <2>1, <2>2, <2>4, <2>5, FinalizedEnd
  <1>11. ASSUME NEW p \in Packets, Arrives(p) PROVE ReceiverInv'
    BY <1>8, <1>9, <1>10, <1>11, AcceptKeeps, WriteFailsKeeps DEF Arrives
  <1> QED
    BY <1>2, <1>3, <1>4, <1>5, <1>6, <1>7, <1>11 DEF ReceiveLoop, LoopStops, LoopTimesOut

\* The client's calls and the network leave the loop's bookkeeping alone.
LEMMA ClientKeeps ==
  ASSUME ReceiverInv, UNCHANGED <<expected, recvVars>>, net' \in SUBSET Packets,
         rstate' = rstate \/ (rstate = "bound" /\ rstate' = "receiving")
  PROVE  ReceiverInv'
  <1>1. UNCHANGED <<expected, ranges, spanReached, file, stats, base, runErr>>
    BY DEF recvVars
  <1>2. stats \in Statistics /\ rstate \in {"bound", "receiving", "done"}
    BY DEF ReceiverInv, ReceiverType
  <1>3. rstate' \in {"bound", "receiving", "done"} /\ stats' = stats /\ BaseKept
    BY <1>1, <1>2 DEF BaseKept
  <1> QED
    BY <1>1, <1>2, <1>3, NothingWritten

LEMMA ReceiverInitInv == ReceiverInit => ReceiverInv
  <1> SUFFICES ASSUME ReceiverInit PROVE ReceiverInv
    OBVIOUS
  <1>1. /\ expected \in {0, FiniteBytes} /\ rstate = "bound" /\ stats = ZeroStats /\ runErr = "nil"
        /\ ranges = <<>> /\ base = None /\ spanReached = FALSE
        /\ file = [b \in RelativeBytes |-> None] /\ net = {}
    BY DEF ReceiverInit
  <1>2. stats \in Statistics /\ stats.output = 0
    BY <1>1 DEF ZeroStats, Statistics
  <1>3. ReceiverType
    BY <1>1, <1>2 DEF ReceiverType
  <1>4. WrittenBytes = {}
    BY <1>1 DEF WrittenBytes
  <1>5. Gapped(ranges) /\ Len(ranges) = 0 /\ Covers(ranges) = {} /\ EndOf(ranges) = 0
    BY <1>1 DEF Gapped, Covers, EndOf
  <1>6. Bookkept
    <2>1. MaxOutput \in Nat
      BY <1>1, ReceiverConstants DEF MaxOutput
    <2> QED
      BY <1>2, <1>4, <1>5, <2>1, ReceiverConstants DEF Bookkept
  <1>7. Placed /\ Settled
    BY <1>1, <1>4 DEF Placed, Settled, PlacementExact
  <1> QED
    BY <1>3, <1>6, <1>7 DEF ReceiverInv

-----------------------------------------------------------------------------
(* The session's inductive invariant.                                      *)

Preparing == {"verify", "radarOff", "dcaOff", "configure", "apply", "arm", "bind"}
Recording == {"recordStarted", "startParticipant", "startRadar"}
Capturing == {"waitFirst", "waitingFirst", "observe", "capture"}
RadarOff == {"drain", "stopRecord", "stopReceiver", "join", "validate", "finish", "seal",
             "commit", "returned"}
DcaOff == {"stopReceiver", "join", "validate", "finish", "seal", "commit", "returned"}
Validated == {"finish", "seal", "commit", "returned"}
Ending == {"stopRadar"} \cup RadarOff
Labels == Preparing \cup {"startReceiver", "startRecord"} \cup Recording \cup Capturing \cup Ending

SessionType ==
  /\ pc \in Labels
  /\ failed \in BOOLEAN
  /\ flags \in [dcaUsed : BOOLEAN, bound : BOOLEAN, receiverStarted : BOOLEAN,
                dcaRecording : BOOLEAN, radarMayBeRunning : BOOLEAN,
                frameEndObserved : BOOLEAN, participantActive : BOOLEAN]
  /\ options \in [stoppable : BOOLEAN, awaiter : BOOLEAN, participant : BOOLEAN, timely : BOOLEAN]
  /\ issued \in [startRecord : BOOLEAN, stopRecord : BOOLEAN, startRadar : BOOLEAN,
                 stopRadar : BOOLEAN]

\* The receiver is started once it is bound, and joined before validation.
ReceiverHeld ==
  /\ rstate # "bound" => flags.bound
  /\ pc = "startReceiver" => flags.bound
  /\ pc \in {"startRecord"} \cup Recording \cup Capturing => rstate # "bound"
  /\ Frozen => rstate # "receiving"

\* What an undisturbed run has done by the time it is there.
Progress ==
  /\ failed => pc \in Ending
  /\ pc \in Recording \cup Capturing => flags.dcaRecording
  /\ pc \in Capturing => flags.radarMayBeRunning
  /\ options.participant /\ pc \in {"bind", "startReceiver", "startRecord"} \cup Recording \cup Capturing
       => flags.participantActive
  /\ pc \in Ending /\ ~ failed =>
       /\ rstate # "bound" /\ flags.dcaRecording /\ flags.radarMayBeRunning
       /\ options.participant => flags.participantActive

\* Commands on the wire and the flags the cleanup goes by.
Commanded ==
  /\ pc \in Preparing \cup {"startReceiver", "startRecord"} => ~ issued.startRecord
  /\ issued.startRecord => issued.stopRecord \/ dcaPoisoned \/ flags.dcaRecording
  /\ pc \in DcaOff /\ flags.dcaRecording => issued.stopRecord
  /\ issued.startRadar => flags.radarMayBeRunning
  /\ pc \in RadarOff /\ flags.radarMayBeRunning =>
       issued.stopRadar \/ (options.awaiter /\ flags.frameEndObserved)

\* A capture that has not failed has stopped both devices.
Converged ==
  /\ pc \in RadarOff /\ ~ failed => radar = "stopped"
  /\ pc \in DcaOff /\ ~ failed => dca = "stopped"

\* What has been established of a capture that may still be published.
Concluded ==
  /\ pc \in Validated /\ ~ failed => ResultValid
  /\ pc \in {"seal", "commit", "returned"} /\ ~ failed /\ options.participant =>
       participant = "finishedOk"
  /\ pc \in {"commit", "returned"} /\ ~ failed => mirror \in {"absent", "sealed"}
  /\ published => pc = "returned" /\ ~ failed

SessionInv ==
  /\ ReceiverInv /\ SessionType /\ ReceiverHeld /\ Progress /\ Commanded /\ Converged /\ Concluded

LEMMA RunKeeps ==
  ASSUME SessionInv, RunStep
  PROVE  (SessionType /\ ReceiverHeld /\ Progress /\ Commanded /\ Converged /\ Concluded)'
  <1> USE DEF Labels, Ending, RadarOff, DcaOff, Validated, Preparing, Recording, Capturing, Frozen
  <1>0. /\ ReceiverInv /\ SessionType /\ ReceiverHeld /\ Progress /\ Commanded /\ Converged /\ Concluded
        /\ rstate \in {"bound", "receiving", "done"}
    BY DEF SessionInv, ReceiverInv, ReceiverType
  <1>1. CASE VerifyPlatform
    <2>1. SessionType'
      <3>1. pc' \in Labels
        BY <1>1 DEF VerifyPlatform, Goto, ReturnError
      <3>2. failed' \in BOOLEAN
        BY <1>0, <1>1 DEF VerifyPlatform, Goto, ReturnError, SessionType
      <3>3. flags' = flags /\ options' = options
        BY <1>1 DEF VerifyPlatform, keep
      <3>4. issued' = issued
        BY <1>1 DEF VerifyPlatform
      <3> QED
        BY <1>0, <3>1, <3>2, <3>3, <3>4 DEF SessionType
    <2>2. ReceiverHeld'
      BY <1>0, <1>1 DEF VerifyPlatform, At, Goto, ReturnError, rvars, SessionType, ReceiverHeld
    <2>3. Progress'
      BY <1>0, <1>1 DEF VerifyPlatform, At, Goto, ReturnError, keep, rvars, SessionType, Progress
    <2>4. Commanded'
      BY <1>0, <1>1 DEF VerifyPlatform, At, Goto, ReturnError, keep, SessionType, Commanded
    <2>5. Converged'
      BY <1>0, <1>1 DEF VerifyPlatform, At, Goto, ReturnError, SessionType, Converged
    <2>6. Concluded'
      BY <1>0, <1>1 DEF VerifyPlatform, At, Goto, ReturnError, keep, rvars, recvVars, SessionType,
                        Concluded, ResultValid, Infinite
    <2> QED
      BY <2>1, <2>2, <2>3, <2>4, <2>5, <2>6
  <1>2. CASE FirstRadarStop
    <2>1. SessionType'
      <3>1. pc' \in Labels
        BY <1>2 DEF FirstRadarStop, Goto, ReturnError
      <3>2. failed' \in BOOLEAN
        BY <1>0, <1>2 DEF FirstRadarStop, Goto, ReturnError, SessionType
      <3>3. flags' = flags /\ options' = options
        BY <1>2 DEF FirstRadarStop, keep
      <3>4. issued' = issued
        BY <1>2 DEF FirstRadarStop
      <3> QED
        BY <1>0, <3>1, <3>2, <3>3, <3>4 DEF SessionType
    <2>2. ReceiverHeld'
      BY <1>0, <1>2 DEF FirstRadarStop, At, Goto, ReturnError, rvars, SessionType, ReceiverHeld
    <2>3. Progress'
      BY <1>0, <1>2 DEF FirstRadarStop, At, Goto, ReturnError, keep, rvars, SessionType, Progress
    <2>4. Commanded'
      BY <1>0, <1>2 DEF FirstRadarStop, At, Goto, ReturnError, keep, SessionType, Commanded
    <2>5. Converged'
      BY <1>0, <1>2 DEF FirstRadarStop, At, Goto, ReturnError, SessionType, Converged
    <2>6. Concluded'
      BY <1>0, <1>2 DEF FirstRadarStop, At, Goto, ReturnError, keep, rvars, recvVars, SessionType,
                        Concluded, ResultValid, Infinite
    <2> QED
      BY <2>1, <2>2, <2>3, <2>4, <2>5, <2>6
  <1>3. CASE FirstStopRecord
    <2>1. SessionType'
      BY ZenonT(40), <1>0, <1>3 DEF FirstStopRecord, Goto, ReturnError, keep, SessionType, DcaCommandFails
    <2>2. ReceiverHeld'
      BY <1>0, <1>3 DEF FirstStopRecord, At, Goto, ReturnError, rvars, SessionType, ReceiverHeld,
                        DcaCommandFails
    <2>3. Progress'
      BY <1>0, <1>3 DEF FirstStopRecord, At, Goto, ReturnError, keep, rvars, SessionType, Progress,
                        DcaCommandFails
    <2>4. Commanded'
      BY <1>0, <1>3 DEF FirstStopRecord, At, Goto, ReturnError, keep, SessionType, Commanded,
                        DcaCommandFails
    <2>5. Converged'
      BY <1>0, <1>3 DEF FirstStopRecord, At, Goto, ReturnError, SessionType, Converged,
                        DcaCommandFails
    <2>6. Concluded'
      BY <1>0, <1>3 DEF FirstStopRecord, At, Goto, ReturnError, keep, rvars, recvVars, SessionType,
                        Concluded, DcaCommandFails, ResultValid, Infinite
    <2> QED
      BY <2>1, <2>2, <2>3, <2>4, <2>5, <2>6
  <1>4. CASE ConfigureDca
    <2>1. SessionType'
      <3>1. pc' \in Labels
        BY <1>4 DEF ConfigureDca, Goto, ReturnError, DcaCommandFails
      <3>2. failed' \in BOOLEAN
        BY <1>0, <1>4 DEF ConfigureDca, Goto, ReturnError, SessionType, DcaCommandFails
      <3>3. flags' = flags /\ options' = options
        BY <1>4 DEF ConfigureDca, keep
      <3>4. issued' = issued
        BY <1>4 DEF ConfigureDca
      <3> QED
        BY <1>0, <3>1, <3>2, <3>3, <3>4 DEF SessionType
    <2>2. ReceiverHeld'
      BY <1>0, <1>4 DEF ConfigureDca, At, Goto, ReturnError, rvars, SessionType, ReceiverHeld,
                        DcaCommandFails
    <2>3. Progress'
      BY <1>0, <1>4 DEF ConfigureDca, At, Goto, ReturnError, keep, rvars, SessionType, Progress,
                        DcaCommandFails
    <2>4. Commanded'
      BY <1>0, <1>4 DEF ConfigureDca, At, Goto, ReturnError, keep, SessionType, Commanded,
                        DcaCommandFails
    <2>5. Converged'
      BY <1>0, <1>4 DEF ConfigureDca, At, Goto, ReturnError, SessionType, Converged, DcaCommandFails
    <2>6. Concluded'
      BY <1>0, <1>4 DEF ConfigureDca, At, Goto, ReturnError, keep, rvars, recvVars, SessionType,
                        Concluded, DcaCommandFails, ResultValid, Infinite
    <2> QED
      BY <2>1, <2>2, <2>3, <2>4, <2>5, <2>6
  <1>5. CASE ApplyRadar
    <2>1. SessionType'
      <3>1. pc' \in Labels
        BY <1>5 DEF ApplyRadar, Goto, ReturnError
      <3>2. failed' \in BOOLEAN
        BY <1>0, <1>5 DEF ApplyRadar, Goto, ReturnError, SessionType
      <3>3. flags' = flags /\ options' = options
        BY <1>5 DEF ApplyRadar, keep
      <3>4. issued' = issued
        BY <1>5 DEF ApplyRadar
      <3> QED
        BY <1>0, <3>1, <3>2, <3>3, <3>4 DEF SessionType
    <2>2. ReceiverHeld'
      BY <1>0, <1>5 DEF ApplyRadar, At, Goto, ReturnError, rvars, SessionType, ReceiverHeld
    <2>3. Progress'
      BY <1>0, <1>5 DEF ApplyRadar, At, Goto, ReturnError, keep, rvars, SessionType, Progress
    <2>4. Commanded'
      BY <1>0, <1>5 DEF ApplyRadar, At, Goto, ReturnError, keep, SessionType, Commanded
    <2>5. Converged'
      BY <1>0, <1>5 DEF ApplyRadar, At, Goto, ReturnError, SessionType, Converged
    <2>6. Concluded'
      BY <1>0, <1>5 DEF ApplyRadar, At, Goto, ReturnError, keep, rvars, recvVars, SessionType,
                        Concluded, ResultValid, Infinite
    <2> QED
      BY <2>1, <2>2, <2>3, <2>4, <2>5, <2>6
  <1>6. CASE ArmParticipant
    <2>1. SessionType'
      BY ZenonT(40), <1>0, <1>6 DEF ArmParticipant, Goto, ReturnError, keep, SessionType
    <2>2. ReceiverHeld'
      BY <1>0, <1>6 DEF ArmParticipant, At, Goto, ReturnError, rvars, SessionType, ReceiverHeld
    <2>3. Progress'
      BY <1>0, <1>6 DEF ArmParticipant, At, Goto, ReturnError, keep, rvars, SessionType, Progress
    <2>4. Commanded'
      BY <1>0, <1>6 DEF ArmParticipant, At, Goto, ReturnError, keep, SessionType, Commanded
    <2>5. Converged'
      BY <1>0, <1>6 DEF ArmParticipant, At, Goto, ReturnError, SessionType, Converged
    <2>6. Concluded'
      BY <1>0, <1>6 DEF ArmParticipant, At, Goto, ReturnError, keep, rvars, recvVars, SessionType,
                        Concluded, ResultValid, Infinite
    <2> QED
      BY <2>1, <2>2, <2>3, <2>4, <2>5, <2>6
  <1>7. CASE BindReceiver
    <2>1. SessionType'
      BY ZenonT(40), <1>0, <1>7 DEF BindReceiver, Goto, ReturnError, keep, SessionType
    <2>2. ReceiverHeld'
      BY <1>0, <1>7 DEF BindReceiver, At, Goto, ReturnError, rvars, SessionType, ReceiverHeld
    <2>3. Progress'
      BY <1>0, <1>7 DEF BindReceiver, At, Goto, ReturnError, keep, rvars, SessionType, Progress
    <2>4. Commanded'
      BY <1>0, <1>7 DEF BindReceiver, At, Goto, ReturnError, keep, SessionType, Commanded
    <2>5. Converged'
      BY <1>0, <1>7 DEF BindReceiver, At, Goto, ReturnError, SessionType, Converged
    <2>6. Concluded'
      BY <1>0, <1>7 DEF BindReceiver, At, Goto, ReturnError, keep, rvars, recvVars, SessionType,
                        Concluded, ResultValid, Infinite
    <2> QED
      BY <2>1, <2>2, <2>3, <2>4, <2>5, <2>6
  <1>8. CASE StartReceiver
    <2>1. SessionType'
      BY <1>0, <1>8 DEF StartReceiver, Goto, keep, SessionType, Start
    <2>2. ReceiverHeld'
      BY <1>0, <1>8 DEF StartReceiver, At, Goto, SessionType, ReceiverHeld, Start
    <2>3. Progress'
      BY <1>0, <1>8 DEF StartReceiver, At, Goto, keep, SessionType, Progress, Start
    <2>4. Commanded'
      BY <1>0, <1>8 DEF StartReceiver, At, Goto, keep, SessionType, Commanded, Start
    <2>5. Converged'
      BY <1>0, <1>8 DEF StartReceiver, At, Goto, SessionType, Converged, Start
    <2>6. Concluded'
      BY <1>0, <1>8 DEF StartReceiver, At, Goto, keep, recvVars, SessionType, Concluded, Start,
                        ResultValid, Infinite
    <2> QED
      BY <2>1, <2>2, <2>3, <2>4, <2>5, <2>6
  <1>9. CASE StartRecordOk
    <2>1. SessionType'
      BY <1>0, <1>9 DEF StartRecordOk, Goto, keep, SessionType
    <2>2. ReceiverHeld'
      BY <1>0, <1>9 DEF StartRecordOk, At, Goto, rvars, SessionType, ReceiverHeld
    <2>3. Progress'
      BY <1>0, <1>9 DEF StartRecordOk, At, Goto, keep, rvars, SessionType, Progress
    <2>4. Commanded'
      BY <1>0, <1>9 DEF StartRecordOk, At, Goto, keep, SessionType, Commanded
    <2>5. Converged'
      BY <1>0, <1>9 DEF StartRecordOk, At, Goto, SessionType, Converged
    <2>6. Concluded'
      BY <1>0, <1>9 DEF StartRecordOk, At, Goto, keep, rvars, recvVars, SessionType, Concluded,
                        ResultValid, Infinite
    <2> QED
      BY <2>1, <2>2, <2>3, <2>4, <2>5, <2>6
  <1>10. CASE StartRecordFails
    <2>1. SessionType'
      <3>1. pc' \in Labels
        BY <1>10 DEF StartRecordFails, ReturnError
      <3>2. failed' \in BOOLEAN
        BY <1>0, <1>10 DEF StartRecordFails, ReturnError, SessionType
      <3>3. flags' = flags /\ options' = options
        BY <1>10 DEF StartRecordFails, keep
      <3>4. issued' \in [startRecord : BOOLEAN, stopRecord : BOOLEAN, startRadar : BOOLEAN,
                          stopRadar : BOOLEAN]
        BY <1>0, <1>10 DEF StartRecordFails, SessionType
      <3> QED
        BY <1>0, <3>1, <3>2, <3>3, <3>4 DEF SessionType
    <2>2. ReceiverHeld'
      BY <1>0, <1>10 DEF StartRecordFails, At, ReturnError, rvars, SessionType, ReceiverHeld
    <2>3. Progress'
      BY <1>0, <1>10 DEF StartRecordFails, At, ReturnError, keep, rvars, SessionType, Progress
    <2>4. Commanded'
      BY <1>0, <1>10 DEF StartRecordFails, At, ReturnError, keep, SessionType, Commanded
    <2>5. Converged'
      BY <1>0, <1>10 DEF StartRecordFails, At, ReturnError, SessionType, Converged
    <2>6. Concluded'
      BY <1>0, <1>10 DEF StartRecordFails, At, ReturnError, keep, rvars, recvVars, SessionType,
                         Concluded, ResultValid, Infinite
    <2> QED
      BY <2>1, <2>2, <2>3, <2>4, <2>5, <2>6
  <1>11. CASE AfterStartRecord
    <2>1. SessionType'
      <3>1. pc' \in Labels
        BY <1>11 DEF AfterStartRecord, Goto, ReturnError
      <3>2. failed' \in BOOLEAN
        BY <1>0, <1>11 DEF AfterStartRecord, Goto, ReturnError, SessionType
      <3>3. flags' = flags /\ options' = options
        BY <1>11 DEF AfterStartRecord, keep
      <3>4. issued' = issued
        BY <1>11 DEF AfterStartRecord
      <3> QED
        BY <1>0, <3>1, <3>2, <3>3, <3>4 DEF SessionType
    <2>2. ReceiverHeld'
      BY <1>0, <1>11 DEF AfterStartRecord, At, Goto, ReturnError, rvars, SessionType, ReceiverHeld
    <2>3. Progress'
      BY <1>0, <1>11 DEF AfterStartRecord, At, Goto, ReturnError, keep, rvars, SessionType, Progress
    <2>4. Commanded'
      BY <1>0, <1>11 DEF AfterStartRecord, At, Goto, ReturnError, keep, SessionType, Commanded
    <2>5. Converged'
      BY <1>0, <1>11 DEF AfterStartRecord, At, Goto, ReturnError, SessionType, Converged
    <2>6. Concluded'
      BY <1>0, <1>11 DEF AfterStartRecord, At, Goto, ReturnError, keep, rvars, recvVars,
                         SessionType, Concluded, ResultValid, Infinite
    <2> QED
      BY <2>1, <2>2, <2>3, <2>4, <2>5, <2>6
  <1>12. CASE StartParticipant
    <2>1. SessionType'
      <3>1. pc' \in Labels
        BY <1>12 DEF StartParticipant, Goto, ReturnError
      <3>2. failed' \in BOOLEAN
        BY <1>0, <1>12 DEF StartParticipant, Goto, ReturnError, SessionType
      <3>3. flags' = flags /\ options' = options
        BY <1>12 DEF StartParticipant, keep
      <3>4. issued' = issued
        BY <1>12 DEF StartParticipant
      <3> QED
        BY <1>0, <3>1, <3>2, <3>3, <3>4 DEF SessionType
    <2>2. ReceiverHeld'
      BY <1>0, <1>12 DEF StartParticipant, At, Goto, ReturnError, rvars, SessionType, ReceiverHeld
    <2>3. Progress'
      BY <1>0, <1>12 DEF StartParticipant, At, Goto, ReturnError, keep, rvars, SessionType, Progress
    <2>4. Commanded'
      BY <1>0, <1>12 DEF StartParticipant, At, Goto, ReturnError, keep, SessionType, Commanded
    <2>5. Converged'
      BY <1>0, <1>12 DEF StartParticipant, At, Goto, ReturnError, SessionType, Converged
    <2>6. Concluded'
      BY <1>0, <1>12 DEF StartParticipant, At, Goto, ReturnError, keep, rvars, recvVars,
                         SessionType, Concluded, ResultValid, Infinite
    <2> QED
      BY <2>1, <2>2, <2>3, <2>4, <2>5, <2>6
  <1>13. CASE StartRadar
    <2>1. SessionType'
      BY <1>0, <1>13 DEF StartRadar, Goto, ReturnError, keep, SessionType
    <2>2. ReceiverHeld'
      BY <1>0, <1>13 DEF StartRadar, At, Goto, ReturnError, rvars, SessionType, ReceiverHeld
    <2>3. Progress'
      BY <1>0, <1>13 DEF StartRadar, At, Goto, ReturnError, keep, rvars, SessionType, Progress
    <2>4. Commanded'
      BY <1>0, <1>13 DEF StartRadar, At, Goto, ReturnError, keep, SessionType, Commanded
    <2>5. Converged'
      BY <1>0, <1>13 DEF StartRadar, At, Goto, ReturnError, SessionType, Converged
    <2>6. Concluded'
      BY <1>0, <1>13 DEF StartRadar, At, Goto, ReturnError, keep, rvars, recvVars, SessionType,
                         Concluded, ResultValid, Infinite
    <2> QED
      BY <2>1, <2>2, <2>3, <2>4, <2>5, <2>6
  <1>14. CASE EnterWaitForFirst
    <2>1. SessionType'
      BY <1>0, <1>14 DEF EnterWaitForFirst, Goto, keep, SessionType, BeginWait
    <2>2. ReceiverHeld'
      BY <1>0, <1>14 DEF EnterWaitForFirst, At, Goto, SessionType, ReceiverHeld, BeginWait
    <2>3. Progress'
      BY <1>0, <1>14 DEF EnterWaitForFirst, At, Goto, keep, SessionType, Progress, BeginWait
    <2>4. Commanded'
      BY <1>0, <1>14 DEF EnterWaitForFirst, At, Goto, keep, SessionType, Commanded, BeginWait
    <2>5. Converged'
      BY <1>0, <1>14 DEF EnterWaitForFirst, At, Goto, SessionType, Converged, BeginWait
    <2>6. Concluded'
      BY <1>0, <1>14 DEF EnterWaitForFirst, At, Goto, keep, recvVars, SessionType, Concluded,
                         BeginWait, ResultValid, Infinite
    <2> QED
      BY <2>1, <2>2, <2>3, <2>4, <2>5, <2>6
  <1>15. CASE WaitForFirst
    <2>1. SessionType'
      <3>1. pc' \in Labels
        BY <1>15 DEF WaitForFirst, Goto, ReturnError
      <3>2. failed' \in BOOLEAN
        BY <1>0, <1>15 DEF WaitForFirst, Goto, ReturnError, SessionType
      <3>3. flags' = flags /\ options' = options
        BY <1>15 DEF WaitForFirst, keep
      <3>4. issued' = issued
        BY <1>15 DEF WaitForFirst
      <3> QED
        BY <1>0, <3>1, <3>2, <3>3, <3>4 DEF SessionType
    <2>2. ReceiverHeld'
      BY <1>0, <1>15 DEF WaitForFirst, At, Goto, ReturnError, rvars, SessionType, ReceiverHeld
    <2>3. Progress'
      BY <1>0, <1>15 DEF WaitForFirst, At, Goto, ReturnError, keep, rvars, SessionType, Progress
    <2>4. Commanded'
      BY <1>0, <1>15 DEF WaitForFirst, At, Goto, ReturnError, keep, SessionType, Commanded
    <2>5. Converged'
      BY <1>0, <1>15 DEF WaitForFirst, At, Goto, ReturnError, SessionType, Converged
    <2>6. Concluded'
      BY <1>0, <1>15 DEF WaitForFirst, At, Goto, ReturnError, keep, rvars, recvVars, SessionType,
                         Concluded, ResultValid, Infinite
    <2> QED
      BY <2>1, <2>2, <2>3, <2>4, <2>5, <2>6
  <1>28. CASE RadarFrameStartObserved
    <2>1. SessionType'
      BY <1>0, <1>28 DEF RadarFrameStartObserved, Goto, keep, SessionType
    <2>2. ReceiverHeld'
      BY <1>0, <1>28 DEF RadarFrameStartObserved, At, Goto, rvars, SessionType, ReceiverHeld
    <2>3. Progress'
      BY <1>0, <1>28 DEF RadarFrameStartObserved, At, Goto, keep, rvars, SessionType, Progress
    <2>4. Commanded'
      BY <1>0, <1>28 DEF RadarFrameStartObserved, At, Goto, keep, SessionType, Commanded
    <2>5. Converged'
      BY <1>0, <1>28 DEF RadarFrameStartObserved, At, Goto, SessionType, Converged
    <2>6. Concluded'
      BY <1>0, <1>28 DEF RadarFrameStartObserved, At, Goto, keep, rvars, recvVars, SessionType,
                         Concluded, ResultValid, Infinite
    <2> QED
      BY <2>1, <2>2, <2>3, <2>4, <2>5, <2>6
  <1>16. CASE CaptureStopped
    <2>1. SessionType'
      BY <1>0, <1>16 DEF CaptureStopped, Goto, keep, SessionType
    <2>2. ReceiverHeld'
      BY <1>0, <1>16 DEF CaptureStopped, At, Goto, rvars, SessionType, ReceiverHeld
    <2>3. Progress'
      <3>1. pc = "capture" /\ pc' = "stopRadar" /\ failed' = failed /\ UNCHANGED <<flags, options, rstate>>
        BY <1>16 DEF CaptureStopped, At, Goto, keep, rvars
      <3> QED
        BY <1>0, <3>1 DEF SessionType, ReceiverHeld, Progress
    <2>4. Commanded'
      BY <1>0, <1>16 DEF CaptureStopped, At, Goto, keep, SessionType, Commanded
    <2>5. Converged'
      BY <1>0, <1>16 DEF CaptureStopped, At, Goto, SessionType, Converged
    <2>6. Concluded'
      BY <1>0, <1>16 DEF CaptureStopped, At, Goto, keep, rvars, recvVars, SessionType, Concluded,
                         ResultValid, Infinite
    <2> QED
      BY <2>1, <2>2, <2>3, <2>4, <2>5, <2>6
  <1>17. CASE CaptureFails
    <2>1. SessionType'
      BY <1>0, <1>17 DEF CaptureFails, ReturnError, keep, SessionType
    <2>2. ReceiverHeld'
      BY <1>0, <1>17 DEF CaptureFails, At, ReturnError, rvars, SessionType, ReceiverHeld
    <2>3. Progress'
      BY <1>0, <1>17 DEF CaptureFails, At, ReturnError, keep, rvars, SessionType, Progress
    <2>4. Commanded'
      BY <1>0, <1>17 DEF CaptureFails, At, ReturnError, keep, SessionType, Commanded
    <2>5. Converged'
      BY <1>0, <1>17 DEF CaptureFails, At, ReturnError, SessionType, Converged
    <2>6. Concluded'
      BY <1>0, <1>17 DEF CaptureFails, At, ReturnError, keep, rvars, recvVars, SessionType,
                         Concluded, ResultValid, Infinite
    <2> QED
      BY <2>1, <2>2, <2>3, <2>4, <2>5, <2>6
  <1>18. CASE CaptureCompletes
    <2>1. SessionType'
      BY <1>0, <1>18 DEF CaptureCompletes, Goto, keep, SessionType
    <2>2. ReceiverHeld'
      BY <1>0, <1>18 DEF CaptureCompletes, At, Goto, rvars, SessionType, ReceiverHeld
    <2>3. Progress'
      BY <1>0, <1>18 DEF CaptureCompletes, At, Goto, keep, rvars, SessionType, Progress
    <2>4. Commanded'
      BY <1>0, <1>18 DEF CaptureCompletes, At, Goto, keep, SessionType, Commanded
    <2>5. Converged'
      BY <1>0, <1>18 DEF CaptureCompletes, At, Goto, SessionType, Converged
    <2>6. Concluded'
      BY <1>0, <1>18 DEF CaptureCompletes, At, Goto, keep, rvars, recvVars, SessionType, Concluded,
                         ResultValid, Infinite
    <2> QED
      BY <2>1, <2>2, <2>3, <2>4, <2>5, <2>6
  <1>19. CASE CleanupRadar
    <2>1. SessionType'
      <3>1. pc' \in Labels
        BY <1>19 DEF CleanupRadar, Goto, ContinueWith
      <3>2. failed' \in BOOLEAN
        BY <1>0, <1>19 DEF CleanupRadar, Goto, ContinueWith, SessionType
      <3>3. flags' = flags /\ options' = options
        BY <1>19 DEF CleanupRadar, keep
      <3>4. issued' \in [startRecord : BOOLEAN, stopRecord : BOOLEAN, startRadar : BOOLEAN,
                          stopRadar : BOOLEAN]
        BY <1>0, <1>19 DEF CleanupRadar, SessionType
      <3> QED
        BY <1>0, <3>1, <3>2, <3>3, <3>4 DEF SessionType
    <2>2. ReceiverHeld'
      BY <1>0, <1>19 DEF CleanupRadar, At, Goto, ContinueWith, rvars, SessionType, ReceiverHeld
    <2>3. Progress'
      <3>1. /\ pc = "stopRadar" /\ pc' = "drain" /\ UNCHANGED <<flags, options, rstate>>
            /\ failed => failed'
        BY <1>0, <1>19 DEF CleanupRadar, At, Goto, ContinueWith, keep, rvars, SessionType
      <3> QED
        BY <1>0, <3>1 DEF SessionType, Progress
    <2>4. Commanded'
      <3>1. /\ pc = "stopRadar" /\ pc' = "drain" /\ UNCHANGED <<flags, options, dcaPoisoned>>
        BY <1>19 DEF CleanupRadar, At, Goto, ContinueWith, keep
      <3>2. CASE issued' = issued /\ ~ flags.radarMayBeRunning
        BY <1>0, <3>1, <3>2 DEF Commanded
      <3>3. CASE issued' = issued /\ options.awaiter /\ flags.frameEndObserved
        BY <1>0, <3>1, <3>3 DEF Commanded
      <3>4. CASE issued' = [issued EXCEPT !.stopRadar = TRUE]
        BY <1>0, <3>1, <3>4 DEF Commanded, SessionType
      <3>5. \/ issued' = issued /\ ~ flags.radarMayBeRunning
            \/ issued' = issued /\ options.awaiter /\ flags.frameEndObserved
            \/ issued' = [issued EXCEPT !.stopRadar = TRUE]
        BY <1>19 DEF CleanupRadar, AwaitsFrameEnd
      <3> QED
        BY <3>2, <3>3, <3>4, <3>5
    <2>5. Converged'
      <3>1. /\ pc = "stopRadar" /\ pc' = "drain"
            /\ failed => failed'
        BY <1>0, <1>19 DEF CleanupRadar, At, Goto, ContinueWith, SessionType
      <3>2. ~ failed => flags.radarMayBeRunning
        BY <1>0, <3>1 DEF Progress
      <3>3. ~ failed' => radar' = "stopped"
        <4>1. CASE AwaitsFrameEnd
          BY <1>0, <1>19, <3>1, <3>2, <4>1 DEF CleanupRadar, ContinueWith, SessionType
        <4>2. CASE ~ AwaitsFrameEnd
          BY <1>0, <1>19, <3>1, <3>2, <4>2 DEF CleanupRadar, ContinueWith, SessionType
        <4> QED
          BY <4>1, <4>2
      <3> QED
        BY <3>1, <3>3 DEF Converged
    <2>6. Concluded'
      BY <1>0, <1>19 DEF CleanupRadar, At, Goto, ContinueWith, keep, rvars, recvVars, SessionType,
                         Concluded, ResultValid, Infinite
    <2> QED
      BY <2>1, <2>2, <2>3, <2>4, <2>5, <2>6
  <1>20. CASE DrainReceiver
    <2>1. SessionType'
      BY <1>0, <1>20 DEF DrainReceiver, Goto, ContinueWith, keep, SessionType
    <2>2. ReceiverHeld'
      BY <1>0, <1>20 DEF DrainReceiver, At, Goto, ContinueWith, SessionType, ReceiverHeld
    <2>3. Progress'
      BY <1>0, <1>20 DEF DrainReceiver, At, Goto, ContinueWith, keep, SessionType, Progress
    <2>4. Commanded'
      BY <1>0, <1>20 DEF DrainReceiver, At, Goto, ContinueWith, keep, SessionType, Commanded
    <2>5. Converged'
      BY <1>0, <1>20 DEF DrainReceiver, At, Goto, ContinueWith, SessionType, Converged
    <2>6. Concluded'
      BY <1>0, <1>20 DEF DrainReceiver, At, Goto, ContinueWith, keep, recvVars, SessionType,
                         Concluded, ResultValid, Infinite
    <2> QED
      BY <2>1, <2>2, <2>3, <2>4, <2>5, <2>6
  <1>21. CASE CleanupStopRecord
    <2>1. SessionType'
      <3>1. pc' \in Labels
        BY <1>21 DEF CleanupStopRecord, Goto, ContinueWith, CleanupRecording
      <3>2. failed' \in BOOLEAN
        BY <1>0, <1>21 DEF CleanupStopRecord, Goto, ContinueWith, SessionType, CleanupRecording
      <3>3. flags' = flags /\ options' = options
        BY <1>21 DEF CleanupStopRecord, keep
      <3>4. issued' \in [startRecord : BOOLEAN, stopRecord : BOOLEAN, startRadar : BOOLEAN,
                          stopRadar : BOOLEAN]
        BY <1>0, <1>21 DEF CleanupStopRecord, SessionType
      <3> QED
        BY <1>0, <3>1, <3>2, <3>3, <3>4 DEF SessionType
    <2>2. ReceiverHeld'
      BY <1>0, <1>21 DEF CleanupStopRecord, At, Goto, ContinueWith, rvars, SessionType,
                         ReceiverHeld, CleanupRecording
    <2>3. Progress'
      BY <1>0, <1>21 DEF CleanupStopRecord, At, Goto, ContinueWith, keep, rvars, SessionType,
                         Progress, CleanupRecording
    <2>4. Commanded'
      <3>1. /\ pc = "stopRecord" /\ pc' = "stopReceiver" /\ UNCHANGED <<flags, options, dcaPoisoned>>
        BY <1>21 DEF CleanupStopRecord, At, Goto, ContinueWith, keep
      <3>2. CASE issued' = issued /\ ~ flags.dcaRecording
        BY <1>0, <3>1, <3>2 DEF Commanded
      <3>3. CASE issued' = [issued EXCEPT !.stopRecord = TRUE]
        BY <1>0, <3>1, <3>3 DEF Commanded, SessionType
      <3> QED
        BY <1>21, <3>2, <3>3 DEF CleanupStopRecord, CleanupRecording
    <2>5. Converged'
      <3>1. /\ pc = "stopRecord" /\ pc' = "stopReceiver" /\ radar' = radar
            /\ failed => failed'
        BY <1>0, <1>21 DEF CleanupStopRecord, At, Goto, ContinueWith, SessionType
      <3>2. ~ failed => flags.dcaRecording
        BY <1>0, <3>1 DEF Progress
      <3>3. ~ failed' => dca' = "stopped"
        BY <1>0, <1>21, <3>1, <3>2 DEF CleanupStopRecord, CleanupRecording, ContinueWith, SessionType
      <3> QED
        BY <1>0, <3>1, <3>3 DEF Converged, SessionType
    <2>6. Concluded'
      BY <1>0, <1>21 DEF CleanupStopRecord, At, Goto, ContinueWith, keep, rvars, recvVars,
                         SessionType, Concluded, CleanupRecording, ResultValid, Infinite
    <2> QED
      BY <2>1, <2>2, <2>3, <2>4, <2>5, <2>6
  <1>22. CASE CleanupStopReceiver
    <2>1. SessionType'
      BY <1>0, <1>22 DEF CleanupStopReceiver, Goto, keep, SessionType, CloseSocket
    <2>2. ReceiverHeld'
      BY <1>0, <1>22 DEF CleanupStopReceiver, At, Goto, SessionType, ReceiverHeld, CloseSocket
    <2>3. Progress'
      BY <1>0, <1>22 DEF CleanupStopReceiver, At, Goto, keep, SessionType, Progress, CloseSocket
    <2>4. Commanded'
      BY <1>0, <1>22 DEF CleanupStopReceiver, At, Goto, keep, SessionType, Commanded, CloseSocket
    <2>5. Converged'
      BY <1>0, <1>22 DEF CleanupStopReceiver, At, Goto, SessionType, Converged, CloseSocket
    <2>6. Concluded'
      BY <1>0, <1>22 DEF CleanupStopReceiver, At, Goto, keep, recvVars, SessionType, Concluded,
                         CloseSocket, ResultValid, Infinite
    <2> QED
      BY <2>1, <2>2, <2>3, <2>4, <2>5, <2>6
  <1>23. CASE CleanupJoin
    <2>1. SessionType'
      <3>1. pc' \in Labels
        BY <1>23 DEF CleanupJoin, ContinueWith
      <3>2. failed' \in BOOLEAN
        BY <1>0, <1>23 DEF CleanupJoin, ContinueWith, SessionType
      <3>3. flags' = flags /\ options' = options
        BY <1>23 DEF CleanupJoin, keep
      <3>4. issued' = issued
        BY <1>23 DEF CleanupJoin
      <3> QED
        BY <1>0, <3>1, <3>2, <3>3, <3>4 DEF SessionType
    <2>2. ReceiverHeld'
      BY <1>0, <1>23 DEF CleanupJoin, At, ContinueWith, rvars, SessionType, ReceiverHeld,
                         CloseReturns
    <2>3. Progress'
      BY <1>0, <1>23 DEF CleanupJoin, At, ContinueWith, keep, rvars, SessionType, Progress,
                         CloseReturns
    <2>4. Commanded'
      BY <1>0, <1>23 DEF CleanupJoin, At, ContinueWith, keep, SessionType, Commanded, CloseReturns
    <2>5. Converged'
      BY <1>0, <1>23 DEF CleanupJoin, At, ContinueWith, SessionType, Converged, CloseReturns
    <2>6. Concluded'
      BY <1>0, <1>23 DEF CleanupJoin, At, ContinueWith, keep, rvars, recvVars, SessionType,
                         Concluded, CloseReturns, ResultValid, Infinite
    <2> QED
      BY <2>1, <2>2, <2>3, <2>4, <2>5, <2>6
  <1>24. CASE ValidateResult
    <2>1. SessionType'
      <3>1. pc' \in Labels
        BY <1>24 DEF ValidateResult, ContinueWith, AfterValidate, AfterFinish
      <3>2. failed' \in BOOLEAN
        BY <1>0, <1>24 DEF ValidateResult, ContinueWith, SessionType, AfterValidate, AfterFinish
      <3>3. flags' = flags /\ options' = options
        BY <1>24 DEF ValidateResult, keep
      <3>4. issued' = issued
        BY <1>24 DEF ValidateResult
      <3> QED
        BY <1>0, <3>1, <3>2, <3>3, <3>4 DEF SessionType
    <2>2. ReceiverHeld'
      BY <1>0, <1>24 DEF ValidateResult, At, ContinueWith, rvars, SessionType, ReceiverHeld,
                         AfterValidate, AfterFinish
    <2>3. Progress'
      BY <1>0, <1>24 DEF ValidateResult, At, ContinueWith, keep, rvars, SessionType, Progress,
                         AfterValidate, AfterFinish
    <2>4. Commanded'
      BY <1>0, <1>24 DEF ValidateResult, At, ContinueWith, keep, SessionType, Commanded,
                         AfterValidate, AfterFinish
    <2>5. Converged'
      BY <1>0, <1>24 DEF ValidateResult, At, ContinueWith, SessionType, Converged, AfterValidate,
                         AfterFinish
    <2>6. Concluded'
      <3>1. /\ pc = "validate" /\ UNCHANGED <<stats, expected, options, participant, mirror, published, flags>>
            /\ pc' \in {"finish", "seal", "commit"} /\ (failed => failed') /\ (~ failed' => ResultValid)
            /\ flags.participantActive => pc' = "finish"
            /\ pc' = "commit" => mirror = "absent"
        BY <1>0, <1>24 DEF ValidateResult, At, ContinueWith, keep, rvars, recvVars, AfterValidate,
                           AfterFinish, SessionType
      <3>2. ResultValid => ResultValid'
        BY <3>1 DEF ResultValid, Infinite
      <3>3. ~ failed /\ options.participant => flags.participantActive
        BY <1>0, <3>1 DEF Progress
      <3> QED
        BY <1>0, <3>1, <3>2, <3>3 DEF Concluded, SessionType
    <2> QED
      BY <2>1, <2>2, <2>3, <2>4, <2>5, <2>6
  <1>25. CASE FinishParticipant
    <2>1. SessionType'
      <3>1. pc' \in Labels
        BY <1>25 DEF FinishParticipant, ContinueWith, AfterFinish
      <3>2. failed' \in BOOLEAN
        BY <1>0, <1>25 DEF FinishParticipant, ContinueWith, SessionType, AfterFinish
      <3>3. flags' = flags /\ options' = options
        BY <1>25 DEF FinishParticipant, keep
      <3>4. issued' = issued
        BY <1>25 DEF FinishParticipant
      <3> QED
        BY <1>0, <3>1, <3>2, <3>3, <3>4 DEF SessionType
    <2>2. ReceiverHeld'
      BY <1>0, <1>25 DEF FinishParticipant, At, ContinueWith, rvars, SessionType, ReceiverHeld,
                         AfterFinish
    <2>3. Progress'
      BY <1>0, <1>25 DEF FinishParticipant, At, ContinueWith, keep, rvars, SessionType, Progress,
                         AfterFinish
    <2>4. Commanded'
      BY <1>0, <1>25 DEF FinishParticipant, At, ContinueWith, keep, SessionType, Commanded,
                         AfterFinish
    <2>5. Converged'
      BY <1>0, <1>25 DEF FinishParticipant, At, ContinueWith, SessionType, Converged, AfterFinish
    <2>6. Concluded'
      BY <1>0, <1>25 DEF FinishParticipant, At, ContinueWith, keep, rvars, recvVars, SessionType,
                         Concluded, AfterFinish, ResultValid, Infinite
    <2> QED
      BY <2>1, <2>2, <2>3, <2>4, <2>5, <2>6
  <1>26. CASE SealMirror
    <2>1. SessionType'
      <3>1. pc' \in Labels
        BY <1>26 DEF SealMirror, Goto, ContinueWith
      <3>2. failed' \in BOOLEAN
        BY <1>0, <1>26 DEF SealMirror, Goto, ContinueWith, SessionType
      <3>3. flags' = flags /\ options' = options
        BY <1>26 DEF SealMirror, keep
      <3>4. issued' = issued
        BY <1>26 DEF SealMirror
      <3> QED
        BY <1>0, <3>1, <3>2, <3>3, <3>4 DEF SessionType
    <2>2. ReceiverHeld'
      BY <1>0, <1>26 DEF SealMirror, At, Goto, ContinueWith, rvars, SessionType, ReceiverHeld
    <2>3. Progress'
      BY <1>0, <1>26 DEF SealMirror, At, Goto, ContinueWith, keep, rvars, SessionType, Progress
    <2>4. Commanded'
      BY <1>0, <1>26 DEF SealMirror, At, Goto, ContinueWith, keep, SessionType, Commanded
    <2>5. Converged'
      BY <1>0, <1>26 DEF SealMirror, At, Goto, ContinueWith, SessionType, Converged
    <2>6. Concluded'
      BY <1>0, <1>26 DEF SealMirror, At, Goto, ContinueWith, keep, rvars, recvVars, SessionType,
                         Concluded, ResultValid, Infinite
    <2> QED
      BY <2>1, <2>2, <2>3, <2>4, <2>5, <2>6
  <1>27. CASE Publish
    <2>1. SessionType'
      <3>1. pc' \in Labels
        BY <1>27 DEF Publish
      <3>2. failed' \in BOOLEAN
        BY <1>0, <1>27 DEF Publish, SessionType
      <3>3. flags' = flags /\ options' = options
        BY <1>27 DEF Publish, keep
      <3>4. issued' = issued
        BY <1>27 DEF Publish
      <3> QED
        BY <1>0, <3>1, <3>2, <3>3, <3>4 DEF SessionType
    <2>2. ReceiverHeld'
      BY <1>0, <1>27 DEF Publish, At, rvars, SessionType, ReceiverHeld
    <2>3. Progress'
      BY <1>0, <1>27 DEF Publish, At, rvars, SessionType, Progress
    <2>4. Commanded'
      BY <1>0, <1>27 DEF Publish, At, SessionType, Commanded
    <2>5. Converged'
      BY <1>0, <1>27 DEF Publish, At, SessionType, Converged
    <2>6. Concluded'
      BY <1>0, <1>27 DEF Publish, At, rvars, recvVars, SessionType, Concluded, ResultValid, Infinite
    <2> QED
      BY <2>1, <2>2, <2>3, <2>4, <2>5, <2>6
  <1> QED
    BY <1>1, <1>2, <1>3, <1>4, <1>5, <1>6, <1>7, <1>8, <1>9, <1>10, <1>11, <1>12, <1>13, <1>14, <1>15, <1>16, <1>17, <1>18, <1>19, <1>20, <1>21, <1>22, <1>23, <1>24, <1>25, <1>26, <1>27,
       <1>28 DEF RunStep, Prepare, Capture, Cleanup, Conclude

\* Run leaves the loop's bookkeeping to the loop.
LEMMA RunLeavesReceiver ==
  ASSUME SessionInv, RunStep
  PROVE  ReceiverInv' /\ UNCHANGED <<file, stats>>
  <1>1. ReceiverInv /\ net \in SUBSET Packets
    BY DEF SessionInv, ReceiverInv, ReceiverType
  <1>2. /\ UNCHANGED <<expected, recvVars, net>>
        /\ rstate' = rstate \/ (rstate = "bound" /\ rstate' = "receiving")
    <2>1. CASE Prepare
      BY <2>1 DEF Prepare, VerifyPlatform, FirstRadarStop, FirstStopRecord, ConfigureDca, ApplyRadar,
                  ArmParticipant, BindReceiver, StartReceiver, Start, StartRecordOk, StartRecordFails,
                  AfterStartRecord, StartParticipant, StartRadar, rvars, netVars
    <2>2. CASE Capture
      BY <2>2 DEF Capture, EnterWaitForFirst, BeginWait, WaitForFirst, RadarFrameStartObserved,
                  CaptureStopped, CaptureFails, CaptureCompletes, rvars, netVars
    <2>3. CASE Cleanup
      BY <2>3 DEF Cleanup, CleanupRadar, DrainReceiver, CleanupStopRecord, CleanupStopReceiver,
                  CleanupJoin, rvars, netVars
    <2>4. CASE Conclude
      BY <2>4 DEF Conclude, ValidateResult, FinishParticipant, SealMirror, Publish, rvars, netVars
    <2> QED
      BY <2>1, <2>2, <2>3, <2>4 DEF RunStep
  <1>3. ReceiverInv'
    BY <1>1, <1>2, ClientKeeps
  <1> QED
    BY <1>2, <1>3 DEF recvVars

\* The receive loop only runs while Run is not yet past the join.
LEMMA LoopSteps ==
  ASSUME ReceiveLoop
  PROVE  rstate = "receiving" /\ rstate' \in {"receiving", "done"} /\ expected' = expected
  <1>1. CASE LoopStops \/ LoopTimesOut \/ ReadFails \/ MalformedArrives
    BY <1>1 DEF LoopStops, LoopTimesOut, LoopCancelled, LoopClosed, FirstPacketTimeout, LoopIdle,
                ReadFails, MalformedArrives, LoopEnds, Receiving
  <1>2. ASSUME NEW p \in Packets, Arrives(p)
        PROVE  rstate = "receiving" /\ rstate' \in {"receiving", "done"} /\ expected' = expected
    BY <1>2 DEF Arrives, DiscardBeforeBase, ExceedsOutput, RefusesRange, Accept, WriteFails, Reads,
                LoopEnds, Receiving
  <1> QED
    BY <1>1, <1>2 DEF ReceiveLoop

LEMMA LoopKeeps ==
  ASSUME SessionInv, LoopStep
  PROVE  SessionInv'
  <1> USE DEF Labels, Ending, RadarOff, DcaOff, Validated, Preparing, Recording, Capturing, Frozen
  <1>0. /\ ReceiverInv /\ SessionType /\ ReceiverHeld /\ Progress /\ Commanded /\ Converged /\ Concluded
        /\ ReceiveLoop /\ BehindMirror
    BY DEF SessionInv, LoopStep
  <1>1. rstate = "receiving" /\ rstate' \in {"receiving", "done"} /\ expected' = expected
    BY <1>0, LoopSteps
  <1>2. UNCHANGED <<pc, failed, flags, options, radar, dca, dcaPoisoned, issued, participant, published>>
    BY <1>0 DEF BehindMirror
  <1>3. ~ Frozen
    BY <1>0, <1>1 DEF ReceiverHeld
  <1>4. ReceiverInv'
    BY <1>0, ReceiveLoopKeeps
  <1>5. SessionType'
    BY <1>0, <1>2 DEF SessionType
  <1>6. ReceiverHeld'
    BY <1>0, <1>1, <1>2, <1>3 DEF ReceiverHeld
  <1>7. Progress'
    BY <1>0, <1>1, <1>2 DEF Progress
  <1>8. Commanded' /\ Converged'
    BY <1>0, <1>2 DEF Commanded, Converged
  <1>9. Concluded'
    BY <1>0, <1>2, <1>3 DEF Concluded
  <1> QED
    BY <1>4, <1>5, <1>6, <1>7, <1>8, <1>9 DEF SessionInv

LEMMA EnvironmentKeeps ==
  ASSUME SessionInv, Environment
  PROVE  SessionInv' /\ UNCHANGED <<file, stats>>
  <1> USE DEF Labels, Ending, RadarOff, DcaOff, Validated, Preparing, Recording, Capturing, Frozen
  <1>0. /\ ReceiverInv /\ SessionType /\ ReceiverHeld /\ Progress /\ Commanded /\ Converged /\ Concluded
        /\ net \in SUBSET Packets
    BY DEF SessionInv, ReceiverInv, ReceiverType
  <1>1. /\ UNCHANGED <<pc, failed, flags, options, dca, dcaPoisoned, issued, participant, published>>
        /\ UNCHANGED <<expected, recvVars, rstate>>
        /\ net' \in SUBSET Packets
        /\ radar' = radar \/ radar' = "stopped"
        /\ mirror' = mirror \/ mirror = "open"
    BY <1>0 DEF Environment, Cancel, RequestStop, RadarFinishes, RecordingSends, DcaSends, MirrorFails,
                rvars, netVars, sessionVars
  <1>2. ReceiverInv'
    BY <1>0, <1>1, ClientKeeps
  <1>3. UNCHANGED <<file, stats>>
    BY <1>1 DEF recvVars
  <1>4. SessionType' /\ ReceiverHeld' /\ Progress'
    BY <1>0, <1>1 DEF SessionType, ReceiverHeld, Progress
  <1>5. Commanded' /\ Converged'
    BY <1>0, <1>1 DEF Commanded, Converged
  <1>6. Concluded'
    <2>1. ResultValid => ResultValid'
      BY <1>1, <1>3 DEF ResultValid, Infinite
    <2> QED
      BY <1>0, <1>1, <2>1 DEF Concluded
  <1> QED
    BY <1>2, <1>3, <1>4, <1>5, <1>6 DEF SessionInv

LEMMA SessionInitInv == SessionInit => SessionInv
  <1> SUFFICES ASSUME SessionInit PROVE SessionInv
    OBVIOUS
  <1> USE DEF Labels, Ending, RadarOff, DcaOff, Validated, Preparing, Recording, Capturing, Frozen
  <1>1. ReceiverInv /\ rstate = "bound"
    BY ReceiverInitInv DEF SessionInit, ReceiverInit
  <1>2. SessionType
    BY DEF SessionInit, SessionType
  <1>3. ReceiverHeld /\ Progress /\ Commanded /\ Converged /\ Concluded
    BY <1>1 DEF SessionInit, ReceiverHeld, Progress, Commanded, Converged, Concluded
  <1> QED
    BY <1>1, <1>2, <1>3 DEF SessionInv

LEMMA SessionStep == SessionInv /\ [SessionNext]_vars => SessionInv'
  <1> SUFFICES ASSUME SessionInv, [SessionNext]_vars PROVE SessionInv'
    OBVIOUS
  <1>1. CASE RunStep
    BY <1>1, RunKeeps, RunLeavesReceiver DEF SessionInv
  <1>2. CASE LoopStep
    BY <1>2, LoopKeeps
  <1>3. CASE Environment
    BY <1>3, EnvironmentKeeps
  <1>4. CASE UNCHANGED vars
    <2>1. /\ UNCHANGED <<pc, failed, flags, options, radar, dca, dcaPoisoned, issued, participant, mirror, published>>
          /\ UNCHANGED <<expected, recvVars, rstate, net>>
      BY <1>4 DEF vars, rvars, netVars, sessionVars
    <2>2. ReceiverInv'
      <3>1. ReceiverInv /\ net \in SUBSET Packets
        BY DEF SessionInv, ReceiverInv, ReceiverType
      <3> QED
        BY <2>1, <3>1, ClientKeeps
    <2>3. ResultValid => ResultValid'
      BY <2>1 DEF ResultValid, Infinite, recvVars
    <2>4. SessionType' /\ ReceiverHeld' /\ Progress'
      BY <2>1 DEF SessionInv, SessionType, ReceiverHeld, Progress, Frozen
    <2>5. Commanded' /\ Converged'
      BY <2>1 DEF SessionInv, Commanded, Converged
    <2>6. Concluded'
      BY <2>1, <2>3 DEF SessionInv, Concluded
    <2> QED
      BY <2>2, <2>4, <2>5, <2>6 DEF SessionInv
  <1> QED
    BY <1>1, <1>2, <1>3, <1>4 DEF SessionNext

-----------------------------------------------------------------------------
(* Theorems.                                                               *)

\* Every state session.Run and the receive loop reach satisfies the invariant.
THEOREM Invariance == SessionSpec => []SessionInv
  <1> QED
    BY SessionInitInv, SessionStep, PTL DEF SessionSpec

\* receiver.go's bookkeeping (addRange, preflightRangeAddition) describes the
\* output file exactly, in whatever order packets come: CoverageExact.
THEOREM Coverage == SessionSpec => []CoverageExact
  <1>1. SessionInv => CoverageExact
    <2> SUFFICES ASSUME SessionInv PROVE CoverageExact
      OBVIOUS
    <2>1. /\ Gapped(ranges) /\ Len(ranges) <= MaxTracked /\ stats.output = EndOf(ranges)
          /\ runErr # "write" => Covers(ranges) = WrittenBytes
      BY DEF SessionInv, ReceiverInv, Bookkept
    <2>2. DOMAIN ranges = 1 .. Len(ranges)
      BY <2>1, GappedFacts
    <2>3. /\ \A i \in DOMAIN ranges : ranges[i].start < ranges[i].end
          /\ \A i, j \in DOMAIN ranges : i < j => ranges[i].end < ranges[j].start
      BY <2>1, <2>2 DEF Gapped
    <2>4. CoveredBytes = Covers(ranges)
      BY DEF CoveredBytes, Covers
    <2> QED
      BY <2>1, <2>3, <2>4 DEF CoverageExact, EndOf
  <1> QED
    BY <1>1, Invariance, PTL

\* Every byte of the file comes from the packet whose stream offset it is at,
\* whichever packet set the base and however the write ended: PlacementExact.
THEOREM Placement == SessionSpec => []PlacementExact
  <1>1. SessionInv => PlacementExact
    BY DEF SessionInv, ReceiverInv, Placed
  <1> QED
    BY <1>1, Invariance, PTL

\* What finalizeStats reports as missing is the number of bytes the file lacks,
\* and a finite loop ends cleanly only past its last byte: CleanEndIsAccounted.
THEOREM CleanEnd == SessionSpec => []CleanEndIsAccounted
  <1>1. SessionInv => CleanEndIsAccounted
    <2>1. Settled => CleanEndIsAccounted
      BY DEF Settled, CleanEndIsAccounted, Unfinalized
    <2> QED
      BY <2>1 DEF SessionInv, ReceiverInv
  <1> QED
    BY <1>1, Invariance, PTL

\* No published capture has a gap, a partial frame or the wrong size, unless the
\* loop ended, unobserved, without finalizeStats: PublishedIsWhole.
THEOREM PublishedWhole == SessionSpec => []PublishedIsWhole
  <1>1. SessionInv => PublishedIsWhole
    <2> SUFFICES ASSUME SessionInv, published, runErr \notin Unfinalized
                 PROVE  /\ Whole /\ stats.output > 0 /\ stats.output % FrameBytes = 0
                        /\ expected > 0 => stats.output = expected
      BY DEF PublishedIsWhole
    <2>1. pc = "returned" /\ ~ failed /\ ResultValid
      BY DEF SessionInv, Concluded, Validated
    <2>2. rstate = "done"
      <3>1. rstate # "bound" /\ rstate # "receiving"
        BY <2>1 DEF SessionInv, Progress, ReceiverHeld, Ending, RadarOff, Frozen
      <3> QED
        BY <3>1 DEF SessionInv, ReceiverInv, ReceiverType
    <2>3. /\ stats.missing = 0 /\ (expected > 0 => stats.output = expected)
          /\ expected = 0 => stats.output > 0 /\ stats.output % FrameBytes = 0
      BY <2>1 DEF ResultValid, Infinite
    <2>4. expected = 0 \/ (expected = FiniteBytes /\ expected > 0)
      BY ReceiverConstants DEF SessionInv, ReceiverInv, ReceiverType
    <2>5. stats.output > 0 /\ stats.output % FrameBytes = 0
      BY <2>3, <2>4, FrameBytesAssumption
    <2>6. /\ Gapped(ranges) /\ stats.output = EndOf(ranges) /\ Covers(ranges) = WrittenBytes
          /\ stats.missing = Cardinality((0 .. (stats.output - 1)) \ WrittenBytes)
      BY <2>2 DEF SessionInv, ReceiverInv, Bookkept, Settled, Unfinalized
    <2>7. WrittenBytes \subseteq 0 .. (stats.output - 1) /\ stats.output \in Nat
      BY <2>6, CoversBelowEnd
    <2>8. (0 .. (stats.output - 1)) \ WrittenBytes = {}
      <3> DEFINE n == stats.output - 1
      <3>1. n \in Int
        BY <2>7
      <3> HIDE DEF n
      <3>2. IsFiniteSet(0 .. n)
        BY <3>1, FS_Interval
      <3>3. IsFiniteSet((0 .. n) \ WrittenBytes)
        BY <3>2, FS_Difference
      <3>4. Cardinality((0 .. n) \ WrittenBytes) = 0
        BY <2>3, <2>6 DEF n
      <3>5. (0 .. n) \ WrittenBytes = {}
        BY <3>3, <3>4, FS_EmptySet
      <3> QED
        BY <3>5 DEF n
    <2>9. Whole
      BY <2>7, <2>8 DEF Whole
    <2> QED
      BY <2>3, <2>5, <2>9
  <1> QED
    BY <1>1, Invariance, PTL

\* CommitContext comes after both devices are stopped, the loop is joined, the
\* participant finished well and the mirror delivered: PublishedAfterConvergence.
THEOREM Convergence == SessionSpec => []PublishedAfterConvergence
  <1>1. SessionInv => PublishedAfterConvergence
    <2> SUFFICES ASSUME SessionInv, published PROVE PublishedAfterConvergence
      BY DEF PublishedAfterConvergence
    <2>1. pc = "returned" /\ ~ failed
      BY DEF SessionInv, Concluded
    <2>2. rstate = "done"
      <3>1. rstate # "bound" /\ rstate # "receiving"
        BY <2>1 DEF SessionInv, Progress, ReceiverHeld, Ending, RadarOff, Frozen
      <3> QED
        BY <3>1 DEF SessionInv, ReceiverInv, ReceiverType
    <2>3. radar = "stopped" /\ dca = "stopped"
      BY <2>1 DEF SessionInv, Converged, RadarOff, DcaOff
    <2>4. (options.participant => participant = "finishedOk") /\ mirror \in {"absent", "sealed"}
      BY <2>1 DEF SessionInv, Concluded
    <2> QED
      BY <2>2, <2>3, <2>4 DEF PublishedAfterConvergence
  <1> QED
    BY <1>1, Invariance, PTL

\* The deferred cleanup of Run answers every start command with a stop, wherever
\* Run fails or is cancelled: EveryStartIsStopped.
THEOREM StartsStopped == SessionSpec => []EveryStartIsStopped
  <1>1. SessionInv => EveryStartIsStopped
    <2>1. Commanded => EveryStartIsStopped
      BY DEF Commanded, EveryStartIsStopped, RadarOff, DcaOff
    <2> QED
      BY <2>1 DEF SessionInv
  <1> QED
    BY <1>1, Invariance, PTL

\* Once receiver.Close has joined the loop, nothing changes what validateResult
\* looks at: ValidatedCaptureIsFrozen.
THEOREM ValidatedFrozen == SessionSpec => ValidatedCaptureIsFrozen
  <1>1. SessionInv /\ [SessionNext]_vars => [Frozen => UNCHANGED <<file, stats>>]_vars
    <2> SUFFICES ASSUME SessionInv, SessionNext, Frozen PROVE UNCHANGED <<file, stats>>
      OBVIOUS
    <2>1. CASE RunStep
      BY <2>1, RunLeavesReceiver
    <2>2. CASE LoopStep
      <3>1. rstate = "receiving"
        BY <2>2, LoopSteps DEF LoopStep
      <3>2. rstate # "receiving"
        BY DEF SessionInv, ReceiverHeld
      <3> QED
        BY <3>1, <3>2
    <2>3. CASE Environment
      BY <2>3, EnvironmentKeeps
    <2> QED
      BY <2>1, <2>2, <2>3 DEF SessionNext
  <1> QED
    BY <1>1, Invariance, PTL DEF SessionSpec, ValidatedCaptureIsFrozen
=============================================================================
