-------------------------- MODULE SegmentPlan_proofs --------------------------
(* The pure part of a segmented launch, for all offsets: its checks, the      *)
(* records of its plan, and what its kernels store.                           *)
EXTENDS SegmentPlan, FiniteSetTheorems, TLAPS

-------------------------------------------------------------------------------
\* A finite set of integers that is not empty has a least element.
LEMMA LeastElement ==
  ASSUME NEW S, S \subseteq Int, IsFiniteSet(S), S # {}
  PROVE  /\ Min(S) \in S
         /\ \A x \in S : Min(S) <= x
<1> DEFINE Below(x) == {y \in S : y <= x}
<1> DEFINE T == {Below(x) : x \in S}
<1>1. PICK B \in T : \A C \in T : <<C, B>> \notin StrictSubsetOrdering(S)
  <2>1. T \subseteq FiniteSubsetsOf(S) /\ T # {}
    <3>1. FiniteSubsetsOf(S) = SUBSET S
      BY FS_FiniteSubsetsOfFinite
    <3>2. \A x \in S : Below(x) \in SUBSET S
      OBVIOUS
    <3>3. T \subseteq SUBSET S
      BY <3>2
    <3>4. T # {}
      OBVIOUS
    <3>. QED
      BY <3>1, <3>3, <3>4
  <2>2. IsWellFoundedOn(StrictSubsetOrdering(S), FiniteSubsetsOf(S))
    BY FS_StrictSubsetOrderingWellFounded
  <2>. HIDE DEF T
  <2>. QED
    BY <2>1, <2>2, WFMin
<1>2. PICK x \in S : B = Below(x)
  OBVIOUS
<1>3. \A y \in S : x <= y
  <2>1. SUFFICES ASSUME NEW y \in S, y < x
                 PROVE  FALSE
    OBVIOUS
  <2>2. /\ \A z \in Below(y) : z \in Below(x)
        /\ x \in Below(x) /\ x \notin Below(y)
    BY <2>1
  <2>3. <<Below(y), B>> \in StrictSubsetOrdering(S)
    BY <1>2, <2>2 DEF StrictSubsetOrdering
  <2>. QED
    BY <1>1, <2>3
<1>. QED
  BY <1>3 DEF Min

-------------------------------------------------------------------------------
(* The three forms of the offset check. *)

Decreasing(o) == {i \in 2..Len(o) : o[i] < o[i - 1]}
Word32(x) == x \in -I32Limit..(I32Limit - 1)
Bad(o) == {i \in 1..Len(o) :
             ~Word32(o[i]) \/ o[i] < 0 \/ (i > 1 /\ o[i] < o[i - 1])}
Countable(o, valueCount) == ValidCount(valueCount) /\ ValidCount(Len(o) - 1)

\* What every form of the check must accept.
Valid(o, valueCount) ==
    /\ o # <<>> /\ Countable(o, valueCount)
    /\ o[1] = 0 /\ Decreasing(o) = {} /\ Last(o) <= valueCount

\* The indices of a list are finitely many integers.
LEMMA IndicesFinite ==
  ASSUME NEW o \in Seq(Int), NEW S, S \subseteq 1..Len(o)
  PROVE  IsFiniteSet(S) /\ S \subseteq Int
<1>1. Len(o) \in Nat
  OBVIOUS
<1>2. IsFiniteSet(1..Len(o))
  BY <1>1, FS_Interval
<1>3. S \in SUBSET (1..Len(o)) /\ S \subseteq Int
  BY <1>1
<1>. QED
  BY <1>2, <1>3, FS_Subset

\* Offsets without a decrease between neighbours do not decrease at all.
LEMMA Ascending ==
  ASSUME NEW o \in Seq(Int), Decreasing(o) = {},
         NEW i \in 1..Len(o), NEW j \in i..Len(o)
  PROVE  o[i] <= o[j]
<1> DEFINE Lower == {k \in i..Len(o) : o[k] < o[i]}
<1>1. SUFFICES ASSUME Lower # {}
               PROVE  FALSE
  OBVIOUS
<1>2. Lower \subseteq 1..Len(o)
  OBVIOUS
<1>3. Min(Lower) \in Lower /\ \A k \in Lower : Min(Lower) <= k
  BY <1>1, <1>2, IndicesFinite, LeastElement
<1> DEFINE m == Min(Lower)
<1>4. m \in Lower /\ \A k \in Lower : m <= k
  BY <1>3
<1> HIDE DEF m
<1>5. m - 1 \in i..Len(o) /\ m - 1 \notin Lower
  BY <1>4
<1>6. m \in 2..Len(o) /\ o[m] < o[m - 1]
  BY <1>4, <1>5
<1>. QED
  BY <1>6 DEF Decreasing

\* The array form of the check accepts exactly the valid offsets.
LEMMA ArrayAccepts ==
  ASSUME NEW o \in Seq(Int), NEW v
  PROVE  OffsetVerdict(o, v) = "valid" <=> Valid(o, v)
<1>1. CASE o = <<>> \/ ~Countable(o, v)
  BY <1>1 DEF OffsetVerdict, Valid, Countable
<1>2. CASE o # <<>> /\ Countable(o, v)
  <2>1. v \in Int /\ Last(o) \in Int
    BY <1>2, PlanAssumption DEF Countable, ValidCount, Last
  <2>2. CASE o[1] # 0
    BY <1>2, <2>2 DEF OffsetVerdict, Valid, Countable
  <2>3. CASE o[1] = 0 /\ Decreasing(o) # {}
    BY <1>2, <2>3 DEF OffsetVerdict, Valid, Countable, Decreasing
  <2>4. CASE o[1] = 0 /\ Decreasing(o) = {}
    BY <1>2, <2>1, <2>4 DEF OffsetVerdict, Valid, Countable, Decreasing
  <2>. QED
    BY <2>2, <2>3, <2>4
<1>. QED
  BY <1>1, <1>2

\* A valid list has no offset that the sequential form stops at.
LEMMA ValidHasNoBad ==
  ASSUME NEW o \in Seq(Int), NEW v, Valid(o, v)
  PROVE  Bad(o) = {}
<1>1. SUFFICES ASSUME NEW i \in Bad(o)
               PROVE  FALSE
  OBVIOUS
<1>2. i \in 1..Len(o) /\ Len(o) \in Nat /\ Len(o) \in i..Len(o) /\ i \in 1..i /\ 1 \in 1..Len(o)
  BY <1>1 DEF Bad
<1>3. 0 <= o[i]
  BY <1>2, Ascending DEF Valid
<1>4. o[i] <= o[Len(o)]
  BY <1>2, Ascending DEF Valid
<1>5. v \in Int /\ v < I32Limit /\ o[Len(o)] <= v
  BY PlanAssumption DEF Valid, Countable, ValidCount, Last
<1>6. Word32(o[i])
  BY <1>2, <1>3, <1>4, <1>5, PlanAssumption DEF Word32
<1>7. i \in 2..Len(o) => ~(o[i] < o[i - 1])
  BY DEF Valid, Decreasing
<1>. QED
  BY <1>1, <1>2, <1>3, <1>6, <1>7 DEF Bad

\* The sequential form of the check accepts exactly the valid offsets.
LEMMA SequentialAccepts ==
  ASSUME NEW o \in Seq(Int), NEW v
  PROVE  SequentialVerdict(o, v) = "valid" <=> Valid(o, v)
<1>1. SequentialVerdict(o, v) = "valid"
        <=> /\ o # <<>> /\ Countable(o, v)
            /\ o[1] = 0 /\ Bad(o) = {} /\ Last(o) <= v
  <2>1. CASE o = <<>> \/ ~Countable(o, v)
    BY <2>1 DEF SequentialVerdict, Countable
  <2>2. CASE o # <<>> /\ Countable(o, v)
    <3>1. v \in Int /\ Last(o) \in Int
      BY <2>2, PlanAssumption DEF Countable, ValidCount, Last
    <3>2. CASE o[1] # 0
      BY <2>2, <3>2 DEF SequentialVerdict, Countable
    <3>3. CASE o[1] = 0 /\ Bad(o) # {}
      BY <2>2, <3>3 DEF SequentialVerdict, Countable, Bad, Word32
    <3>4. CASE o[1] = 0 /\ Bad(o) = {}
      BY <2>2, <3>1, <3>4 DEF SequentialVerdict, Countable, Bad, Word32
    <3>. QED
      BY <3>2, <3>3, <3>4
  <2>. QED
    BY <2>1, <2>2
<1>2. \A i \in Decreasing(o) : i \in Bad(o)
  BY DEF Bad, Decreasing
<1>. QED
  BY <1>1, <1>2, ValidHasNoBad DEF Valid

\* For 32-bit words both forms stop at the same offset, for the same reason.
LEMMA SameVerdict ==
  ASSUME NEW o \in Seq(Int), NEW v, \A i \in 1..Len(o) : Word32(o[i])
  PROVE  OffsetVerdict(o, v) = SequentialVerdict(o, v)
<1>1. CASE o = <<>> \/ ~Countable(o, v)
  BY <1>1 DEF OffsetVerdict, SequentialVerdict, Countable
<1>2. CASE o # <<>> /\ Countable(o, v) /\ o[1] # 0
  BY <1>2 DEF OffsetVerdict, SequentialVerdict, Countable
<1>3. CASE o # <<>> /\ Countable(o, v) /\ o[1] = 0 /\ Bad(o) = {}
  <2>0. \A i \in Decreasing(o) : i \in Bad(o)
    BY DEF Bad, Decreasing
  <2>1. Decreasing(o) = {}
    BY <1>3, <2>0
  <2>. QED
    BY <1>3, <2>1
       DEF OffsetVerdict, SequentialVerdict, Countable, Bad, Decreasing, Word32
<1>4. CASE o # <<>> /\ Countable(o, v) /\ o[1] = 0 /\ Bad(o) # {}
  <2> DEFINE m == Min(Bad(o))
  <2>1. m \in Bad(o) /\ \A i \in Bad(o) : m <= i
    BY <1>4, IndicesFinite, LeastElement DEF Bad
  <2>2. m \in 2..Len(o) /\ m - 1 \in 1..Len(o) /\ m - 1 \notin Bad(o)
    <3>1. 1 \notin Bad(o)
      <4>1. Word32(0)
        BY PlanAssumption DEF Word32
      <4>. QED
        BY <1>4, <4>1 DEF Bad
    <3>2. m \in 1..Len(o) /\ Len(o) \in Nat
      BY <2>1 DEF Bad
    <3> HIDE DEF m
    <3>3. m # 1
      BY <2>1, <3>1
    <3>4. m \in 2..Len(o) /\ m - 1 \in 1..Len(o) /\ m - 1 < m
      BY <3>2, <3>3
    <3>5. m - 1 \notin Bad(o)
      <4>1. SUFFICES ASSUME m - 1 \in Bad(o)
                     PROVE  FALSE
        OBVIOUS
      <4>2. m <= m - 1
        BY <2>1, <4>1
      <4>. QED
        BY <3>2, <4>2
    <3>. QED
      BY <3>4, <3>5
  <2>3. o[m - 1] >= 0
    BY <2>2 DEF Bad
  <2>4. m \in Decreasing(o)
    BY <2>1, <2>2, <2>3 DEF Bad, Decreasing
  <2>5. Decreasing(o) \subseteq Bad(o) /\ Decreasing(o) \subseteq 1..Len(o)
    BY DEF Bad, Decreasing
  <2>6. Min(Decreasing(o)) = m
    <3>1. /\ Min(Decreasing(o)) \in Decreasing(o)
          /\ \A i \in Decreasing(o) : Min(Decreasing(o)) <= i
      BY <2>4, <2>5, IndicesFinite, LeastElement
    <3>. QED
      BY <2>1, <2>4, <2>5, <3>1
  <2>7. OffsetVerdict(o, v) = IF o[m] < 0 THEN "negative" ELSE "decreasing"
    BY <1>4, <2>4, <2>6 DEF OffsetVerdict, Countable, Decreasing
  <2>8. SequentialVerdict(o, v) = IF o[m] < 0 THEN "negative" ELSE "decreasing"
    BY <1>4, <2>1, <2>2 DEF SequentialVerdict, Countable, Bad, Word32
  <2>. QED
    BY <2>7, <2>8
<1>. QED
  BY <1>1, <1>2, <1>3, <1>4

\* The classifier refuses nothing that is valid but for the size of its plan.
LEMMA ClassifierAccepts ==
  ASSUME NEW o \in Seq(Int), o # <<>>, NEW v, NEW c
  PROVE  ClassifierVerdict(o, v, c) \in {"valid", "plan size"} <=> Valid(o, v)
<1>1. Disorder(o) <=> o[1] < 0 \/ Decreasing(o) # {}
  <2>1. ASSUME NEW s \in Segments(o), o[s + 2] < o[s + 1]
        PROVE  s + 2 \in Decreasing(o)
    BY <2>1 DEF Segments, Decreasing
  <2>2. ASSUME NEW i \in Decreasing(o)
        PROVE  i - 2 \in Segments(o) /\ o[(i - 2) + 2] < o[(i - 2) + 1]
    BY <2>2 DEF Segments, Decreasing
  <2>. QED
    BY <2>1, <2>2 DEF Disorder
<1>2. FirstOffsetError(o) \notin {"valid", "plan size"}
  BY DEF FirstOffsetError
<1>3. CASE ~Countable(o, v)
  BY <1>3 DEF ClassifierVerdict, Valid, Countable
<1>4. CASE Countable(o, v)
  <2>1. v \in Int /\ Last(o) \in Int /\ o[1] \in Int
    BY <1>4, PlanAssumption DEF Countable, ValidCount, Last
  <2>2. CASE Disorder(o)
    <3>1. ClassifierVerdict(o, v, c) = FirstOffsetError(o)
      BY <1>4, <2>2 DEF ClassifierVerdict, Countable
    <3>2. ~Valid(o, v)
      BY <1>1, <2>1, <2>2 DEF Valid
    <3>. QED
      BY <1>2, <3>1, <3>2
  <2>3. CASE ~Disorder(o)
    BY <1>1, <1>4, <2>1, <2>3 DEF ClassifierVerdict, Valid, Countable
  <2>. QED
    BY <2>2, <2>3
<1>. QED
  BY <1>3, <1>4

\* The low bits of a word are a word.
LEMMA NarrowIsWord ==
  ASSUME NEW x \in Int
  PROVE  Word32(Narrow(x))
<1>1. I32Limit \in Nat /\ I32Limit > 0
  BY PlanAssumption
<1>2. (x + I32Limit) % (2 * I32Limit) \in 0..(2 * I32Limit - 1)
  BY <1>1
<1>. QED
  BY <1>1, <1>2 DEF Narrow, Word32

-------------------------------------------------------------------------------
(* Narrowing and ranges. *)

\* A word that fits keeps its value.
LEMMA NarrowExact ==
  ASSUME NEW x \in Int, Word32(x)
  PROVE  Narrow(x) = x
<1>1. I32Limit \in Nat /\ I32Limit > 0
  BY PlanAssumption
<1>2. x + I32Limit \in 0..(2 * I32Limit - 1)
  BY <1>1 DEF Word32
<1>3. (x + I32Limit) % (2 * I32Limit) = x + I32Limit
  <2> DEFINE y == x + I32Limit
  <2> DEFINE m == 2 * I32Limit
  <2>1. y \in 0..(m - 1) /\ m \in Nat /\ m > 0
    BY <1>1, <1>2
  <2> HIDE DEF y, m
  <2>2. y % m = y
    BY <2>1
  <2>. QED
    BY <2>2 DEF y, m
<1>. QED
  BY <1>1, <1>3 DEF Narrow

\* The offsets of valid lists are counts, in order.
LEMMA ValidRange ==
  ASSUME NEW o \in Seq(Int), NEW v, Valid(o, v)
  PROVE  /\ v \in 0..(I32Limit - 1) /\ Len(o) \in Nat /\ Len(o) >= 1
         /\ \A i \in 1..Len(o) : o[i] \in 0..v
         /\ \A i, j \in 1..Len(o) : i <= j => o[i] <= o[j]
<1>1. /\ v \in 0..(I32Limit - 1) /\ I32Limit \in Nat
      /\ o # <<>> /\ o[1] = 0 /\ Decreasing(o) = {} /\ Last(o) <= v
  BY PlanAssumption DEF Valid, Countable, ValidCount
<1>2. Len(o) \in Nat /\ Len(o) >= 1 /\ Last(o) = o[Len(o)]
  BY <1>1 DEF Last
<1>3. ASSUME NEW i \in 1..Len(o), NEW j \in 1..Len(o), i <= j
      PROVE  o[i] <= o[j]
  <2>1. j \in i..Len(o)
    BY <1>2, <1>3
  <2>. QED
    BY <1>1, <2>1, Ascending
<1>4. ASSUME NEW i \in 1..Len(o)
      PROVE  o[i] \in 0..v
  <2>1. 1 \in 1..Len(o) /\ Len(o) \in 1..Len(o) /\ 1 <= i /\ i <= Len(o) /\ o[i] \in Int
    BY <1>2
  <2>2. o[1] <= o[i] /\ o[i] <= o[Len(o)]
    BY <1>3, <2>1
  <2>. QED
    BY <1>1, <1>2, <2>1, <2>2
<1>. QED
  BY <1>1, <1>2, <1>3, <1>4

\* Narrowing keeps the offsets that were validated.
LEMMA HostKeepsOffsets ==
  ASSUME NEW o \in Seq(Int), NEW v, Valid(o, v), NEW wide
  PROVE  HostOffsets(o, wide) = o
<1>1. /\ v \in 0..(I32Limit - 1) /\ Len(o) \in Nat
      /\ \A i \in 1..Len(o) : o[i] \in 0..v
  BY ValidRange
<1>2. DOMAIN o = 1..Len(o)
  OBVIOUS
<1>3. ASSUME NEW i \in 1..Len(o)
      PROVE  Narrow(o[i]) = o[i]
  <2>1. o[i] \in Int /\ Word32(o[i])
    BY <1>1, PlanAssumption DEF Word32
  <2>. QED
    BY <2>1, NarrowExact
<1>. QED
  BY <1>2, <1>3 DEF HostOffsets

\* What a host verdict admits is valid, and the host copy is what was given.
LEMMA HostAdmits ==
  ASSUME NEW o \in Seq(Int), NEW wide, NEW v, NEW planned, NEW c,
         HostVerdict(o, wide, v, planned, c) = "valid"
  PROVE  Valid(o, v) /\ HostOffsets(o, wide) = o
<1> DEFINE h == HostOffsets(o, wide)
<1>1. OffsetVerdict(o, v) = "valid" => Valid(o, v)
  BY ArrayAccepts
<1>2. CASE wide
  <2>1. OffsetVerdict(o, v) = "valid"
    BY <1>2 DEF HostVerdict
  <2>. QED
    BY <1>1, <2>1, HostKeepsOffsets
<1>3. CASE ~wide
  <2>1. h = o
    BY <1>3 DEF HostOffsets
  <2>2. AdmitsOffsets(o, v, planned, c) \/ OffsetVerdict(o, v) = "valid"
    BY <1>3, <2>1 DEF HostVerdict
  <2>3. ASSUME ClassifierVerdict(o, v, c) = "valid"
        PROVE  Valid(o, v)
    <3>1. o # <<>>
      <4>1. SUFFICES ASSUME o = <<>>
                     PROVE  FALSE
        OBVIOUS
      <4>2. ~ValidCount(Len(o) - 1)
        BY <4>1, PlanAssumption DEF ValidCount
      <4>. QED
        BY <2>3, <4>2 DEF ClassifierVerdict
    <3>. QED
      BY <2>3, <3>1, ClassifierAccepts
  <2>. QED
    BY <1>1, <2>1, <2>2, <2>3 DEF AdmitsOffsets
<1>. QED
  BY <1>2, <1>3

\* The rows of a range.
LEMMA ElementsAre ==
  ASSUME NEW first \in Int, NEW end \in Int
  PROVE  ToSet(Elements(first, end)) = first..(end - 1)
<1> DEFINE s == Elements(first, end)
<1>1. DOMAIN s = 1..(end - first) /\ \A i \in 1..(end - first) : s[i] = first + i - 1
  BY DEF Elements
<1>2. ASSUME NEW x \in first..(end - 1)
      PROVE  x \in ToSet(s)
  <2>1. x - first + 1 \in 1..(end - first) /\ s[x - first + 1] = x
    BY <1>1
  <2>. QED
    BY <1>1, <2>1 DEF ToSet
<1>3. ASSUME NEW x \in ToSet(s)
      PROVE  x \in first..(end - 1)
  <2>1. PICK i \in 1..(end - first) : x = s[i]
    BY <1>1, <1>3 DEF ToSet
  <2>. QED
    BY <1>1, <2>1
<1>. QED
  BY <1>2, <1>3

-------------------------------------------------------------------------------
(* What kernels load and store, whatever the words on the device are. *)

\* A clamped range lies within its bound.
LEMMA ClampedInBounds ==
  ASSUME NEW first \in Int, NEW end \in Int, NEW bound \in Nat
  PROVE  ToSet(Clamped(first, end, bound)) \subseteq 0..(bound - 1)
<1> DEFINE a == ClampStart(first, bound)
<1> DEFINE b == Least(Most(end, a), bound)
<1>1. a \in Int /\ 0 <= a /\ a <= bound
  BY DEF ClampStart, Least, Most
<1> HIDE DEF a
<1>2. b \in Int /\ b <= bound
  BY <1>1 DEF Least, Most
<1> HIDE DEF b
<1>3. ToSet(Elements(a, b)) = a..(b - 1)
  BY <1>1, <1>2, ElementsAre
<1>4. Clamped(first, end, bound) = Elements(a, b)
  BY DEF Clamped, a, b
<1>. QED
  BY <1>1, <1>2, <1>3, <1>4

\* A range within the bound is not changed by the clamp.
LEMMA ClampKeepsRange ==
  ASSUME NEW first \in Nat, NEW end \in Nat, NEW bound \in Nat,
         first <= end, end <= bound
  PROVE  Clamped(first, end, bound) = Elements(first, end)
<1>1. ClampStart(first, bound) = first
  BY DEF ClampStart, Least, Most
<1>2. Least(Most(end, first), bound) = end
  BY DEF Least, Most
<1>. QED
  BY <1>1, <1>2 DEF Clamped

\* The arguments of a launch whose offsets on the device may be any words.
Loadable(a) ==
    /\ a.segments \in Nat /\ a.values \in Nat /\ a.base \in Nat
    /\ \A i \in 0..a.segments : a.offsets[a.base + i + 1] \in Int

\* A task stores its own segment, combining values that exist.
LEMMA TaskInBounds ==
  ASSUME NEW a, Loadable(a), NEW id, NEW p \in SegmentWrite(a, id)
  PROVE  p[1] \in 0..(a.segments - 1) /\ ToSet(p[2]) \subseteq 0..(a.values - 1)
<1>1. /\ id \in 0..(a.segments - 1)
      /\ p = <<id, Clamped(a.offsets[a.base + id + 1], a.offsets[a.base + id + 2], a.values)>>
  BY DEF SegmentWrite
<1>2. id \in 0..a.segments /\ id + 1 \in 0..a.segments /\ a.base + (id + 1) + 1 = a.base + id + 2
  BY <1>1 DEF Loadable
<1>. QED
  BY <1>1, <1>2, ClampedInBounds DEF Loadable

-------------------------------------------------------------------------------
(* The gradients. *)

\* A row of a segment is looked up in that segment.
LEMMA RowOfSegment ==
  ASSUME NEW o \in Seq(Int), NEW v, Valid(o, v), NEW s \in Segments(o),
         NEW row \in o[s + 1]..(o[s + 2] - 1)
  PROVE  SegmentId(o, row) = s
<1>1. /\ Len(o) \in Nat /\ Len(o) >= 1 /\ DOMAIN o = 1..Len(o)
      /\ \A i \in 1..Len(o) : o[i] \in Int
      /\ \A i, j \in 1..Len(o) : i <= j => o[i] <= o[j]
  BY ValidRange
<1>2. s \in Nat /\ s + 1 \in 1..Len(o) /\ s + 2 \in 1..Len(o)
  BY <1>1 DEF Segments
<1>3. row \in Int /\ o[s + 1] <= row /\ row < o[s + 2]
  BY <1>1, <1>2
<1>4. ASSUME NEW i \in 1..Len(o)
      PROVE  o[i] <= row <=> i <= s + 1
  <2>1. CASE i <= s + 1
    <3>1. o[i] <= o[s + 1]
      BY <1>1, <1>2, <2>1
    <3>. QED
      BY <1>1, <1>2, <1>3, <2>1, <3>1
  <2>2. CASE ~(i <= s + 1)
    <3>1. s + 2 <= i
      BY <1>2, <2>2
    <3>2. o[s + 2] <= o[i]
      BY <1>1, <1>2, <3>1
    <3>. QED
      BY <1>1, <1>2, <1>3, <2>2, <3>2
  <2>. QED
    BY <2>1, <2>2
<1>5. {i \in DOMAIN o : o[i] <= row} = 1..(s + 1)
  BY <1>1, <1>2, <1>4
<1>6. Cardinality(1..(s + 1)) = s + 1
  BY <1>2, FS_Interval
<1> DEFINE n == Cardinality({i \in DOMAIN o : o[i] <= row})
<1>7. n = s + 1
  BY <1>5, <1>6
<1>8. SegmentId(o, row) = Most(n - 1, 0)
  BY DEF SegmentId
<1> HIDE DEF n
<1>. QED
  BY <1>2, <1>7, <1>8 DEF Most

\* A row past the final offset is looked up past the segments.
LEMMA RowPastSegments ==
  ASSUME NEW o \in Seq(Int), NEW v, Valid(o, v), NEW row \in Int, row >= Last(o)
  PROVE  SegmentId(o, row) = Len(o) - 1
<1>1. /\ Len(o) \in Nat /\ Len(o) >= 1 /\ DOMAIN o = 1..Len(o)
      /\ \A i \in 1..Len(o) : o[i] \in Int
      /\ \A i, j \in 1..Len(o) : i <= j => o[i] <= o[j]
  BY ValidRange
<1>2. Last(o) = o[Len(o)] /\ Len(o) \in 1..Len(o)
  BY <1>1 DEF Last
<1>3. ASSUME NEW i \in 1..Len(o)
      PROVE  o[i] <= row
  <2>1. o[i] <= o[Len(o)]
    BY <1>1, <1>2
  <2>. QED
    BY <1>1, <1>2, <2>1
<1>4. {i \in DOMAIN o : o[i] <= row} = 1..Len(o)
  BY <1>1, <1>3
<1>5. Cardinality(1..Len(o)) = Len(o)
  BY <1>1, FS_Interval
<1> DEFINE n == Cardinality({i \in DOMAIN o : o[i] <= row})
<1>6. n = Len(o)
  BY <1>4, <1>5
<1>7. SegmentId(o, row) = Most(n - 1, 0)
  BY DEF SegmentId
<1> HIDE DEF n
<1>. QED
  BY <1>1, <1>6, <1>7 DEF Most

\* A row before the final offset is in a segment.
LEMMA RowHasSegment ==
  ASSUME NEW o \in Seq(Int), NEW v, Valid(o, v), NEW row \in Nat, row < Last(o)
  PROVE  \E s \in Segments(o) : row \in o[s + 1]..(o[s + 2] - 1)
<1>1. /\ Len(o) \in Nat /\ Len(o) >= 1
      /\ \A i \in 1..Len(o) : o[i] \in Int
  BY ValidRange
<1>2. Last(o) = o[Len(o)] /\ o[1] = 0
  BY <1>1 DEF Last, Valid
<1> DEFINE Above == {i \in 1..Len(o) : o[i] > row}
<1>3. Above \subseteq 1..Len(o) /\ Len(o) \in Above
  BY <1>1, <1>2
<1> HIDE DEF Above
<1>4. Above \subseteq Int /\ IsFiniteSet(Above) /\ Above # {}
  BY <1>3, IndicesFinite
<1> DEFINE m == Min(Above)
<1>5. m \in Above /\ \A x \in Above : m <= x
  BY <1>4, LeastElement
<1> HIDE DEF m
<1>6. m \in 1..Len(o) /\ o[m] > row
  BY <1>5 DEF Above
<1>7. m # 1
  BY <1>2, <1>6
<1>8. m - 1 \in 1..Len(o) /\ m - 1 < m
  BY <1>1, <1>6, <1>7
<1>9. m - 1 \notin Above
  BY <1>5, <1>6, <1>8
<1>10. ~(o[m - 1] > row)
  BY <1>8, <1>9 DEF Above
<1> DEFINE s == m - 2
<1>11. s \in Segments(o) /\ s + 1 = m - 1 /\ s + 2 = m
  BY <1>1, <1>6, <1>7 DEF Segments
<1>12. row \in o[s + 1]..(o[s + 2] - 1)
  BY <1>1, <1>6, <1>8, <1>10, <1>11
<1>. QED
  BY <1>11, <1>12

\* The difference of two running counts is the number of ties between them.
LEMMA TiesBetween ==
  ASSUME NEW T, IsFiniteSet(T), T \subseteq Int, NEW a \in Int, NEW b \in Int, a <= b
  PROVE  RunningTies(T, b) - RunningTies(T, a) = Cardinality({r \in T : a <= r /\ r < b})
<1> DEFINE L == {r \in T : r < a}
<1> DEFINE M == {r \in T : a <= r /\ r < b}
<1> DEFINE U == {r \in T : r < b}
<1>1. L \subseteq T /\ M \subseteq T /\ U = L \cup M /\ L \cap M = {}
  <2>1. \A r \in T : r \in Int
    OBVIOUS
  <2>2. L \subseteq T /\ M \subseteq T
    OBVIOUS
  <2>3. \A r \in T : r < b <=> r < a \/ (a <= r /\ r < b)
    BY <2>1
  <2>4. U = L \cup M
    BY <2>3
  <2>5. \A r \in T : ~(r < a /\ a <= r)
    BY <2>1
  <2>6. L \cap M = {}
    BY <2>5
  <2>. QED
    BY <2>2, <2>4, <2>6
<1>2. RunningTies(T, b) = Cardinality(U) /\ RunningTies(T, a) = Cardinality(L)
  BY DEF RunningTies
<1> HIDE DEF L, M, U
<1>3. IsFiniteSet(L) /\ IsFiniteSet(M)
  BY <1>1, FS_Subset
<1>4. Cardinality(L \cup M) = Cardinality(L) + Cardinality(M) - Cardinality(L \cap M)
  BY <1>3, FS_Union
<1>5. Cardinality(L \cap M) = 0
  BY <1>1, FS_EmptySet
<1>6. Cardinality(L) \in Nat /\ Cardinality(M) \in Nat
  BY <1>3, FS_CardinalityType
<1>7. RunningTies(T, b) - RunningTies(T, a) = Cardinality(M)
  BY <1>1, <1>2, <1>4, <1>5, <1>6
<1>. QED
  BY <1>7 DEF M

-------------------------------------------------------------------------------
(* Counting up, and the walks of the classifier. *)

\* Counting up: a set that holds zero and every successor below n.
LEMMA CountUp ==
  ASSUME NEW n \in Nat, NEW G, 0 \in G, \A k \in 0..(n - 1) : k \in G => k + 1 \in G
  PROVE  0..n \subseteq G
<1> DEFINE Missing == (0..n) \ G
<1>1. SUFFICES ASSUME Missing # {}
               PROVE  FALSE
  OBVIOUS
<1>2. Missing \subseteq Int /\ IsFiniteSet(Missing)
  <2>1. IsFiniteSet(0..n) /\ 0..n \subseteq Int
    BY FS_Interval
  <2>2. Missing \subseteq 0..n
    OBVIOUS
  <2>. QED
    BY <2>1, <2>2, FS_Subset
<1> DEFINE m == Min(Missing)
<1> HIDE DEF Missing
<1>3. m \in Missing /\ \A x \in Missing : m <= x
  BY <1>1, <1>2, LeastElement
<1> HIDE DEF m
<1>4. m \in 0..n /\ m \notin G /\ m # 0
  BY <1>3 DEF Missing
<1>5. m - 1 \in 0..(n - 1) /\ m - 1 \in 0..n /\ ~(m <= m - 1)
  BY <1>4
<1>6. m - 1 \in G
  BY <1>3, <1>5 DEF Missing
<1>7. (m - 1) + 1 \in G
  BY <1>5, <1>6
<1>8. (m - 1) + 1 = m
  BY <1>4
<1>. QED
  BY <1>4, <1>7, <1>8

\* A function that is built up from a first value step by step.
BuiltUp(f, n, D, base, step) ==
    f \in [0..n -> D] /\ f[0] = base /\ \A k \in 1..n : f[k] = step[k][f[k - 1]]

\* It exists for every first value and all steps.
LEMMA Recursion ==
  ASSUME NEW n \in Nat, NEW D, NEW base \in D, NEW step \in [1..n -> [D -> D]]
  PROVE  \E f : BuiltUp(f, n, D, base, step)
<1> DEFINE Good(m, f) == f[0] = base /\ \A k \in 1..m : f[k] = step[k][f[k - 1]]
<1> DEFINE G == {m \in 0..n : \E f \in [0..m -> D] : Good(m, f)}
<1>1. 0 \in G
  <2> DEFINE f == [k \in 0..0 |-> base]
  <2>1. f \in [0..0 -> D] /\ Good(0, f)
    OBVIOUS
  <2> HIDE DEF f, Good
  <2>2. \E h \in [0..0 -> D] : Good(0, h)
    BY <2>1
  <2>3. 0 \in 0..n
    OBVIOUS
  <2>. QED
    BY <2>2, <2>3
<1>2. ASSUME NEW m \in 0..(n - 1), m \in G
      PROVE  m + 1 \in G
  <2>1. PICK f \in [0..m -> D] : Good(m, f)
    BY <1>2
  <2>2. step[m + 1][f[m]] \in D
    OBVIOUS
  <2> DEFINE g == [k \in 0..(m + 1) |-> IF k <= m THEN f[k] ELSE step[m + 1][f[m]]]
  <2>3. g \in [0..(m + 1) -> D]
    BY <2>2
  <2>4. g[0] = base
    BY <2>1
  <2>5. ASSUME NEW k \in 1..(m + 1)
        PROVE  g[k] = step[k][g[k - 1]]
    <3>1. CASE k <= m
      <4>1. g[k] = f[k] /\ g[k - 1] = f[k - 1] /\ k \in 1..m
        BY <3>1
      <4>. QED
        BY <2>1, <4>1
    <3>2. CASE ~(k <= m)
      <4>1. k = m + 1 /\ k - 1 = m
        BY <3>2
      <4>2. g[k] = step[m + 1][f[m]] /\ g[k - 1] = f[m]
        BY <4>1
      <4>. QED
        BY <4>1, <4>2
    <3>. QED
      BY <3>1, <3>2
  <2> HIDE DEF g
  <2>6. Good(m + 1, g)
    BY <2>4, <2>5
  <2>7. m + 1 \in 0..n
    OBVIOUS
  <2>. QED
    BY <2>3, <2>6, <2>7
<1> HIDE DEF Good
<1>3. 0..n \subseteq G
  <2> HIDE DEF G
  <2>. QED
    BY <1>1, <1>2, CountUp
<1>4. n \in G
  BY <1>3
<1>. QED
  BY <1>4 DEF Good, BuiltUp

\* What the partial tasks of a segment add.
Extra(o, s, c) == IF Length(o, s) > c THEN ChunkCount(o, s, c) ELSE 0

\* The number of partial tasks before each segment.
LEMMA PartialsAre ==
  ASSUME NEW o \in Seq(Int), Len(o) >= 1, NEW c,
         \A s \in Segments(o) : Extra(o, s, c) \in Nat
  PROVE  /\ PartialsBefore(o, c) \in [0..(Len(o) - 1) -> Nat]
         /\ PartialsBefore(o, c)[0] = 0
         /\ \A s \in Segments(o) :
              PartialsBefore(o, c)[s + 1] = PartialsBefore(o, c)[s] + Extra(o, s, c)
<1> DEFINE n == Len(o) - 1
<1> DEFINE Is(f) == f = [s \in 0..n |-> IF s = 0 THEN 0 ELSE f[s - 1] + Extra(o, s - 1, c)]
<1> DEFINE step == [k \in 1..n |-> [x \in Nat |-> x + Extra(o, k - 1, c)]]
<1>1. n \in Nat /\ \A s \in 1..n : s - 1 \in Segments(o)
  BY DEF Segments
<1> HIDE DEF n
<1>2. step \in [1..n -> [Nat -> Nat]]
  <2>1. \A k \in 1..n : \A x \in Nat : x + Extra(o, k - 1, c) \in Nat
    BY <1>1
  <2>. QED
    BY <2>1
<1> HIDE DEF Is
<1>3. PICK f : BuiltUp(f, n, Nat, 0, step)
  <2> HIDE DEF step
  <2>1. n \in Nat /\ 0 \in Nat
    BY <1>1
  <2>. QED
    BY <2>1, <1>2, Recursion, Zenon
<1>4. \A k \in 1..n : f[k] = f[k - 1] + Extra(o, k - 1, c)
  <2>1. \A k \in 1..n : f[k - 1] \in Nat
    BY <1>1, <1>3 DEF BuiltUp
  <2>. QED
    BY <1>3, <2>1 DEF BuiltUp
<1>5. Is(f)
  <2>1. f = [s \in 0..n |-> f[s]]
    BY <1>3 DEF BuiltUp
  <2>2. \A s \in 0..n : f[s] = IF s = 0 THEN 0 ELSE f[s - 1] + Extra(o, s - 1, c)
    BY <1>1, <1>3, <1>4 DEF BuiltUp
  <2>. QED
    BY <2>1, <2>2 DEF Is
<1>6. PartialsBefore(o, c) = CHOOSE g : Is(g)
  BY DEF PartialsBefore, Extra, Is, n
<1> DEFINE g == CHOOSE g : Is(g)
<1>7. Is(g)
  BY <1>5
<1> HIDE DEF g
<1>8. g[0] = 0 /\ \A k \in 1..n : g[k] = g[k - 1] + Extra(o, k - 1, c)
  BY <1>1, <1>7 DEF Is
<1>9. \A k \in 0..n : g[k] \in Nat
  <2> DEFINE G == {k \in 0..n : g[k] \in Nat}
  <2>1. 0 \in G
    BY <1>1, <1>8
  <2>2. ASSUME NEW k \in 0..(n - 1), k \in G
        PROVE  k + 1 \in G
    <3>1. k + 1 \in 1..n /\ (k + 1) - 1 = k /\ k \in Segments(o) /\ k + 1 \in 0..n
      BY <1>1 DEF Segments, n
    <3>2. g[k + 1] = g[k] + Extra(o, k, c)
      BY <1>8, <3>1
    <3>. QED
      BY <2>2, <3>1, <3>2
  <2> HIDE DEF G
  <2>3. 0..n \subseteq G
    BY <1>1, <2>1, <2>2, CountUp
  <2>. QED
    BY <2>3 DEF G
<1>10. g \in [0..n -> Nat]
  BY <1>7, <1>9 DEF Is
<1>11. \A s \in Segments(o) : s + 1 \in 1..n /\ (s + 1) - 1 = s
  BY <1>1 DEF Segments, n
<1>12. \A s \in Segments(o) : g[s + 1] = g[s] + Extra(o, s, c)
  BY <1>8, <1>11
<1>. QED
  BY <1>6, <1>8, <1>10, <1>12 DEF g, n

\* The lengths and chunks of valid offsets.
LEMMA LengthsAre ==
  ASSUME NEW o \in Seq(Int), NEW v, Valid(o, v), NEW s \in Segments(o)
  PROVE  /\ Length(o, s) \in 0..v /\ Gap(o, s) = Length(o, s)
         /\ s \in Nat /\ s + 1 \in 1..Len(o) /\ s + 2 \in 1..Len(o)
         /\ o[s + 1] \in 0..v /\ o[s + 2] \in 0..v /\ o[s + 1] <= o[s + 2]
<1>1. /\ v \in 0..(I32Limit - 1) /\ Len(o) \in Nat /\ Len(o) >= 1
      /\ \A i \in 1..Len(o) : o[i] \in 0..v
      /\ \A i, j \in 1..Len(o) : i <= j => o[i] <= o[j]
  BY ValidRange
<1>2. s \in Nat /\ s + 1 \in 1..Len(o) /\ s + 2 \in 1..Len(o)
  BY <1>1 DEF Segments
<1>3. o[s + 1] \in 0..v /\ o[s + 2] \in 0..v /\ o[s + 1] <= o[s + 2]
  BY <1>1, <1>2
<1>4. Length(o, s) \in 0..v
  BY <1>1, <1>3 DEF Length
<1>5. Length(o, s) \in Int /\ Word32(Length(o, s))
  BY <1>1, <1>4, PlanAssumption DEF Word32
<1>6. Narrow(Length(o, s)) = Length(o, s)
  BY <1>5, NarrowExact
<1>. QED
  BY <1>2, <1>3, <1>4, <1>6 DEF Gap

\* A quotient that is rounded up.
LEMMA CeilDivIs ==
  ASSUME NEW a \in Nat, NEW b \in Nat \ {0}
  PROVE  /\ CeilDiv(a, b) \in Nat
         /\ a <= CeilDiv(a, b) * b /\ CeilDiv(a, b) * b < a + b
         /\ a > 0 => CeilDiv(a, b) > 0
<1> DEFINE x == a + b - 1
<1> DEFINE q == x \div b
<1>1. x \in Nat /\ b \in Nat /\ b > 0
  OBVIOUS
<1> HIDE DEF x
<1>2. q \in Int /\ x = b * q + (x % b) /\ x % b \in 0..(b - 1)
  BY <1>1
<1>3. q >= 0
  BY <1>1
<1> HIDE DEF q
<1>4. b * q = q * b
  BY <1>1, <1>2
<1>5. q * b <= x /\ x < q * b + b
  <2> DEFINE y == q * b
  <2> DEFINE r == x % b
  <2>1. x = y + r /\ r \in 0..(b - 1) /\ y \in Int
    BY <1>1, <1>2, <1>4
  <2> HIDE DEF y, r
  <2>2. y <= x /\ x < y + b
    BY <1>1, <2>1
  <2>. QED
    BY <2>2 DEF y
<1>6. a <= q * b /\ q * b < a + b
  BY <1>2, <1>5 DEF x
<1>7. a > 0 => q > 0
  <2>1. q = 0 => q * b = 0
    BY <1>1
  <2>. QED
    BY <1>2, <1>3, <1>6, <2>1
<1>. QED
  BY <1>2, <1>3, <1>6, <1>7 DEF CeilDiv, q, x

\* How many segments before s run on a warp, and how many are split.
WarpsBefore(o, w, s) == Cardinality({t \in 0..(s - 1) : Length(o, t) <= w})
SplitsBefore(o, c, s) == Cardinality({t \in 0..(s - 1) : Length(o, t) > c})

\* A count before s + 1 has one more when s counts.
LEMMA CountsOn ==
  ASSUME NEW s \in Nat, NEW P, P \subseteq 0..s
  PROVE  LET Q == {t \in P : t # s} IN
         /\ IsFiniteSet(P) /\ Cardinality(P) \in Nat /\ Cardinality(Q) \in Nat
         /\ Cardinality(P) = Cardinality(Q) + IF s \in P THEN 1 ELSE 0
<1> DEFINE Q == {t \in P : t # s}
<1>1. IsFiniteSet(P) /\ IsFiniteSet(Q)
  <2>1. IsFiniteSet(0..s)
    BY FS_Interval
  <2>2. Q \subseteq 0..s
    OBVIOUS
  <2>. QED
    BY <2>1, <2>2, FS_Subset
<1>2. Cardinality(P) \in Nat /\ Cardinality(Q) \in Nat
  BY <1>1, FS_CardinalityType
<1>3. CASE s \in P
  <2>1. P = Q \cup {s} /\ s \notin Q
    BY <1>3
  <2>2. Cardinality(P) = Cardinality(Q) + 1
    <3> HIDE DEF Q
    <3>1. Cardinality(Q \cup {s}) = Cardinality(Q) + 1
      BY <1>1, <2>1, FS_AddElement
    <3>. QED
      BY <2>1, <3>1
  <2>. QED
    BY <1>1, <1>2, <1>3, <2>2
<1>4. CASE s \notin P
  <2>1. P = Q
    BY <1>4
  <2>2. Cardinality(P) = Cardinality(Q)
    BY <2>1
  <2>. QED
    BY <1>1, <1>2, <1>4, <2>2
<1>. QED
  BY <1>3, <1>4

\* The counts before each segment.
LEMMA CountsAre ==
  ASSUME NEW o \in Seq(Int), NEW v, Valid(o, v), NEW w \in Int, NEW c \in Nat \ {0}
  PROVE  /\ WarpsBefore(o, w, 0) = 0 /\ SplitsBefore(o, c, 0) = 0
         /\ \A s \in 0..(Len(o) - 1) :
              WarpsBefore(o, w, s) \in Nat /\ SplitsBefore(o, c, s) \in Nat
         /\ \A s \in Segments(o) :
              /\ WarpsBefore(o, w, s + 1)
                   = WarpsBefore(o, w, s) + IF Length(o, s) <= w THEN 1 ELSE 0
              /\ SplitsBefore(o, c, s + 1)
                   = SplitsBefore(o, c, s) + IF Length(o, s) > c THEN 1 ELSE 0
         /\ WarpCount(o, w) = WarpsBefore(o, w, Len(o) - 1)
         /\ SplitCount(o, c) = SplitsBefore(o, c, Len(o) - 1)
<1>1. Len(o) \in Nat /\ Len(o) >= 1
  BY ValidRange
<1>2. WarpsBefore(o, w, 0) = 0 /\ SplitsBefore(o, c, 0) = 0
  <2>1. 0..(0 - 1) = {}
    OBVIOUS
  <2>2. {t \in 0..(0 - 1) : Length(o, t) <= w} = {} /\ {t \in 0..(0 - 1) : Length(o, t) > c} = {}
    BY <2>1
  <2>. QED
    BY <2>2, FS_EmptySet DEF WarpsBefore, SplitsBefore
<1>3. ASSUME NEW s \in 0..(Len(o) - 1)
      PROVE  WarpsBefore(o, w, s) \in Nat /\ SplitsBefore(o, c, s) \in Nat
  <2> DEFINE A == {t \in 0..(s - 1) : Length(o, t) <= w}
  <2> DEFINE B == {t \in 0..(s - 1) : Length(o, t) > c}
  <2>1. s \in Nat /\ A \subseteq 0..s /\ B \subseteq 0..s
    BY <1>1
  <2>2. Cardinality(A) \in Nat /\ Cardinality(B) \in Nat
    <3> HIDE DEF A, B
    <3>. QED
      BY <2>1, CountsOn
  <2>. QED
    BY <2>2 DEF WarpsBefore, SplitsBefore
<1>4. ASSUME NEW s \in Segments(o)
      PROVE  /\ WarpsBefore(o, w, s + 1)
                   = WarpsBefore(o, w, s) + IF Length(o, s) <= w THEN 1 ELSE 0
             /\ SplitsBefore(o, c, s + 1)
                   = SplitsBefore(o, c, s) + IF Length(o, s) > c THEN 1 ELSE 0
  <2> DEFINE A == {t \in 0..((s + 1) - 1) : Length(o, t) <= w}
  <2> DEFINE B == {t \in 0..((s + 1) - 1) : Length(o, t) > c}
  <2>1. s \in Nat /\ (s + 1) - 1 = s
    BY DEF Segments
  <2>2. A \subseteq 0..s /\ B \subseteq 0..s
    BY <2>1
  <2>3. (s \in A <=> Length(o, s) <= w) /\ (s \in B <=> Length(o, s) > c)
    BY <2>1
  <2>4. {t \in A : t # s} = {t \in 0..(s - 1) : Length(o, t) <= w}
    BY <2>1
  <2>5. {t \in B : t # s} = {t \in 0..(s - 1) : Length(o, t) > c}
    BY <2>1
  <2> HIDE DEF A, B
  <2>6. Cardinality(A) = Cardinality({t \in A : t # s}) + IF s \in A THEN 1 ELSE 0
    BY <2>1, <2>2, CountsOn
  <2>7. Cardinality(B) = Cardinality({t \in B : t # s}) + IF s \in B THEN 1 ELSE 0
    BY <2>1, <2>2, CountsOn
  <2>8. WarpsBefore(o, w, s + 1) = WarpsBefore(o, w, s) + IF Length(o, s) <= w THEN 1 ELSE 0
    BY <2>3, <2>4, <2>6 DEF WarpsBefore, A
  <2>. QED
    BY <2>3, <2>5, <2>7, <2>8 DEF SplitsBefore, B
<1>5. 0..((Len(o) - 1) - 1) = Segments(o)
  BY <1>1 DEF Segments
<1>6. {t \in 0..((Len(o) - 1) - 1) : Length(o, t) <= w} = {s \in Segments(o) : Gap(o, s) <= w}
  BY <1>5, LengthsAre
<1>7. {t \in 0..((Len(o) - 1) - 1) : Length(o, t) > c} = {s \in Segments(o) : Gap(o, s) > c}
  BY <1>5, LengthsAre
<1>8. WarpCount(o, w) = WarpsBefore(o, w, Len(o) - 1)
  BY <1>6 DEF WarpCount, WarpsBefore
<1>9. SplitCount(o, c) = SplitsBefore(o, c, Len(o) - 1)
  BY <1>7 DEF SplitCount, SplitsBefore
<1>. QED
  BY <1>2, <1>3, <1>4, <1>8, <1>9

\* What grows with every step grows.
LEMMA Grows ==
  ASSUME NEW n \in Nat, NEW f, \A k \in 0..n : f[k] \in Int,
         \A k \in 0..(n - 1) : f[k] <= f[k + 1]
  PROVE  \A i, j \in 0..n : i <= j => f[i] <= f[j]
<1> DEFINE G == {j \in 0..n : \A i \in 0..j : f[i] <= f[j]}
<1>1. 0 \in G
  OBVIOUS
<1>2. ASSUME NEW j \in 0..(n - 1), j \in G
      PROVE  j + 1 \in G
  <2>1. j \in 0..n /\ j + 1 \in 0..n /\ f[j] \in Int /\ f[j + 1] \in Int /\ f[j] <= f[j + 1]
    OBVIOUS
  <2>2. ASSUME NEW i \in 0..(j + 1)
        PROVE  f[i] <= f[j + 1]
    <3>1. CASE i \in 0..j
      <4>1. f[i] <= f[j] /\ f[i] \in Int
        BY <1>2, <3>1
      <4>. QED
        BY <2>1, <4>1
    <3>2. CASE i \notin 0..j
      <4>1. i = j + 1
        BY <3>2
      <4>. QED
        BY <2>1, <4>1
    <3>. QED
      BY <3>1, <3>2
  <2>. QED
    BY <2>1, <2>2
<1> HIDE DEF G
<1>3. 0..n \subseteq G
  BY <1>1, <1>2, CountUp
<1>. QED
  BY <1>3 DEF G

-------------------------------------------------------------------------------
(* Stores that fill a set of indices, each index once. *)

\* Pairs of an index and a word: every index of S has exactly one word.
Fills(T, S) ==
    /\ T \subseteq S \X Int
    /\ \A i \in S : \E x \in Int : <<i, x>> \in T
    /\ \A i \in S : \A x, y \in Int : <<i, x>> \in T /\ <<i, y>> \in T => x = y

\* Stores to two sets of indices that have none in common.
LEMMA FillsUnion ==
  ASSUME NEW T, NEW S, NEW U, NEW R, Fills(T, S), Fills(U, R), S \cap R = {}
  PROVE  Fills(T \cup U, S \cup R)
<1>1. T \cup U \subseteq (S \cup R) \X Int
  BY DEF Fills
<1>2. \A i \in S \cup R : \E x \in Int : <<i, x>> \in T \cup U
  BY DEF Fills
<1>3. ASSUME NEW i \in S \cup R, NEW x \in Int, NEW y \in Int,
             <<i, x>> \in T \cup U, <<i, y>> \in T \cup U
      PROVE  x = y
  <2>1. i \in S => <<i, x>> \notin U /\ <<i, y>> \notin U
    BY DEF Fills
  <2>2. i \in R => <<i, x>> \notin T /\ <<i, y>> \notin T
    BY DEF Fills
  <2>. QED
    BY <1>3, <2>1, <2>2 DEF Fills
<1>. QED
  BY <1>1, <1>2, <1>3 DEF Fills

\* A store of one word.
LEMMA FillsOne ==
  ASSUME NEW i \in Int, NEW x \in Int
  PROVE  Fills({<<i, x>>}, {i})
BY DEF Fills

\* Stores of consecutive words.
LEMMA FillsWords ==
  ASSUME NEW at \in Int, NEW words \in Seq(Int)
  PROVE  Fills(StoreAll(at, words), at..(at + Len(words) - 1))
<1> DEFINE T == StoreAll(at, words)
<1>1. /\ DOMAIN words = 1..Len(words) /\ Len(words) \in Nat
      /\ \A i \in 1..Len(words) : words[i] \in Int
  OBVIOUS
<1>2. T = {<<at + i - 1, words[i]>> : i \in 1..Len(words)}
  BY <1>1 DEF StoreAll
<1>3. ASSUME NEW i \in 1..Len(words)
      PROVE  at + i - 1 \in at..(at + Len(words) - 1) /\ words[i] \in Int
  BY <1>1
<1>4. T \subseteq (at..(at + Len(words) - 1)) \X Int
  BY <1>2, <1>3
<1>5. ASSUME NEW i \in at..(at + Len(words) - 1)
      PROVE  /\ \E x \in Int : <<i, x>> \in T
             /\ \A x : <<i, x>> \in T => x = words[i - at + 1]
  <2> DEFINE k == i - at + 1
  <2>1. k \in 1..Len(words) /\ at + k - 1 = i
    BY <1>1
  <2>2. words[k] \in Int /\ <<i, words[k]>> \in T
    <3> HIDE DEF k
    <3>. QED
      BY <1>1, <1>2, <2>1
  <2>3. ASSUME NEW x, <<i, x>> \in T
        PROVE  x = words[k]
    <3>1. PICK j \in 1..Len(words) : <<i, x>> = <<at + j - 1, words[j]>>
      BY <1>2, <2>3
    <3>2. j = k
      BY <1>1, <2>1, <3>1
    <3>. QED
      BY <3>1, <3>2
  <2>. QED
    BY <2>2, <2>3
<1> HIDE DEF T
<1>6. Fills(T, at..(at + Len(words) - 1))
  BY <1>4, <1>5 DEF Fills
<1>. QED
  BY <1>6 DEF T

\* Stores that fill the words of a buffer are as many as its words.
LEMMA FillsCount ==
  ASSUME NEW T, NEW m \in Nat, Fills(T, 0..(m - 1))
  PROVE  Cardinality(T) = m /\ {p[1] : p \in T} = 0..(m - 1)
<1> DEFINE S == 0..(m - 1)
<1> DEFINE g == [i \in S |-> CHOOSE p \in T : p[1] = i]
<1>1. \A p \in T : p \in S \X Int
  BY DEF Fills
<1>2. \A p \in T : p = <<p[1], p[2]>> /\ p[1] \in S /\ p[2] \in Int
  BY <1>1
<1>3. ASSUME NEW p \in T, NEW q \in T, p[1] = q[1]
      PROVE  p = q
  <2>1. p[2] = q[2]
    BY <1>2, <1>3 DEF Fills
  <2>. QED
    BY <1>2, <1>3, <2>1
<1>4. ASSUME NEW i \in S
      PROVE  \E p \in T : p[1] = i
  <2>1. PICK x \in Int : <<i, x>> \in T
    BY DEF Fills
  <2>2. <<i, x>>[1] = i
    OBVIOUS
  <2>. QED
    BY <2>1, <2>2
<1>5. \A i \in S : g[i] \in T /\ g[i][1] = i
  BY <1>4
<1>6. g \in [S -> T]
  <2>1. \A i \in S : (CHOOSE p \in T : p[1] = i) \in T
    BY <1>4
  <2>. QED
    BY <2>1
<1> HIDE DEF g
<1>7. \A p \in T : g[p[1]] = p
  BY <1>2, <1>3, <1>5
<1>8. g \in Bijection(S, T)
  <2>1. \A i, j \in S : g[i] = g[j] => i = j
    BY <1>5
  <2>2. \A p \in T : \E i \in S : g[i] = p
    BY <1>2, <1>7
  <2> HIDE DEF S
  <2>. QED
    BY <1>6, <2>1, <2>2 DEF Bijection, Injection, Surjection, IsInjective
<1>9. IsFiniteSet(S) /\ Cardinality(S) = m
  <2>1. IsFiniteSet(0..(m - 1)) /\ Cardinality(0..(m - 1)) = IF 0 > m - 1 THEN 0 ELSE (m - 1) - 0 + 1
    BY FS_Interval
  <2>. QED
    BY <2>1
<1>10. {p[1] : p \in T} = S
  BY <1>2, <1>4
<1> HIDE DEF S
<1>11. Cardinality(T) = Cardinality(S)
  BY <1>8, <1>9, FS_Bijection DEF ExistsBijection
<1>. QED
  BY <1>9, <1>10, <1>11 DEF S

-------------------------------------------------------------------------------
(* The walk that writes the records. *)

\* Stores of two and of three words.
LEMMA StoresOfTwo ==
  ASSUME NEW at \in Int, NEW x, NEW y
  PROVE  StoreAll(at, <<x, y>>) = {<<at, x>>, <<at + 1, y>>}
<1>1. DOMAIN <<x, y>> = {1, 2} /\ <<x, y>>[1] = x /\ <<x, y>>[2] = y
  OBVIOUS
<1>2. at + 1 - 1 = at /\ at + 2 - 1 = at + 1
  OBVIOUS
<1> DEFINE words == <<x, y>>
<1> HIDE DEF words
<1>3. StoreAll(at, words) = {<<at + i - 1, words[i]>> : i \in {1, 2}}
  BY <1>1 DEF StoreAll, words
<1>4. {<<at + i - 1, words[i]>> : i \in {1, 2}} = {<<at + 1 - 1, words[1]>>, <<at + 2 - 1, words[2]>>}
  OBVIOUS
<1>. QED
  BY <1>1, <1>2, <1>3, <1>4 DEF words

\* The stores of three words.
LEMMA StoresOfThree ==
  ASSUME NEW at \in Int, NEW x, NEW y, NEW z
  PROVE  StoreAll(at, <<x, y, z>>) = {<<at, x>>, <<at + 1, y>>, <<at + 2, z>>}
<1>1. /\ DOMAIN <<x, y, z>> = {1, 2, 3}
      /\ <<x, y, z>>[1] = x /\ <<x, y, z>>[2] = y /\ <<x, y, z>>[3] = z
  OBVIOUS
<1>2. at + 1 - 1 = at /\ at + 2 - 1 = at + 1 /\ at + 3 - 1 = at + 2
  OBVIOUS
<1> DEFINE words == <<x, y, z>>
<1> HIDE DEF words
<1>3. StoreAll(at, words) = {<<at + i - 1, words[i]>> : i \in {1, 2, 3}}
  BY <1>1 DEF StoreAll, words
<1>4. {<<at + i - 1, words[i]>> : i \in {1, 2, 3}}
        = {<<at + 1 - 1, words[1]>>, <<at + 2 - 1, words[2]>>, <<at + 3 - 1, words[3]>>}
  OBVIOUS
<1>. QED
  BY <1>1, <1>2, <1>3, <1>4 DEF words

\* The chunks of a split segment: two words of its range and its merge.
ChunkStores(o, s, c, at, k) ==
    {<<at.partial + 2 * (k - 1), o[s + 1] + (k - 1) * c>>,
     <<at.partial + 2 * (k - 1) + 1, Least(o[s + 2], o[s + 1] + k * c)>>,
     <<at.partialMerge + (k - 1), at.merges>>}

\* The stores of all its chunks.
LEMMA ChunksAre ==
  ASSUME NEW o, NEW s, NEW c, NEW at, at.partial \in Int, at.partialMerge \in Int
  PROVE  StoreChunks(o, s, c, at)
           = UNION {ChunkStores(o, s, c, at, k) : k \in 1..ChunkCount(o, s, c)}
<1>1. ASSUME NEW k \in 1..ChunkCount(o, s, c)
      PROVE  StoreAll(at.partial + 2 * (k - 1), Chunk(o, s, c, k))
               \cup {<<at.partialMerge + k - 1, at.merges>>}
             = ChunkStores(o, s, c, at, k)
  <2> DEFINE p == at.partial + 2 * (k - 1)
  <2> DEFINE x == o[s + 1] + (k - 1) * c
  <2> DEFINE y == Least(o[s + 2], o[s + 1] + k * c)
  <2>1. p \in Int /\ at.partialMerge + k - 1 = at.partialMerge + (k - 1)
    OBVIOUS
  <2> HIDE DEF p, x, y
  <2>2. StoreAll(p, <<x, y>>) = {<<p, x>>, <<p + 1, y>>}
    BY <2>1, StoresOfTwo
  <2>3. Chunk(o, s, c, k) = <<x, y>>
    BY DEF Chunk, x, y
  <2>. QED
    BY <2>1, <2>2, <2>3 DEF ChunkStores, p, x, y
<1>. QED
  BY <1>1 DEF StoreChunks

\* The words of the chunks fill their places in the two lists.
LEMMA ChunksFill ==
  ASSUME NEW o, NEW s, NEW c, NEW at,
         at.partial \in Int, at.partialMerge \in Int, at.merges \in Int,
         NEW n \in Nat, ChunkCount(o, s, c) = n,
         \A k \in 1..n : /\ o[s + 1] + (k - 1) * c \in Int
                         /\ Least(o[s + 2], o[s + 1] + k * c) \in Int,
         at.partial + 2 * n <= at.partialMerge
  PROVE  Fills(StoreChunks(o, s, c, at),
               (at.partial..(at.partial + 2 * n - 1))
                 \cup (at.partialMerge..(at.partialMerge + n - 1)))
<1> DEFINE p == at.partial
<1> DEFINE q == at.partialMerge
<1> DEFINE m == at.merges
<1> DEFINE x(k) == o[s + 1] + (k - 1) * c
<1> DEFINE y(k) == Least(o[s + 2], o[s + 1] + k * c)
<1> DEFINE A == p..(p + 2 * n - 1)
<1> DEFINE B == q..(q + n - 1)
<1> DEFINE T == StoreChunks(o, s, c, at)
<1>1. p \in Int /\ q \in Int /\ m \in Int /\ p + 2 * n <= q
  OBVIOUS
<1>2. \A k \in 1..n : x(k) \in Int /\ y(k) \in Int
  OBVIOUS
<1>3. T = UNION {ChunkStores(o, s, c, at, k) : k \in 1..n}
  BY ChunksAre
<1>4. \A k \in 1..n : ChunkStores(o, s, c, at, k)
        = {<<p + 2 * (k - 1), x(k)>>, <<p + 2 * (k - 1) + 1, y(k)>>, <<q + (k - 1), m>>}
  BY DEF ChunkStores
<1> HIDE DEF p, q, m, x, y, T
<1>5. \A r : r \in T <=> \E k \in 1..n : \/ r = <<p + 2 * (k - 1), x(k)>>
                                         \/ r = <<p + 2 * (k - 1) + 1, y(k)>>
                                         \/ r = <<q + (k - 1), m>>
  BY <1>3, <1>4
<1>6. T \subseteq (A \cup B) \X Int
  <2>1. ASSUME NEW k \in 1..n
        PROVE  /\ p + 2 * (k - 1) \in A /\ p + 2 * (k - 1) + 1 \in A /\ q + (k - 1) \in B
               /\ x(k) \in Int /\ y(k) \in Int
    BY <1>1, <1>2
  <2> HIDE DEF A, B
  <2>. QED
    BY <1>1, <1>5, <2>1
<1>7. ASSUME NEW i \in A
      PROVE  \E k \in 1..n : i = p + 2 * (k - 1) \/ i = p + 2 * (k - 1) + 1
  <2> DEFINE k == (i - p) \div 2 + 1
  <2>1. i - p \in 0..(2 * n - 1)
    BY <1>1
  <2>2. k \in 1..n /\ (i = p + 2 * (k - 1) \/ i = p + 2 * (k - 1) + 1)
    BY <1>1, <2>1
  <2>. QED
    BY <2>2
<1>8. ASSUME NEW i \in B
      PROVE  \E k \in 1..n : i = q + (k - 1)
  <2>1. i - q + 1 \in 1..n /\ i = q + ((i - q + 1) - 1)
    BY <1>1
  <2>. QED
    BY <2>1
<1>9. \A i \in A \cup B : \E z \in Int : <<i, z>> \in T
  <2> HIDE DEF A, B
  <2>1. ASSUME NEW k \in 1..n
        PROVE  /\ <<p + 2 * (k - 1), x(k)>> \in T
               /\ <<p + 2 * (k - 1) + 1, y(k)>> \in T
               /\ <<q + (k - 1), m>> \in T
    BY <1>5
  <2>2. ASSUME NEW i \in A
        PROVE  \E z \in Int : <<i, z>> \in T
    <3>1. PICK k \in 1..n : i = p + 2 * (k - 1) \/ i = p + 2 * (k - 1) + 1
      BY <1>7
    <3>2. <<i, x(k)>> \in T \/ <<i, y(k)>> \in T
      BY <2>1, <3>1
    <3>. QED
      BY <1>2, <3>2
  <2>3. ASSUME NEW i \in B
        PROVE  \E z \in Int : <<i, z>> \in T
    <3>1. PICK k \in 1..n : i = q + (k - 1)
      BY <1>8
    <3>2. <<i, m>> \in T
      BY <2>1, <3>1
    <3>. QED
      BY <1>1, <3>2
  <2>. QED
    BY <2>2, <2>3
<1>10. ASSUME NEW i \in A \cup B, NEW u \in Int, NEW z \in Int, <<i, u>> \in T, <<i, z>> \in T
       PROVE  u = z
  <2>1. PICK j \in 1..n : \/ i = p + 2 * (j - 1) /\ u = x(j)
                          \/ i = p + 2 * (j - 1) + 1 /\ u = y(j)
                          \/ i = q + (j - 1) /\ u = m
    BY <1>5, <1>10
  <2>2. PICK k \in 1..n : \/ i = p + 2 * (k - 1) /\ z = x(k)
                          \/ i = p + 2 * (k - 1) + 1 /\ z = y(k)
                          \/ i = q + (k - 1) /\ z = m
    BY <1>5, <1>10
  <2>3. CASE i = p + 2 * (j - 1) /\ u = x(j)
    <3>1. i = p + 2 * (k - 1) /\ j = k /\ z = x(k)
      BY <1>1, <2>2, <2>3
    <3>. QED
      BY <2>3, <3>1
  <2>4. CASE i = p + 2 * (j - 1) + 1 /\ u = y(j)
    <3>1. i = p + 2 * (k - 1) + 1 /\ j = k /\ z = y(k)
      BY <1>1, <2>2, <2>4
    <3>. QED
      BY <2>4, <3>1
  <2>5. CASE i = q + (j - 1) /\ u = m
    <3>1. i = q + (k - 1) /\ z = m
      BY <1>1, <2>2, <2>5
    <3>. QED
      BY <2>5, <3>1
  <2>. QED
    BY <2>1, <2>3, <2>4, <2>5
<1> HIDE DEF A, B
<1>11. Fills(T, A \cup B)
  BY <1>6, <1>9, <1>10 DEF Fills
<1>. QED
  BY <1>11 DEF T, A, B, p, q

\* Where each list of the records starts.
FirstPartial(o, w, c) == WarpCount(o, w) + CtaCount(o, w, c)
FirstMerge(o, w, c) == FirstPartial(o, w, c) + 2 * PartialCount(o, c)
FirstMergeId(o, w, c) == FirstMerge(o, w, c) + 3 * SplitCount(o, c)

\* What the lists before a segment hold.
CtasBefore(o, w, c, s) == s - WarpsBefore(o, w, s) - SplitsBefore(o, c, s)
Position(o, w, c, s) ==
    [warp |-> WarpsBefore(o, w, s),
     cta |-> WarpCount(o, w) + CtasBefore(o, w, c, s),
     partial |-> FirstPartial(o, w, c) + 2 * PartialsBefore(o, c)[s],
     merge |-> FirstMerge(o, w, c) + 3 * SplitsBefore(o, c, s),
     partialMerge |-> FirstMergeId(o, w, c) + PartialsBefore(o, c)[s],
     scratch |-> PartialsBefore(o, c)[s], merges |-> SplitsBefore(o, c, s),
     stores |-> {}]

\* Sizes of a plan that fits: the offsets are valid and the limits ordered.
Sizes(o, v, w, c) == Valid(o, v) /\ w \in Nat /\ c \in Nat \ {0} /\ w <= c

\* The chunks of the segments before each segment.
LEMMA ExtraIs ==
  ASSUME NEW o \in Seq(Int), NEW v, NEW w, NEW c, Sizes(o, v, w, c), NEW s \in Segments(o)
  PROVE  Extra(o, s, c) \in Nat /\ ChunkCount(o, s, c) \in Nat
<1>1. Length(o, s) \in Nat /\ c \in Nat \ {0}
  <2>1. Length(o, s) \in 0..v /\ v \in Int
    BY LengthsAre, ValidRange DEF Sizes
  <2>. QED
    BY <2>1 DEF Sizes
<1>2. CeilDiv(Length(o, s), c) \in Nat
  BY <1>1, CeilDivIs
<1>. QED
  BY <1>2 DEF Extra, ChunkCount

\* The counts before a segment: how they move, and that they stay within the totals.
LEMMA PositionsAre ==
  ASSUME NEW o \in Seq(Int), NEW v, NEW w, NEW c, Sizes(o, v, w, c)
  PROVE  /\ Len(o) \in Nat /\ Len(o) >= 1
         /\ WarpCount(o, w) \in Nat /\ CtaCount(o, w, c) \in Nat
         /\ SplitCount(o, c) \in Nat /\ PartialCount(o, c) \in Nat
         /\ WarpsBefore(o, w, 0) = 0 /\ SplitsBefore(o, c, 0) = 0
         /\ CtasBefore(o, w, c, 0) = 0 /\ PartialsBefore(o, c)[0] = 0
         /\ WarpsBefore(o, w, Len(o) - 1) = WarpCount(o, w)
         /\ SplitsBefore(o, c, Len(o) - 1) = SplitCount(o, c)
         /\ CtasBefore(o, w, c, Len(o) - 1) = CtaCount(o, w, c)
         /\ PartialsBefore(o, c)[Len(o) - 1] = PartialCount(o, c)
         /\ \A s \in 0..(Len(o) - 1) :
              /\ WarpsBefore(o, w, s) \in 0..WarpCount(o, w)
              /\ SplitsBefore(o, c, s) \in 0..SplitCount(o, c)
              /\ CtasBefore(o, w, c, s) \in 0..CtaCount(o, w, c)
              /\ PartialsBefore(o, c)[s] \in 0..PartialCount(o, c)
         /\ \A s \in Segments(o) :
              /\ s \in Nat /\ s + 1 \in 0..(Len(o) - 1) /\ s \in 0..(Len(o) - 1)
              /\ WarpsBefore(o, w, s + 1)
                   = WarpsBefore(o, w, s) + IF Length(o, s) <= w THEN 1 ELSE 0
              /\ SplitsBefore(o, c, s + 1)
                   = SplitsBefore(o, c, s) + IF Length(o, s) > c THEN 1 ELSE 0
              /\ CtasBefore(o, w, c, s + 1)
                   = CtasBefore(o, w, c, s)
                       + IF Length(o, s) > w /\ Length(o, s) <= c THEN 1 ELSE 0
              /\ PartialsBefore(o, c)[s + 1]
                   = PartialsBefore(o, c)[s]
                       + IF Length(o, s) > c THEN ChunkCount(o, s, c) ELSE 0
<1> DEFINE n == Len(o) - 1
<1> DEFINE W == [s \in 0..n |-> WarpsBefore(o, w, s)]
<1> DEFINE S == [s \in 0..n |-> SplitsBefore(o, c, s)]
<1> DEFINE C == [s \in 0..n |-> s - W[s] - S[s]]
<1> DEFINE P == PartialsBefore(o, c)
<1>0. /\ Valid(o, v) /\ w \in Nat /\ w \in Int /\ c \in Nat \ {0} /\ c \in Int /\ w <= c
      /\ n \in Nat /\ n = Len(o) - 1 /\ Len(o) \in Nat /\ Len(o) >= 1
  BY ValidRange DEF Sizes
<1>1. /\ W[0] = 0 /\ S[0] = 0
      /\ \A s \in 0..n : W[s] \in Nat /\ S[s] \in Nat
      /\ WarpCount(o, w) = W[n] /\ SplitCount(o, c) = S[n]
  BY <1>0, CountsAre
<1>2. Segments(o) = 0..(n - 1)
  BY <1>0 DEF Segments
<1>3. \A s \in 0..(n - 1) : s \in Nat /\ s \in 0..n /\ s + 1 \in 0..n /\ Length(o, s) \in Int
  <2>1. \A s \in 0..(n - 1) : Length(o, s) \in 0..v /\ v \in Int
    BY <1>0, <1>2, LengthsAre, ValidRange
  <2>. QED
    BY <1>0, <2>1
<1>4. \A s \in 0..(n - 1) :
        /\ W[s + 1] = W[s] + IF Length(o, s) <= w THEN 1 ELSE 0
        /\ S[s + 1] = S[s] + IF Length(o, s) > c THEN 1 ELSE 0
  <2>1. SUFFICES ASSUME NEW s \in 0..(n - 1)
                 PROVE  /\ W[s + 1] = W[s] + IF Length(o, s) <= w THEN 1 ELSE 0
                        /\ S[s + 1] = S[s] + IF Length(o, s) > c THEN 1 ELSE 0
    OBVIOUS
  <2>2. s \in Segments(o) /\ s \in 0..n /\ s + 1 \in 0..n
    BY <1>2, <1>3
  <2>3. /\ W[s] = WarpsBefore(o, w, s) /\ W[s + 1] = WarpsBefore(o, w, s + 1)
        /\ S[s] = SplitsBefore(o, c, s) /\ S[s + 1] = SplitsBefore(o, c, s + 1)
    BY <2>2
  <2> HIDE DEF W, S, n
  <2>4. /\ WarpsBefore(o, w, s + 1)
             = WarpsBefore(o, w, s) + IF Length(o, s) <= w THEN 1 ELSE 0
        /\ SplitsBefore(o, c, s + 1)
             = SplitsBefore(o, c, s) + IF Length(o, s) > c THEN 1 ELSE 0
    BY <1>0, <2>2, CountsAre
  <2>. QED
    BY <2>3, <2>4
<1>5. /\ P \in [0..n -> Nat] /\ P[0] = 0
      /\ \A s \in 0..(n - 1) : P[s + 1] = P[s] + Extra(o, s, c)
  <2>1. \A s \in Segments(o) : Extra(o, s, c) \in Nat
    BY ExtraIs
  <2>. QED
    BY <1>0, <1>2, <2>1, PartialsAre
<1>6. \A s \in 0..n : WarpsBefore(o, w, s) = W[s] /\ SplitsBefore(o, c, s) = S[s]
                      /\ CtasBefore(o, w, c, s) = C[s]
  BY DEF CtasBefore
<1>7. /\ C[0] = 0 /\ \A s \in 0..n : C[s] \in Int /\ C[s] = s - W[s] - S[s]
  BY <1>0, <1>1
<1>8. CtaCount(o, w, c) = C[n] /\ PartialCount(o, c) = P[n]
  <2>1. CtaCount(o, w, c) = n - W[n] - S[n]
    BY <1>1 DEF CtaCount
  <2>. QED
    BY <1>0, <1>7, <2>1 DEF PartialCount
<1> HIDE DEF W, S, C, P
<1>9. \A s \in 0..(n - 1) :
         C[s + 1] = C[s] + IF Length(o, s) > w /\ Length(o, s) <= c THEN 1 ELSE 0
  <2>1. SUFFICES ASSUME NEW s \in 0..(n - 1)
                 PROVE  C[s + 1] = C[s] + IF Length(o, s) > w /\ Length(o, s) <= c THEN 1 ELSE 0
    OBVIOUS
  <2>2. /\ s \in 0..n /\ s + 1 \in 0..n /\ s \in Nat
        /\ W[s] \in Nat /\ S[s] \in Nat /\ W[s + 1] \in Nat /\ S[s + 1] \in Nat
    BY <1>1, <1>3
  <2>3. C[s + 1] = (s + 1) - W[s + 1] - S[s + 1] /\ C[s] = s - W[s] - S[s]
    BY <1>7, <2>2
  <2>4. /\ W[s + 1] = W[s] + IF Length(o, s) <= w THEN 1 ELSE 0
        /\ S[s + 1] = S[s] + IF Length(o, s) > c THEN 1 ELSE 0
    BY <1>4
  <2> DEFINE L == Length(o, s)
  <2>5. L \in Int /\ w \in Int /\ c \in Int /\ w <= c
    BY <1>0, <1>3
  <2> HIDE DEF L
  <2> DEFINE a == W[s]
  <2> DEFINE b == S[s]
  <2> DEFINE a1 == W[s + 1]
  <2> DEFINE b1 == S[s + 1]
  <2>9. /\ a \in Int /\ b \in Int /\ a1 \in Int /\ b1 \in Int /\ s \in Int
         /\ C[s + 1] = (s + 1) - a1 - b1 /\ C[s] = s - a - b
    <3>1. a \in Int /\ b \in Int /\ a1 \in Int /\ b1 \in Int /\ s \in Int
      BY <2>2
    <3>2. C[s + 1] = (s + 1) - a1 - b1 /\ C[s] = s - a - b
      BY <2>3
    <3>. QED
      BY <3>1, <3>2
  <2> HIDE DEF a, b, a1, b1
  <2>6. CASE L <= w
    <3>1. a1 = a + 1 /\ b1 = b /\ ~(L > w)
      BY <2>2, <2>4, <2>5, <2>6 DEF L, a, b, a1, b1
    <3>2. C[s + 1] = C[s]
      BY <2>9, <3>1
    <3>. QED
      BY <1>7, <2>2, <3>1, <3>2 DEF L
  <2>7. CASE L > w /\ L <= c
    <3>1. a1 = a /\ b1 = b
      BY <2>2, <2>4, <2>5, <2>7 DEF L, a, b, a1, b1
    <3>2. C[s + 1] = C[s] + 1
      BY <2>9, <3>1
    <3>. QED
      BY <2>7, <3>2 DEF L
  <2>8. CASE L > c
    <3>1. a1 = a /\ b1 = b + 1 /\ ~(L <= c)
      BY <2>2, <2>4, <2>5, <2>8 DEF L, a, b, a1, b1
    <3>2. C[s + 1] = C[s]
      BY <2>9, <3>1
    <3>. QED
      BY <1>7, <2>2, <3>1, <3>2 DEF L
  <2>. QED
    BY <2>5, <2>6, <2>7, <2>8
<1>10. \A s \in 0..(n - 1) : P[s + 1] = P[s] + IF Length(o, s) > c THEN ChunkCount(o, s, c) ELSE 0
  BY <1>5 DEF Extra
<1>11. \A s \in 0..(n - 1) : W[s] <= W[s + 1] /\ S[s] <= S[s + 1] /\ C[s] <= C[s + 1] /\ P[s] <= P[s + 1]
  <2>1. SUFFICES ASSUME NEW s \in 0..(n - 1)
                 PROVE  W[s] <= W[s + 1] /\ S[s] <= S[s + 1] /\ C[s] <= C[s + 1] /\ P[s] <= P[s + 1]
    OBVIOUS
  <2>2. s \in 0..n /\ s + 1 \in 0..n
    BY <1>3
  <2>3. W[s] \in Nat /\ S[s] \in Nat /\ C[s] \in Int /\ P[s] \in Nat /\ P[s + 1] \in Nat
    BY <1>1, <1>5, <1>7, <2>2
  <2>4. P[s + 1] = P[s] + Extra(o, s, c) /\ Extra(o, s, c) \in Nat
    BY <1>2, <1>5, ExtraIs
  <2>5. W[s] <= W[s + 1]
    <3>1. W[s + 1] \in {W[s] + 1, W[s] + 0}
      BY <1>4
    <3>. QED
      BY <2>3, <3>1
  <2>6. S[s] <= S[s + 1]
    <3>1. S[s + 1] \in {S[s] + 1, S[s] + 0}
      BY <1>4
    <3>. QED
      BY <2>3, <3>1
  <2>7. C[s] <= C[s + 1]
    BY <1>9, <2>3
  <2>. QED
    BY <2>3, <2>4, <2>5, <2>6, <2>7
<1>12. /\ \A s \in 0..n : W[s] \in Int
       /\ \A s \in 0..n : S[s] \in Int
       /\ \A s \in 0..n : C[s] \in Int
       /\ \A s \in 0..n : P[s] \in Int
  <2>1. \A s \in 0..n : P[s] \in Nat
    BY <1>5
  <2>. QED
    BY <1>1, <1>7, <2>1
<1> HIDE DEF n
<1>13. \A i, j \in 0..n : i <= j => W[i] <= W[j]
  BY <1>0, <1>11, <1>12, Grows
<1>14. \A i, j \in 0..n : i <= j => S[i] <= S[j]
  BY <1>0, <1>11, <1>12, Grows
<1>15. \A i, j \in 0..n : i <= j => C[i] <= C[j]
  BY <1>0, <1>11, <1>12, Grows
<1>16. \A i, j \in 0..n : i <= j => P[i] <= P[j]
  BY <1>0, <1>11, <1>12, Grows
<1>17. \A s \in 0..n : W[s] \in 0..W[n] /\ S[s] \in 0..S[n] /\ C[s] \in 0..C[n] /\ P[s] \in 0..P[n]
  <2>1. SUFFICES ASSUME NEW s \in 0..n
                 PROVE  W[s] \in 0..W[n] /\ S[s] \in 0..S[n] /\ C[s] \in 0..C[n] /\ P[s] \in 0..P[n]
    OBVIOUS
  <2>2. 0 \in 0..n /\ n \in 0..n /\ 0 <= s /\ s <= n
    BY <1>0
  <2>3. W[s] <= W[n] /\ S[s] <= S[n] /\ C[s] <= C[n] /\ P[s] <= P[n] /\ C[0] <= C[s]
    BY <1>13, <1>14, <1>15, <1>16, <2>2
  <2>. QED
    BY <1>1, <1>5, <1>7, <1>12, <2>2, <2>3
<1>18. W[n] \in Nat /\ S[n] \in Nat /\ C[n] \in Nat /\ P[n] \in Nat /\ n \in 0..n /\ 0 \in 0..n
  <2>1. 0 \in 0..n /\ n \in 0..n
    BY <1>0
  <2>2. C[n] \in 0..C[n] /\ C[n] \in Int
    BY <1>12, <1>17, <2>1
  <2>. QED
    BY <1>1, <1>5, <2>1, <2>2
<1>19. PartialsBefore(o, c) = P
  BY DEF P
<1>20. \A s \in 0..n :
         /\ WarpsBefore(o, w, s) \in 0..WarpCount(o, w)
         /\ SplitsBefore(o, c, s) \in 0..SplitCount(o, c)
         /\ CtasBefore(o, w, c, s) \in 0..CtaCount(o, w, c)
         /\ PartialsBefore(o, c)[s] \in 0..PartialCount(o, c)
  BY <1>1, <1>6, <1>8, <1>17, <1>19
<1>21. \A s \in 0..(n - 1) :
         /\ WarpsBefore(o, w, s + 1)
              = WarpsBefore(o, w, s) + IF Length(o, s) <= w THEN 1 ELSE 0
         /\ SplitsBefore(o, c, s + 1)
              = SplitsBefore(o, c, s) + IF Length(o, s) > c THEN 1 ELSE 0
  BY <1>3, <1>4, <1>6
<1>22. \A s \in 0..(n - 1) :
          CtasBefore(o, w, c, s + 1)
            = CtasBefore(o, w, c, s) + IF Length(o, s) > w /\ Length(o, s) <= c THEN 1 ELSE 0
  BY <1>3, <1>6, <1>9
<1>23. \A s \in 0..(n - 1) :
          PartialsBefore(o, c)[s + 1]
            = PartialsBefore(o, c)[s] + IF Length(o, s) > c THEN ChunkCount(o, s, c) ELSE 0
  BY <1>10, <1>19
<1>24. /\ WarpCount(o, w) \in Nat /\ CtaCount(o, w, c) \in Nat
       /\ SplitCount(o, c) \in Nat /\ PartialCount(o, c) \in Nat
  BY <1>1, <1>8, <1>18
<1>25. /\ WarpsBefore(o, w, 0) = 0 /\ SplitsBefore(o, c, 0) = 0
       /\ CtasBefore(o, w, c, 0) = 0 /\ PartialsBefore(o, c)[0] = 0
       /\ WarpsBefore(o, w, n) = WarpCount(o, w)
       /\ SplitsBefore(o, c, n) = SplitCount(o, c)
       /\ CtasBefore(o, w, c, n) = CtaCount(o, w, c)
       /\ PartialsBefore(o, c)[n] = PartialCount(o, c)
  BY <1>1, <1>5, <1>6, <1>7, <1>8, <1>18, <1>19
<1>26. n = Len(o) - 1 /\ Segments(o) = 0..(n - 1)
  BY <1>0, <1>2
<1>27. \A s \in Segments(o) : s \in Nat /\ s + 1 \in 0..n /\ s \in 0..n
  BY <1>3, <1>26
<1>. QED
  BY <1>0, <1>20, <1>21, <1>22, <1>23, <1>24, <1>25, <1>26, <1>27

\* What the walk stores for a segment from a position on.
TaskStores(o, w, c, at, s) ==
    IF Length(o, s) <= w THEN {<<at.warp, s>>}
    ELSE IF Length(o, s) <= c THEN {<<at.cta, s>>}
    ELSE StoreAll(at.merge, MergeRecord(s, at.scratch, ChunkCount(o, s, c)))
           \cup StoreChunks(o, s, c, at)
SegmentStores(o, w, c, s) == TaskStores(o, w, c, Position(o, w, c, s), s)

\* The indices below a position: five lists, each filled from its start.
FilledBelow(o, w, c, at) ==
    (0..(at.warp - 1))
    \cup (WarpCount(o, w)..(at.cta - 1))
    \cup (FirstPartial(o, w, c)..(at.partial - 1))
    \cup (FirstMerge(o, w, c)..(at.merge - 1))
    \cup (FirstMergeId(o, w, c)..(at.partialMerge - 1))

\* Positions and cursors agree but for the stores, which are pairs of integers.
Moves(at, to) ==
    /\ at.warp = to.warp /\ at.cta = to.cta /\ at.partial = to.partial
    /\ at.merge = to.merge /\ at.partialMerge = to.partialMerge
    /\ at.scratch = to.scratch /\ at.merges = to.merges
CursorType ==
    [warp : Int, cta : Int, partial : Int, merge : Int, partialMerge : Int,
     scratch : Int, merges : Int, stores : SUBSET (Int \X Int)]

\* The lists of the records follow each other.
LEMMA ListsFollow ==
  ASSUME NEW o \in Seq(Int), NEW v, NEW w, NEW c, Sizes(o, v, w, c)
  PROVE  /\ FirstPartial(o, w, c) \in Nat /\ FirstMerge(o, w, c) \in Nat
         /\ FirstMergeId(o, w, c) \in Nat
         /\ FirstPartial(o, w, c) = WarpCount(o, w) + CtaCount(o, w, c)
         /\ FirstMerge(o, w, c) = FirstPartial(o, w, c) + 2 * PartialCount(o, c)
         /\ FirstMergeId(o, w, c) = FirstMerge(o, w, c) + 3 * SplitCount(o, c)
         /\ RecordWords(o, w, c) = FirstMergeId(o, w, c) + PartialCount(o, c)
<1> DEFINE W == WarpCount(o, w)
<1> DEFINE C == CtaCount(o, w, c)
<1> DEFINE S == SplitCount(o, c)
<1> DEFINE R == PartialCount(o, c)
<1>1. W \in Nat /\ C \in Nat /\ S \in Nat /\ R \in Nat
  BY PositionsAre
<1>2. /\ FirstPartial(o, w, c) = W + C /\ FirstMerge(o, w, c) = W + C + 2 * R
      /\ FirstMergeId(o, w, c) = W + C + 2 * R + 3 * S
      /\ RecordWords(o, w, c) = W + C + 3 * R + 3 * S
  BY DEF FirstPartial, FirstMerge, FirstMergeId, RecordWords
<1> HIDE DEF W, C, S, R
<1>3. /\ FirstPartial(o, w, c) \in Nat /\ FirstMerge(o, w, c) \in Nat
      /\ FirstMergeId(o, w, c) \in Nat
  BY <1>1, <1>2
<1>4. RecordWords(o, w, c) = FirstMergeId(o, w, c) + R
  BY <1>1, <1>2
<1>5. FirstMerge(o, w, c) = FirstPartial(o, w, c) + 2 * R
  BY <1>1, <1>2
<1>6. FirstMergeId(o, w, c) = FirstMerge(o, w, c) + 3 * S
  BY <1>1, <1>2
<1>. QED
  BY <1>2, <1>3, <1>4, <1>5, <1>6 DEF W, C, S, R

\* A position lies within the lists.
LEMMA PositionIn ==
  ASSUME NEW o \in Seq(Int), NEW v, NEW w, NEW c, Sizes(o, v, w, c),
         NEW s \in 0..(Len(o) - 1)
  PROVE  LET at == Position(o, w, c, s)
             end == FirstMergeId(o, w, c) + PartialCount(o, c)
         IN /\ at \in CursorType /\ at.stores = {}
            /\ at.warp \in 0..WarpCount(o, w)
            /\ at.cta \in WarpCount(o, w)..FirstPartial(o, w, c)
            /\ at.partial \in FirstPartial(o, w, c)..FirstMerge(o, w, c)
            /\ at.merge \in FirstMerge(o, w, c)..FirstMergeId(o, w, c)
            /\ at.partialMerge \in FirstMergeId(o, w, c)..end
            /\ at.scratch \in 0..PartialCount(o, c) /\ at.merges \in 0..SplitCount(o, c)
<1> DEFINE W == WarpCount(o, w)
<1> DEFINE C == CtaCount(o, w, c)
<1> DEFINE S == SplitCount(o, c)
<1> DEFINE R == PartialCount(o, c)
<1> DEFINE P == FirstPartial(o, w, c)
<1> DEFINE M == FirstMerge(o, w, c)
<1> DEFINE Q == FirstMergeId(o, w, c)
<1> DEFINE ws == WarpsBefore(o, w, s)
<1> DEFINE cs == CtasBefore(o, w, c, s)
<1> DEFINE ss == SplitsBefore(o, c, s)
<1> DEFINE ps == PartialsBefore(o, c)[s]
<1> DEFINE at == Position(o, w, c, s)
<1>1. /\ W \in Nat /\ C \in Nat /\ S \in Nat /\ R \in Nat
      /\ ws \in 0..W /\ cs \in 0..C /\ ss \in 0..S /\ ps \in 0..R
  BY PositionsAre
<1>2. /\ P \in Nat /\ M \in Nat /\ Q \in Nat
      /\ P = W + C /\ M = P + 2 * R /\ Q = M + 3 * S
  BY ListsFollow
<1>3. at = [warp |-> ws, cta |-> W + cs, partial |-> P + 2 * ps, merge |-> M + 3 * ss,
            partialMerge |-> Q + ps, scratch |-> ps, merges |-> ss, stores |-> {}]
  BY DEF Position
<1> HIDE DEF W, C, S, R, P, M, Q, ws, cs, ss, ps, at
<1>4. /\ W + cs \in W..P /\ P + 2 * ps \in P..M /\ M + 3 * ss \in M..Q /\ Q + ps \in Q..(Q + R)
      /\ ws \in Int /\ ps \in Int /\ ss \in Int
      /\ W + cs \in Int /\ P + 2 * ps \in Int /\ M + 3 * ss \in Int /\ Q + ps \in Int
  BY <1>1, <1>2
<1>5. at \in CursorType
  BY <1>3, <1>4 DEF CursorType
<1>6. /\ at.warp = ws /\ at.cta = W + cs /\ at.partial = P + 2 * ps /\ at.merge = M + 3 * ss
      /\ at.partialMerge = Q + ps /\ at.scratch = ps /\ at.merges = ss /\ at.stores = {}
  BY <1>3
<1>. QED
  BY <1>1, <1>4, <1>5, <1>6 DEF W, C, S, R, P, M, Q, at

\* How a segment moves the position.
LEMMA PositionMoves ==
  ASSUME NEW o \in Seq(Int), NEW v, NEW w, NEW c, Sizes(o, v, w, c),
         NEW s \in Segments(o)
  PROVE  LET at == Position(o, w, c, s)
             to == Position(o, w, c, s + 1)
             n == ChunkCount(o, s, c)
         IN /\ Length(o, s) <= w =>
                 /\ to.warp = at.warp + 1 /\ to.cta = at.cta /\ to.partial = at.partial
                 /\ to.merge = at.merge /\ to.partialMerge = at.partialMerge
                 /\ to.scratch = at.scratch /\ to.merges = at.merges
            /\ Length(o, s) > w /\ Length(o, s) <= c =>
                 /\ to.warp = at.warp /\ to.cta = at.cta + 1 /\ to.partial = at.partial
                 /\ to.merge = at.merge /\ to.partialMerge = at.partialMerge
                 /\ to.scratch = at.scratch /\ to.merges = at.merges
            /\ Length(o, s) > c =>
                 /\ to.warp = at.warp /\ to.cta = at.cta /\ to.partial = at.partial + 2 * n
                 /\ to.merge = at.merge + 3 /\ to.partialMerge = at.partialMerge + n
                 /\ to.scratch = at.scratch + n /\ to.merges = at.merges + 1
<1> DEFINE L == Length(o, s)
<1> DEFINE n == ChunkCount(o, s, c)
<1> DEFINE W == WarpCount(o, w)
<1> DEFINE P == FirstPartial(o, w, c)
<1> DEFINE M == FirstMerge(o, w, c)
<1> DEFINE Q == FirstMergeId(o, w, c)
<1> DEFINE ws == WarpsBefore(o, w, s)
<1> DEFINE cs == CtasBefore(o, w, c, s)
<1> DEFINE ss == SplitsBefore(o, c, s)
<1> DEFINE ps == PartialsBefore(o, c)[s]
<1> DEFINE wt == WarpsBefore(o, w, s + 1)
<1> DEFINE ct == CtasBefore(o, w, c, s + 1)
<1> DEFINE st == SplitsBefore(o, c, s + 1)
<1> DEFINE pt == PartialsBefore(o, c)[s + 1]
<1> DEFINE at == Position(o, w, c, s)
<1> DEFINE to == Position(o, w, c, s + 1)
<1>1. /\ s \in 0..(Len(o) - 1) /\ s + 1 \in 0..(Len(o) - 1)
      /\ wt = ws + IF L <= w THEN 1 ELSE 0
      /\ ct = cs + IF L > w /\ L <= c THEN 1 ELSE 0
      /\ st = ss + IF L > c THEN 1 ELSE 0
      /\ pt = ps + IF L > c THEN n ELSE 0
  BY PositionsAre
<1>2. /\ W \in Int /\ P \in Int /\ M \in Int /\ Q \in Int
      /\ ws \in Int /\ cs \in Int /\ ss \in Int /\ ps \in Int
  <2>1. /\ WarpCount(o, w) \in Nat /\ CtaCount(o, w, c) \in Nat
        /\ SplitCount(o, c) \in Nat /\ PartialCount(o, c) \in Nat
        /\ ws \in 0..WarpCount(o, w) /\ cs \in 0..CtaCount(o, w, c)
        /\ ss \in 0..SplitCount(o, c) /\ ps \in 0..PartialCount(o, c)
    BY <1>1, PositionsAre
  <2>2. P \in Nat /\ M \in Nat /\ Q \in Nat
    BY ListsFollow
  <2> HIDE DEF P, M, Q, ws, cs, ss, ps
  <2>. QED
    BY <2>1, <2>2
<1>3. L \in Int /\ w \in Int /\ c \in Int /\ w <= c /\ n \in Nat
  <2>1. L \in 0..v /\ v \in Int
    BY LengthsAre, ValidRange DEF Sizes
  <2>2. n \in Nat
    BY ExtraIs
  <2> HIDE DEF L, n
  <2>. QED
    BY <2>1, <2>2 DEF Sizes
<1>4. /\ at.warp = ws /\ at.cta = W + cs /\ at.partial = P + 2 * ps /\ at.merge = M + 3 * ss
      /\ at.partialMerge = Q + ps /\ at.scratch = ps /\ at.merges = ss
  BY DEF Position
<1>5. /\ to.warp = wt /\ to.cta = W + ct /\ to.partial = P + 2 * pt /\ to.merge = M + 3 * st
      /\ to.partialMerge = Q + pt /\ to.scratch = pt /\ to.merges = st
  BY DEF Position
<1> HIDE DEF L, n, W, P, M, Q, ws, cs, ss, ps, wt, ct, st, pt, at, to
<1>6. CASE L <= w
  <2>1. wt = ws + 1 /\ ct = cs /\ st = ss /\ pt = ps
    BY <1>1, <1>2, <1>3, <1>6
  <2>2. ~(L > w) /\ ~(L > c)
    BY <1>3, <1>6
  <2>. QED
    BY <1>4, <1>5, <1>6, <2>1, <2>2 DEF L, at, to
<1>7. CASE L > w /\ L <= c
  <2>1. wt = ws /\ ct = cs + 1 /\ st = ss /\ pt = ps
    BY <1>1, <1>2, <1>3, <1>7
  <2>2. ~(L <= w) /\ ~(L > c)
    BY <1>3, <1>7
  <2>3. W + (cs + 1) = W + cs + 1
    BY <1>2
  <2>. QED
    BY <1>4, <1>5, <1>7, <2>1, <2>2, <2>3 DEF L, at, to
<1>8. CASE L > c
  <2>1. wt = ws /\ ct = cs /\ st = ss + 1 /\ pt = ps + n
    BY <1>1, <1>2, <1>3, <1>8
  <2>2. ~(L <= w) /\ ~(L <= c)
    BY <1>3, <1>8
  <2>3. /\ P + 2 * (ps + n) = P + 2 * ps + 2 * n /\ M + 3 * (ss + 1) = M + 3 * ss + 3
        /\ Q + (ps + n) = Q + ps + n
    BY <1>2, <1>3
  <2>. QED
    BY <1>4, <1>5, <1>8, <2>1, <2>2, <2>3 DEF L, n, at, to
<1>. QED
  BY <1>3, <1>6, <1>7, <1>8 DEF L

\* The words of the chunks of a segment are integers.
LEMMA ChunkWords ==
  ASSUME NEW o \in Seq(Int), NEW v, NEW w, NEW c, Sizes(o, v, w, c),
         NEW s \in Segments(o), NEW k \in Int
  PROVE  /\ o[s + 1] + (k - 1) * c \in Int
         /\ Least(o[s + 2], o[s + 1] + k * c) \in Int
<1>1. o[s + 1] \in Int /\ o[s + 2] \in Int /\ c \in Int
  <2>1. v \in Int /\ o[s + 1] \in 0..v /\ o[s + 2] \in 0..v
    BY LengthsAre, ValidRange DEF Sizes
  <2>. QED
    BY <2>1 DEF Sizes
<1>2. (k - 1) * c \in Int /\ k * c \in Int
  BY <1>1
<1>. QED
  BY <1>1, <1>2 DEF Least

\* What a segment stores goes to words of its own.
LEMMA SegmentFills ==
  ASSUME NEW o \in Seq(Int), NEW v, NEW w, NEW c, Sizes(o, v, w, c),
         NEW s \in Segments(o)
  PROVE  LET at == Position(o, w, c, s)
             to == Position(o, w, c, s + 1)
             new == (at.warp..(to.warp - 1)) \cup (at.cta..(to.cta - 1))
                      \cup (at.partial..(to.partial - 1)) \cup (at.merge..(to.merge - 1))
                      \cup (at.partialMerge..(to.partialMerge - 1))
         IN /\ Fills(SegmentStores(o, w, c, s), new)
            /\ FilledBelow(o, w, c, at) \cap new = {}
            /\ FilledBelow(o, w, c, at) \cup new = FilledBelow(o, w, c, to)
<1> DEFINE at == Position(o, w, c, s)
<1> DEFINE to == Position(o, w, c, s + 1)
<1> DEFINE n == ChunkCount(o, s, c)
<1> DEFINE L == Length(o, s)
<1> DEFINE W == WarpCount(o, w)
<1> DEFINE P == FirstPartial(o, w, c)
<1> DEFINE M == FirstMerge(o, w, c)
<1> DEFINE Q == FirstMergeId(o, w, c)
<1> DEFINE R == PartialCount(o, c)
<1>1. s \in Int /\ s \in 0..(Len(o) - 1) /\ s + 1 \in 0..(Len(o) - 1)
  BY PositionsAre
<1>2. L \in Int /\ w \in Int /\ c \in Int /\ w <= c /\ n \in Nat
  <2>1. L \in 0..v /\ v \in Int
    BY LengthsAre, ValidRange DEF Sizes
  <2>2. n \in Nat
    BY ExtraIs
  <2> HIDE DEF L, n
  <2>. QED
    BY <2>1, <2>2 DEF Sizes
<1>3. /\ L <= w =>
           /\ to.warp = at.warp + 1 /\ to.cta = at.cta /\ to.partial = at.partial
           /\ to.merge = at.merge /\ to.partialMerge = at.partialMerge
      /\ L > w /\ L <= c =>
           /\ to.warp = at.warp /\ to.cta = at.cta + 1 /\ to.partial = at.partial
           /\ to.merge = at.merge /\ to.partialMerge = at.partialMerge
      /\ L > c =>
           /\ to.warp = at.warp /\ to.cta = at.cta /\ to.partial = at.partial + 2 * n
           /\ to.merge = at.merge + 3 /\ to.partialMerge = at.partialMerge + n
  BY PositionMoves
<1>4. /\ at.warp \in 0..W /\ at.cta \in W..P /\ at.partial \in P..M
      /\ at.merge \in M..Q /\ at.partialMerge \in Q..(Q + R)
      /\ to.warp \in 0..W /\ to.cta \in W..P /\ to.partial \in P..M
      /\ to.merge \in M..Q /\ to.partialMerge \in Q..(Q + R)
      /\ at.scratch \in 0..R /\ at.merges \in 0..SplitCount(o, c)
      /\ W \in Int /\ P \in Int /\ M \in Int /\ Q \in Int /\ R \in Int /\ SplitCount(o, c) \in Int
  <2>1. /\ at.warp \in 0..W /\ at.cta \in W..P /\ at.partial \in P..M
        /\ at.merge \in M..Q /\ at.partialMerge \in Q..(Q + R)
        /\ at.scratch \in 0..R /\ at.merges \in 0..SplitCount(o, c)
    BY <1>1, PositionIn
  <2>2. /\ to.warp \in 0..W /\ to.cta \in W..P /\ to.partial \in P..M
        /\ to.merge \in M..Q /\ to.partialMerge \in Q..(Q + R)
    BY <1>1, PositionIn
  <2>3. W \in Nat /\ P \in Nat /\ M \in Nat /\ Q \in Nat /\ R \in Nat /\ SplitCount(o, c) \in Nat
    BY ListsFollow, PositionsAre
  <2> HIDE DEF W, P, M, Q, R, at, to
  <2>. QED
    BY <2>1, <2>2, <2>3
<1>5. /\ at.warp \in Int /\ at.cta \in Int /\ at.partial \in Int /\ at.merge \in Int
      /\ at.partialMerge \in Int /\ at.scratch \in Int /\ at.merges \in Int
      /\ to.warp \in Int /\ to.cta \in Int /\ to.partial \in Int /\ to.merge \in Int
      /\ to.partialMerge \in Int
  <2>1. at \in CursorType /\ to \in CursorType
    BY <1>1, PositionIn
  <2> HIDE DEF at, to
  <2>. QED
    BY <2>1 DEF CursorType
<1> DEFINE new == (at.warp..(to.warp - 1)) \cup (at.cta..(to.cta - 1))
                    \cup (at.partial..(to.partial - 1)) \cup (at.merge..(to.merge - 1))
                    \cup (at.partialMerge..(to.partialMerge - 1))
<1>6. SegmentStores(o, w, c, s) = TaskStores(o, w, c, at, s)
  BY DEF SegmentStores
<1> HIDE DEF at, to, L, n, W, P, M, Q, R
<1>7. FilledBelow(o, w, c, at) = (0..(at.warp - 1)) \cup (W..(at.cta - 1)) \cup (P..(at.partial - 1))
                                   \cup (M..(at.merge - 1)) \cup (Q..(at.partialMerge - 1))
  BY DEF FilledBelow, W, P, M, Q
<1>8. FilledBelow(o, w, c, to) = (0..(to.warp - 1)) \cup (W..(to.cta - 1)) \cup (P..(to.partial - 1))
                                   \cup (M..(to.merge - 1)) \cup (Q..(to.partialMerge - 1))
  BY DEF FilledBelow, W, P, M, Q
<1> DEFINE a1 == at.warp
<1> DEFINE a2 == at.cta
<1> DEFINE a3 == at.partial
<1> DEFINE a4 == at.merge
<1> DEFINE a5 == at.partialMerge
<1> DEFINE b1 == to.warp
<1> DEFINE b2 == to.cta
<1> DEFINE b3 == to.partial
<1> DEFINE b4 == to.merge
<1> DEFINE b5 == to.partialMerge
<1> HIDE DEF a1, a2, a3, a4, a5, b1, b2, b3, b4, b5
<1>9. /\ a1 \in Int /\ a2 \in Int /\ a3 \in Int /\ a4 \in Int /\ a5 \in Int
      /\ b1 \in Int /\ b2 \in Int /\ b3 \in Int /\ b4 \in Int /\ b5 \in Int
      /\ a1 \in 0..W /\ a2 \in W..P /\ a3 \in P..M /\ a4 \in M..Q /\ a5 \in Q..(Q + R)
      /\ b1 \in 0..W /\ b2 \in W..P /\ b3 \in P..M /\ b4 \in M..Q /\ b5 \in Q..(Q + R)
      /\ W \in Int /\ P \in Int /\ M \in Int /\ Q \in Int /\ R \in Int
  BY <1>4, <1>5 DEF a1, a2, a3, a4, a5, b1, b2, b3, b4, b5
<1>10. /\ L <= w => b1 = a1 + 1 /\ b2 = a2 /\ b3 = a3 /\ b4 = a4 /\ b5 = a5
       /\ L > w /\ L <= c => b1 = a1 /\ b2 = a2 + 1 /\ b3 = a3 /\ b4 = a4 /\ b5 = a5
       /\ L > c => b1 = a1 /\ b2 = a2 /\ b3 = a3 + 2 * n /\ b4 = a4 + 3 /\ b5 = a5 + n
  BY <1>3 DEF a1, a2, a3, a4, a5, b1, b2, b3, b4, b5
<1>11. /\ 0 <= a1 /\ a1 <= b1 /\ b1 <= W /\ W <= a2 /\ a2 <= b2 /\ b2 <= P /\ P <= a3
       /\ a3 <= b3 /\ b3 <= M /\ M <= a4 /\ a4 <= b4 /\ b4 <= Q /\ Q <= a5 /\ a5 <= b5
  BY <1>2, <1>9, <1>10
<1> DEFINE X == (a1..(b1 - 1)) \cup (a2..(b2 - 1)) \cup (a3..(b3 - 1))
                  \cup (a4..(b4 - 1)) \cup (a5..(b5 - 1))
<1> DEFINE A == (0..(a1 - 1)) \cup (W..(a2 - 1)) \cup (P..(a3 - 1)) \cup (M..(a4 - 1)) \cup (Q..(a5 - 1))
<1> DEFINE B == (0..(b1 - 1)) \cup (W..(b2 - 1)) \cup (P..(b3 - 1)) \cup (M..(b4 - 1)) \cup (Q..(b5 - 1))
<1>13. new = X /\ FilledBelow(o, w, c, at) = A /\ FilledBelow(o, w, c, to) = B
  BY <1>7, <1>8 DEF a1, a2, a3, a4, a5, b1, b2, b3, b4, b5
<1>14. A \cap X = {} /\ A \cup X = B
  <2>1. \A i \in A : i \in Int /\ i \notin X
    BY <1>9, <1>11
  <2>2. \A i \in A : i \in B
    BY <1>9, <1>11
  <2>3. \A i \in X : i \in B
    BY <1>9, <1>11
  <2>4. \A i \in B : i \in A \/ i \in X
    BY <1>9, <1>11
  <2> HIDE DEF A, B, X
  <2>. QED
    BY <2>1, <2>2, <2>3, <2>4
<1> HIDE DEF A, B
<1>12. Fills(SegmentStores(o, w, c, s), new)
  <2>1. CASE L <= w
    <3>1. TaskStores(o, w, c, at, s) = {<<at.warp, s>>}
      BY <2>1 DEF TaskStores, L
    <3>2. /\ to.warp = at.warp + 1 /\ to.cta = at.cta /\ to.partial = at.partial
          /\ to.merge = at.merge /\ to.partialMerge = at.partialMerge
      BY <1>2, <1>3, <1>5, <2>1
    <3>3. new = {at.warp}
      BY <1>5, <3>2
    <3> HIDE DEF new
    <3>4. Fills({<<at.warp, s>>}, {at.warp})
      BY <1>1, <1>5, FillsOne
    <3>. QED
      BY <1>6, <3>1, <3>3, <3>4
  <2>2. CASE L > w /\ L <= c
    <3>1. TaskStores(o, w, c, at, s) = {<<at.cta, s>>}
      <4>1. ~(L <= w)
        BY <1>2, <2>2
      <4>. QED
        BY <2>2, <4>1 DEF TaskStores, L
    <3>2. /\ to.warp = at.warp /\ to.cta = at.cta + 1 /\ to.partial = at.partial
          /\ to.merge = at.merge /\ to.partialMerge = at.partialMerge
      BY <1>2, <1>3, <1>5, <2>2
    <3>3. new = {at.cta}
      BY <1>5, <3>2
    <3> HIDE DEF new
    <3>4. Fills({<<at.cta, s>>}, {at.cta})
      BY <1>1, <1>5, FillsOne
    <3>. QED
      BY <1>6, <3>1, <3>3, <3>4
  <2>3. CASE L > c
    <3> DEFINE record == MergeRecord(s, at.scratch, n)
    <3>1. TaskStores(o, w, c, at, s) = StoreAll(at.merge, record) \cup StoreChunks(o, s, c, at)
      <4>1. ~(L <= w) /\ ~(L <= c)
        BY <1>2, <2>3
      <4>. QED
        BY <4>1 DEF TaskStores, L, n
    <3>2. /\ to.warp = at.warp /\ to.cta = at.cta /\ to.partial = at.partial + 2 * n
          /\ to.merge = at.merge + 3 /\ to.partialMerge = at.partialMerge + n
      BY <1>2, <1>3, <1>5, <2>3
    <3>3. record \in Seq(Int) /\ Len(record) = 3
      <4> DEFINE x == at.scratch
      <4> DEFINE y == at.scratch + n
      <4>1. s \in Int /\ x \in Int /\ y \in Int
        <5>1. s \in Int
          BY <1>1
        <5>2. x \in Int
          BY <1>5
        <5>3. n \in Int
          BY <1>2
        <5>4. y = x + n
          OBVIOUS
        <5> HIDE DEF x, y
        <5>. QED
          BY <5>1, <5>2, <5>3, <5>4
      <4>2. record = <<s, x, y>>
        BY DEF MergeRecord
      <4> HIDE DEF record, x, y
      <4>. QED
        BY <4>1, <4>2
    <3>4. Fills(StoreAll(at.merge, record), at.merge..(at.merge + 2))
      <4> HIDE DEF record
      <4>1. Fills(StoreAll(at.merge, record), at.merge..(at.merge + Len(record) - 1))
        BY <1>5, <3>3, FillsWords
      <4>2. at.merge + Len(record) - 1 = at.merge + 2
        BY <1>5, <3>3
      <4>. QED
        BY <4>1, <4>2
    <3>5. Fills(StoreChunks(o, s, c, at),
                (at.partial..(at.partial + 2 * n - 1))
                  \cup (at.partialMerge..(at.partialMerge + n - 1)))
      <4>1. \A k \in 1..n : /\ o[s + 1] + (k - 1) * c \in Int
                            /\ Least(o[s + 2], o[s + 1] + k * c) \in Int
        BY ChunkWords
      <4>2. at.partial + 2 * n <= at.partialMerge
        <5>1. a3 + 2 * n <= a5
          BY <1>2, <1>9, <1>10, <1>11, <2>3
        <5>. QED
          BY <5>1 DEF a3, a5
      <4>3. ChunkCount(o, s, c) = n
        BY DEF n
      <4>. QED
        BY <1>2, <1>5, <4>1, <4>2, <4>3, ChunksFill
    <3> DEFINE U == a4..(a4 + 2)
    <3> DEFINE V == (a3..(a3 + 2 * n - 1)) \cup (a5..(a5 + n - 1))
    <3>6. U \cap V = {}
      <4>1. \A i \in U : i \notin V
        BY <1>2, <1>9, <1>10, <1>11, <2>3
      <4>. QED
        BY <4>1
    <3>7. X = U \cup V
      <4>1. b1 = a1 /\ b2 = a2 /\ b3 = a3 + 2 * n /\ b4 = a4 + 3 /\ b5 = a5 + n
        BY <1>10, <2>3
      <4>2. a1..(b1 - 1) = {} /\ a2..(b2 - 1) = {} /\ b4 - 1 = a4 + 2
        BY <1>9, <4>1
      <4>3. b3 - 1 = a3 + 2 * n - 1 /\ b5 - 1 = a5 + n - 1
        BY <1>2, <1>9, <4>1
      <4>. QED
        BY <4>2, <4>3
    <3> HIDE DEF U, V, X
    <3>8. Fills(StoreAll(at.merge, record), U) /\ Fills(StoreChunks(o, s, c, at), V)
      BY <3>4, <3>5 DEF U, V, a3, a4, a5
    <3>9. Fills(StoreAll(at.merge, record) \cup StoreChunks(o, s, c, at), U \cup V)
      BY <3>6, <3>8, FillsUnion
    <3>. QED
      BY <1>6, <1>13, <3>1, <3>7, <3>9
  <2>. QED
    BY <1>2, <2>1, <2>2, <2>3
<1>. QED
  BY <1>12, <1>13, <1>14 DEF at, to

\* A segment moves the cursors as its position says and adds its stores.
LEMMA ClassifyIs ==
  ASSUME NEW o \in Seq(Int), NEW v, NEW w, NEW c, Sizes(o, v, w, c),
         NEW s \in Segments(o), NEW at \in CursorType, Moves(at, Position(o, w, c, s))
  PROVE  LET next == ClassifySegment(o, w, c, at, s) IN
         /\ next \in CursorType /\ Moves(next, Position(o, w, c, s + 1))
         /\ next.stores = at.stores \cup SegmentStores(o, w, c, s)
<1> DEFINE L == Length(o, s)
<1> DEFINE n == ChunkCount(o, s, c)
<1> DEFINE from == Position(o, w, c, s)
<1> DEFINE to == Position(o, w, c, s + 1)
<1> DEFINE added == SegmentStores(o, w, c, s)
<1> DEFINE next == ClassifySegment(o, w, c, at, s)
<1>1. L \in Int /\ w \in Int /\ c \in Int /\ w <= c /\ n \in Nat /\ s \in Int
  <2>1. L \in 0..v /\ v \in Int /\ s \in Nat
    BY LengthsAre, ValidRange DEF Sizes
  <2>2. n \in Nat
    BY ExtraIs
  <2> HIDE DEF L, n
  <2>. QED
    BY <2>1, <2>2 DEF Sizes
<1>2. added \subseteq Int \X Int
  <2> DEFINE new == (from.warp..(to.warp - 1)) \cup (from.cta..(to.cta - 1))
                      \cup (from.partial..(to.partial - 1)) \cup (from.merge..(to.merge - 1))
                      \cup (from.partialMerge..(to.partialMerge - 1))
  <2>1. Fills(added, new)
    BY SegmentFills
  <2>2. new \subseteq Int
    OBVIOUS
  <2> HIDE DEF added, new
  <2>. QED
    BY <2>1, <2>2 DEF Fills
<1>3. TaskStores(o, w, c, at, s) = added
  <2>1. StoreChunks(o, s, c, at) = StoreChunks(o, s, c, from)
    BY DEF Moves, StoreChunks
  <2> HIDE DEF from
  <2>2. TaskStores(o, w, c, at, s) = TaskStores(o, w, c, from, s)
    BY <2>1 DEF Moves, TaskStores, from
  <2>. QED
    BY <2>2 DEF SegmentStores, from
<1>4. /\ L <= w =>
           /\ to.warp = from.warp + 1 /\ to.cta = from.cta /\ to.partial = from.partial
           /\ to.merge = from.merge /\ to.partialMerge = from.partialMerge
           /\ to.scratch = from.scratch /\ to.merges = from.merges
      /\ L > w /\ L <= c =>
           /\ to.warp = from.warp /\ to.cta = from.cta + 1 /\ to.partial = from.partial
           /\ to.merge = from.merge /\ to.partialMerge = from.partialMerge
           /\ to.scratch = from.scratch /\ to.merges = from.merges
      /\ L > c =>
           /\ to.warp = from.warp /\ to.cta = from.cta /\ to.partial = from.partial + 2 * n
           /\ to.merge = from.merge + 3 /\ to.partialMerge = from.partialMerge + n
           /\ to.scratch = from.scratch + n /\ to.merges = from.merges + 1
  BY PositionMoves
<1> HIDE DEF L, n, from, to, added
<1>5. /\ at.warp = from.warp /\ at.cta = from.cta /\ at.partial = from.partial
      /\ at.merge = from.merge /\ at.partialMerge = from.partialMerge
      /\ at.scratch = from.scratch /\ at.merges = from.merges
  BY DEF Moves, from
<1>6. at.stores \cup added \in SUBSET (Int \X Int)
  BY <1>2 DEF CursorType
<1>10. /\ at.warp \in Int /\ at.cta \in Int /\ at.partial \in Int /\ at.merge \in Int
       /\ at.partialMerge \in Int /\ at.scratch \in Int /\ at.merges \in Int
  BY DEF CursorType
<1>7. CASE L <= w
  <2>1. next = [at EXCEPT !.warp = @ + 1, !.stores = @ \cup {<<at.warp, s>>}]
    BY <1>1, <1>7 DEF ClassifySegment, L
  <2>2. {<<at.warp, s>>} = added
    BY <1>3, <1>7 DEF TaskStores, L
  <2> HIDE DEF next
  <2>3. next = [at EXCEPT !.warp = @ + 1, !.stores = @ \cup added]
    BY <2>1, <2>2
  <2>4. next \in CursorType /\ next.stores = at.stores \cup added
    <3>1. next = [warp |-> at.warp + 1, cta |-> at.cta, partial |-> at.partial, merge |-> at.merge,
                partialMerge |-> at.partialMerge, scratch |-> at.scratch, merges |-> at.merges,
                stores |-> at.stores \cup added]
      BY <2>3 DEF CursorType
    <3>. QED
      BY <1>1, <1>6, <1>10, <3>1 DEF CursorType
  <2>5. Moves(next, to)
    BY <1>4, <1>5, <1>7, <2>3 DEF CursorType, Moves
  <2>. QED
    BY <2>4, <2>5 DEF next, to, added
<1>8. CASE L > w /\ L <= c
  <2>0. ~(L <= w)
    BY <1>1, <1>8
  <2>1. next = [at EXCEPT !.cta = @ + 1, !.stores = @ \cup {<<at.cta, s>>}]
    BY <1>1, <1>8, <2>0 DEF ClassifySegment, L
  <2>2. {<<at.cta, s>>} = added
    BY <1>3, <1>8, <2>0 DEF TaskStores, L
  <2> HIDE DEF next
  <2>3. next = [at EXCEPT !.cta = @ + 1, !.stores = @ \cup added]
    BY <2>1, <2>2
  <2>4. next \in CursorType /\ next.stores = at.stores \cup added
    <3>1. next = [warp |-> at.warp, cta |-> at.cta + 1, partial |-> at.partial, merge |-> at.merge,
                partialMerge |-> at.partialMerge, scratch |-> at.scratch, merges |-> at.merges,
                stores |-> at.stores \cup added]
      BY <2>3 DEF CursorType
    <3>. QED
      BY <1>1, <1>6, <1>10, <3>1 DEF CursorType
  <2>5. Moves(next, to)
    BY <1>4, <1>5, <1>8, <2>3 DEF CursorType, Moves
  <2>. QED
    BY <2>4, <2>5 DEF next, to, added
<1>9. CASE L > c
  <2> DEFINE first == StoreAll(at.merge, MergeRecord(s, at.scratch, n))
  <2> DEFINE second == StoreChunks(o, s, c, at)
  <2>0. ~(L <= w) /\ ~(L > w /\ L <= c)
    BY <1>1, <1>9
  <2>1. next = [at EXCEPT !.merge = @ + 3, !.partial = @ + 2 * n, !.partialMerge = @ + n,
                          !.scratch = @ + n, !.merges = @ + 1,
                          !.stores = @ \cup first \cup second]
    BY <2>0 DEF ClassifySegment, L, n
  <2>2. first \cup second = added
    <3>1. ~(L <= c)
      BY <1>1, <1>9
    <3>. QED
      BY <1>3, <2>0, <3>1 DEF TaskStores, L, n
  <2> HIDE DEF next, first, second
  <2>3. at.stores \cup first \cup second = at.stores \cup added
    BY <2>2
  <2>4. next = [at EXCEPT !.merge = @ + 3, !.partial = @ + 2 * n, !.partialMerge = @ + n,
                          !.scratch = @ + n, !.merges = @ + 1, !.stores = at.stores \cup added]
    BY <2>1, <2>3
  <2>5. /\ next.warp = at.warp /\ next.cta = at.cta /\ next.merge = at.merge + 3
        /\ next.partial = at.partial + 2 * n /\ next.partialMerge = at.partialMerge + n
        /\ next.scratch = at.scratch + n /\ next.merges = at.merges + 1
        /\ next.stores = at.stores \cup added
    BY <2>4 DEF CursorType
  <2>6. next \in CursorType
    <3>1. next = [warp |-> at.warp, cta |-> at.cta, partial |-> at.partial + 2 * n, merge |-> at.merge + 3,
                partialMerge |-> at.partialMerge + n, scratch |-> at.scratch + n, merges |-> at.merges + 1,
                stores |-> at.stores \cup added]
      BY <2>4 DEF CursorType
    <3>2. /\ at.partial + 2 * n \in Int /\ at.merge + 3 \in Int /\ at.partialMerge + n \in Int
          /\ at.scratch + n \in Int /\ at.merges + 1 \in Int
      <4>1. \A x, y \in Int : x + 2 * y \in Int /\ x + y \in Int /\ x + 3 \in Int /\ x + 1 \in Int
        OBVIOUS
      <4>2. n \in Int
        BY <1>1
      <4>. QED
        BY <1>10, <4>1, <4>2
    <3>. QED
      BY <1>6, <1>10, <3>1, <3>2 DEF CursorType
  <2>7. Moves(next, to)
    BY <1>4, <1>5, <1>9, <2>5 DEF Moves
  <2>. QED
    BY <2>5, <2>6, <2>7 DEF next, to, added
<1>. QED
  BY <1>1, <1>7, <1>8, <1>9

\* The walk before each segment: cursors that cannot be told from its position,
\* the stores of the segments before it, and nothing else.
WalkAt(o, w, c, s, at) ==
    /\ at \in CursorType /\ Moves(at, Position(o, w, c, s))
    /\ Fills(at.stores, FilledBelow(o, w, c, Position(o, w, c, s)))
    /\ \A t \in 0..(s - 1) : SegmentStores(o, w, c, t) \subseteq at.stores

\* The walk starts with nothing stored.
LEMMA WalkStarts ==
  ASSUME NEW o \in Seq(Int), NEW v, NEW w, NEW c, Sizes(o, v, w, c)
  PROVE  WalkAt(o, w, c, 0, Cursors(o, w, c))
<1> DEFINE at == Cursors(o, w, c)
<1> DEFINE p == Position(o, w, c, 0)
<1>1. 0 \in 0..(Len(o) - 1)
  BY PositionsAre
<1>2. p \in CursorType /\ p.stores = {}
  BY <1>1, PositionIn
<1>3. /\ WarpCount(o, w) \in Nat /\ FirstPartial(o, w, c) \in Nat
      /\ FirstMerge(o, w, c) \in Nat /\ FirstMergeId(o, w, c) \in Nat
      /\ PartialCount(o, c) \in Nat /\ SplitCount(o, c) \in Nat
      /\ WarpsBefore(o, w, 0) = 0 /\ SplitsBefore(o, c, 0) = 0
      /\ CtasBefore(o, w, c, 0) = 0 /\ PartialsBefore(o, c)[0] = 0
  BY PositionsAre, ListsFollow
<1>4. /\ p.warp = 0 /\ p.cta = WarpCount(o, w) /\ p.partial = FirstPartial(o, w, c)
      /\ p.merge = FirstMerge(o, w, c) /\ p.partialMerge = FirstMergeId(o, w, c)
      /\ p.scratch = 0 /\ p.merges = 0
  BY <1>3 DEF Position
<1>5. /\ at.warp = 0 /\ at.cta = WarpCount(o, w) /\ at.partial = FirstPartial(o, w, c)
      /\ at.merge = FirstMerge(o, w, c) /\ at.partialMerge = FirstMergeId(o, w, c)
      /\ at.scratch = 0 /\ at.merges = 0 /\ at.stores = {}
  BY DEF Cursors, FirstPartial, FirstMerge, FirstMergeId
<1>6. at \in CursorType
  <2>1. at = [warp |-> 0, cta |-> WarpCount(o, w), partial |-> FirstPartial(o, w, c),
              merge |-> FirstMerge(o, w, c), partialMerge |-> FirstMergeId(o, w, c),
              scratch |-> 0, merges |-> 0, stores |-> {}]
    BY DEF Cursors, FirstPartial, FirstMerge, FirstMergeId
  <2>. QED
    BY <1>3, <2>1 DEF CursorType
<1> HIDE DEF at, p
<1>7. FilledBelow(o, w, c, p) = {}
  <2>1. /\ 0..(0 - 1) = {} /\ WarpCount(o, w)..(WarpCount(o, w) - 1) = {}
        /\ FirstPartial(o, w, c)..(FirstPartial(o, w, c) - 1) = {}
        /\ FirstMerge(o, w, c)..(FirstMerge(o, w, c) - 1) = {}
        /\ FirstMergeId(o, w, c)..(FirstMergeId(o, w, c) - 1) = {}
    BY <1>3
  <2>. QED
    BY <1>4, <2>1 DEF FilledBelow
<1>8. Fills(at.stores, FilledBelow(o, w, c, p))
  BY <1>5, <1>7 DEF Fills
<1>9. Moves(at, p)
  BY <1>4, <1>5 DEF Moves
<1>10. 0..(0 - 1) = {}
  OBVIOUS
<1>. QED
  BY <1>6, <1>8, <1>9, <1>10 DEF WalkAt, at, p

\* A segment takes the walk to the next one.
LEMMA WalkGoesOn ==
  ASSUME NEW o \in Seq(Int), NEW v, NEW w, NEW c, Sizes(o, v, w, c),
         NEW s \in Segments(o), NEW at, WalkAt(o, w, c, s, at)
  PROVE  WalkAt(o, w, c, s + 1, ClassifySegment(o, w, c, at, s))
<1> DEFINE next == ClassifySegment(o, w, c, at, s)
<1> DEFINE from == Position(o, w, c, s)
<1> DEFINE to == Position(o, w, c, s + 1)
<1> DEFINE added == SegmentStores(o, w, c, s)
<1>1. at \in CursorType /\ Moves(at, from) /\ Fills(at.stores, FilledBelow(o, w, c, from))
      /\ \A t \in 0..(s - 1) : SegmentStores(o, w, c, t) \subseteq at.stores
  BY DEF WalkAt
<1>2. next \in CursorType /\ Moves(next, to) /\ next.stores = at.stores \cup added
  BY <1>1, ClassifyIs
<1>3. Fills(next.stores, FilledBelow(o, w, c, to))
  <2> DEFINE new == (from.warp..(to.warp - 1)) \cup (from.cta..(to.cta - 1))
                      \cup (from.partial..(to.partial - 1)) \cup (from.merge..(to.merge - 1))
                      \cup (from.partialMerge..(to.partialMerge - 1))
  <2>1. /\ Fills(added, new) /\ FilledBelow(o, w, c, from) \cap new = {}
        /\ FilledBelow(o, w, c, from) \cup new = FilledBelow(o, w, c, to)
    BY SegmentFills
  <2> HIDE DEF new, added, from, to, next
  <2>2. Fills(at.stores \cup added, FilledBelow(o, w, c, from) \cup new)
    BY <1>1, <2>1, FillsUnion
  <2>. QED
    BY <1>2, <2>1, <2>2
<1>4. s \in Nat
  BY PositionsAre
<1>5. ASSUME NEW t \in 0..((s + 1) - 1)
      PROVE  SegmentStores(o, w, c, t) \subseteq next.stores
  <2>1. t \in 0..(s - 1) \/ t = s
    BY <1>4
  <2>2. CASE t \in 0..(s - 1)
    BY <1>1, <1>2, <2>2
  <2>3. CASE t = s
    BY <1>2, <2>3
  <2>. QED
    BY <2>1, <2>2, <2>3
<1>. QED
  BY <1>2, <1>3, <1>5 DEF WalkAt

\* The walk as it is computed.
LEMMA WalkHolds ==
  ASSUME NEW o \in Seq(Int), NEW v, NEW w, NEW c, Sizes(o, v, w, c)
  PROVE  \A s \in 0..(Len(o) - 1) : WalkAt(o, w, c, s, Walk(o, w, c)[s])
<1> DEFINE n == Len(o) - 1
<1> DEFINE D == {at \in CursorType : TRUE}
<1> DEFINE Is(f) == f = [s \in 0..n |-> IF s = 0 THEN Cursors(o, w, c)
                                          ELSE ClassifySegment(o, w, c, f[s - 1], s - 1)]
<1>1. n \in Nat /\ Segments(o) = 0..(n - 1) /\ n = Len(o) - 1
  BY PositionsAre DEF Segments
<1>2. Walk(o, w, c) = CHOOSE f : Is(f)
  BY DEF Walk
<1>3. \E f : Is(f)
  <2> DEFINE Good(at, s) == WalkAt(o, w, c, s, at)
  <2> DEFINE E == CursorType \cup {<<>>}
  <2> DEFINE step == [k \in 1..n |-> [at \in E |->
                        IF WalkAt(o, w, c, k - 1, at)
                        THEN ClassifySegment(o, w, c, at, k - 1) ELSE <<>>]]
  <2>1. \A k \in 1..n : k - 1 \in Segments(o) /\ (k - 1) + 1 = k
    BY <1>1
  <2>2. ASSUME NEW k \in 1..n, NEW at \in E
        PROVE  (IF WalkAt(o, w, c, k - 1, at)
                THEN ClassifySegment(o, w, c, at, k - 1) ELSE <<>>) \in E
    <3>1. CASE WalkAt(o, w, c, k - 1, at)
      <4>1. WalkAt(o, w, c, (k - 1) + 1, ClassifySegment(o, w, c, at, k - 1))
        BY <2>1, <3>1, WalkGoesOn
      <4>2. ClassifySegment(o, w, c, at, k - 1) \in CursorType
        BY <4>1 DEF WalkAt
      <4>. QED
        BY <3>1, <4>2
    <3>. QED
      BY <3>1
  <2>3. step \in [1..n -> [E -> E]]
    BY <2>2
  <2>4. Cursors(o, w, c) \in E /\ WalkAt(o, w, c, 0, Cursors(o, w, c))
    BY WalkStarts DEF WalkAt
  <2>5. PICK f : BuiltUp(f, n, E, Cursors(o, w, c), step)
    <3> HIDE DEF step, n, E
    <3>. QED
      BY <1>1, <2>3, <2>4, Recursion, Zenon
  <2>6. /\ f \in [0..n -> E] /\ f[0] = Cursors(o, w, c)
        /\ \A k \in 1..n : f[k] = step[k][f[k - 1]]
    BY <2>5 DEF BuiltUp
  <2>7. ASSUME NEW k \in 1..n, WalkAt(o, w, c, k - 1, f[k - 1])
        PROVE  f[k] = ClassifySegment(o, w, c, f[k - 1], k - 1) /\ WalkAt(o, w, c, k, f[k])
    <3>1. f[k - 1] \in E
      <4>1. k - 1 \in 0..n
        BY <1>1
      <4> HIDE DEF E, n
      <4>. QED
        BY <2>6, <4>1
    <3>2. f[k] = ClassifySegment(o, w, c, f[k - 1], k - 1)
      BY <2>6, <2>7, <3>1
    <3>3. WalkAt(o, w, c, (k - 1) + 1, ClassifySegment(o, w, c, f[k - 1], k - 1))
      BY <2>1, <2>7, WalkGoesOn
    <3>. QED
      BY <2>1, <3>2, <3>3
  <2> DEFINE G == {s \in 0..n : WalkAt(o, w, c, s, f[s])}
  <2>8. 0 \in G
    BY <1>1, <2>4, <2>6
  <2>9. ASSUME NEW s \in 0..(n - 1), s \in G
        PROVE  s + 1 \in G
    <3>1. s + 1 \in 1..n /\ (s + 1) - 1 = s /\ s + 1 \in 0..n
      BY <1>1
    <3>2. WalkAt(o, w, c, s + 1, f[s + 1])
      BY <2>7, <2>9, <3>1
    <3>. QED
      BY <3>1, <3>2
  <2>10. 0..n \subseteq G
    <3> HIDE DEF G, n
    <3>. QED
      BY <1>1, <2>8, <2>9, CountUp
  <2>11. \A s \in 1..n : f[s] = ClassifySegment(o, w, c, f[s - 1], s - 1)
    <3>1. SUFFICES ASSUME NEW s \in 1..n
                   PROVE  f[s] = ClassifySegment(o, w, c, f[s - 1], s - 1)
      OBVIOUS
    <3>2. s - 1 \in 0..n
      BY <1>1
    <3>3. WalkAt(o, w, c, s - 1, f[s - 1])
      BY <2>10, <3>2
    <3>. QED
      BY <2>7, <3>3
  <2>12. f = [s \in 0..n |-> f[s]]
    BY <2>6
  <2>13. \A s \in 0..n : f[s] = IF s = 0 THEN Cursors(o, w, c)
                                ELSE ClassifySegment(o, w, c, f[s - 1], s - 1)
    <3>1. \A s \in 0..n : s = 0 \/ s \in 1..n
      BY <1>1
    <3>. QED
      BY <2>6, <2>11, <3>1
  <2>. QED
    BY <2>12, <2>13
<1> DEFINE g == CHOOSE f : Is(f)
<1>4. Is(g)
  BY <1>3
<1> HIDE DEF g
<1>5. g[0] = Cursors(o, w, c) /\ \A k \in 1..n : g[k] = ClassifySegment(o, w, c, g[k - 1], k - 1)
  <2>1. 0 \in 0..n /\ \A k \in 1..n : k \in 0..n /\ k # 0
    BY <1>1
  <2> DEFINE h == [s \in 0..n |-> IF s = 0 THEN Cursors(o, w, c)
                                  ELSE ClassifySegment(o, w, c, g[s - 1], s - 1)]
  <2>2. g = h
    BY <1>4
  <2>3. h[0] = Cursors(o, w, c) /\ \A k \in 1..n : h[k] = ClassifySegment(o, w, c, g[k - 1], k - 1)
    BY <2>1
  <2> HIDE DEF h
  <2>. QED
    BY <2>2, <2>3
<1> DEFINE G == {s \in 0..n : WalkAt(o, w, c, s, g[s])}
<1>6. 0 \in G
  BY <1>1, <1>5, WalkStarts
<1>7. ASSUME NEW s \in 0..(n - 1), s \in G
      PROVE  s + 1 \in G
  <2>1. s + 1 \in 1..n /\ (s + 1) - 1 = s /\ s + 1 \in 0..n /\ s \in Segments(o)
    BY <1>1
  <2>2. g[s + 1] = ClassifySegment(o, w, c, g[s], s)
    BY <1>5, <2>1
  <2>3. WalkAt(o, w, c, s + 1, g[s + 1])
    BY <1>7, <2>1, <2>2, WalkGoesOn
  <2>. QED
    BY <2>1, <2>3
<1>8. 0..n \subseteq G
  <2> HIDE DEF G, n
  <2>. QED
    BY <1>1, <1>6, <1>7, CountUp
<1>. QED
  BY <1>2, <1>8 DEF g

\* Two ranges that meet.
LEMMA AdjacentRanges ==
  \A i, j, k \in Int : i <= j /\ j <= k => (i..(j - 1)) \cup (j..(k - 1)) = i..(k - 1)
OBVIOUS

\* The walk gives every word of the buffer exactly one value (the uninitialised
\* buffer of classifyTaskRecords), and stores none outside.
THEOREM StoresFill ==
  ASSUME NEW o \in Seq(Int), NEW v, NEW w, NEW c, Sizes(o, v, w, c)
  PROVE  /\ RecordWords(o, w, c) \in Nat
         /\ Fills(Stores(o, w, c), 0..(RecordWords(o, w, c) - 1))
         /\ \A s \in Segments(o) : SegmentStores(o, w, c, s) \subseteq Stores(o, w, c)
<1> DEFINE n == Len(o) - 1
<1> DEFINE p == Position(o, w, c, n)
<1> DEFINE W == WarpCount(o, w)
<1> DEFINE C == CtaCount(o, w, c)
<1> DEFINE S == SplitCount(o, c)
<1> DEFINE R == PartialCount(o, c)
<1> DEFINE P == FirstPartial(o, w, c)
<1> DEFINE M == FirstMerge(o, w, c)
<1> DEFINE Q == FirstMergeId(o, w, c)
<1>1. /\ n \in 0..n /\ n \in Nat /\ W \in Nat /\ C \in Nat /\ S \in Nat /\ R \in Nat
      /\ WarpsBefore(o, w, n) = W /\ SplitsBefore(o, c, n) = S
      /\ CtasBefore(o, w, c, n) = C /\ PartialsBefore(o, c)[n] = R
      /\ Segments(o) = 0..(n - 1)
  BY PositionsAre DEF Segments
<1>2. /\ P \in Nat /\ M \in Nat /\ Q \in Nat
      /\ P = W + C /\ M = P + 2 * R /\ Q = M + 3 * S /\ RecordWords(o, w, c) = Q + R
  BY ListsFollow
<1>3. WalkAt(o, w, c, n, Walk(o, w, c)[n])
  BY <1>1, WalkHolds
<1>4. /\ Fills(Stores(o, w, c), FilledBelow(o, w, c, p))
      /\ \A t \in 0..(n - 1) : SegmentStores(o, w, c, t) \subseteq Stores(o, w, c)
  BY <1>3 DEF WalkAt, Stores
<1>5. p.warp = W /\ p.cta = P /\ p.partial = M /\ p.merge = Q /\ p.partialMerge = Q + R
  BY <1>1, <1>2 DEF Position
<1> HIDE DEF n, p, W, C, S, R, P, M, Q
<1>6. FilledBelow(o, w, c, p) = 0..(Q + R - 1)
  <2>1. FilledBelow(o, w, c, p)
          = (0..(W - 1)) \cup (W..(P - 1)) \cup (P..(M - 1)) \cup (M..(Q - 1)) \cup (Q..(Q + R - 1))
    <3>1. FilledBelow(o, w, c, p)
            = (0..(p.warp - 1)) \cup (W..(p.cta - 1)) \cup (P..(p.partial - 1))
                \cup (M..(p.merge - 1)) \cup (Q..(p.partialMerge - 1))
      BY DEF FilledBelow, W, P, M, Q
    <3>2. 0..(p.warp - 1) = 0..(W - 1)
      BY <1>5
    <3>3. W..(p.cta - 1) = W..(P - 1)
      BY <1>5
    <3>4. P..(p.partial - 1) = P..(M - 1)
      BY <1>5
    <3>5. M..(p.merge - 1) = M..(Q - 1)
      BY <1>5
    <3>6. Q..(p.partialMerge - 1) = Q..(Q + R - 1)
      BY <1>1, <1>2, <1>5
    <3>. QED
      BY <3>1, <3>2, <3>3, <3>4, <3>5, <3>6, Zenon
  <2>2. /\ 0 <= W /\ W <= P /\ P <= M /\ M <= Q /\ Q <= Q + R
        /\ W \in Int /\ P \in Int /\ M \in Int /\ Q \in Int /\ Q + R \in Int
        /\ 0 <= P /\ 0 <= M /\ 0 <= Q
    BY <1>1, <1>2
  <2>3. (0..(W - 1)) \cup (W..(P - 1)) = 0..(P - 1)
    BY <2>2, AdjacentRanges
  <2>4. (0..(P - 1)) \cup (P..(M - 1)) = 0..(M - 1)
    BY <2>2, AdjacentRanges
  <2>5. (0..(M - 1)) \cup (M..(Q - 1)) = 0..(Q - 1)
    BY <2>2, AdjacentRanges
  <2>6. (0..(Q - 1)) \cup (Q..(Q + R - 1)) = 0..(Q + R - 1)
    <3> DEFINE e == Q + R
    <3>1. 0 <= Q /\ Q <= e /\ Q \in Int /\ e \in Int
      BY <2>2
    <3> HIDE DEF e
    <3>2. (0..(Q - 1)) \cup (Q..(e - 1)) = 0..(e - 1)
      BY <3>1, AdjacentRanges
    <3>3. e - 1 = Q + R - 1
      BY <1>1, <2>2 DEF e
    <3>. QED
      BY <3>2, <3>3, Zenon
  <2>. QED
    BY <2>1, <2>3, <2>4, <2>5, <2>6, Zenon
<1>7. RecordWords(o, w, c) \in Nat
  BY <1>1, <1>2
<1>. QED
  BY <1>1, <1>2, <1>4, <1>6, <1>7

\* The buffer holds the words that were stored.
LEMMA RecordsAre ==
  ASSUME NEW o \in Seq(Int), NEW v, NEW w, NEW c, Sizes(o, v, w, c)
  PROVE  /\ Records(o, w, c) \in Seq(Int)
         /\ Len(Records(o, w, c)) = RecordWords(o, w, c)
         /\ \A i \in 0..(RecordWords(o, w, c) - 1), x \in Int :
              <<i, x>> \in Stores(o, w, c) => Records(o, w, c)[i + 1] = x
<1> DEFINE n == RecordWords(o, w, c)
<1> DEFINE T == Stores(o, w, c)
<1> DEFINE word(i) == {p[2] : p \in {q \in T : q[1] = i - 1}}
<1> DEFINE R == [i \in 1..n |-> IF word(i) = {} THEN Uninitialised ELSE CHOOSE x \in word(i) : TRUE]
<1>1. n \in Nat /\ Fills(T, 0..(n - 1))
  BY StoresFill
<1>2. Records(o, w, c) = R
  BY DEF Records
<1> HIDE DEF n, T
<1>3. ASSUME NEW i \in 1..n
      PROVE  \E x \in Int : <<i - 1, x>> \in T /\ word(i) = {x}
  <2>1. i - 1 \in 0..(n - 1)
    BY <1>1
  <2>2. PICK x \in Int : <<i - 1, x>> \in T
    BY <1>1, <2>1 DEF Fills
  <2>3. <<i - 1, x>>[1] = i - 1 /\ <<i - 1, x>>[2] = x
    OBVIOUS
  <2>4. ASSUME NEW p \in T, p[1] = i - 1
        PROVE  p[2] = x
    <3>1. p \in (0..(n - 1)) \X Int
      BY <1>1 DEF Fills
    <3>2. p = <<i - 1, p[2]>> /\ p[2] \in Int
      BY <2>4, <3>1
    <3>. QED
      BY <1>1, <2>1, <2>2, <3>2 DEF Fills
  <2>5. word(i) = {x}
    BY <2>2, <2>3, <2>4
  <2>. QED
    BY <2>2, <2>5
<1> HIDE DEF word
<1>4. ASSUME NEW i \in 1..n
      PROVE  R[i] \in Int /\ <<i - 1, R[i]>> \in T
  <2>1. PICK x \in Int : <<i - 1, x>> \in T /\ word(i) = {x}
    BY <1>3
  <2>2. R[i] = x
    BY <2>1
  <2>. QED
    BY <2>1, <2>2
<1> DEFINE r(i) == R[i]
<1>5. R \in Seq(Int) /\ Len(R) = n
  <2>1. \A i \in 1..n : (IF word(i) = {} THEN Uninitialised ELSE CHOOSE x \in word(i) : TRUE) \in Int
    BY <1>4
  <2>. QED
    BY <1>1, <2>1
<1> HIDE DEF R
<1>6. ASSUME NEW i \in 0..(n - 1), NEW x \in Int, <<i, x>> \in T
      PROVE  R[i + 1] = x
  <2>1. i + 1 \in 1..n /\ (i + 1) - 1 = i
    BY <1>1
  <2>2. R[i + 1] \in Int /\ <<i, R[i + 1]>> \in T
    BY <1>4, <2>1
  <2>. QED
    BY <1>1, <1>6, <2>2 DEF Fills
<1>. QED
  BY <1>2, <1>5, <1>6 DEF n, T

\* A count that starts at zero and moves by steps passes over every number
\* below the last one.
LEMMA Crosses ==
  ASSUME NEW n \in Nat, NEW f, \A k \in 0..n : f[k] \in Int, NEW m \in Int,
         f[0] <= m, m < f[n]
  PROVE  \E k \in 0..(n - 1) : f[k] <= m /\ m < f[k + 1]
<1> DEFINE Above == {k \in 0..n : m < f[k]}
<1>1. Above \subseteq Int /\ IsFiniteSet(Above) /\ Above # {}
  <2>1. IsFiniteSet(0..n) /\ n \in 0..n
    BY FS_Interval
  <2>2. Above \subseteq 0..n /\ n \in Above
    BY <2>1
  <2>. QED
    BY <2>1, <2>2, FS_Subset
<1> DEFINE k == Min(Above)
<1> HIDE DEF Above
<1>2. k \in Above /\ \A x \in Above : k <= x
  BY <1>1, LeastElement
<1> HIDE DEF k
<1>3. k \in 0..n /\ m < f[k] /\ k # 0
  BY <1>2 DEF Above
<1>4. k - 1 \in 0..(n - 1) /\ k - 1 \in 0..n /\ (k - 1) + 1 = k /\ ~(k <= k - 1)
  BY <1>3
<1>5. ~(m < f[k - 1])
  BY <1>2, <1>4 DEF Above
<1>. QED
  BY <1>3, <1>4, <1>5

\* Every merge record is the one of a split segment.
LEMMA MergeOwner ==
  ASSUME NEW o \in Seq(Int), NEW v, NEW w, NEW c, Sizes(o, v, w, c),
         NEW m \in 0..(SplitCount(o, c) - 1)
  PROVE  \E s \in Segments(o) :
           /\ Length(o, s) > c /\ SplitsBefore(o, c, s) = m
           /\ StoreAll(FirstMerge(o, w, c) + 3 * m,
                       MergeRecord(s, PartialsBefore(o, c)[s], ChunkCount(o, s, c)))
                \subseteq Stores(o, w, c)
<1> DEFINE n == Len(o) - 1
<1> DEFINE f == [s \in 0..n |-> SplitsBefore(o, c, s)]
<1>1. /\ n \in Nat /\ Segments(o) = 0..(n - 1)
      /\ SplitsBefore(o, c, 0) = 0 /\ SplitsBefore(o, c, n) = SplitCount(o, c)
      /\ \A s \in 0..n : SplitsBefore(o, c, s) \in 0..SplitCount(o, c)
      /\ SplitCount(o, c) \in Nat
      /\ \A s \in Segments(o) : SplitsBefore(o, c, s + 1)
                   = SplitsBefore(o, c, s) + IF Length(o, s) > c THEN 1 ELSE 0
  BY PositionsAre DEF Segments
<1> HIDE DEF n
<1>2. \A k \in 0..n : f[k] \in Int
  BY <1>1
<1>3. m \in Int /\ f[0] <= m /\ m < f[n]
  <2>1. 0 \in 0..n /\ n \in 0..n
    BY <1>1
  <2>. QED
    BY <1>1, <2>1
<1> HIDE DEF f
<1>4. PICK s \in 0..(n - 1) : f[s] <= m /\ m < f[s + 1]
  BY <1>1, <1>2, <1>3, Crosses
<1>5. s \in Segments(o) /\ s \in 0..n /\ s + 1 \in 0..n
  BY <1>1
<1>6. f[s] = SplitsBefore(o, c, s) /\ f[s + 1] = SplitsBefore(o, c, s + 1)
      /\ f[s] \in Int /\ f[s + 1] \in Int
  BY <1>2, <1>5 DEF f
<1>7. Length(o, s) > c /\ SplitsBefore(o, c, s) = m
  <2>1. CASE Length(o, s) > c
    <3>1. f[s + 1] = f[s] + 1
      BY <1>1, <1>5, <1>6, <2>1
    <3>. QED
      BY <1>3, <1>4, <1>6, <2>1, <3>1
  <2>2. CASE ~(Length(o, s) > c)
    <3>1. f[s + 1] = f[s]
      BY <1>1, <1>5, <1>6, <2>2
    <3>. QED
      BY <1>3, <1>4, <1>6, <3>1
  <2>. QED
    BY <2>1, <2>2
<1> DEFINE at == Position(o, w, c, s)
<1>8. at.merge = FirstMerge(o, w, c) + 3 * m /\ at.scratch = PartialsBefore(o, c)[s]
  BY <1>7 DEF Position
<1>9. ~(Length(o, s) <= w) /\ ~(Length(o, s) <= c)
  <2>1. Length(o, s) \in 0..v /\ v \in Int
    BY <1>5, LengthsAre, ValidRange DEF Sizes
  <2>. QED
    BY <1>7, <2>1 DEF Sizes
<1> HIDE DEF at
<1>10. StoreAll(at.merge, MergeRecord(s, at.scratch, ChunkCount(o, s, c)))
         \subseteq SegmentStores(o, w, c, s)
  BY <1>9 DEF SegmentStores, TaskStores, at
<1>11. SegmentStores(o, w, c, s) \subseteq Stores(o, w, c)
  BY <1>5, StoresFill
<1>. QED
  BY <1>5, <1>7, <1>8, <1>10, <1>11

\* The merge records of the uploaded buffer (swageRuntimeWriteTasks): record m
\* holds the m-th split segment, the first of its scratch slots, and the slot
\* behind its last.
THEOREM MergeRecordsAre ==
  ASSUME NEW o \in Seq(Int), NEW v, NEW w, NEW c, Sizes(o, v, w, c),
         NEW m \in 0..(SplitCount(o, c) - 1)
  PROVE  LET at == FirstMerge(o, w, c) + 3 * m
             word(k) == Records(o, w, c)[at + k + 1]
         IN \E s \in Segments(o) :
              /\ Length(o, s) > c /\ SplitsBefore(o, c, s) = m
              /\ word(0) = s
              /\ word(1) = PartialsBefore(o, c)[s]
              /\ word(2) = PartialsBefore(o, c)[s] + ChunkCount(o, s, c)
<1> DEFINE M == FirstMerge(o, w, c)
<1> DEFINE n == RecordWords(o, w, c)
<1> DEFINE S == SplitCount(o, c)
<1> DEFINE at == M + 3 * m
<1>1. PICK s \in Segments(o) :
         /\ Length(o, s) > c /\ SplitsBefore(o, c, s) = m
         /\ StoreAll(at, MergeRecord(s, PartialsBefore(o, c)[s], ChunkCount(o, s, c)))
              \subseteq Stores(o, w, c)
  BY MergeOwner
<1>2. M \in Nat /\ S \in Nat /\ n \in Nat /\ M + 3 * S <= n
  <2> DEFINE R == PartialCount(o, c)
  <2>1. M \in Nat /\ S \in Nat /\ R \in Nat /\ n = (M + 3 * S) + R
    BY ListsFollow, PositionsAre
  <2> HIDE DEF M, S, n, R
  <2>. QED
    BY <2>1
<1>3. /\ at \in Int /\ at \in 0..(n - 1) /\ at + 1 \in 0..(n - 1) /\ at + 2 \in 0..(n - 1)
      /\ at + 0 = at
  <2>1. m \in 0..(S - 1)
    OBVIOUS
  <2> HIDE DEF M, n, S
  <2>. QED
    BY <1>2, <2>1
<1> DEFINE first == PartialsBefore(o, c)[s]
<1> DEFINE count == ChunkCount(o, s, c)
<1>4. s \in Int /\ first \in Int /\ first + count \in Int
  <2>1. /\ s \in Nat /\ s \in 0..(Len(o) - 1) /\ PartialCount(o, c) \in Nat
        /\ first \in 0..PartialCount(o, c)
    BY PositionsAre
  <2>2. count \in Nat
    BY ExtraIs
  <2> HIDE DEF first, count
  <2>. QED
    BY <2>1, <2>2
<1> HIDE DEF at, M, n, S, first, count
<1>5. {<<at, s>>, <<at + 1, first>>, <<at + 2, first + count>>} \subseteq Stores(o, w, c)
  <2>1. MergeRecord(s, first, count) = <<s, first, first + count>>
    BY DEF MergeRecord
  <2>2. StoreAll(at, <<s, first, first + count>>)
          = {<<at, s>>, <<at + 1, first>>, <<at + 2, first + count>>}
    BY <1>3, StoresOfThree
  <2>. QED
    BY <1>1, <2>1, <2>2 DEF first, count
<1>6. \A i \in 0..(n - 1), x \in Int : <<i, x>> \in Stores(o, w, c) => Records(o, w, c)[i + 1] = x
  BY RecordsAre DEF n
<1>7. /\ Records(o, w, c)[at + 0 + 1] = s /\ Records(o, w, c)[at + 1 + 1] = first
      /\ Records(o, w, c)[at + 2 + 1] = first + count
  <2>1. Records(o, w, c)[at + 1] = s
    BY <1>3, <1>4, <1>5, <1>6
  <2>2. Records(o, w, c)[at + 1 + 1] = first
    BY <1>3, <1>4, <1>5, <1>6
  <2>3. Records(o, w, c)[at + 2 + 1] = first + count
    BY <1>3, <1>4, <1>5, <1>6
  <2>. QED
    BY <1>3, <2>1, <2>2, <2>3
<1>. QED
  BY <1>1, <1>7 DEF at, M, first, count

-------------------------------------------------------------------------------
(* What the kernels of a plan store. *)

\* A clamped range is a list of indices within its bound.
LEMMA ClampedIsList ==
  ASSUME NEW first \in Int, NEW end \in Int, NEW bound \in Nat
  PROVE  Clamped(first, end, bound) \in Seq(0..(bound - 1))
<1> DEFINE a == ClampStart(first, bound)
<1> DEFINE b == Least(Most(end, a), bound)
<1>1. a \in Int /\ 0 <= a /\ a <= bound
  BY DEF ClampStart, Least, Most
<1> HIDE DEF a
<1>2. b \in Int /\ b <= bound /\ a <= b
  BY <1>1 DEF Least, Most
<1> HIDE DEF b
<1>3. Clamped(first, end, bound) = [i \in 1..(b - a) |-> a + i - 1]
  BY DEF Clamped, a, b, Elements
<1>4. b - a \in Nat /\ \A i \in 1..(b - a) : a + i - 1 \in 0..(bound - 1)
  BY <1>1, <1>2
<1> DEFINE n == b - a
<1> DEFINE word(i) == a + i - 1
<1>5. n \in Nat /\ \A i \in 1..n : word(i) \in 0..(bound - 1)
  BY <1>4
<1> HIDE DEF n, word
<1>6. [i \in 1..n |-> word(i)] \in Seq(0..(bound - 1))
  BY <1>5
<1>. QED
  BY <1>3, <1>6 DEF n, word

\* A task stores its own segment, whatever its id and the offsets are.
LEMMA TaskStoresList ==
  ASSUME NEW a, Loadable(a), NEW id
  PROVE  SegmentWrite(a, id) \subseteq (0..(a.segments - 1)) \X Seq(0..(a.values - 1))
<1>1. SUFFICES ASSUME id \in 0..(a.segments - 1)
               PROVE  SegmentWrite(a, id) \subseteq (0..(a.segments - 1)) \X Seq(0..(a.values - 1))
  BY DEF SegmentWrite
<1>2. id \in 0..a.segments /\ id + 1 \in 0..a.segments /\ a.base + (id + 1) + 1 = a.base + id + 2
  BY <1>1 DEF Loadable
<1>3. Clamped(a.offsets[a.base + id + 1], a.offsets[a.base + id + 2], a.values)
        \in Seq(0..(a.values - 1))
  BY <1>2, ClampedIsList DEF Loadable
<1>. QED
  BY <1>1, <1>3 DEF SegmentWrite

\* So does every kernel whose tasks are segments.
LEMMA TasksStoreLists ==
  ASSUME NEW a, Loadable(a)
  PROVE  DirectWrites(a) \cup TaskListWrites(a) \cup FusedWrites(a)
           \subseteq (0..(a.segments - 1)) \X Seq(0..(a.values - 1))
<1> DEFINE Pairs == (0..(a.segments - 1)) \X Seq(0..(a.values - 1))
<1>1. \A id : SegmentWrite(a, id) \subseteq Pairs
  BY TaskStoresList
<1> HIDE DEF Pairs
<1>2. DirectWrites(a) \subseteq Pairs
  BY <1>1 DEF DirectWrites
<1>3. TaskListWrites(a) \subseteq Pairs
  BY <1>1 DEF TaskListWrites
<1>4. FusedWrites(a) \subseteq Pairs
  BY <1>1 DEF FusedWrites
<1>. QED
  BY <1>2, <1>3, <1>4 DEF Pairs

\* Arguments whose lists have the layout of the records of a plan, with any words.
LaidOut(a, o, w, c) ==
    /\ a.words \in Seq(Int) /\ RecordWords(o, w, c) <= Len(a.words)
    /\ a.ranges = FirstPartial(o, w, c) /\ a.mergeRecords = FirstMerge(o, w, c)
    /\ a.partials = PartialCount(o, c) /\ a.merges = SplitCount(o, c)
    /\ a.segments = Len(o) - 1 /\ a.values \in Nat

\* The words of a partial task and of a merge.
LEMMA WordsOfLists ==
  ASSUME NEW o \in Seq(Int), NEW v, NEW w, NEW c, Sizes(o, v, w, c),
         NEW a, LaidOut(a, o, w, c)
  PROVE  /\ a.partials \in Nat /\ a.merges \in Nat
         /\ \A p \in 0..(a.partials - 1) :
              Word(a, a.ranges + 2 * p) \in Int /\ Word(a, a.ranges + 2 * p + 1) \in Int
         /\ \A m \in 0..(a.merges - 1) : \A k \in 0..2 :
              /\ a.mergeRecords + 3 * m + k \in 0..(RecordWords(o, w, c) - 1)
              /\ Word(a, a.mergeRecords + 3 * m + k) \in Int
<1> DEFINE R == PartialCount(o, c)
<1> DEFINE S == SplitCount(o, c)
<1> DEFINE P == FirstPartial(o, w, c)
<1> DEFINE M == FirstMerge(o, w, c)
<1> DEFINE Q == FirstMergeId(o, w, c)
<1> DEFINE n == RecordWords(o, w, c)
<1>1. R \in Nat /\ S \in Nat /\ P \in Nat /\ M \in Nat
  BY PositionsAre, ListsFollow
<1>2. M = P + 2 * R /\ Q = M + 3 * S /\ n = Q + R
  BY ListsFollow
<1>3. /\ a.words \in Seq(Int) /\ n <= Len(a.words) /\ a.ranges = P /\ a.mergeRecords = M
      /\ a.partials = R /\ a.merges = S
  BY DEF LaidOut
<1> HIDE DEF R, S, P, M, Q, n
<1>4. \A i \in 0..(n - 1) : Word(a, i) \in Int
  <2>1. ASSUME NEW i \in 0..(n - 1)
        PROVE  a.words[i + 1] \in Int
    <3>1. n \in Int /\ Len(a.words) \in Int
      BY <1>1, <1>2, <1>3
    <3>2. i + 1 \in 1..Len(a.words)
      BY <1>3, <3>1
    <3>. QED
      BY <1>3, <3>2
  <2>. QED
    BY <2>1 DEF Word
<1>5. ASSUME NEW p \in 0..(R - 1)
      PROVE  P + 2 * p \in 0..(n - 1) /\ P + 2 * p + 1 \in 0..(n - 1)
  BY <1>1, <1>2
<1>6. ASSUME NEW m \in 0..(S - 1), NEW k \in 0..2
      PROVE  M + 3 * m + k \in 0..(n - 1)
  BY <1>1, <1>2
<1>. QED
  BY <1>1, <1>3, <1>4, <1>5, <1>6 DEF n

\* A partial task stores its own slot of the scratch.
LEMMA PartialsStoreLists ==
  ASSUME NEW o \in Seq(Int), NEW v, NEW w, NEW c, Sizes(o, v, w, c),
         NEW a, LaidOut(a, o, w, c)
  PROVE  PartialWrites(a) \subseteq (0..(PartialCount(o, c) - 1)) \X Seq(0..(a.values - 1))
<1>1. a.partials = PartialCount(o, c) /\ a.values \in Nat
  BY DEF LaidOut
<1>2. \A p \in 0..(a.partials - 1) : PartialResult(a, p) \in Seq(0..(a.values - 1))
  <2>1. ASSUME NEW p \in 0..(a.partials - 1)
        PROVE  PartialResult(a, p) \in Seq(0..(a.values - 1))
    <3>1. Word(a, a.ranges + 2 * p) \in Int /\ Word(a, a.ranges + 2 * p + 1) \in Int
      BY WordsOfLists
    <3>2. Clamped(Word(a, a.ranges + 2 * p), Word(a, a.ranges + 2 * p + 1), a.values)
            \in Seq(0..(a.values - 1))
      BY <1>1, <3>1, ClampedIsList
    <3>. QED
      BY <3>2 DEF PartialResult
  <2>. QED
    BY <2>1
<1>. QED
  BY <1>1, <1>2 DEF PartialWrites

\* What a merge combines: parts that the scratch holds.
LEMMA MergedIs ==
  ASSUME NEW X, NEW a, NEW m, NEW n \in Nat, MergeSlots(a, m) \in Seq(0..(n - 1)),
         NEW scratch \in [0..(n - 1) -> Seq(X)]
  PROVE  MergeResult(a, m, scratch) \in Seq(X)
<1> DEFINE slots == MergeSlots(a, m)
<1> DEFINE l == Len(slots)
<1> DEFINE part(k) == scratch[slots[k]]
<1> DEFINE join(x, k) == x \o part(k)
<1> DEFINE Is(f) == f = [k \in 0..l |-> IF k = 0 THEN <<>> ELSE join(f[k - 1], k)]
<1> DEFINE step == [k \in 1..l |-> [x \in Seq(X) |-> join(x, k)]]
<1>1. l \in Nat /\ \A k \in 1..l : \A x \in Seq(X) : join(x, k) \in Seq(X)
  <2>1. l \in Nat /\ \A k \in 1..l : part(k) \in Seq(X)
    OBVIOUS
  <2> HIDE DEF part
  <2>. QED
    BY <2>1
<1>2. MergeResult(a, m, scratch) = (CHOOSE f : Is(f))[l]
  BY DEF MergeResult
<1> HIDE DEF slots, l, part, join
<1>3. step \in [1..l -> [Seq(X) -> Seq(X)]]
  BY <1>1
<1> HIDE DEF Is
<1>4. PICK f : BuiltUp(f, l, Seq(X), <<>>, step)
  <2> HIDE DEF step
  <2>1. l \in Nat /\ <<>> \in Seq(X)
    BY <1>1
  <2>. QED
    BY <2>1, <1>3, Recursion, Zenon
<1>5. \A k \in 1..l : f[k] = join(f[k - 1], k)
  <2>1. \A k \in 1..l : f[k - 1] \in Seq(X)
    BY <1>1, <1>4 DEF BuiltUp
  <2>. QED
    BY <1>4, <2>1 DEF BuiltUp
<1>6. Is(f)
  <2>1. f = [k \in 0..l |-> f[k]]
    BY <1>4 DEF BuiltUp
  <2>2. \A k \in 0..l : f[k] = IF k = 0 THEN <<>> ELSE join(f[k - 1], k)
    BY <1>1, <1>4, <1>5 DEF BuiltUp
  <2>. QED
    BY <2>1, <2>2 DEF Is
<1> DEFINE g == CHOOSE h : Is(h)
<1>7. Is(g)
  BY <1>6
<1> HIDE DEF g
<1>8. g[0] = <<>> /\ \A k \in 1..l : g[k] = join(g[k - 1], k)
  BY <1>1, <1>7 DEF Is
<1> DEFINE G == {k \in 0..l : g[k] \in Seq(X)}
<1>9. 0 \in G
  <2>1. <<>> \in Seq(X) /\ 0 \in 0..l
    BY <1>1
  <2>. QED
    BY <1>8, <2>1
<1>10. ASSUME NEW k \in 0..(l - 1), k \in G
       PROVE  k + 1 \in G
  <2>1. k + 1 \in 1..l /\ (k + 1) - 1 = k /\ k + 1 \in 0..l
    BY <1>1
  <2>2. g[k + 1] = join(g[k], k + 1)
    BY <1>8, <2>1
  <2>. QED
    BY <1>1, <1>10, <2>1, <2>2
<1> HIDE DEF G
<1>11. 0..l \subseteq G
  BY <1>1, <1>9, <1>10, CountUp
<1>12. l \in G
  BY <1>1, <1>11
<1>. QED
  BY <1>2, <1>12 DEF g, G

\* A merge stores a list at a segment, whatever the records hold.
LEMMA MergesStoreLists ==
  ASSUME NEW o \in Seq(Int), NEW v, NEW w, NEW c, Sizes(o, v, w, c),
         NEW a, LaidOut(a, o, w, c),
         NEW X, NEW scratch \in [0..(a.partials - 1) -> Seq(X)]
  PROVE  MergeWrites(a, scratch) \subseteq Segments(o) \X Seq(X)
<1>1. a.partials \in Nat /\ a.segments = Len(o) - 1
  BY WordsOfLists DEF LaidOut
<1>2. 0..(a.segments - 1) = Segments(o)
  <2>1. Len(o) \in Nat
    OBVIOUS
  <2>. QED
    BY <1>1, <2>1 DEF Segments
<1>3. ASSUME NEW m \in 0..(a.merges - 1)
      PROVE  MergeResult(a, m, scratch) \in Seq(X)
  <2>1. \A k \in 0..2 : Word(a, a.mergeRecords + 3 * m + k) \in Int
    BY WordsOfLists
  <2>2. Word(a, a.mergeRecords + 3 * m + 1) \in Int /\ Word(a, a.mergeRecords + 3 * m + 2) \in Int
    BY <2>1
  <2>3. Clamped(Word(a, a.mergeRecords + 3 * m + 1), Word(a, a.mergeRecords + 3 * m + 2), a.partials)
          \in Seq(0..(a.partials - 1))
    BY <1>1, <2>2, ClampedIsList
  <2>4. MergeSlots(a, m) \in Seq(0..(a.partials - 1))
    BY <2>3 DEF MergeSlots
  <2>. QED
    BY <1>1, <2>4, MergedIs
<1> DEFINE kept == {m \in 0..(a.merges - 1) : MergeSegment(a, m) \in 0..(a.segments - 1)}
<1>4. MergeWrites(a, scratch) = {<<MergeSegment(a, m), MergeResult(a, m, scratch)>> : m \in kept}
  BY DEF MergeWrites
<1>5. \A m \in kept : /\ MergeSegment(a, m) \in Segments(o)
                       /\ MergeResult(a, m, scratch) \in Seq(X)
  BY <1>2, <1>3
<1> HIDE DEF kept
<1>. QED
  BY <1>4, <1>5

\* Words behind one another.
LEMMA WordsJoined ==
  ASSUME NEW s \in Seq(Int), NEW t \in Seq(Int)
  PROVE  /\ s \o t \in Seq(Int) /\ Len(s \o t) = Len(s) + Len(t)
         /\ \A i \in 1..(Len(s) + Len(t)) :
              (s \o t)[i] = IF i <= Len(s) THEN s[i] ELSE t[i - Len(s)]
OBVIOUS

\* The arguments of a launch are laid out as its records, and its offsets can be loaded.
LEMMA ArgumentsAre ==
  ASSUME NEW o \in Seq(Int), NEW v, NEW w, NEW c, Sizes(o, v, w, c), NEW wide
  PROVE  LET a == Arguments(o, wide, w, c, v) IN
         /\ LaidOut(a, o, w, c) /\ Loadable(a)
         /\ a.values = v /\ a.segments = Len(o) - 1
<1> DEFINE records == Records(o, w, c)
<1> DEFINE n == RecordWords(o, w, c)
<1> DEFINE words == IF wide THEN records \o o ELSE records
<1> DEFINE a == Arguments(o, wide, w, c, v)
<1>1. records \in Seq(Int) /\ Len(records) = n
  BY RecordsAre
<1>2. n \in Nat /\ Len(o) \in Nat /\ Len(o) >= 1 /\ v \in Nat
  BY StoresFill, PositionsAre, ValidRange DEF Sizes
<1>3. /\ a.words = words /\ a.segments = Len(o) - 1 /\ a.values = v
      /\ a.offsets = IF wide THEN words ELSE o
      /\ a.base = IF wide THEN Len(records) ELSE 0
      /\ a.ranges = WarpCount(o, w) + CtaCount(o, w, c)
      /\ a.mergeRecords = WarpCount(o, w) + CtaCount(o, w, c) + 2 * PartialCount(o, c)
      /\ a.partials = PartialCount(o, c) /\ a.merges = SplitCount(o, c)
  BY DEF Arguments
<1> HIDE DEF records, n
<1>4. /\ words \in Seq(Int) /\ n <= Len(words)
      /\ \A i \in 0..(n - 1) : words[i + 1] = records[i + 1]
      /\ wide => \A i \in 0..(Len(o) - 1) : words[n + i + 1] = o[i + 1]
  <2>1. CASE wide
    <3>1. /\ words \in Seq(Int) /\ Len(words) = n + Len(o)
          /\ \A i \in 1..(n + Len(o)) :
               words[i] = IF i <= n THEN records[i] ELSE o[i - n]
      <4>1. words = records \o o
        BY <2>1
      <4> HIDE DEF words
      <4>. QED
        BY <1>1, <4>1, WordsJoined
    <3> HIDE DEF words
    <3>2. \A i \in 0..(n - 1) : i + 1 \in 1..(n + Len(o)) /\ i + 1 <= n
      BY <1>2
    <3>3. n <= Len(words)
      BY <1>2, <3>1
    <3>4. \A i \in 0..(n - 1) : words[i + 1] = records[i + 1]
      BY <3>1, <3>2
    <3>5. \A i \in 0..(Len(o) - 1) : words[n + i + 1] = o[i + 1]
      <4>1. SUFFICES ASSUME NEW i \in 0..(Len(o) - 1)
                     PROVE  words[n + i + 1] = o[i + 1]
        OBVIOUS
      <4> DEFINE k == n + i + 1
      <4>2. k \in 1..(n + Len(o)) /\ ~(k <= n) /\ k - n = i + 1
        BY <1>2
      <4> HIDE DEF k
      <4>3. words[k] = o[k - n]
        BY <3>1, <4>2
      <4>. QED
        BY <4>2, <4>3 DEF k
    <3>. QED
      BY <3>1, <3>3, <3>4, <3>5
  <2>2. CASE ~wide
    BY <1>1, <1>2, <2>2
  <2>. QED
    BY <2>1, <2>2
<1> HIDE DEF words, a
<1>5. LaidOut(a, o, w, c)
  BY <1>2, <1>3, <1>4 DEF LaidOut, FirstPartial, FirstMerge, n
<1>6. Loadable(a)
  <2>1. a.segments \in Nat /\ a.values \in Nat /\ a.base \in Nat
    BY <1>1, <1>2, <1>3
  <2>2. ASSUME NEW i \in 0..a.segments
        PROVE  a.offsets[a.base + i + 1] \in Int
    <3>1. i \in 0..(Len(o) - 1) /\ i + 1 \in 1..Len(o) /\ o[i + 1] \in Int
      BY <1>2, <1>3
    <3>2. CASE wide
      BY <1>1, <1>3, <1>4, <3>1, <3>2
    <3>3. CASE ~wide
      <4>1. a.base + i + 1 = i + 1
        BY <1>3, <3>1, <3>3
      <4>. QED
        BY <1>3, <3>1, <3>3, <4>1
    <3>. QED
      BY <3>2, <3>3
  <2>. QED
    BY <2>1, <2>2 DEF Loadable
<1>. QED
  BY <1>3, <1>5, <1>6 DEF a

\* The limits of a row-stripe plan.
LEMMA RowChunkIs ==
  ASSUME NEW features
  PROVE  RowChunk(features) \in Nat \ {0}
<1> DEFINE A == {p \in PowersOfTwo : p >= Subgroup \/ p >= features}
<1>1. Subgroup \in 1..ChunkMax /\ ChunkMax \in Nat
  BY PlanAssumption
<1>2. A \subseteq 1..Subgroup /\ A \subseteq Int
  BY DEF PowersOfTwo
<1>3. IsFiniteSet(A)
  <2>1. IsFiniteSet(1..Subgroup)
    BY <1>1, FS_Interval
  <2> HIDE DEF A
  <2>. QED
    BY <1>2, <2>1, FS_Subset
<1>4. Subgroup \in A
  <2>1. Subgroup \in 1..Subgroup /\ Subgroup >= Subgroup
    BY <1>1
  <2>. QED
    BY <2>1, PlanAssumption DEF PowersOfTwo
<1> HIDE DEF A
<1>5. Min(A) \in A
  BY <1>2, <1>3, <1>4, LeastElement
<1>6. ColumnGroupWidth(features) = Min(A)
  BY DEF ColumnGroupWidth, A
<1>7. ColumnGroupWidth(features) \in 1..Subgroup
  BY <1>2, <1>5, <1>6
<1> DEFINE w == ColumnGroupWidth(features)
<1> HIDE DEF w
<1>8. w \in Nat \ {0} /\ w <= ChunkMax
  BY <1>1, <1>7 DEF w
<1>9. ChunkMax \div w \in Nat \ {0}
  BY <1>1, <1>8
<1>. QED
  BY <1>9 DEF RowChunk, w
===============================================================================
