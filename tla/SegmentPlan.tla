----------------------------- MODULE SegmentPlan ------------------------------
(***************************************************************************)
(* The pure part of a segmented launch: validation and narrowing of the    *)
(* offsets, classification of the segments into warp, CTA, partial and     *)
(* merge tasks, the one buffer of records that is uploaded, the arguments  *)
(* that point into it, and what each kernel computes from them.            *)
(*                                                                         *)
(* A value is its index.  The result of a reduction is the sequence of the *)
(* indices it combined, in order, so two results are equal exactly when    *)
(* every element was combined once and in the same order.  Segments,       *)
(* tasks and words count from zero, as in the code.                        *)
(***************************************************************************)
EXTENDS Integers, Sequences, SequencesExt, FiniteSets

CONSTANTS
    I32Limit,     \* 2^31, scaled down: signed words are -I32Limit..I32Limit-1
    WarpMax,      \* default_warp_max_elements
    ChunkMax,     \* default_cta_chunk_elements
    Subgroup,     \* subgroup_width
    Slots,        \* warp tasks of one block: cta_block_threads / subgroup_width
    MultiProcessors  \* SMs of the device

ASSUME PlanAssumption ==
    /\ I32Limit \in Nat /\ WarpMax \in 1..ChunkMax /\ ChunkMax \in 1..(I32Limit - 1)
    /\ Subgroup \in 1..ChunkMax /\ Slots \in Nat \ {0}
    /\ MultiProcessors \in Nat \ {0}
    /\ \E k \in 0..Subgroup : Subgroup = 2 ^ k

Least(a, b) == IF a <= b THEN a ELSE b
Most(a, b) == IF a >= b THEN a ELSE b
CeilDiv(a, b) == (a + b - 1) \div b
Elements(first, end) == [i \in 1..(end - first) |-> first + i - 1]

-------------------------------------------------------------------------------
\* Offsets.  The array form of _validate_offset_sequence finds the first
\* decrease; the sequential form looks at one offset after the other.
ValidCount(count) == count \in 0..(I32Limit - 1)

VerdictOfLowest(o, valueCount) ==
    LET decreasing == {i \in 2..Len(o) : o[i] < o[i - 1]} IN
    CASE o = <<>> -> "no initial zero"
      [] o # <<>> /\ ~(ValidCount(valueCount) /\ ValidCount(Len(o) - 1)) -> "counts"
      [] OTHER ->
           CASE o[1] # 0 -> "does not start at zero"
             [] o[1] = 0 /\ decreasing # {} ->
                  IF \E i \in decreasing : o[i] < 0 THEN "negative" ELSE "decreasing"
             [] OTHER -> IF Last(o) > valueCount THEN "past the values"
                                                 ELSE "valid"

OffsetVerdict(o, valueCount) ==
    LET decreasing == {i \in 2..Len(o) : o[i] < o[i - 1]} IN
    CASE o = <<>> -> "no initial zero"
      [] o # <<>> /\ ~(ValidCount(valueCount) /\ ValidCount(Len(o) - 1)) -> "counts"
      [] OTHER ->
           CASE o[1] # 0 -> "does not start at zero"
             [] o[1] = 0 /\ decreasing # {} ->
                  IF o[Min(decreasing)] < 0 THEN "negative" ELSE "decreasing"
             [] OTHER -> IF Last(o) > valueCount THEN "past the values"
                                                 ELSE "valid"

SequentialVerdict(o, valueCount) ==
    LET word(i) == o[i] \in -I32Limit..(I32Limit - 1)
        bad == {i \in 1..Len(o) :
                  \/ ~word(i) \/ o[i] < 0
                  \/ i > 1 /\ o[i] < o[i - 1]}
    IN CASE o = <<>> -> "no initial zero"
         [] o # <<>> /\ ~(ValidCount(valueCount) /\ ValidCount(Len(o) - 1)) -> "counts"
         [] OTHER ->
              CASE o[1] # 0 -> "does not start at zero"
                [] o[1] = 0 /\ bad # {} ->
                     IF ~word(Min(bad)) THEN "not i32"
                     ELSE IF o[Min(bad)] < 0 THEN "negative" ELSE "decreasing"
                [] OTHER -> IF Last(o) > valueCount THEN "past the values"
                                                    ELSE "valid"

\* astype(int32) keeps the low bits of a word.
Narrow(x) == ((x + I32Limit) % (2 * I32Limit)) - I32Limit

\* int64 offsets are validated as they are and then narrowed.
HostOffsets(raw, wide) == IF wide THEN [i \in DOMAIN raw |-> Narrow(raw[i])] ELSE raw
-------------------------------------------------------------------------------
\* Classification under a warp limit w and a chunk limit c: classifyTaskRecords,
\* and the same two walks in C for a process that loads an artifact.
Segments(o) == 0..(Len(o) - 2)
SegmentSeq(o) == [s \in 1..(Len(o) - 1) |-> s - 1]
Length(o, s) == o[s + 2] - o[s + 1]

\* The first walk validates and counts.  Its differences are 32-bit words, which
\* wrap for some offsets that it refuses.
Gap(o, s) == Narrow(Length(o, s))
WarpCount(o, w) == Cardinality({s \in Segments(o) : Gap(o, s) <= w})
SplitCount(o, c) == Cardinality({s \in Segments(o) : Gap(o, s) > c})
CtaCount(o, w, c) == Len(o) - 1 - WarpCount(o, w) - SplitCount(o, c)
Disorder(o) == o[1] < 0 \/ \E s \in Segments(o) : o[s + 2] < o[s + 1]

\* The second walk counts the chunks of the split segments.
ChunkCount(o, s, c) == CeilDiv(Length(o, s), c)
PartialsBefore(o, c) ==
    LET before[s \in 0..(Len(o) - 1)] ==
          IF s = 0 THEN 0
          ELSE before[s - 1]
                 + IF Length(o, s - 1) > c THEN ChunkCount(o, s - 1, c) ELSE 0
    IN before
PartialCount(o, c) == PartialsBefore(o, c)[Len(o) - 1]

FirstOffsetError(o) ==
    LET bad == {i \in DOMAIN o : o[i] < 0 \/ (i > 1 /\ o[i] < o[i - 1])}
    IN IF o[Min(bad)] < 0 THEN "negative" ELSE "decreasing"

\* One descriptor per unsplit segment, partial task and merge must fit an i32.
PlanFits(o, c) == Len(o) - 1 + PartialCount(o, c) < I32Limit

ClassifierVerdict(o, valueCount, c) ==
    CASE ~(ValidCount(valueCount) /\ ValidCount(Len(o) - 1)) -> "counts"
      [] OTHER ->
           CASE Disorder(o) -> FirstOffsetError(o)
             [] ~Disorder(o) /\ o[1] # 0 -> "does not start at zero"
             [] OTHER -> IF Last(o) > valueCount THEN "past the values"
                         ELSE IF PlanFits(o, c) THEN "valid" ELSE "plan size"

\* The last walk writes one buffer: the warp ids, the CTA ids, the partial
\* ranges, the merge records, and the merge of every partial task.  A cursor
\* per list starts where the counts of the list before it end.
RecordWords(o, w, c) ==
    WarpCount(o, w) + CtaCount(o, w, c) + 3 * PartialCount(o, c) + 3 * SplitCount(o, c)

Cursors(o, w, c) ==
    LET partial == WarpCount(o, w) + CtaCount(o, w, c)
        merge == partial + 2 * PartialCount(o, c)
    IN [warp |-> 0, cta |-> WarpCount(o, w), partial |-> partial,
        merge |-> merge, partialMerge |-> merge + 3 * SplitCount(o, c),
        scratch |-> 0, merges |-> 0, stores |-> {}]

\* The chunks of a split segment, as [begin, end] words.
Chunk(o, s, c, k) ==
    <<o[s + 1] + (k - 1) * c, Least(o[s + 2], o[s + 1] + k * c)>>

\* A merge: its segment, and its first scratch slot and the one behind its last.
MergeRecordWithoutTail(s, first, count) == <<s, first, first + count - 1>>
MergeRecord(s, first, count) == <<s, first, first + count>>

\* Stores of consecutive words from a cursor on, as pairs of an index and a word.
StoreAll(at, words) == {<<at + i - 1, words[i]>> : i \in DOMAIN words}
StoreChunks(o, s, c, at) ==
    UNION {StoreAll(at.partial + 2 * (k - 1), Chunk(o, s, c, k))
             \cup {<<at.partialMerge + k - 1, at.merges>>} : k \in 1..ChunkCount(o, s, c)}

ClassifySegment(o, w, c, at, s) ==
    LET count == ChunkCount(o, s, c)
    IN CASE Length(o, s) <= w ->
              [at EXCEPT !.warp = @ + 1, !.stores = @ \cup {<<at.warp, s>>}]
         [] Length(o, s) > w /\ Length(o, s) <= c ->
              [at EXCEPT !.cta = @ + 1, !.stores = @ \cup {<<at.cta, s>>}]
         [] OTHER ->
              [at EXCEPT !.merge = @ + 3, !.partial = @ + 2 * count,
                         !.partialMerge = @ + count, !.scratch = @ + count,
                         !.merges = @ + 1,
                         !.stores = @ \cup StoreAll(at.merge, MergeRecord(s, at.scratch, count))
                                      \cup StoreChunks(o, s, c, at)]

\* The cursors before each segment, and behind the last one.
Walk(o, w, c) ==
    LET at[s \in 0..(Len(o) - 1)] ==
          IF s = 0 THEN Cursors(o, w, c) ELSE ClassifySegment(o, w, c, at[s - 1], s - 1)
    IN at
Stores(o, w, c) == Walk(o, w, c)[Len(o) - 1].stores

\* The buffer is not initialised.
Uninitialised == -1
Records(o, w, c) ==
    LET stores == Stores(o, w, c)
        word(i) == {p[2] : p \in {q \in stores : q[1] = i - 1}}
    IN [i \in 1..RecordWords(o, w, c) |->
          IF word(i) = {} THEN Uninitialised ELSE CHOOSE x \in word(i) : TRUE]

-------------------------------------------------------------------------------
\* The check of a call without a plan is the array form; a planned call asks
\* the classifier, and the array form only for what the classifier refuses.
AdmitsOffsets(o, valueCount, planned, c) ==
    \/ planned /\ ClassifierVerdict(o, valueCount, c) = "valid"
    \/ OffsetVerdict(o, valueCount) = "valid"
HostVerdict(raw, wide, valueCount, planned, c) ==
    LET o == HostOffsets(raw, wide) IN
    IF wide /\ OffsetVerdict(raw, valueCount) # "valid"
    THEN OffsetVerdict(raw, valueCount)
    ELSE IF AdmitsOffsets(o, valueCount, planned, c) THEN "valid"
         ELSE OffsetVerdict(o, valueCount)

-------------------------------------------------------------------------------
\* _selects_direct_cta, for a program with a small element body.
SelectsDirectCta(o, c) ==
    /\ Len(o) > 1 /\ c = ChunkMax
    /\ SplitCount(o, c) = Len(o) - 1
    /\ \A s \in Segments(o) : Length(o, s) <= 2 * c
    /\ Len(o) - 1 >= MultiProcessors

\* _column_group_width: the smallest power of two that covers the features,
\* at most the subgroup width; _row_chunk; _row_grid.
PowersOfTwo == {p \in 1..Subgroup : \E k \in 0..Subgroup : p = 2 ^ k}
ColumnGroupWidth(features) ==
    Min({p \in PowersOfTwo : p >= Subgroup \/ p >= features})
RowChunk(features) == ChunkMax \div ColumnGroupWidth(features)
RowGrid(count, features) ==
    Least(count * CeilDiv(features, ColumnGroupWidth(features)), I32Limit - 1)

\* A block runs the items b, b + grid, and so on; an item is a task and one of
\* its column groups, and writes the columns of the group.
ColumnGroups(features) == CeilDiv(features, ColumnGroupWidth(features))
ItemsOfBlock(b, grid, items) == {i \in 0..(items - 1) : i % grid = b}
ColumnsOfGroup(g, features) ==
    LET w == ColumnGroupWidth(features)
    IN (g * w)..(Least(features, (g + 1) * w) - 1)

\* The grid of the fused kernel: whole blocks of warp tasks, then CTA tasks.
FusedGrid(warpCount, ctaCount) == CeilDiv(warpCount, Slots) + ctaCount

-------------------------------------------------------------------------------
\* The arguments of a launch: where each list starts, in words from the start
\* of the uploaded tensor.  The private int32 copy of int64 offsets follows
\* the records in that tensor.
Arguments(o, wide, w, c, valueCount) ==
    LET records == Records(o, w, c)
        words == IF wide THEN records \o o ELSE records
        warps == WarpCount(o, w)
        ctas == CtaCount(o, w, c)
        partials == PartialCount(o, c)
        merges == SplitCount(o, c)
    IN [words |-> words, ids |-> 0,
        offsets |-> IF wide THEN words ELSE o,
        base |-> IF wide THEN Len(records) ELSE 0,
        warps |-> warps, ctas |-> ctas,
        partials |-> partials, merges |-> merges,
        ranges |-> warps + ctas,
        mergeRecords |-> warps + ctas + 2 * partials,
        mergeIds |-> warps + ctas + 2 * partials + 3 * merges,
        values |-> valueCount, segments |-> Len(o) - 1]

Word(a, at) == a.words[at + 1]

\* clampRange: what a kernel makes of a range it loaded.
ClampStart(first, bound) == Least(Most(first, 0), bound)
Unclamped(first, end, bound) == Elements(first, end)

Clamped(first, end, bound) ==
    Elements(ClampStart(first, bound),
             Least(Most(end, ClampStart(first, bound)), bound))

\* A task of one segment: its id is compared with the segment count, and its
\* range is clamped to the value count.
SegmentWrite(a, id) ==
    IF id \in 0..(a.segments - 1)
    THEN {<<id, Clamped(a.offsets[a.base + id + 1],
                        a.offsets[a.base + id + 2], a.values)>>}
    ELSE {}

\* What a kernel stores: pairs of a segment or scratch slot and its result.
DirectWrites(a) == UNION {SegmentWrite(a, s) : s \in 0..(a.segments - 1)}

TaskListWrites(a) ==
    UNION {SegmentWrite(a, Word(a, a.ids + t)) : t \in 0..(a.warps + a.ctas - 1)}

FusedWrites(a) ==
    LET warpBlocks == CeilDiv(a.warps, Slots)
        tasksOf(b) ==
            IF b < warpBlocks
            THEN {t \in (b * Slots)..((b + 1) * Slots - 1) : t < a.warps}
            ELSE {a.warps + b - warpBlocks} \cap 0..(a.warps + a.ctas - 1)
    IN UNION {SegmentWrite(a, Word(a, a.ids + t)) :
                t \in UNION {tasksOf(b) : b \in 0..(FusedGrid(a.warps, a.ctas) - 1)}}

PartialResult(a, p) ==
    Clamped(Word(a, a.ranges + 2 * p), Word(a, a.ranges + 2 * p + 1), a.values)
PartialWrites(a) == {<<p, PartialResult(a, p)>> : p \in 0..(a.partials - 1)}

\* A merge reads the scratch slots of its record, clamped to the partial count,
\* and stores nothing for a segment that is not one.
MergeSegment(a, m) == Word(a, a.mergeRecords + 3 * m)
MergeSlots(a, m) ==
    Clamped(Word(a, a.mergeRecords + 3 * m + 1),
            Word(a, a.mergeRecords + 3 * m + 2), a.partials)
MergeResult(a, m, scratch) ==
    LET slots == MergeSlots(a, m)
        merged[k \in 0..Len(slots)] ==
          IF k = 0 THEN <<>> ELSE merged[k - 1] \o scratch[slots[k]]
    IN merged[Len(slots)]
MergeWrites(a, scratch) ==
    LET kept == {m \in 0..(a.merges - 1) : MergeSegment(a, m) \in 0..(a.segments - 1)}
    IN {<<MergeSegment(a, m), MergeResult(a, m, scratch)>> : m \in kept}

\* The result a launch promises for segment s.
Reduced(o, s) == Elements(o[s + 1], o[s + 2])

-------------------------------------------------------------------------------
\* The gradients.  _segment_ids: searchsorted from the right, one less, not
\* below zero; a row past the final offset gets the segment count.
SegmentId(o, row) == Most(Cardinality({i \in DOMAIN o : o[i] <= row}) - 1, 0)

\* _gather: the row of each segment, and zero past the final offset.
Gather(perSegment, o, rows) ==
    [row \in 0..(rows - 1) |->
        IF SegmentId(o, row) \in DOMAIN perSegment
        THEN perSegment[SegmentId(o, row)] ELSE 0]

\* _tie_shares: the rows that tie with the extreme of their segment, and the
\* number of ties per segment from an integer prefix sum, at least one.
Tied(o, values, extreme) ==
    {row \in DOMAIN values :
        /\ SegmentId(o, row) < Len(o) - 1
        /\ values[row] = extreme[SegmentId(o, row)]}
RunningTies(tied, row) == Cardinality({r \in tied : r < row})
TieCount(o, tied, rows, s) ==
    LET bounded(i) == Least(Most(o[i], 0), rows)
    IN Most(RunningTies(tied, bounded(s + 2)) - RunningTies(tied, bounded(s + 1)), 1)
===============================================================================
