------------------------------ MODULE MCSegments ------------------------------
\* Model checking of segmented calls on small batches.
EXTENDS SegmentedCall

\* Words that are valid, negative, past the values, and, in int64 offsets, equal
\* to a valid offset once they are narrowed.
MCWords == {-1, 0, 1, 3, 6, 16}
MCFirstWords == {0, 1, 16}
\* No segment, two split segments, and one of each kind.
MCBatches == {<<0>>, <<0, 3, 6>>, <<0, 1, 3, 6>>}
MCTaskLists == {<<>>, <<0>>, <<1, 0>>, <<0, 0>>, <<-1>>, <<2>>}
===============================================================================
