----------------------------- MODULE MCResidency -----------------------------
(* Small instances of ModuleResidency for TLC: two kernels in one context   *)
(* that compete for a cache of one entry.                                   *)
EXTENDS ModuleResidency, TLC

CONSTANTS k1, k2, c1, s0, s1

MCContext == [k \in {k1, k2} |-> c1]

\* Launches on the legacy stream only, or on the streams of callers: a call on
\* the legacy stream then fails to launch.
OneDefault == [s \in {s0} |-> 1]
OneCaller == [s \in {s0, s1} |-> IF s = s0 THEN 0 ELSE 1]

Symmetry == Permutations(Threads) \cup Permutations(Modules)
=============================================================================
